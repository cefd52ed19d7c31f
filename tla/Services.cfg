SPECIFICATION ServicesSpec
SYMMETRY Symmetry
CONSTANTS
  k1 = k1
  p1 = p1
  p2 = p2
  p3 = p3
  p4 = p4
  r1 = r1
  r2 = r2
  r3 = r3
  s1 = s1
  s2 = s2
  NonceCallers = {p1, p2}
  AccountSeqs = {3}
  MaxNonces = 4
  NoNonce = NoNonce
  IdemRequests = {r1, r2, r3}
  MaxIdemFaults = 1
  NoAnswer = NoAnswer
  CacheReplicas = {p1, p2}
  CacheReaders = {p3, p4}
  CacheWrites = {w1}
  MaxCacheFaults = 1
  NoEntry = NoEntry
  MaxEntries = 2
  MaxQueueSize = 1
  AuditFlushes = {p1, p2}
  AuditSessions = {p3, p4}
  MaxAuditFaults = 1
  MaxCopies = 2
  CctReplicas = {p1, p2}
  Burns = {t1, t2}
  DoubleBurns = {t2}
  BatchDepth = 1
  PollLimit = 1
  MaxCctFaults = 1
  WalletUsers = {p1, p2}
  Wallets = {p3, p4}
  MaxChallenges = 2
  NoWallet = NoWallet
  VaultOrder <- MCVaultOrder
  KeyReplicas = {p1, p2}
  MaxKeysPerBatch = 1
  MaxRotations = 3
  MaxPeriods = 1
  MaxVaultFaults = 1
  FromEnvFile = FromEnvFile
  ArchRows = {e1, p3, p4}
  Attempted = {p3, p4}
  ArchReplicas = {p1, p2}
  ArchBatch = 1
  MaxBatches = 2
  MaxArchFaults = 1
  Nobody = Nobody
  Versions = {1, 2, 3}
  Reversible = {3}
  MigReplicas = {p1, p2}
  MaxInitAttempts = 2
  MaxMigFaults = 1
  MaxRollbacks = 1
  ReportReplicas = {p1, p2}
  Schedules = {s1, s2}
  WeekDays = 2
  Frequency <- MCFrequency
  ReportDay <- MCReportDay
  MonthStart <- MCMonthStart
  LastMonth = 6
  LastDay = 6
  MaxAttempts = 2
  MaxReportFaults = 2
  MonCycles = {p1, p2}
  MonEmployers = {s1}
  FirstAmount = 1
  MaxAmount = 2
  MaxMonChanges = 2
  MaxMonFaults = 1
  NoticeReplicas = {p3}
  NoticeKinds = {"cliff_unlock", "low_runway"}
  NoticeChecks = {k1}
  NoticePatches = {p1, p2}
  MaxNoticeFaults = 1
  Nowhere = Nowhere
  PayRequests = {r1, r2, r3}
  MaxGross = 1
  MaxPayClock = 1
  MaxPayFaults = 1
  KeysConfigured = TRUE
INVARIANTS ServicesTypeOK NonceAccounted IdemOnceUnlessOverlapped StaleOnlyByOverlap
  AuditAccounted RangeIndexed OneChallengePerWallet RotationsCounted ArchiveKeepsRows
  ServesMigrated ReportsTile RunwayOfAMoment NotifiedAsAsked PayslipFound
CHECK_DEADLOCK FALSE
