SPECIFICATION SettlingSpec
CONSTANTS
  k1 = k1
  k2 = k2
  s1 = s1
  NonceCallers = {n1, n2}
  AccountSeqs = {3}
  MaxNonces = 4
  NoNonce = NoNonce
  CctReplicas = {p1}
  Burns = {t1, t2}
  DoubleBurns = {t2}
  BatchDepth = 1
  PollLimit = 2
  MaxCctFaults = 1
  VaultOrder <- MCVaultOrder
  KeyReplicas = {p1}
  MaxKeysPerBatch = 1
  MaxRotations = 4
  MaxPeriods = 1
  MaxVaultFaults = 1
  FromEnvFile = FromEnvFile
  Versions = {1, 2, 3}
  Reversible = {3}
  MigReplicas = {p1, p2}
  MaxInitAttempts = 2
  MaxMigFaults = 1
  MaxRollbacks = 1
  ReportReplicas = {p1, p2}
  Schedules = {s1}
  WeekDays = 2
  Frequency <- MCFrequency
  ReportDay <- MCReportDay
  MonthStart <- MCMonthStart
  LastMonth = 6
  LastDay = 6
  MaxAttempts = 2
  MaxReportFaults = 2
  Events = {e1}
  Callers = {a}
  Batches = {w, x}
  MaxShared = 1
  MaxRetries = 2
  BatchSize = 1
  MaxByHand = 1
  NoEvent = NoEvent
  Replicas = {p1}
  Overrides = {}
  Crons = {daily, weekly, bad}
  ValidCrons = {daily, weekly}
  NoJob = NoJob
  Unconfigured = {}
  Slots = {c1, c2}
  OverrideBatch = 1
  MaxTicks = 1
  MaxEdits = 2
  MaxFaults = 1
PROPERTIES ItemsSettle JobsReconciled TransferAttested ServicesSettle
CONSTRAINT OverlapsApart
CHECK_DEADLOCK FALSE
