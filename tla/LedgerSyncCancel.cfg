SPECIFICATION Spec
CONSTANTS
  s1 = s1
  s2 = s2
  e1 = e1
  e2 = e2
  w1 = w1
  StreamIds = {s1, s2}
  Employers = {e1, e2}
  Workers = {w1}
  NoRow = NoRow
  Chain <- LifeChain
  MaxHead = 3
  SyncStart = 0
  BatchSize = 2
  IndexBatch = 2
  MaxAttempts = 3
  Unservable = {}
  Loops = {a}
  MaxFaults = 0
INVARIANT CancellationsApplied
