SPECIFICATION Spec
SYMMETRY Symmetry
CONSTANTS
  Events = {e1, e2}
  Callers = {a, b}
  Batches = {w, x}
  MaxRetries = 2
  BatchSize = 2
  MaxByHand = 1
  MaxFaults = 1
  MaxShared = 1
  NoEvent = NoEvent
INVARIANTS TypeOK NothingForgotten AttemptsLogged ReplayedWasDelivered
PROPERTY KeepsPromise
CONSTRAINT InFewCases
