SPECIFICATION Spec
SYMMETRY Symmetry
CONSTANTS
  Replicas = {r1, r2}
  Schedules = {s1}
  Overrides = {o1, o2}
  Crons = {daily, bad}
  ValidCrons = {daily}
  NoJob = NoJob
  Unconfigured = {r2}
  Slots = {k1, k2}
  OverrideBatch = 2
  MaxTicks = 1
  MaxEdits = 1
  MaxFaults = 1
CONSTRAINT EditsOrFaults
INVARIANTS TypeOK RunsAccounted StrandedByFault
PROPERTIES KeepsOrders
