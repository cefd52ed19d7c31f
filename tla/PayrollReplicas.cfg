SPECIFICATION Spec
CONSTANTS
  Replicas = {r1, r2}
  Schedules = {s1}
  Overrides = {}
  Crons = {daily, weekly}
  ValidCrons = {daily, weekly}
  NoJob = NoJob
  Unconfigured = {}
  Slots = {k1}
  OverrideBatch = 1
  MaxTicks = 1
  MaxEdits = 0
  MaxFaults = 0
INVARIANT PaidOncePerTick
