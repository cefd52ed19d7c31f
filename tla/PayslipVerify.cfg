SPECIFICATION PaySpec
CONSTANTS
  PayRequests = {r1, r2}
  MaxGross = 1
  MaxPayClock = 1
  MaxPayFaults = 1
  KeysConfigured = TRUE
INVARIANT PayslipVerifies
CHECK_DEADLOCK FALSE
