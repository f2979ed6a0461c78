SPECIFICATION Spec
CONSTANTS
  Requests = {r1, r2}
  Agents = {}
  Lines = 2
  OneAtATime = TRUE
  MaxFaults = 1
INVARIANT
  RailBillsLedger
CHECK_DEADLOCK FALSE
