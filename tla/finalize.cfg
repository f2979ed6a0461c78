SPECIFICATION Spec
CONSTANTS
  Requests = {r1, r2, tool}
  Agents = {tool}
  Lines = 2
  OneAtATime = FALSE
  MaxFaults = 2
INVARIANTS
  TypeOK
  RailHasSaved
  NumbersDiffer
  NothingUnbilled
  LeftoversOnly
  OpenedForUnpaid
CHECK_DEADLOCK FALSE
