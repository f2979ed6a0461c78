SPECIFICATION Spec
CONSTANTS
  no_reason = no_reason
  auth_required = auth_required
  Reasons = {no_reason}
  NoReason = no_reason
  AuthenticationRequired = auth_required
  HardDeclines = {}
  DefaultSchedule <- MCSchedule
  i1 = i1
  Invoices = {i1}
  api = api
  Workers = {api}
  Agents = {}
  PayAgainSucceeds = TRUE
  MaxTime = 1
  MaxDeclines <- MCDeclines
  WrittenOff = i1
  MaxFaults = 0
INVARIANT
  WriteOffAfterAllRetries
CHECK_DEADLOCK FALSE
