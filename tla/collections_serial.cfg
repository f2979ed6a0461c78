SPECIFICATION FairSpec
CONSTANTS
  no_reason = no_reason
  auth_required = auth_required
  Reasons = {no_reason}
  NoReason = no_reason
  AuthenticationRequired = auth_required
  HardDeclines = {}
  DefaultSchedule <- MCOneRetry
  i1 = i1
  i2 = i2
  Invoices = {i1, i2}
  api = api
  Workers = {api}
  Agents = {}
  PayAgainSucceeds = TRUE
  MaxTime = 1
  MaxDeclines <- MCDeclines
  WrittenOff = i1
  MaxFaults = 1
INVARIANTS
  FreshCopies
  OneVerdict
PROPERTIES
  TerminalIsFinal
  FirstFailureSticks
  RecoveryRefined
  Settles
CHECK_DEADLOCK FALSE
