SPECIFICATION AlertsFairSpec
CONSTANTS
  c1 = c1
  c2 = c2
  c3 = c3
  Calls = {c1, c2, c3}
  k1 = k1
  k2 = k2
  Keys = {k1, k2}
  Again = k1
  Other = k2
  LastCall = c3
  key <- MCKey
  Window = 0
  MaxTime = 2
  MaxFaults = 1
  AgentCalls = {c2}
  Thresholds <- MCThresholds
  Budget = 2
  PeriodEnd = 2
INVARIANTS
  AlertsTypeOK
  OneEventPerKey
  AnswersAreDurable
  NoFalseAlarm
  MarkIsHonest
PROPERTIES
  AsOfSettles
  ReachedIsTold
CHECK_DEADLOCK FALSE
