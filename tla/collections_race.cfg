SPECIFICATION Spec
CONSTANTS
  no_reason = no_reason
  expired_card = expired_card
  auth_required = auth_required
  Reasons = {no_reason, expired_card}
  NoReason = no_reason
  AuthenticationRequired = auth_required
  HardDeclines = {expired_card}
  DefaultSchedule <- MCSchedule
  i1 = i1
  Invoices = {i1}
  api = api
  agent = agent
  Workers = {api, agent}
  Agents = {agent}
  PayAgainSucceeds = FALSE
  MaxTime = 1
  MaxDeclines <- MCDeclines
  WrittenOff = i1
  MaxFaults = 1
INVARIANTS
  TypeOK
  RetryCadence
  WriteOffExhausts
  PaidMeansPaid
  OpensFirst
  NoticesAreTrue
PROPERTIES
  OnlyStaleWriters
CHECK_DEADLOCK FALSE
