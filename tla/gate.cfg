SPECIFICATION GateSpec
CONSTANTS
  c1 = c1
  c2 = c2
  Calls = {c1, c2}
  Alice = Alice
  Bob = Bob
  Customers = {Alice, Bob}
  K1 = K1
  Keys = {K1}
  NoKey = NoKey
  USD = USD
  EUR = EUR
  Currencies = {USD, EUR}
  TopUps <- MCTopUps
  Stores = {"memory", "postgres"}
  Armed = TRUE
  MaxCharge = 5
  MaxFaults = 1
  g1 = g1
  g2 = g2
  Clients = {g1, g2}
  Payer = Alice
  Asks <- MCAsks
  GrantRequests <- MCGrantRequests
  Workloads <- MCWorkloads
  Rps = 1
  Burst = 2
INVARIANTS
  GateTypeOK
  BalanceIsLedger
  AnswersHold
  WholeBalance
  VerdictWasTrue
  OverrunBounded
  RateBounded
SYMMETRY MCSymmetry
CHECK_DEADLOCK FALSE
