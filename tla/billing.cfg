SPECIFICATION Spec
CONSTANTS
  Scenes <- MCScenes
  MeterCodes <- MCCodes
INVARIANTS
  BillingTypeOK
  RatedRight
  BilledToRounding
  ProofIsRight
  SimulationIsFair
  RecognitionAddsUp
  VerifyIsHonest
CHECK_DEADLOCK FALSE
