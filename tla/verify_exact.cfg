SPECIFICATION Spec
CONSTANTS
  Scenes <- SmallYen
  MeterCodes <- MCCodes
INVARIANT VerifiedIsBilled
CHECK_DEADLOCK FALSE
