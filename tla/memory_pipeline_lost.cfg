SPECIFICATION Spec
CONSTANTS
  L1Turns = 2
  Retained = 2
  Faults = FALSE
  MaxTurns = 5
  MaxHooks = 1
  MaxSummaries = 1
  MaxCrashes = 0
PROPERTIES NothingLost
CHECK_DEADLOCK FALSE
