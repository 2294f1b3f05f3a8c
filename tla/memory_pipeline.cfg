SPECIFICATION Spec
CONSTANTS
  L1Turns = 2
  Retained = 3
  Faults = TRUE
  MaxTurns = 4
  MaxHooks = 1
  MaxSummaries = 1
  MaxCrashes = 1
INVARIANTS TypeOK CursorFollowsWrites OneMaintenance EndDrains
PROPERTIES CursorOnlyAdvances
CHECK_DEADLOCK FALSE
