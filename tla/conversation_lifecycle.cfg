SPECIFICATION FairSpec
CONSTANTS
  handle = handle
  r1 = r1
  Handles <- MCHandles
  SweepHandle = SweepHandle
  Runs <- MCRuns
  NoHandle = NoHandle
  MaxFails = 1
  MaxCrashes = 1
INVARIANTS
  TypeOK
  HandleEndsOnce
  DrainPrecedesFinalize
PROPERTIES
  EveryEndCompletes
CHECK_DEADLOCK FALSE
