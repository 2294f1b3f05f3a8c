SPECIFICATION FairSpec
CONSTANTS
  queued = queued
  other = other
  Tasks <- MCTasks
  Offered <- MCOffered
  Period <- MCPeriod
  Panicky <- MCPanicky
  MaxSteps = 2
  MaxTime = 3
INVARIANTS
  TypeOK
  NoOverlap
  StartsAreTriggered
  DeadlinesCatchUp
PROPERTIES
  CancelAndStopAreFinal
  ThreadIsAwake
CHECK_DEADLOCK FALSE
