\* Nothing panics here: the deferred run is lost to a race alone.
SPECIFICATION Spec
CONSTANTS
  queued = queued
  other = other
  Tasks <- MCQueue
  Offered <- MCQueueOffered
  Period <- MCQueuePeriod
  Panicky <- MCNone
  MaxSteps = 8
  MaxTime = 3
INVARIANTS
  DeferredHasARunner
CHECK_DEADLOCK FALSE
