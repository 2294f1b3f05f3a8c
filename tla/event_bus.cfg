SPECIFICATION FairSpec
CONSTANTS
  task = task
  thread = thread
  closer = closer
  Emitters <- MCEmitters
  Async <- MCAsync
  Flushers <- MCFlushers
  Observers = 2
  Cap = 2
  MaxEvents = 2
INVARIANTS
  TypeOK
  ObserversAgree
  FlushIsBarrier
PROPERTIES
  DispatcherServes
CHECK_DEADLOCK FALSE
