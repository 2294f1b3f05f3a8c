SPECIFICATION LoopSpec
CONSTANTS
  c1 = c1
  c2 = c2
  NoCall = NoCall
  CallId <- MCCallId
  CallLists <- MCCallLists
  MaxRounds = 2
  MaxDeltas = 1
  Panicky <- MCPanicky
INVARIANTS
  TypeOK
  AnnouncedAsArchived
  FaceAgreesWithBus
  ToolProtocol
  OnlySuccessFeedsMemory
PROPERTIES
  ImplementsContract
  CancelledRunEnds
CHECK_DEADLOCK FALSE
