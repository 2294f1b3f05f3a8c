SPECIFICATION Spec
CONSTANTS
  r1 = r1
  r2 = r2
  r3 = r3
  billing = billing
  travel = travel
  NoTopic = NoTopic
  Setups <- MCSetups
  Runs <- MCRuns
  Topics <- MCTopics
  Window = 3
  L1Turns = 1
  TopN = 2
  Likenesses <- MCLikenesses
  MaxForeign = 2
  MaxActive = 2
  MaxFailures = 2
SYMMETRY MCSymmetry
INVARIANTS
  TypeOK
  FactsAreTrue
  FrameKeepsInput
  RecallIsComplete
CHECK_DEADLOCK FALSE
