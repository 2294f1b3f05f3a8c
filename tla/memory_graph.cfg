SPECIFICATION Spec
CONSTANTS
  alice = alice
  ally = ally
  chat = chat
  mail = mail
  m1 = m1
  m2 = m2
  Names <- MCNames
  Convs <- MCConvs
  Managers <- MCManagers
  Faults = TRUE
  MaxDrafts = 1
  MaxEdges = 1
  MaxRuns = 1
  MaxCalls = 3
SYMMETRY MCSymmetry
INVARIANTS TypeOK GraphIsReachable
PROPERTIES IdentityIsStable
CHECK_DEADLOCK FALSE
