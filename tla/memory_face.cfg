SPECIFICATION FaceSpec
CONSTANTS
  c1 = c1
  c2 = c2
  Callers <- MCCallers
  Ids <- MCIds
  Seeded <- MCSeeded
  Entities <- MCEntities
  Limits <- MCLimits
  Capacity = 3
  MaxTime = 2
  MaxRequests = 2
  MaxWrites = 2
SYMMETRY MCSymmetry
INVARIANTS FaceTypeOK ListingIsExact RemovalsAreTold
CHECK_DEADLOCK FALSE
