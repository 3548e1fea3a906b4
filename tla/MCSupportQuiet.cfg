SPECIFICATION FairSpec
CONSTANTS
  NumSupports = 2
  IterationLimit = 13
  ComplTol = 0
  Admissible = 1
  Mu = 1
  Normals <- MCNormals
  Shears <- MCShears
  Places <- MCPlaces
INVARIANTS
  QuietSearchSettles
PROPERTIES
  GripsWhereItStands
  SearchReturns
