SPECIFICATION SpecRepeatable
CONSTANTS
  NumSupports = 2
  IterationLimit = 7
  ComplTol = 0
  Admissible = 1
  Mu = 1
  Normals <- MCNormals
  Shears <- MCShears
  Places <- MCPlaces
INVARIANTS
  AcceptedFrictionIsCoulomb
