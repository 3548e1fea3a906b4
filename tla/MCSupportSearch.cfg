SPECIFICATION Spec
CONSTANTS
  NumSupports = 2
  IterationLimit = 8
  ComplTol = 0
  Admissible = 1
  Mu = 1
  Normals <- MCNormals
  Shears <- MCShears
  Places <- MCPlaces
INVARIANTS
  TypeOK
  AcceptedIsComplementary
  FrozenWereCycling
  FrozenAreInContact
PROPERTIES
  NoSolveIsRepeated
  OnlyQuietCyclesFreeze
  ImplementsWalk
