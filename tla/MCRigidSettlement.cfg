SPECIFICATION Spec
CONSTANTS
  NumContacts = 4
  Scale = 6
  Requests <- MCRequests
  RestPlanes <- MCRestPlanes
INVARIANTS
  TypeOK
  SettledCarriesTheLoad
  SolvableLoadSettles
  FixedPointIsUntouched
  LoadKeepsStanding
