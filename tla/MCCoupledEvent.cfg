SPECIFICATION FairEventSpec
CONSTANTS
  NumSupports = 2
  IterationLimit = 4
  ComplTol = 0
  Admissible = 1
  Mu = 1
  Normals <- MCNormals
  Shears <- MCShears
  Places <- MCPlaces
  Responses <- MCResponses
  LoadShares <- MCShares
  ResponseTol = 1
  ShareTol = 0
  NoResponse = NoResponse
INVARIANTS
  EventTypeOK
  RecoveryIsCached
  AnswerIsOneSnapshot
  AnswerIsAFixedPoint
PROPERTIES
  EventReturns
