SPECIFICATION DeckSpec
CONSTANTS
  Frames <- MCDeckFrames
  Bytewise <- MCDeckBytewise
  Motions <- MCMotions
  StationAsks <- MCStationAsks
  Kilo = 2
  RelDen = 2
  Ring <- MCRing
  Sep = 1
  Decks <- MCDecks
  Loadings <- MCLoadings
INVARIANTS
  TypeOK
  AnswersInFrameAxes
  ConstraintsHoldInFrameAxes
  ConstraintForcesAreAttributed
  AcceptedResultBalances
  ContactIsWhatTheKernelIsGiven
  SpringsBearTheContact
  RigidDeckIsReadBack
CHECK_DEADLOCK FALSE
