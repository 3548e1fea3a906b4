SPECIFICATION Spec
CONSTANTS
  Frames <- MCMixedFrames
  Bytewise <- MCBytewise
  Motions <- MCMotions
  StationAsks <- MCStationAsks
  Kilo = 2
  RelDen = 2
INVARIANTS
  ConstraintsHoldInFrameAxes
CHECK_DEADLOCK FALSE
