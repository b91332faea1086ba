SPECIFICATION FairSpec
CONSTANTS
  NumMods = 3
  NumSlaves = 1
  Edges <- FanOut
  RampEdges <- FanOutRamp
PROPERTIES
  EveryPeriodEnds
