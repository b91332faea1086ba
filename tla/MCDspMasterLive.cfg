SPECIFICATION FairSpec
CONSTANTS
  NumMods = 3
  NumSlaves = 1
  Edges <- FanIn
  RampEdges <- FanInRamp
PROPERTIES
  PeriodEnds
