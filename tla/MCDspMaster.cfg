SPECIFICATION Spec
CONSTANTS
  NumMods = 3
  NumSlaves = 2
  Edges <- FanIn
  RampEdges <- FanInRamp
INVARIANTS TypeOK RunAtMostOnce SourcesFirst PeriodComplete GraphExclusive RefCountAssert NeverStuck
PROPERTIES ImplementsCycle
