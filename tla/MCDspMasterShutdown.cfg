SPECIFICATION Spec
CONSTANTS
  NumMods = 2
  NumSlaves = 2
  Edges <- Chain
  RampEdges = {}
INVARIANTS
  AssertHolds
