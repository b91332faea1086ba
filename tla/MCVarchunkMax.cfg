SPECIFICATION Spec
CONSTANTS
  Size = 64
  Lengths = {3, 13}
  NumTags = 3
  ToTheMax = TRUE
INVARIANT WriterApart
