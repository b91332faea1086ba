SPECIFICATION FairSpec
CONSTANTS
  Size = 64
  Lengths = {0, 13, 30}
  NumTags = 3
  ToTheMax = FALSE
INVARIANTS TypeOK WriterApart ChunkStable ElementAfterGap EmptyRingTakes
PROPERTIES ImplementsFifo Served
