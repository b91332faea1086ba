SPECIFICATION FairSpec
CONSTANTS
  Dsp = d
  Worker = w
  Others = {o}
  Callers = {d, o}
  NumPools = 2
  PoolSize = 4
  NItems = 4
  u1 = u1
  u2 = u2
  u3 = u3
  Uris <- MCUris
  Length <- MCLength
  Hash <- MCHash
  NoCall = nocall
CHECK_DEADLOCK FALSE
INVARIANT TypeOK
INVARIANT ChunksApart
INVARIANT OneInjection
INVARIANT NullAtEndOnly
INVARIANT OneUrid
INVARIANT RoundTrip
PROPERTY ImplementsTable
PROPERTY EveryCallEnds
