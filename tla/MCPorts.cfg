SPECIFICATION FairSpec
CONSTANTS
  a = a
  b = b
  m = m
  ao = ao
  bi = bi
  bo = bo
  bv = bv
  mi = mi
  av = av
  aw = aw
  Mods = {a, b, m}
  Outs = {ao, bo, av, aw}
  Ins = {bi, mi, bv}
  Audio = {ao, bi, bo, mi}
  Owner <- MCOwner
  Links <- MCLinks
  RampPeriods = 2
  MaxSources = 2
  NoMod = none
INVARIANT TypeOK
INVARIANT NoDanglingSource
INVARIANT NoSourceTwice
INVARIANT NothingElseCut
INVARIANT SilentForPreset
PROPERTY OrdersDone
