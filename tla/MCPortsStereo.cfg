SPECIFICATION Spec
CONSTANTS
  a = a
  b = b
  m = m
  ao = ao
  bi = bi
  bo = bo
  bv = bv
  mi = mi
  av = av
  aw = aw
  Mods = {a, b, m}
  Outs = {ao, bo, av}
  Ins = {mi}
  Audio = {ao, av, bo, mi}
  Owner <- StereoOwner
  Links <- StereoLinks
  RampPeriods = 2
  MaxSources = 3
  NoMod = none
INVARIANT OnlyRemovedMarked
