SPECIFICATION Spec
CONSTANTS
  a = a
  b = b
  Mods = {a, b}
  System = System
  Nowhere = Nowhere
  Feeds <- SideBySide
  RampPeriods = 2
  MaxJobs = 2
  UiMessages = 2
  ComEvents = 0
  Managed = 0
  Ops = {"preset", "save", "load", "add", "rem"}
INVARIANT LoadAlone
