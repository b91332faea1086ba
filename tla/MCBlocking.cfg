SPECIFICATION ApartSpec
CONSTANTS
  a = a
  b = b
  Mods = {a, b}
  System = System
  Nowhere = Nowhere
  Feeds <- SideBySide
  RampPeriods = 2
  MaxJobs = 2
  UiMessages = 2
  ComEvents = 1
  Managed = 1
  Ops = {"preset", "save", "load", "add", "rem"}
INVARIANTS TypeOK OneAtATime AssertsHold NamesLiveModules
PROPERTIES AllTaken MuteEnds
