SPECIFICATION Spec
CONSTANTS
  s1 = s1
  s2 = s2
  r1 = r1
  r2 = r2
  r3 = r3
  MaxTasks = 2
  StoreLimit = 3
  Sessions <- OneSession
  Requests <- TwoRequests
  MaxQueued = 1
  MaxCommands = 1
  SelfMod = TRUE
  ReportKinds = {}
  Controls = {}
  MaxStops = 0
SYMMETRY RequestSymmetry
PROPERTIES
  CancelSticks
CHECK_DEADLOCK FALSE
