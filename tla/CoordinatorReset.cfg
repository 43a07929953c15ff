SPECIFICATION Spec
CONSTANTS
  s1 = s1
  s2 = s2
  r1 = r1
  r2 = r2
  r3 = r3
  MaxTasks = 3
  StoreLimit = 2
  Sessions <- TwoSessions
  Requests <- ThreeRequests
  MaxQueued = 1
  MaxCommands = 1
  SelfMod = FALSE
  ReportKinds = {}
  Controls = {"reset", "reset_conversation"}
  MaxStops = 1
SYMMETRY RequestSymmetry
PROPERTIES
  ResetIsClean
CHECK_DEADLOCK FALSE
