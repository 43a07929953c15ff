SPECIFICATION Spec
CONSTANTS
  s1 = s1
  s2 = s2
  r1 = r1
  r2 = r2
  r3 = r3
  MaxTasks = 3
  StoreLimit = 3
  Sessions <- OneSession
  Requests <- ThreeRequests
  MaxQueued = 1
  MaxCommands = 1
  SelfMod = FALSE
  ReportKinds = {"accepted", "question"}
  Controls = {"delete"}
  MaxStops = 1
SYMMETRY RequestSymmetry
INVARIANTS
  OwnedWork
  NoLostWakeup
  WorkIsHonest
PROPERTIES
  CancelSticks
CHECK_DEADLOCK FALSE
