SPECIFICATION FairSpec
CONSTANTS
  s1 = s1
  s2 = s2
  r1 = r1
  r2 = r2
  r3 = r3
  MaxTasks = 2
  StoreLimit = 1
  Sessions <- OneSession
  Requests <- TwoRequests
  MaxQueued = 1
  MaxCommands = 1
  SelfMod = FALSE
  ReportKinds = {}
  Controls = {}
  MaxStops = 1
PROPERTIES
  ServesAgain
CHECK_DEADLOCK FALSE
