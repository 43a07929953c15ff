SPECIFICATION NativeSpec
CONSTANTS
  Calls = {c1, c2}
  WholeRuns = {c2}
  MaxSpawns = 2
  MaxCuts = 2
  MaxCrashes = 1
  MaxRevision = 2
  MaxMade = 2
  MaxCheckpoints = 1
  WorkerReports <- SomeReports
INVARIANTS
  LeaseIsReturned
  WorkspaceIsOwn
  ReportsCountOnce
PROPERTIES
  OkIsHonest
  
CHECK_DEADLOCK FALSE
