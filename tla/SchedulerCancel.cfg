SPECIFICATION Spec
CONSTANTS
  MaxJobs = 2
  MaxTime = 1
  MaxSleep = 1
  MaxPending = 2
  MaxFinished = 2
  MaxStops = 0
  MaxErrors = 0
INVARIANTS
  CanceledIsSilent
CHECK_DEADLOCK FALSE
