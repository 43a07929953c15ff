SPECIFICATION ServiceSpec
CONSTANTS
  Askers = {t1, t2}
  Connectable = {t2}
  MaxDeploys = 3
  MaxMishaps = 0
INVARIANTS
  CanceledBuildStops
CHECK_DEADLOCK FALSE
