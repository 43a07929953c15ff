SPECIFICATION StepsSpec
CONSTANTS
  Questions = {q1, q2}
  StepAnswers = {a}
  MaxTries = 1
  MaxAskings = 2
  MaxRestarts = 0
  MaxMilestones = 8
INVARIANTS
  MilestonesAreTold
CHECK_DEADLOCK FALSE
