SPECIFICATION BuildsSpec
CONSTANTS
  MaxJobs = 2
  MaxTime = 2
  MaxSleep = 1
  MaxPending = 2
  MaxFinished = 1
  MaxStops = 1
  MaxErrors = 1
  TestSets = {k1, k2}
  Reasons = {r1, r2}
  MaxAttempts = 2
  MaxRepeats = 2
  MaxBuilds = 2
  MaxDeaths = 1
  MaxEdits = 1
  Askers = {t1, t2}
  Connectable = {t2}
  MaxDeploys = 3
  MaxMishaps = 1
  Questions = {q1, q2}
  StepAnswers = {a, b}
  MaxTries = 2
  MaxAskings = 2
  MaxRestarts = 1
  MaxMilestones = 8
  MaxFrames = 4
  MaxControls = 2
  MaxOpens = 1
  StartFrames = 1
  EndFrames = 1
  LongestFrames = 3
  DraftFrames = 2
  WaitFrames = 2
  KeepFrames = 2
  WakeFrames = 2
  Streams = {r1, r2}
  Wholes = {r3}
  Pieces = 2
INVARIANTS
  BuildsTypeOK
  JobsAreKept
  
  YesStartsOneBuild
  OneVoice
PROPERTIES
  JobsAreDelivered
  DeploymentsAreSound
  AnswersAreOwn
  MutedIsSilent
  
CHECK_DEADLOCK FALSE
