SPECIFICATION HostSpec
CONSTANTS
  Delegated = {t1}
  MaxRevisions = 2
  MaxEvents = 3
  MaxMisses = 1
  FileNames = {a}
  Contents = {x, y}
  MaxFiles = 3
  MaxCopies = 2
  MaxFaults = 1
  Tasks = {t1, t2}
  Ids = {a, b}
  Texts = {x}
  MailLimit = 3
  PageSize = 1
  RecordLimit = 1
  Turns = {t1, t2}
  Finds = {f1}
  Requests = {r1}
  Kinds = {"task", "stream", "openai"}
  Sessions = {s1, s2}
  MaxTroubles = 1
  Episodes = {1, 2, 3}
  Scores = {0, 1, 2}
  Sizes = {1, 2}
  Threshold = 1
  Windows = {0, 1}
  Ceilings = {0, 3}
  SignIns = {f1, f2}
  Calls = {c1, c2}
  MaxExpiries = 1
  MaxForged = 1
  MaxForgets = 1
  Namespaces = {n1, n2}
  Keys = {k1, k2}
  RelayCalls = {c1, c2}
  MaxKeys = 1
  MaxNamespaces = 1
  MaxHostStops = 1
  Provisioners = {p1, p2}
  MaxHalts = 2
  Posts = {p1, p2, p3}
  Lengths = {0, 1, 2}
  MaxBody = 1
  MaxRequests = 2
  Lookups = {q1, q2}
  MaxSteps = 3
  MaxLookups = 4
  MaxBatch = 3
  Legs = {l1, l2, l3}
  Interval = 2
  RetryAfters = {1, 3}
  LeastRest = 1
  MaxClock = 6
  Letters = {"<", "/", "t", "a"}
  MaxContent = 5
  MaxPiece = 2
  MaxFragments = 3
  ToolCalls = {0, 1}
  MaxSaved = 3
  MaxShown = 2
  LastBlocked = 1
  LastEnded = 1
  LastUpdates = 2
  LastOrders = 2
  MaxSaid = 2
  Budgets = {2, 8}
  Urls = {u1, u2, u3}
  Scholars = 2
  MostAsked = 3
  LegLimit = 2
INVARIANTS
  HostTypeOK
  
  PickedIsFair
  ConnectionsAreTheUsers
  LimitsHold
  PairedStayPaired
  ReplyIsWhole
  TranscriptIsWhole
PROPERTIES
  SaidIsCurrent
  ResultReachesUser
  FilesAreKept
  ReadsAnInbox
  
CHECK_DEADLOCK FALSE
