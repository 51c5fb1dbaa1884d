SPECIFICATION Spec
CONSTANTS
  Addresses = {x}
  NoAddress = none
  Users = {u1}
  Hashes = {p,q}
  Workers = {w1}
  Analyzers = {ticker,api}
  FirstAnalyzer = ticker
  Keep = 1
  Hour = 0
  Late = 1
  Quiet = 1
  FailMin = 2
  UserFails = 1
  Hosts = {h1,h2,h3,h4,h5,h6,h7}
  Group = {h1,h2,h3,h4,h5,h6}
  MinSamples = 3
  Sigma = 2
  MaxClock = 2
  MaxTracked = 3
  MaxPrograms = 2
  MaxTotal = 2
  MaxAnalyses = 2
  Callers = {c1,c2}
  Full = 2
  Step = 2
  Iocs = {1,2}
  Ttl = 2
  StaleAfter = 3
  MaxTick = 4
  MaxTakes = 4
  Numbers = {0,1}
  MaxTokens = 3
  Releases = {1,2}
  Platforms = {"linux","windows"}
  Scopes = {"any","linux"}
  CacheAge = 1
  MaxHours = 1
  MaxFeeds = 1
  MaxDbFaults = 1
  Loggers = {c1,c2}
  Savers = {s1,s2}
  Seeder = seed
  Engineers = {e1,e2}
  InGroup = {e1,e2}
  Syncs = {ticker,api}
  FirstAhead = 1
  MonthsAhead = 1
  MonthsKeep = 1
  MaxRecords = 5
  MaxRuns = 2
  MaxSaves = 5
  MaxEdits = 2
  MaxMonths = 4
  MaxRecordFaults = 2
  ShippedNames = {1,2}
  CustomNames = {2,3,4}
  SameFile = {3,4}
  Parents = {1,3}
  Programs = {sshd}
  NoProgram = nop
  AnyProgram = any
  Messages = {m1,m2}
  Hard = {m2}
  ApiClients = {c1,c2}
  Longest = 2
  MaxRequests = 2
  MaxSyslogFaults = 1
  MaxLines = 3
  EventTypes = {t}
  NoType = any
  Fields = {f,g}
  Message = g
  Timeframe = timeframe
  Pattern = pattern
  Values = {x,y}
  NoValue = blank
  Absent = absent
  InList = {x}
  Adders = {a1,a2}
  Matchers = {w}
  Selections = {s1,s2}
  Capital = {s2}
  MaxLiterals = 3
  MaxEvents = 2
  Watched = {p1}
  Parent = dir
  NoPath = nowhere
  FlushAfter = 1
  CacheTtl = 1
  CacheSize = 1
  MaxTrailClock = 2
  MaxLogs = 2
  MaxAuditFaults = 1
  Pids = {i1,i2}
  Ports = {80}
  Families = {"tcp","tcp6"}
  Dirs = {d1,d2}
  FileNames = {su}
  MaxEnds = 2
  MaxLooks = 1
  MaxScans = 3
  MaxScanFaults = 1
INVARIANTS
  OddTold
  SpendingHeld
  VulnsFollowed
  TablesHold
  LogsRead
  RulesMatch
CHECK_DEADLOCK FALSE
