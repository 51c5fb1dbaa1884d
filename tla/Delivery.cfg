SPECIFICATION LiveSpec
CONSTANTS
  MaxItems = 3
  KindOf <- MCKindOf
  AgentOf <- MCAgentOf
  DocId <- MCDocId
  Flaws <- MCFlaws
  ChanCap <- MCChanCap
  BufCap <- MCBufCap
  MaxTaken <- MCMaxTaken
  BatchSize = 1
  MaxTries = 2
  DlqMax = 1
  Transports = {"kafka","grpc","none"}
  MaxBuffer = 2
  BulkSize = 2
  MaxFlushTries = 2
  MaxDays = 1
  Handlers = {h1,h2}
  MaxFaults = 2
INVARIANTS
  Accounted
  OneDocPerDay
  InOrderPerAgent
PROPERTIES
  Settles
CHECK_DEADLOCK FALSE
