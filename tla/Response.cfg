SPECIFICATION LiveSpec
CONSTANTS
  Lists <- MCLists
  Shipped <- MCShipped
  Configs <- MCConfigs
  MispLists <- MCMisp
  Pages <- MCPages
  Posts <- MCPosts
  MaxEvents = 2
  Alerts <- MCAlerts
  Books <- MCBooks
  Drafts <- MCDrafts
  Patches <- MCPatches
  MaxBooks = 3
  MaxRuns = 2
  MaxTriggers = 1
INVARIANTS
  Recorded
  WatchedAsReported
PROPERTIES
  RunsEnd
CHECK_DEADLOCK FALSE
