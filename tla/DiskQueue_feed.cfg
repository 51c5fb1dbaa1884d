SPECIFICATION LiveSpec
CONSTANTS
  MaxRecords = 3
  RecLen <- Even
  MaxBytes = 5
  OutCap = 1
  ScanBuf = 3
  CompactPct = 50
  MaxRestarts = 1
  MaxFaults = 0
PROPERTIES
  FeedSpec
  FedUnlessStopped
CHECK_DEADLOCK FALSE
