SPECIFICATION Spec
CONSTANTS
  MaxRecords = 5
  RecLen <- FiveEven
  MaxBytes = 5
  OutCap = 1
  ScanBuf = 4
  CompactPct = 50
  MaxRestarts = 1
  MaxFaults = 1
CONSTRAINT
  OneMishap
INVARIANTS
  WalWithinLimit
  FedInOrderOnce
  UnfedSurvivesCrash
CHECK_DEADLOCK FALSE
