SPECIFICATION Spec
CONSTANTS
  MaxRecords = 3
  RecLen <- Even
  MaxBytes = 7
  OutCap = 1
  ScanBuf = 4
  CompactPct = 50
  MaxRestarts = 0
  MaxFaults = 0
INVARIANTS
  UnsentSurvivesCrash
CHECK_DEADLOCK FALSE
