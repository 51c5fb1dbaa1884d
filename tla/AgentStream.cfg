SPECIFICATION LiveSpec
CONSTANTS
  Sources = {s1,s2}
  RamCap = 1
  OutCap = 1
  BatchSize = 3
  MaxBatchPoints = 2
  MaxPoints = 1
  MaxCommands = 1
  MaxFaults = 2
INVARIANTS
  Accounted
PROPERTIES
  Settles
CHECK_DEADLOCK FALSE
