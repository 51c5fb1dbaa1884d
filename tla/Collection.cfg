SPECIFICATION LiveSpec
CONSTANTS
  Second = 2
  Interval = 3
  Limit = 2
  MaxTime = 4
  MaxLogged = 3
  MaxPollFaults = 1
  MaxBuf = 3
  MaxLines = 4
  MaxRotations = 1
  MaxTailDrops = 1
  Files = {f1}
  Contents = {c1,c2}
  Modes = {m1,m2}
  EventCap = 2
  MaxChanges = 4
  MaxFileDrops = 1
  MaxTampers = 3
  MaxPlantFaults = 1
  MaxHostChanges = 3
  MaxHostFaults = 1
INVARIANTS
  NothingPassedBy
  WholeRecords
  HostIsTold
PROPERTIES
  AllCatchUp
  ChangeReported
  Replanted
CHECK_DEADLOCK FALSE
