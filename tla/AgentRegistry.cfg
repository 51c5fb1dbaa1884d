SPECIFICATION LiveSpec
CONSTANTS
  Agents = {a}
  Streams = {s,t}
  MaxCmds = 2
  ChanCap = 1
  MaxPending = 1
  MaxDeletes = 1
  MaxRestarts = 1
INVARIANTS
  OnePlace
PROPERTIES
  ChannelServed
CHECK_DEADLOCK FALSE
