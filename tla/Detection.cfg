SPECIFICATION LiveSpec
CONSTANTS
  k1 = k1
  k2 = k2
  k3 = k3
  plain = plain
  f1 = f1
  f2 = f2
  Keys <- MCKeys
  Count <- MCCount
  Period <- SamePeriod
  MaxKeys = 2
  GcAge = 2
  Prints <- MCPrints
  Window = 2
  MaxPrints = 1
  Kinds <- MCKinds
  Matched <- MCMatched
  Yields <- MCYields
  FpOf <- MCFpOf
  Workers = {w1,w2}
  QueueCap = 1
  MaxTime = 3
  MaxEvents = 3
INVARIANTS
  WindowExact
  RemembersAll
PROPERTIES
  ComesToRest
CHECK_DEADLOCK FALSE
