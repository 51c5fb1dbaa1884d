SPECIFICATION LiveSpec
CONSTANTS
  host = host
  Agents = {host}
  MaxCases = 4
  MaxTime = 3
  Groups <- MCGroups
  Sla <- MCSla
  Engineers = {1,2}
  Tier <- MCTier
  MaxLoad <- MCMaxLoad
  Skilled = {2}
  Rosters <- MCRosters
  Workers = {w1,w2}
  MinLevel = 10
  Patches <- MCPatches
  MaxEdits = 1
  MaxFaults = 1
  Configured = {}
  Thresholds = {50}
  DefaultThreshold = 100
  Decay = 2
  Cooldown = 1
  MaxNotables = 3
  Kinds <- TwoKinds
  MaxAlerts = 2
  MaxRestarts = 1
INVARIANTS
  OneOpenCase
  AlertOnCase
  BreachToldOnce
  NotablesSpaced
PROPERTIES
  OverdueEscalated
CHECK_DEADLOCK FALSE
