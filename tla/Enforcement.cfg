SPECIFICATION LiveAgentSpec
CONSTANTS
  Targets = {t1}
  Safelists = {{}, {t1}}
  InitialSafelist = {}
  MaxCommands = 3
  MaxFails = 1
  MaxRestarts = 1
  Files = {f1,f2}
  Bundles = {b1,b2}
  Oversized = {b2}
  MaxSecond = 1
  MaxEvidenceFaults = 2
  Releases = {1,2,3}
  Prereleases = {2}
  AllowPrerelease = FALSE
  ConfigTexts = {c1,c2,c3}
  MaxEdits = 3
  MaxExits = 2
INVARIANTS
  Lifeline
  EvidenceKept
PROPERTIES
  Released
  SelfKept
CHECK_DEADLOCK FALSE
