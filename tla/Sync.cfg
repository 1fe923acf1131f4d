CONSTANTS
  F1 = F1
  F2 = F2
  Fuzzers = {F1, F2}
  Roles <- MCRoles
  MaxFinds = 1
  MaxTrims = 1
  MaxFiles = 2
  MaxFaults = 1
SPECIFICATION Spec
INVARIANTS LookedAt MarkTrue
PROPERTIES CaughtUp RealMainWins MainElected NothingLost
CHECK_DEADLOCK FALSE
