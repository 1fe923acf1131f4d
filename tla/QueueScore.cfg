CONSTANTS
  MapSize = 2
  Seeds = 2
  MaxEntries = 3
  Factors <- MCFactors
  MaxLevel = 1
  SkipItems = 1
  schedule = "EXPLORE"
  cycle_schedules = TRUE
  seeds_may_hang = TRUE
  NULL = NULL
SPECIFICATION Spec
INVARIANTS TypeOK RefCount MiniAlive CountersAgree FavoredCover
CHECK_DEADLOCK FALSE
