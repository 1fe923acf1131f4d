CONSTANTS
  MapSize = 2
  Seeds = 2
  MaxEntries = 3
  Factors <- MCFactors
  MaxLevel = 1
  SkipItems = 1
  schedule = "FAST"
  cycle_schedules = FALSE
  seeds_may_hang = TRUE
  NULL = NULL
SPECIFICATION Spec
INVARIANT MatrixHasMini
CHECK_DEADLOCK FALSE
