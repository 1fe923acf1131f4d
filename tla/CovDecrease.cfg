CONSTANTS
  Edges <- MCEdges
  WordOf <- MCWordOf
  Lane <- MCLane
  UintMax <- MCUintMax
  Runs <- MCRunsSeeds
  Seeds = 3
  SeedLen <- MCSeedLen
  MaxEntries = 4
  MaxExecs = 2
  CAL_CYCLES = 1
  CAL_CYCLES_LONG = 2
  CAL_CHANCES = 3
  timeout_given = TRUE
  crash_mode_lv3 = TRUE
  NULL = NULL
SPECIFICATION Spec
INVARIANTS TouchedHitByAll MinimumAttained CovBudget
PROPERTY SeedsDeduped
CHECK_DEADLOCK FALSE
