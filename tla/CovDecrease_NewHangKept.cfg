CONSTANTS
  Edges <- MCEdges
  WordOf <- MCWordOf
  Lane <- MCLane
  UintMax <- MCUintMax
  Runs <- MCRuns
  Seeds = 1
  SeedLen <- MCSeedLen1
  MaxEntries = 3
  MaxExecs = 2
  CAL_CYCLES = 1
  CAL_CYCLES_LONG = 2
  CAL_CHANCES = 3
  timeout_given = TRUE
  crash_mode_lv3 = FALSE
  NULL = NULL
SPECIFICATION Spec
INVARIANT NewHangKept
CHECK_DEADLOCK FALSE
