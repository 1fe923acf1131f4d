CONSTANTS
  Lengths = {4, 5, 7}
  TRIM_MIN_BYTES = 1
  TRIM_START_STEPS = 4
  TRIM_END_STEPS = 8
  MaxStage = 2
  MaxShort = 2
  write_may_fail = TRUE
SPECIFICATION Spec
INVARIANTS KeptIsAccepted ScoredOwn FileWhole
PROPERTY TrimEnds
CHECK_DEADLOCK FALSE
