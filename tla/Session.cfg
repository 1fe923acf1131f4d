CONSTANTS
  MaxRuns = 3
  is_persistent = TRUE
  max_cnt = 2
  child_kill_signal = "SIGKILL"
  server_may_die = TRUE
  add_extra_func = TRUE
SPECIFICATION SessionSpec
INVARIANTS OwnResult MapAtRest NoOrphans HandshakeAgreed
PROPERTIES RunReturns StopEnds ServerLeaves Implements
CHECK_DEADLOCK FALSE
