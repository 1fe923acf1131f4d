CONSTANTS
  MaxRuns = 2
  is_persistent = FALSE
  max_cnt = 1
  child_kill_signal = "SIGKILL"
  server_may_die = FALSE
  add_extra_func = FALSE
SPECIFICATION SessionSpec
INVARIANT RequestedRun
CHECK_DEADLOCK FALSE
