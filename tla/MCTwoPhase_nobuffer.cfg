\* WAIT_DIE with abort_buffer_enable=false: no transaction gets a timestamp.
CONSTANTS
  g_thread_cnt = 2
  Rows = {r1, r2}
  Val = {0}
  InitVal = 0
  Algs = {"WAIT_DIE"}
  AccessTypes = {"RD", "WR"}
  MAX_ROW_PER_TXN = 2
  ABORT_BUFFER_SIZE = 1
  abort_buffer_enable = FALSE
  MaxClock = 1
SPECIFICATION Spec
INVARIANTS
  WaitersOlderThanOwners
