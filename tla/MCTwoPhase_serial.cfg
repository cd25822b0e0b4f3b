\* Reads, writes in place and rollback: two threads, two rows, two values.
CONSTANTS
  g_thread_cnt = 2
  Rows = {r1, r2}
  Val = {0, 1}
  InitVal = 0
  Algs = {"NO_WAIT", "WAIT_DIE", "DL_DETECT"}
  AccessTypes = {"RD", "WR"}
  MAX_ROW_PER_TXN = 2
  ABORT_BUFFER_SIZE = 1
  abort_buffer_enable = TRUE
  MaxClock = 1
SPECIFICATION Spec
INVARIANTS
  TypeOK
  AbortBufferHasRoom
  Isolation
PROPERTIES
  Serializable
