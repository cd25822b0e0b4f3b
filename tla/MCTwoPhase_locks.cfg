\* The lock table: three threads make waiter lists of two; values do not matter.
CONSTANTS
  g_thread_cnt = 3
  Rows = {r1, r2}
  Val = {0}
  InitVal = 0
  Algs = {"NO_WAIT", "WAIT_DIE"}
  AccessTypes = {"RD", "WR"}
  MAX_ROW_PER_TXN = 2
  ABORT_BUFFER_SIZE = 1
  abort_buffer_enable = TRUE
  MaxClock = 1
SPECIFICATION Spec
INVARIANTS
  LockTable
  LockCompatibility
  WaitDie
  NoLostWakeup
