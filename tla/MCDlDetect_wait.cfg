\* Waiting that ends, by the search for deadlocks or by wait-die, never by a time-out:
\* three threads make a waiter list of two and searches that start outside a loop.
CONSTANTS
  g_thread_cnt = 3
  r1 = r1
  r2 = r2
  Rows = {r1, r2}
  Val = {0}
  InitVal = 0
  Algs = {"WAIT_DIE", "DL_DETECT"}
  AccessTypes = {"WR"}
  MAX_ROW_PER_TXN = 2
  ABORT_BUFFER_SIZE = 1
  abort_buffer_enable = TRUE
  MaxClock = 1
  NoTxn = NoTxn
SPECIFICATION MCFairSpec
INVARIANTS
  DlTypeOK
  LockTable
  EdgesStayComplete
  EdgesStayTrue
PROPERTIES
  WaitEnds
