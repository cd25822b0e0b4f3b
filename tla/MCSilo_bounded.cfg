\* Bounded spinning without pre_abort.
CONSTANTS
  Threads = {t1, t2}
  Rows = {1, 2}
  Val = {0, 1}
  InitVal = 0
  Configs <- BoundedOnly
  MAX_ROW_PER_TXN = 2
  SpinRounds = 1
  MaxTxns = 2
SPECIFICATION Spec
INVARIANTS
  AssertsHold
