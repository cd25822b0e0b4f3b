\* Three transactions on two threads and two rows, with pre_abort.
CONSTANTS
  Threads = {t1, t2}
  Rows = {1, 2}
  Val = {0, 1}
  InitVal = 0
  Configs <- PreAborting
  MAX_ROW_PER_TXN = 2
  SpinRounds = 1
  MaxTxns = 3
SPECIFICATION Spec
SYMMETRY Symmetry
INVARIANTS
  Serializable
  DataIsReplay
  NoTornRead
  TidNamesVersion
  AssertsHold
  LockBit
