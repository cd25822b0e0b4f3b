\* Two transactions on two threads and two rows, in the builds for TICTOC and SILO, with
\* all options and with none, scheduled fairly.
CONSTANTS
  Threads = {t1, t2}
  Rows = {1, 2}
  Queries <- AllQueries
  Configs <- Options
  InitWords <- Used
  RTS_LEN = 1
  SpinRounds = 1
  MaxTxns = 2
  Val = {0, 1}
  InitVal = 0
  MAX_ROW_PER_TXN = 2
  NotBuilt = NotBuilt
SPECIFICATION MCFairSpec
INVARIANTS
  TypeOK
  SiloTypeOK
  SiloSerializable
  TimestampOrder
  NoTornRead
  RowIsLatest
  WtsNamesVersion
  LockBit
PROPERTIES
  EveryTxnEnds
