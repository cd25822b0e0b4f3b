CONSTANTS
  Threads = {t1, t2, t3}
  Rows = {1, 2}
  Queries <- ThreeQueries
  Configs <- Plain
  InitWords <- OlderYounger
  RTS_LEN = 15
  SpinRounds = 1
  MaxTxns = 3
SPECIFICATION Spec
SYMMETRY Symmetry
INVARIANTS
  Serializable
