\* More versions than a row keeps, with the history length of the code and all_ts as
\* Manager::init leaves it; no timestamp of the run is cut to the width of the_ts.
CONSTANTS
  Threads = {0, 1}
  Rows = {1}
  Queries <- ReadOrWrite
  HIS_LEN = 4
  THE_TS_BITS = 30
  FirstTs = 100
  MaxTxns = 6
SPECIFICATION Spec
INVARIANTS
  TimestampOrder
