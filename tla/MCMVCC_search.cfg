\* Timestamps that exceed the_ts, as those of TS_CLOCK do, with the history length of
\* the code, which this run does not fill, and all_ts as Manager::init leaves it.
CONSTANTS
  Threads = {0, 1}
  Rows = {1}
  Queries <- ReadOrWrite
  HIS_LEN = 4
  THE_TS_BITS = 0
  FirstTs = 100
  MaxTxns = 4
SPECIFICATION Spec
INVARIANTS
  TimestampOrder
