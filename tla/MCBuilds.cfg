\* The builds for MVCC, OCC and HSTORE; the bounds of MVCC are in MCBuilds.
CONSTANTS
  Threads <- Three
  MaxTxns = 3
  Rows <- TwoRows
  Queries <- SkewOrUpdate
  Modes <- AllModes
  Parts <- TwoRows
  PartLists <- Lists
  NotBuilt = NotBuilt
  NoTxn = NoTxn
  Torn = Torn
SPECIFICATION MCFairSpec
INVARIANTS
  MCTypeOK
  UpdatesInOrder
  ReadsInOrder
  NoLostWakeup
  OwnsPrewrite
  HistoryIsSound
  EndTsOrder
  WritersDisjoint
  OwnsWhatItUses
  BooksBalance
  WaitForOlder
PROPERTIES
  EveryTxnEnds
