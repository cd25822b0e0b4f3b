------------------------------ MODULE MCBuilds ------------------------------
(***************************************************************************)
(* The builds of DBx1000 for MVCC, OCC and HSTORE, for TLC.                *)
(*                                                                         *)
(* CC_ALG is chosen when the program is built, and what belongs to another *)
(* algorithm does not exist in it.  Here it is chosen in MCInit.  This     *)
(* module extends Occ and Plock, whose variables nobody touches in other   *)
(* builds; those of MVCC are NotBuilt there.                               *)
(***************************************************************************)
EXTENDS Occ, Plock

CONSTANT NotBuilt

VARIABLES build, mvcc_pc, mvcc_query, mvcc_accesses, mvcc_hist, mvcc_started, mvcc_ts,
  mgr, mem, all_ts, min_ts, cur_row, ts_ready, disturbed

mvccVars == <<mvcc_pc, mvcc_query, mvcc_accesses, mvcc_hist, mvcc_started, mvcc_ts,
              mgr, mem, all_ts, min_ts, cur_row, ts_ready, disturbed>>
\* What Occ and Plock do not share.
onlyOccVars == <<mode, data, wts, latch, started, start_ts, end_ts, query, accesses, idx,
                 active, history, hist>>
onlyPlockVars == <<owner, waiters, ready_part, ts, parts, asked, released>>
allVars == <<build, mvccVars, onlyOccVars, onlyPlockVars, timestamp, pc>>

rd(r) == [row |-> r, type |-> "RD"]
wr(r) == [row |-> r, type |-> "WR"]

Three == 0..2
Two == 0..1
OneRow == {1}
TwoRows == {1, 2}

\* MVCC four times, with all_ts as Manager::init leaves it, larger than every
\* timestamp, and mostly with a the_ts of no bits, as TS_CLOCK makes it: every
\* timestamp is larger than what the_ts can hold.
\*
\* Three readers and writers of one row, whose history doubles.
ReadOrWrite == {<<rd(1)>>, <<wr(1)>>}
Mvcc == INSTANCE MVCC WITH
  Threads <- Three, Rows <- OneRow, Queries <- ReadOrWrite, MaxTxns <- 3,
  HIS_LEN <- 1, THE_TS_BITS <- 0, FirstTs <- 100,
  pc <- mvcc_pc, ts <- mvcc_ts, query <- mvcc_query, accesses <- mvcc_accesses,
  hist <- mvcc_hist, started <- mvcc_started

\* Transactions that write two rows, or read the one and write the other.
ReadAndWrite == {<<wr(1), wr(2)>>, <<rd(2), wr(1)>>}
Mvcc2 == INSTANCE MVCC WITH
  Threads <- Three, Rows <- TwoRows, Queries <- ReadAndWrite, MaxTxns <- 3,
  HIS_LEN <- 1, THE_TS_BITS <- 0, FirstTs <- 100,
  pc <- mvcc_pc, ts <- mvcc_ts, query <- mvcc_query, accesses <- mvcc_accesses,
  hist <- mvcc_hist, started <- mvcc_started

\* Two threads that go on until versions are recycled under a reader, and searched
\* in a history that is filled from its end.
MvccW == INSTANCE MVCC WITH
  Threads <- Two, Rows <- OneRow, Queries <- ReadOrWrite, MaxTxns <- 5,
  HIS_LEN <- 3, THE_TS_BITS <- 0, FirstTs <- 100,
  pc <- mvcc_pc, ts <- mvcc_ts, query <- mvcc_query, accesses <- mvcc_accesses,
  hist <- mvcc_hist, started <- mvcc_started

\* The same search with timestamps that fit the_ts, as those of TS_CAS do.
MvccT == INSTANCE MVCC WITH
  Threads <- Two, Rows <- OneRow, Queries <- ReadOrWrite, MaxTxns <- 4,
  HIS_LEN <- 3, THE_TS_BITS <- 8, FirstTs <- 100,
  pc <- mvcc_pc, ts <- mvcc_ts, query <- mvcc_query, accesses <- mvcc_accesses,
  hist <- mvcc_hist, started <- mvcc_started

\* Write skew, lost updates and rows latched in different orders.
SkewOrUpdate == {<<rd(1), wr(2)>>, <<rd(2), wr(1)>>, <<wr(2), wr(1)>>}
AllModes == {"per_row", "bounded", "central"}

\* Three transactions make queues of two, and wait in two queues at once.
Lists == {<<1>>, <<1, 2>>, <<2, 1>>}

NoMvcc ==
  /\ mvcc_pc = NotBuilt /\ mvcc_query = NotBuilt /\ mvcc_accesses = NotBuilt
  /\ mvcc_hist = NotBuilt /\ mvcc_started = NotBuilt /\ mvcc_ts = NotBuilt
  /\ mgr = NotBuilt /\ mem = NotBuilt /\ all_ts = NotBuilt
  /\ min_ts = NotBuilt /\ cur_row = NotBuilt /\ ts_ready = NotBuilt /\ disturbed = NotBuilt

MCInit ==
  /\ Init /\ PlockInit
  /\ \/ build = "MVCC" /\ Mvcc!Init /\ disturbed = {}
     \/ build = "MVCC2" /\ Mvcc2!Init /\ disturbed = {}
     \/ build = "MVCCW" /\ MvccW!Init /\ disturbed = {}
     \/ build = "MVCCT" /\ MvccT!Init /\ disturbed = {}
     \/ build \in {"OCC", "HSTORE"} /\ NoMvcc
  /\ build # "OCC" => mode = "per_row"

Others == UNCHANGED <<build, onlyOccVars, onlyPlockVars, timestamp, pc>>

\* The timestamps of the transactions that have been disturbed.
Disturb(Disturbed(_)) ==
  disturbed' = disturbed \cup {mvcc_ts[t] : t \in {u \in DOMAIN mvcc_pc : Disturbed(u)}}

Thread(t) ==
  \/ build = "MVCC" /\ Mvcc!Step(t) /\ Disturb(Mvcc!Disturbed) /\ Others
  \/ build = "MVCC2" /\ Mvcc2!Step(t) /\ Disturb(Mvcc2!Disturbed) /\ Others
  \/ build = "MVCCW" /\ t # 2 /\ MvccW!Step(t) /\ Disturb(MvccW!Disturbed) /\ Others
  \/ build = "MVCCT" /\ t # 2 /\ MvccT!Step(t) /\ Disturb(MvccT!Disturbed) /\ Others
  \/ build = "OCC" /\ t # 2 /\ Step(t) /\ UNCHANGED <<build, mvccVars, onlyPlockVars>>
  \/ build = "HSTORE" /\ PlockStep(t) /\ UNCHANGED <<build, mvccVars, onlyOccVars>>

EndedHere ==
  \/ build = "MVCC" /\ Mvcc!Ended
  \/ build = "MVCC2" /\ Mvcc2!Ended
  \/ build = "MVCCW" /\ MvccW!Ended
  \/ build = "MVCCT" /\ MvccT!Ended
  \/ build = "OCC" /\ Ended
  \/ build = "HSTORE" /\ PlockEnded

MCNext == (EndedHere /\ UNCHANGED allVars) \/ \E t \in Threads : Thread(t)

\* The operating system keeps scheduling every thread, as in each FairSpec.
MCFairSpec == MCInit /\ [][MCNext]_allVars /\ \A t \in Threads : WF_allVars(Thread(t))

-----------------------------------------------------------------------------
(***************************************************************************)
(* Properties                                                              *)
(***************************************************************************)

\* P of the build for MVCC that was chosen.
EveryMvcc(P1, P2, PW, PT) ==
  /\ (build = "MVCC" => P1) /\ (build = "MVCC2" => P2)
  /\ (build = "MVCCW" => PW) /\ (build = "MVCCT" => PT)

\* The type invariant of the component that was built.
MCTypeOK ==
  /\ build = "HSTORE" => PlockTypeOK
  /\ EveryMvcc(Mvcc!TypeOK, Mvcc2!TypeOK, MvccW!TypeOK, MvccT!TypeOK)
  /\ build = "OCC" => TypeOK

\* MVCC: a committed transaction has read, of every row it also writes, what the last
\* transaction before it by timestamp wrote, whatever happens to readers: no update
\* is lost, and none starts from an old version.
UpdatesInOrder ==
  EveryMvcc(Mvcc!UpdatesInOrder, Mvcc2!UpdatesInOrder, MvccW!UpdatesInOrder, MvccT!UpdatesInOrder)

\* MVCC: and it has read that of every row, unless, as a reader, it was disturbed:
\* misled by a search with a the_ts that is too narrow, passed by min_ts before it had
\* published its timestamp, or caught using a version by pointer when the history of
\* the row was full.  Nothing else makes a reader see a wrong version.
ReadsInOrder ==
  EveryMvcc(Mvcc!OrderExcept(disturbed), Mvcc2!OrderExcept(disturbed),
            MvccW!OrderExcept(disturbed), MvccT!OrderExcept(disturbed))

\* MVCC: a request is pending only as long as the older prewrite it waits for is
\* there: nobody is left waiting for a wake-up that update_buffer gave before.
NoLostWakeup ==
  EveryMvcc(Mvcc!NoLostWakeup, Mvcc2!NoLostWakeup, MvccW!NoLostWakeup, MvccT!NoLostWakeup)

\* MVCC: a reserved version stays its transaction's own until it is returned.
OwnsPrewrite ==
  EveryMvcc(Mvcc!OwnsPrewrite, Mvcc2!OwnsPrewrite, MvccW!OwnsPrewrite, MvccT!OwnsPrewrite)

\* MVCC: reserveRow keeps the books on the history of a row.
HistoryIsSound ==
  EveryMvcc(Mvcc!HistoryIsSound, Mvcc2!HistoryIsSound, MvccW!HistoryIsSound, MvccT!HistoryIsSound)

\* Every transaction ends: in MVCC because every wait is for an older prewrite, in
\* OCC because latches are taken in the order of the keys, or not for long, and in
\* HSTORE because a transaction is only ever queued behind older ones.
EveryTxnEnds == <>EndedHere

=============================================================================
