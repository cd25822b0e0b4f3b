-------------------------------- MODULE Occ ---------------------------------
(***************************************************************************)
(* Optimistic concurrency control (CC_ALG OCC) of DBx1000.                 *)
(*                                                                         *)
(* A transaction works on copies of the rows it accesses and is validated  *)
(* when it is done.  OptCC::validate comes in two forms:                   *)
(*                                                                         *)
(*   per row  (PER_ROW_VALID) all accessed rows are latched, in the order  *)
(*            of their keys, and none may have been written since the      *)
(*            transaction started; with BOUNDED_SPINNING they are latched  *)
(*            in any order and a latch that is not free in time aborts;    *)
(*   central  the transaction is tested against those that have committed  *)
(*            since it started and those that are being validated.         *)
(*                                                                         *)
(* Transactions are known by their start_ts, which Manager::get_ts makes   *)
(* unique; a row holds the start_ts of its last writer, 0 for the loader,  *)
(* and Torn while it is being overwritten.                                 *)
(***************************************************************************)
EXTENDS Worker, SequencesExt

CONSTANTS Rows,      \* the rows, as numbers in the order of their keys
          Queries,   \* the queries considered: sequences of Request
          Modes,     \* the forms considered: a subset of Mode
          Torn       \* the contents of a row that is half overwritten

VARIABLES
  mode,        \* the form of validation the program was built with
  data,        \* the contents of each row
  wts,         \* Row_occ::wts
  latch,       \* the thread that holds Row_occ::_latch
  started,     \* number of transactions started so far
  start_ts,    \* txn_man::start_ts
  end_ts,      \* txn_man::end_ts
  query,       \* its requests
  accesses,    \* txn_man::accesses
  idx,         \* how far its loop has come
  active,      \* OptCC::active
  history,     \* OptCC::history, its length is tnc
  hist         \* history variable: the transactions that passed validation

vars == <<mode, data, wts, latch, timestamp, started, start_ts, end_ts, pc, query, accesses, idx,
          active, history, hist>>
rowVars == <<data, wts, latch>>
tsVars == <<timestamp, started, start_ts, end_ts>>
centralVars == <<active, history>>

-----------------------------------------------------------------------------
(***************************************************************************)
(* Types                                                                   *)
(***************************************************************************)
Mode == {"per_row", "bounded", "central"}
PerRow == mode \in {"per_row", "bounded"}
Request == [row: Rows, type: {"RD", "WR"}]
Version == 0..(2 * MaxTxns)
Access == [row: Rows, type: {"RD", "WR"}, read: Version \cup {Torn}]

TypeOK ==
  /\ mode \in Mode
  /\ data \in [Rows -> Version \cup {Torn}]
  /\ wts \in [Rows -> Version]
  /\ latch \in [Rows -> Threads \cup {NoTxn}]
  /\ timestamp \in Version
  /\ started \in 0..MaxTxns
  /\ start_ts \in [Threads -> Version]
  /\ end_ts \in [Threads -> Version]
  /\ pc \in [Threads -> {"idle", "exec", "latch", "central", "write", "copy", "release", "leave", "drop"}]
  /\ query \in [Threads -> Queries \cup {<<>>}]
  /\ accesses \in [Threads -> Seq(Access)]
  /\ idx \in [Threads -> Nat]
  /\ active \in SUBSET Threads
  /\ history \in Seq(SUBSET Rows)
  /\ hist \subseteq [ts: Version, end: Version, reads: SUBSET (Rows \X (Version \cup {Torn})),
                     writes: SUBSET Rows]

Init ==
  /\ mode \in Modes
  /\ data = [r \in Rows |-> 0]
  /\ wts = [r \in Rows |-> 0]
  /\ latch = [r \in Rows |-> NoTxn]
  /\ timestamp = 0
  /\ started = 0
  /\ start_ts = [t \in Threads |-> 0]
  /\ end_ts = [t \in Threads |-> 0]
  /\ pc = [t \in Threads |-> "idle"]
  /\ query = [t \in Threads |-> <<>>]
  /\ accesses = [t \in Threads |-> <<>>]
  /\ idx = [t \in Threads |-> 0]
  /\ active = {}
  /\ history = <<>>
  /\ hist = {}

-----------------------------------------------------------------------------
(***************************************************************************)
(* thread_t::run and Row_occ::access                                       *)
(***************************************************************************)

\* A new or retried query; start_ts is taken from the global counter.
NewQuery(t, q) ==
  /\ pc[t] = "idle"
  /\ started < MaxTxns
  /\ started' = started + 1
  /\ timestamp' = timestamp + 1
  /\ start_ts' = [start_ts EXCEPT ![t] = timestamp + 1]
  /\ query' = [query EXCEPT ![t] = q]
  /\ accesses' = [accesses EXCEPT ![t] = <<>>]
  /\ Goto(t, "exec")
  /\ UNCHANGED <<mode, rowVars, end_ts, idx, centralVars, hist>>

\* Every query has been run.
Ended == started = MaxTxns /\ \A t \in Threads : pc[t] = "idle"
AllDone == Ended /\ UNCHANGED vars

Asks(t) == pc[t] = "exec" /\ Len(accesses[t]) < Len(query[t])
Req(t) == query[t][Len(accesses[t]) + 1]

\* The row is copied under its latch.
ReadRow(t) ==
  /\ Asks(t)
  /\ latch[Req(t).row] = NoTxn
  /\ start_ts[t] >= wts[Req(t).row]
  /\ accesses' = [accesses EXCEPT ![t] =
       Append(@, [row |-> Req(t).row, type |-> Req(t).type, read |-> data[Req(t).row]])]
  /\ UNCHANGED <<mode, rowVars, tsVars, pc, query, idx, centralVars, hist>>

\* It was written after the transaction had started: Abort.
ReadAborts(t) ==
  /\ Asks(t)
  /\ latch[Req(t).row] = NoTxn
  /\ start_ts[t] < wts[Req(t).row]
  /\ Goto(t, "idle")
  /\ UNCHANGED <<mode, rowVars, tsVars, query, accesses, idx, centralVars, hist>>

-----------------------------------------------------------------------------
(***************************************************************************)
(* OptCC::per_row_validate                                                 *)
(***************************************************************************)

\* A mutant: the rows are latched in the order in which they were accessed.
LatchOrder_AsAccessed(t, p) == \A i, j \in DOMAIN p : i < j => p[i] < p[j]

\* The sort by primary key: p has the places of the accesses before the sort.
LatchOrder(t, p) ==
  \A i, j \in DOMAIN p : i < j =>
    IF mode = "per_row" THEN accesses[t][p[i]].row <= accesses[t][p[j]].row ELSE p[i] < p[j]

\* The workload is done.
StartValidate(t) ==
  /\ pc[t] = "exec" /\ Len(accesses[t]) = Len(query[t])
  /\ \/ /\ PerRow
        /\ \E p \in SetToSeqs(DOMAIN accesses[t]) :
             /\ LatchOrder(t, p)
             /\ accesses' = [accesses EXCEPT ![t] = [i \in DOMAIN p |-> @[p[i]]]]
        /\ Goto(t, "latch")
     \/ ~PerRow /\ UNCHANGED accesses /\ Goto(t, "central")
  /\ idx' = [idx EXCEPT ![t] = 0]
  /\ UNCHANGED <<mode, rowVars, tsVars, query, centralVars, hist>>

\* A mutant: the row is latched and not validated.
LatchRow_NoTest(t) ==
  /\ pc[t] = "latch" /\ idx[t] < Len(accesses[t])
  /\ LET r == accesses[t][idx[t] + 1].row IN
     /\ latch[r] = NoTxn
     /\ latch' = [latch EXCEPT ![r] = t]
  /\ idx' = [idx EXCEPT ![t] = @ + 1]
  /\ UNCHANGED <<mode, data, wts, tsVars, pc, query, accesses, centralVars, hist>>

\* The next row is latched; validate: nobody may have written it since.
LatchRow(t) ==
  /\ pc[t] = "latch" /\ idx[t] < Len(accesses[t])
  /\ LET r == accesses[t][idx[t] + 1].row IN
     /\ latch[r] = NoTxn
     /\ latch' = [latch EXCEPT ![r] = t]
     /\ IF start_ts[t] < wts[r] THEN Goto(t, "release") ELSE UNCHANGED pc
  /\ idx' = [idx EXCEPT ![t] = @ + 1]
  /\ UNCHANGED <<mode, data, wts, tsVars, query, accesses, centralVars, hist>>

\* try_latch gives up.
TryLatchFails(t) ==
  /\ mode = "bounded"
  /\ pc[t] = "latch" /\ idx[t] < Len(accesses[t])
  /\ latch[accesses[t][idx[t] + 1].row] # NoTxn
  /\ Goto(t, "release")
  /\ UNCHANGED <<mode, rowVars, tsVars, query, accesses, idx, centralVars, hist>>

WriteSet(t) == {accesses[t][i].row : i \in {k \in DOMAIN accesses[t] : accesses[t][k].type = "WR"}}
ReadSet(t) == {accesses[t][i].row : i \in {k \in DOMAIN accesses[t] : accesses[t][k].type = "RD"}}

\* The transaction has passed validation.
Validated(t, end) ==
  hist' = hist \cup {[ts |-> start_ts[t], end |-> end,
    reads |-> {<<accesses[t][i].row, accesses[t][i].read>> : i \in DOMAIN accesses[t]},
    writes |-> WriteSet(t)]}

\* All rows are latched and valid: end_ts is taken from the counter.
TakeEndTs(t) ==
  /\ pc[t] = "latch" /\ idx[t] = Len(accesses[t])
  /\ timestamp' = timestamp + 1
  /\ end_ts' = [end_ts EXCEPT ![t] = timestamp + 1]
  /\ Validated(t, timestamp + 1)
  /\ Goto(t, "write")
  /\ UNCHANGED <<mode, rowVars, started, start_ts, query, accesses, idx, centralVars>>

-----------------------------------------------------------------------------
(***************************************************************************)
(* txn_man::cleanup(RCOK) and Row_occ::write                               *)
(***************************************************************************)

\* Rows are written from the last access to the first; idx counts down.  A row is
\* torn as long as it is copied.
Writes(t) == idx[t] > 0 /\ accesses[t][idx[t]].type = "WR"

StartCopy(t) ==
  /\ pc[t] = "write" /\ Writes(t)
  /\ data' = [data EXCEPT ![accesses[t][idx[t]].row] = Torn]
  /\ Goto(t, "copy")
  /\ UNCHANGED <<mode, wts, latch, tsVars, query, accesses, idx, centralVars, hist>>

\* A mutant: every row that is written gets a timestamp of its own.
EndCopy_OwnTs(t) ==
  LET r == accesses[t][idx[t]].row IN
  /\ pc[t] = "copy"
  /\ data' = [data EXCEPT ![r] = start_ts[t]]
  /\ timestamp' = timestamp + 1
  /\ wts' = IF PerRow THEN [wts EXCEPT ![r] = timestamp + 1] ELSE wts
  /\ idx' = [idx EXCEPT ![t] = @ - 1]
  /\ Goto(t, "write")
  /\ UNCHANGED <<mode, latch, started, start_ts, end_ts, query, accesses, centralVars, hist>>

\* The copy is complete and, in the per-row form, the row gets its new wts.
EndCopy(t) ==
  LET r == accesses[t][idx[t]].row IN
  /\ pc[t] = "copy"
  /\ data' = [data EXCEPT ![r] = start_ts[t]]
  /\ wts' = IF PerRow THEN [wts EXCEPT ![r] = end_ts[t]] ELSE wts
  /\ idx' = [idx EXCEPT ![t] = @ - 1]
  /\ Goto(t, "write")
  /\ UNCHANGED <<mode, latch, tsVars, query, accesses, centralVars, hist>>

\* A row that was only read is skipped.
SkipRead(t) ==
  /\ pc[t] = "write" /\ idx[t] > 0 /\ ~Writes(t)
  /\ idx' = [idx EXCEPT ![t] = @ - 1]
  /\ UNCHANGED <<mode, rowVars, tsVars, pc, query, accesses, centralVars, hist>>

\* All rows are written.
WriteDone(t) ==
  /\ pc[t] = "write" /\ idx[t] = 0
  /\ Goto(t, IF PerRow THEN "release" ELSE "leave")
  /\ UNCHANGED <<mode, rowVars, tsVars, query, accesses, idx, centralVars, hist>>

\* The latches are released, in the order of the rows or, with scoped latches, in
\* the opposite one.
ReleaseLatch(t) ==
  /\ pc[t] = "release"
  /\ \E r \in Rows : latch[r] = t /\ latch' = [latch EXCEPT ![r] = NoTxn]
  /\ UNCHANGED <<mode, data, wts, tsVars, pc, query, accesses, idx, centralVars, hist>>

ReleaseDone(t) ==
  /\ pc[t] = "release" /\ \A r \in Rows : latch[r] # t
  /\ Goto(t, "idle")
  /\ UNCHANGED <<mode, rowVars, tsVars, query, accesses, idx, centralVars, hist>>

-----------------------------------------------------------------------------
(***************************************************************************)
(* OptCC::central_validate                                                 *)
(***************************************************************************)
tnc == Len(history)

\* test_valid against the write sets of the transactions that have committed since:
\* with a transaction number above start_tn, which is the start_ts.
HistoryValid(t) ==
  \A tn \in 1..tnc : tn > start_ts[t] => history[tn] \cap ReadSet(t) = {}

\* A mutant: writes are not tested against writes.
ActiveValid_ReadsOnly(t) == \A u \in active : WriteSet(u) \cap ReadSet(t) = {}

\* and of those that were being validated already.
ActiveValid(t) == \A u \in active : WriteSet(u) \cap (ReadSet(t) \cup WriteSet(t)) = {}

\* Under the latch the transaction takes a snapshot of history and active and joins
\* active unless it is readonly.  It tests the snapshot after the latch is released;
\* the lists it refers to do not change any more, so that the outcome is certain now.
Enter(t) ==
  /\ pc[t] = "central"
  /\ active' = IF WriteSet(t) = {} THEN active ELSE active \cup {t}
  /\ \/ /\ HistoryValid(t) /\ ActiveValid(t)
        /\ Validated(t, 0)
        /\ idx' = [idx EXCEPT ![t] = Len(accesses[t])]
        /\ Goto(t, "write")
     \/ /\ ~(HistoryValid(t) /\ ActiveValid(t))
        /\ Goto(t, "drop")
        /\ UNCHANGED <<idx, hist>>
  /\ UNCHANGED <<mode, rowVars, tsVars, query, accesses, history>>

\* It leaves active and, if it was valid, its write set enters the history.
Leave(t) ==
  /\ pc[t] \in {"leave", "drop"}
  /\ active' = active \ {t}
  /\ history' = IF t \in active /\ pc[t] = "leave" THEN Append(history, WriteSet(t)) ELSE history
  /\ Goto(t, "idle")
  /\ UNCHANGED <<mode, rowVars, tsVars, query, accesses, idx, hist>>

-----------------------------------------------------------------------------
Step(t) ==
  \/ \E q \in Queries : NewQuery(t, q)
  \/ ReadRow(t) \/ ReadAborts(t) \/ StartValidate(t)
  \/ LatchRow(t) \/ TryLatchFails(t) \/ TakeEndTs(t)
  \/ StartCopy(t) \/ EndCopy(t) \/ SkipRead(t) \/ WriteDone(t)
  \/ ReleaseLatch(t) \/ ReleaseDone(t)
  \/ Enter(t) \/ Leave(t)

Next == AllDone \/ \E t \in Threads : Step(t)

Spec == Init /\ [][Next]_vars

\* The operating system keeps scheduling every thread.
FairSpec == Spec /\ \A t \in Threads : WF_vars(Step(t))

-----------------------------------------------------------------------------
(***************************************************************************)
(* Properties                                                              *)
(***************************************************************************)

\* Of row r, e has read what the last of the transactions in before wrote.
ReadsLastOf(e, r, v, before) ==
  LET w == {f \in before : r \in f.writes} IN
  v = IF w = {} THEN 0 ELSE (CHOOSE f \in w : \A g \in w : g.end <= f.end).ts

\* Per-row validation lets transactions commit in the order of their end_ts: each
\* has read, of each row, what the last one before it wrote, never a torn row,
\* although rows are only latched one by one and start_ts says nothing about when
\* they were read.
EndTsOrder ==
  PerRow => \A e \in hist : \A p \in e.reads :
    ReadsLastOf(e, p[1], p[2], {f \in hist : f.end < e.end})

\* No two transactions write the same row at once: with central validation nothing
\* but the snapshot of the active list prevents it.
WritersDisjoint ==
  \A t, u \in Threads :
    t # u /\ pc[t] \in {"write", "copy"} /\ pc[u] \in {"write", "copy"} =>
      WriteSet(t) \cap WriteSet(u) = {}

\* The transactions that commit are serializable: one after the other, in some
\* order, they would have read the same.
Serializable ==
  \E order \in {s \in [1..Cardinality(hist) -> hist] : \A m, n \in DOMAIN s : s[m] = s[n] => m = n} :
    \A n \in DOMAIN order : \A p \in order[n].reads :
      LET w == {m \in 1..(n - 1) : p[1] \in order[m].writes} IN
      p[2] = IF w = {} THEN 0 ELSE order[Max(w)].ts

=============================================================================
