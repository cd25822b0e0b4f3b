-------------------------------- MODULE MVCC --------------------------------
(***************************************************************************)
(* Multi-version concurrency control (CC_ALG MVCC) of DBx1000.             *)
(*                                                                         *)
(* A transaction gets a timestamp when it starts.  Row_mvcc keeps a number *)
(* of committed versions of a row, at most one version that is being       *)
(* written (a prewrite, P_REQ), and the requests that must wait for it.    *)
(* Reads are served from the version the timestamp selects; a prewrite     *)
(* that comes too late aborts.  A transaction uses the memory of a version *)
(* directly, by a pointer (row.cpp: "the version will be returned instead  *)
(* of a copy"), long after the latch of the row was released.              *)
(*                                                                         *)
(* Row_mvcc::access runs under the latch of the row and is one step, the   *)
(* use of the memory it returns is another.  Transactions are known by     *)
(* their timestamps, which g_ts_alloc makes unique; a version holds the    *)
(* timestamp of its writer, 0 for the loader.                              *)
(***************************************************************************)
EXTENDS Naturals, SequencesExt

CONSTANTS Threads,      \* the thread ids, a set of numbers; 0 refreshes min_ts
          Rows,         \* the rows
          Queries,      \* the queries considered: sequences of Request
          HIS_LEN,      \* initial size of _write_history (4 in the code)
          THE_TS_BITS,  \* width of the local variable the_ts (32 in the code)
          FirstTs,      \* all_ts of a thread that has not published one yet
          MaxTxns       \* BOUND on the transactions all threads run

VARIABLES
  mgr,        \* the Row_mvcc of each row
  mem,        \* mem[r]: the memory of the versions of row r, by cell
  started,    \* timestamps handed out so far
  ts,         \* the timestamp of the transaction of each thread
  all_ts,     \* Manager::all_ts
  min_ts,     \* Manager::_min_ts
  pc,         \* where each thread is
  query,      \* its requests
  cur_row,    \* txn_man::cur_row, a cell
  ts_ready,   \* txn_man::ts_ready
  accesses,   \* txn_man::accesses
  hist        \* history: the committed transactions

vars == <<mgr, mem, started, ts, all_ts, min_ts, pc, query, cur_row, ts_ready, accesses, hist>>
tsVars == <<started, ts, all_ts>>

-----------------------------------------------------------------------------
(***************************************************************************)
(* Types                                                                   *)
(***************************************************************************)
Ts == 0..MaxTxns
NULL == 0
Request == [row: Rows, type: {"RD", "WR"}]

\* WriteHisEntry and ReqEntry.
WriteHisEntry == [valid: BOOLEAN, reserved: BOOLEAN, ts: Ts, row: Nat]
ReqEntry == [type: {"R_REQ", "P_REQ"}, ts: Ts, txn: Threads]
NoEntry == [valid |-> FALSE, reserved |-> FALSE, ts |-> 0, row |-> NULL]

Access == [row: Rows, type: {"RD", "WR"}, data: Nat, read: Ts]

RowMvcc ==
  [_row: Nat, _latest_row: Nat, _latest_wts: Ts, _oldest_wts: Ts,
   _write_history: Seq(WriteHisEntry), _num_versions: Nat,
   _exists_prewrite: BOOLEAN, _prewrite_ts: Ts, _prewrite_his_id: Nat,
   _max_served_rts: Ts, _requests: SUBSET ReqEntry]

TypeOK ==
  /\ mgr \in [Rows -> RowMvcc]
  /\ mem \in [Rows -> Seq(Ts)]
  /\ started \in Ts
  /\ ts \in [Threads -> Ts]
  /\ all_ts \in [Threads -> Ts \cup {FirstTs}]
  /\ min_ts \in Nat
  /\ pc \in [Threads -> {"idle", "publish", "exec", "wait", "use", "commit", "abort"}]
  /\ query \in [Threads -> Queries \cup {<<>>}]
  /\ cur_row \in [Threads -> Nat]
  /\ ts_ready \in [Threads -> BOOLEAN]
  /\ accesses \in [Threads -> Seq(Access)]
  /\ hist \subseteq [ts: Ts, reads: SUBSET (Rows \X Ts), writes: SUBSET Rows]

\* Row_mvcc::init; cell 1 is the row the loader has filled.
Init ==
  /\ mgr = [r \in Rows |->
       [_row |-> 1, _latest_row |-> 1, _latest_wts |-> 0, _oldest_wts |-> 0,
        _write_history |-> [i \in 1..HIS_LEN |-> NoEntry], _num_versions |-> 0,
        _exists_prewrite |-> FALSE, _prewrite_ts |-> 0, _prewrite_his_id |-> 1,
        _max_served_rts |-> 0, _requests |-> {}]]
  /\ mem = [r \in Rows |-> <<0>>]
  /\ started = 0
  /\ ts = [t \in Threads |-> 0]
  /\ all_ts = [t \in Threads |-> FirstTs]
  /\ min_ts = 0
  /\ pc = [t \in Threads |-> "idle"]
  /\ query = [t \in Threads |-> <<>>]
  /\ cur_row = [t \in Threads |-> NULL]
  /\ ts_ready = [t \in Threads |-> FALSE]
  /\ accesses = [t \in Threads |-> <<>>]
  /\ hist = {}

-----------------------------------------------------------------------------
(***************************************************************************)
(* Row_mvcc::reserveRow, on the Row_mvcc m                                 *)
(***************************************************************************)
Valid(m) == {i \in DOMAIN m._write_history : m._write_history[i].valid}
EntryTs(m, i) == m._write_history[i].ts
Newest(m, I) == CHOOSE i \in I : \A j \in I : EntryTs(m, j) <= EntryTs(m, i)
Oldest(m, I) == CHOOSE i \in I : \A j \in I : EntryTs(m, i) <= EntryTs(m, j)

\* Garbage collection, when the history is full: the newest version older than
\* every running transaction becomes _row, and it and all before it leave the
\* history.
Gc(m, min) ==
  LET h == m._write_history
      old == {i \in Valid(m) : EntryTs(m, i) < min} IN
  IF ~(m._oldest_wts < min /\ m._num_versions = Len(h) /\ old # {}) THEN m
  ELSE LET idx == Newest(m, old)
           gone == {i \in Valid(m) : EntryTs(m, i) <= EntryTs(m, idx)}
       IN [m EXCEPT
             !._row = h[idx].row,
             !._oldest_wts = EntryTs(m, idx),
             !._write_history = [i \in DOMAIN h |->
               IF i \notin gone THEN h[i]
               ELSE [h[i] EXCEPT !.valid = FALSE, !.reserved = FALSE,
                                 !.row = IF i = idx THEN m._row ELSE h[i].row]],
             !._num_versions = @ - Cardinality(gone)]

Unused(m) ==
  {i \in DOMAIN m._write_history : ~m._write_history[i].valid /\ ~m._write_history[i].reserved}

\* The first unused entry that has memory, else the last unused one.
UnusedSlot(m) ==
  LET rows == {i \in Unused(m) : m._write_history[i].row # NULL} IN
  IF rows # {} THEN Min(rows) ELSE Max(Unused(m))

\* A mutant: the oldest version becomes _row and keeps its memory.
Recycle_KeepsRow(m) ==
  LET idx == Oldest(m, Valid(m)) IN
  [m EXCEPT !._row = m._write_history[idx].row,
            !._oldest_wts = EntryTs(m, idx),
            !._num_versions = @ - 1]

\* The oldest version becomes _row, and the memory of the old _row is reused.
Recycle(m) ==
  LET idx == Oldest(m, Valid(m)) IN
  [m EXCEPT !._row = m._write_history[idx].row,
            !._write_history[idx].row = m._row,
            !._oldest_wts = EntryTs(m, idx),
            !._num_versions = @ - 1]

\* double_list(0).
Double(m) == [m EXCEPT !._write_history = @ \o [i \in DOMAIN @ |-> NoEntry]]

\* The Row_mvcc after reserveRow, and before its entry idx is set up.
MadeRoom(m) ==
  IF m._num_versions < Len(m._write_history) THEN [row |-> m, idx |-> UnusedSlot(m)]
  ELSE IF Len(m._write_history) >= Cardinality(Threads)
       THEN [row |-> Recycle(m), idx |-> Oldest(m, Valid(m))]
       ELSE [row |-> Double(m), idx |-> Len(m._write_history) + 1]

\* reserveRow; an entry without memory gets the next cell, cells + 1.
reserveRow(m, p_ts, min, cells) ==
  LET room == MadeRoom(Gc(m, min))
      row == room.row._write_history[room.idx].row
  IN [room.row EXCEPT
        !._write_history[room.idx] =
          [valid |-> FALSE, reserved |-> TRUE, ts |-> p_ts, row |-> IF row = NULL THEN cells + 1 ELSE row],
        !._exists_prewrite = TRUE,
        !._prewrite_his_id = room.idx,
        !._prewrite_ts = p_ts]

\* The memory a prewrite has been given,
PrewriteRow(m) == m._write_history[m._prewrite_his_id].row

\* A mutant: the oldest version is copied into it.
CopyLatest_Oldest(m, cells) ==
  LET c == PrewriteRow(m)
      oldest == cells[m._row]
  IN IF c > Len(cells) THEN Append(cells, oldest) ELSE [cells EXCEPT ![c] = oldest]

\* into which the latest version is copied.
CopyLatest(m, cells) ==
  LET c == PrewriteRow(m)
      latest == cells[m._latest_row]
  IN IF c > Len(cells) THEN Append(cells, latest) ELSE [cells EXCEPT ![c] = latest]

\* Manager::get_min_ts called by thread t: only thread 0 looks at all_ts.
get_min_ts(t) ==
  LET min == Min({all_ts[u] : u \in Threads}) IN
  IF t = 0 /\ min > min_ts THEN min ELSE min_ts

-----------------------------------------------------------------------------
(***************************************************************************)
(* thread_t::run                                                           *)
(***************************************************************************)
Goto(t, where) == pc' = [pc EXCEPT ![t] = where]

\* A new or retried query gets a timestamp,
NewQuery(t, q) ==
  /\ pc[t] = "idle"
  /\ started < MaxTxns
  /\ started' = started + 1
  /\ ts' = [ts EXCEPT ![t] = started + 1]
  /\ query' = [query EXCEPT ![t] = q]
  /\ Goto(t, "publish")
  /\ UNCHANGED <<mgr, mem, all_ts, min_ts, cur_row, ts_ready, accesses, hist>>

\* which add_ts publishes.
AddTs(t) ==
  /\ pc[t] = "publish"
  /\ all_ts' = [all_ts EXCEPT ![t] = ts[t]]
  /\ Goto(t, "exec")
  /\ UNCHANGED <<mgr, mem, started, ts, min_ts, query, cur_row, ts_ready, accesses, hist>>

\* Every query has been run.
Ended == started = MaxTxns /\ \A t \in Threads : pc[t] = "idle"
AllDone == Ended /\ UNCHANGED vars

-----------------------------------------------------------------------------
(***************************************************************************)
(* Row_mvcc::access, R_REQ and P_REQ, as row_t::get_row calls it           *)
(***************************************************************************)
Req(t) == query[t][Len(accesses[t]) + 1]
Mgr(t) == mgr[Req(t).row]
Asks(t, type) == pc[t] = "exec" /\ Len(accesses[t]) < Len(query[t]) /\ Req(t).type = type

\* The row holds or is about to hold a prewrite the request must not overtake.
OlderPrewrite(t, m) == m._exists_prewrite /\ m._prewrite_ts < ts[t]

\* One turn of the loop over the history, which keeps the best timestamp so far in
\* the_ts.
Look(t, m, best, i) ==
  LET h == m._write_history[i] IN
  IF h.valid /\ h.ts < ts[t] /\ h.ts > best.the_ts
  THEN [the_ts |-> h.ts % 2 ^ THE_TS_BITS, the_i |-> i] ELSE best

\* The version a reader between _oldest_wts and _latest_wts is given.
SearchVersion(t, m) ==
  LET best[i \in 0..Len(m._write_history)] ==
        IF i = 0 THEN [the_ts |-> 0, the_i |-> 0] ELSE Look(t, m, best[i - 1], i)
      the_i == best[Len(m._write_history)].the_i
  IN IF the_i = 0 THEN m._row ELSE m._write_history[the_i].row

\* The request is refused and the transaction aborts.
AccessAborts(t) ==
  LET m == Mgr(t) IN
  /\ \/ Asks(t, "RD") /\ ts[t] < m._oldest_wts
     \/ /\ Asks(t, "WR")
        /\ \/ ts[t] < m._latest_wts \/ ts[t] < m._max_served_rts
           \/ m._exists_prewrite /\ m._prewrite_ts > ts[t]
  /\ Goto(t, "abort")
  /\ UNCHANGED <<mgr, mem, tsVars, min_ts, query, cur_row, ts_ready, accesses, hist>>

\* buffer_req: the request waits for an older prewrite.
AccessWaits(t) ==
  LET m == Mgr(t) IN
  /\ \/ Asks(t, "RD") /\ ts[t] >= m._oldest_wts /\ ts[t] > m._latest_wts
     \/ Asks(t, "WR") /\ ts[t] >= m._latest_wts /\ ts[t] >= m._max_served_rts
  /\ OlderPrewrite(t, m)
  /\ mgr' = [mgr EXCEPT ![Req(t).row]._requests = @ \cup
       {[type |-> IF Req(t).type = "RD" THEN "R_REQ" ELSE "P_REQ", ts |-> ts[t], txn |-> t]}]
  /\ ts_ready' = [ts_ready EXCEPT ![t] = FALSE]
  /\ Goto(t, "wait")
  /\ UNCHANGED <<mem, tsVars, min_ts, query, cur_row, accesses, hist>>

\* A read is served, with the latest version or with an older one.
ReadServed(t) ==
  LET m == Mgr(t) IN
  /\ Asks(t, "RD")
  /\ ts[t] >= m._oldest_wts
  /\ \/ /\ ts[t] > m._latest_wts
        /\ ~OlderPrewrite(t, m)
        /\ cur_row' = [cur_row EXCEPT ![t] = m._latest_row]
        /\ mgr' = [mgr EXCEPT ![Req(t).row]._max_served_rts = IF ts[t] > @ THEN ts[t] ELSE @]
     \/ /\ ts[t] <= m._latest_wts
        /\ cur_row' = [cur_row EXCEPT ![t] = SearchVersion(t, m)]
        /\ UNCHANGED mgr
  /\ Goto(t, "use")
  /\ UNCHANGED <<mem, tsVars, min_ts, query, ts_ready, accesses, hist>>

\* A mutant: the prewrite may come after a younger read was served.
PrewriteServed_AfterRead(t) ==
  LET r == Req(t).row IN
  /\ Asks(t, "WR")
  /\ ts[t] >= mgr[r]._latest_wts /\ ~mgr[r]._exists_prewrite
  /\ \E m \in {reserveRow(mgr[r], ts[t], get_min_ts(t), Len(mem[r]))} :
       /\ mgr' = [mgr EXCEPT ![r] = m]
       /\ mem' = [mem EXCEPT ![r] = CopyLatest(m, @)]
       /\ cur_row' = [cur_row EXCEPT ![t] = PrewriteRow(m)]
  /\ min_ts' = get_min_ts(t)
  /\ Goto(t, "use")
  /\ UNCHANGED <<tsVars, query, ts_ready, accesses, hist>>

\* A prewrite is served: it has a version of its own.
PrewriteServed(t) ==
  LET r == Req(t).row IN
  /\ Asks(t, "WR")
  /\ ts[t] >= mgr[r]._latest_wts /\ ts[t] >= mgr[r]._max_served_rts /\ ~mgr[r]._exists_prewrite
  /\ \E m \in {reserveRow(mgr[r], ts[t], get_min_ts(t), Len(mem[r]))} :
       /\ mgr' = [mgr EXCEPT ![r] = m]
       /\ mem' = [mem EXCEPT ![r] = CopyLatest(m, @)]
       /\ cur_row' = [cur_row EXCEPT ![t] = PrewriteRow(m)]
  /\ min_ts' = get_min_ts(t)
  /\ Goto(t, "use")
  /\ UNCHANGED <<tsVars, query, ts_ready, accesses, hist>>

\* row_t::get_row sees ts_ready.
WaitEnds(t) ==
  /\ pc[t] = "wait"
  /\ ts_ready[t]
  /\ ts_ready' = [ts_ready EXCEPT ![t] = FALSE]
  /\ Goto(t, "use")
  /\ UNCHANGED <<mgr, mem, tsVars, min_ts, query, cur_row, accesses, hist>>

\* The workload reads the version it was given, or reads and overwrites the one
\* that was reserved for it.
UseRow(t) ==
  LET r == Req(t).row
      c == cur_row[t]
  IN
  /\ pc[t] = "use"
  /\ accesses' = [accesses EXCEPT ![t] =
       Append(@, [row |-> r, type |-> Req(t).type, data |-> c, read |-> mem[r][c]])]
  /\ mem' = IF Req(t).type = "WR" THEN [mem EXCEPT ![r][c] = ts[t]] ELSE mem
  /\ cur_row' = [cur_row EXCEPT ![t] = NULL]
  /\ Goto(t, "exec")
  /\ UNCHANGED <<mgr, tsVars, min_ts, query, ts_ready, hist>>

-----------------------------------------------------------------------------
(***************************************************************************)
(* txn_man::cleanup and Row_mvcc::access, W_REQ and XP_REQ                 *)
(***************************************************************************)

\* The workload is done: finish(RCOK), without any validation.
Finish(t) ==
  /\ pc[t] = "exec"
  /\ Len(accesses[t]) = Len(query[t])
  /\ hist' = hist \cup {[ts |-> ts[t],
       reads |-> {<<accesses[t][i].row, accesses[t][i].read>> : i \in DOMAIN accesses[t]},
       writes |-> {accesses[t][i].row : i \in {j \in DOMAIN accesses[t] : accesses[t][j].type = "WR"}}]}
  /\ Goto(t, "commit")
  /\ UNCHANGED <<mgr, mem, tsVars, min_ts, query, cur_row, ts_ready, accesses>>

\* update_buffer: the requests that can be served now that the prewrite is gone,
\* all reads up to the next waiting prewrite, and that one.
NextPrewrite(m, w_ts) == {q \in m._requests : q.type = "P_REQ" /\ q.ts > w_ts}

\* A mutant: the youngest waiting prewrite is served first.
ServedPrewrite_Youngest(m, w_ts) ==
  {q \in NextPrewrite(m, w_ts) : \A p \in NextPrewrite(m, w_ts) : q.ts >= p.ts}

ServedPrewrite(m, w_ts) ==
  {q \in NextPrewrite(m, w_ts) : \A p \in NextPrewrite(m, w_ts) : q.ts <= p.ts}

ServedReads(m, w_ts) ==
  {q \in m._requests : q.type = "R_REQ" /\ \A p \in NextPrewrite(m, w_ts) : q.ts < p.ts}

\* A mutant: the version is reserved for the transaction that has just ended.
AfterBuffer_WriterTs(t, r, m, reads, pre) ==
  LET m1 == [m EXCEPT !._max_served_rts = Max({@} \cup {q.ts : q \in reads}),
                      !._requests = @ \ (reads \cup pre)]
  IN  IF pre = {} THEN m1 ELSE reserveRow(m1, ts[t], get_min_ts(t), Len(mem[r]))

\* The Row_mvcc when they are served.
AfterBuffer(t, r, m, reads, pre) ==
  LET m1 == [m EXCEPT !._max_served_rts = Max({@} \cup {q.ts : q \in reads}),
                      !._requests = @ \ (reads \cup pre)]
  IN  IF pre = {} THEN m1
      ELSE reserveRow(m1, (CHOOSE q \in pre : TRUE).ts, get_min_ts(t), Len(mem[r]))

update_buffer(t, r, m) ==
  \E reads \in {ServedReads(m, ts[t])}, pre \in {ServedPrewrite(m, ts[t])} :
  \E m2 \in {AfterBuffer(t, r, m, reads, pre)} :
    LET served(S, u) == \E q \in S : q.txn = u IN
    /\ mgr' = [mgr EXCEPT ![r] = m2]
    /\ mem' = IF pre = {} THEN mem ELSE [mem EXCEPT ![r] = CopyLatest(m2, @)]
    /\ min_ts' = IF pre = {} THEN min_ts ELSE get_min_ts(t)
    /\ cur_row' = [u \in Threads |-> IF served(reads, u) THEN m2._latest_row
                                     ELSE IF served(pre, u) THEN PrewriteRow(m2) ELSE cur_row[u]]
    /\ ts_ready' = [u \in Threads |-> ts_ready[u] \/ served(reads \cup pre, u)]

\* W_REQ: the version is committed.
Committed(m, t, c) ==
  [m EXCEPT !._write_history[m._prewrite_his_id].valid = TRUE,
            !._write_history[m._prewrite_his_id].ts = ts[t],
            !._latest_wts = ts[t],
            !._latest_row = c,
            !._exists_prewrite = FALSE,
            !._num_versions = @ + 1]

\* XP_REQ: it is dropped.
Dropped(m) ==
  [m EXCEPT !._write_history[m._prewrite_his_id].valid = FALSE,
            !._write_history[m._prewrite_his_id].reserved = FALSE,
            !._exists_prewrite = FALSE]

\* The accesses that cleanup, which goes from the last one to the first, has yet to
\* return; return_row does nothing for a read.
Unreturned(t) == {i \in DOMAIN accesses[t] : accesses[t][i].type = "WR"}

\* return_row of the last of them.
ReturnRow(t) ==
  LET n == Max(Unreturned(t))
      a == accesses[t][n]
      m == mgr[a.row]
  IN
  /\ pc[t] \in {"commit", "abort"}
  /\ Unreturned(t) # {}
  /\ \E done \in {IF pc[t] = "commit" THEN Committed(m, t, a.data) ELSE Dropped(m)} :
       update_buffer(t, a.row, done)
  /\ accesses' = [accesses EXCEPT ![t] = SubSeq(@, 1, n - 1)]
  /\ UNCHANGED <<tsVars, pc, query, hist>>

CleanupDone(t) ==
  /\ pc[t] \in {"commit", "abort"}
  /\ Unreturned(t) = {}
  /\ accesses' = [accesses EXCEPT ![t] = <<>>]
  /\ query' = [query EXCEPT ![t] = <<>>]
  /\ Goto(t, "idle")
  /\ UNCHANGED <<mgr, mem, tsVars, min_ts, cur_row, ts_ready, hist>>

-----------------------------------------------------------------------------
Step(t) ==
  \/ \E q \in Queries : NewQuery(t, q)
  \/ AddTs(t)
  \/ AccessAborts(t) \/ AccessWaits(t) \/ ReadServed(t) \/ PrewriteServed(t)
  \/ WaitEnds(t) \/ UseRow(t) \/ Finish(t) \/ ReturnRow(t) \/ CleanupDone(t)

Next == AllDone \/ \E t \in Threads : Step(t)

Spec == Init /\ [][Next]_vars

\* The operating system keeps scheduling every thread.
FairSpec == Spec /\ \A t \in Threads : WF_vars(Step(t))

-----------------------------------------------------------------------------
(***************************************************************************)
(* Properties                                                              *)
(***************************************************************************)

\* t has memory that it has not used yet.
HasRow(t) == pc[t] = "use" \/ (pc[t] = "wait" /\ ts_ready[t])

\* The version a reader has not read yet is given to a prewrite as memory.
Overwritten(t) ==
  /\ HasRow(t) /\ Req(t).type = "RD"
  /\ mgr[Req(t).row]._exists_prewrite /\ cur_row[t] = PrewriteRow(mgr[Req(t).row])

\* The versions of m that precede t, and that t, which asks to read m, will search.
Older(t, m) == {i \in Valid(m) : EntryTs(m, i) < ts[t]}
Searches(t, m) == Asks(t, "RD") /\ m._oldest_wts <= ts[t] /\ ts[t] <= m._latest_wts

\* The search of t goes past the version it should find: what the_ts keeps of that
\* version's timestamp is less than the timestamp of a version that comes later in the
\* history.  Every timestamp of TS_CLOCK exceeds the 32 bits of the_ts, so in the
\* default build any two older versions in the wrong order are enough.
GoesPast(t, m) ==
  \E i, j \in Older(t, m) :
    /\ i < j /\ \A k \in Older(t, m) : EntryTs(m, k) <= EntryTs(m, i)
    /\ EntryTs(m, j) > EntryTs(m, i) % 2 ^ THE_TS_BITS

\* So t is about to be given another version than the last one before it.
Misled(t) == Searches(t, Mgr(t)) /\ GoesPast(t, Mgr(t))

\* reserveRow may have had to recycle a version of m, there being no room for another.
Crowd(m) ==
  /\ m._num_versions + 1 >= Len(m._write_history)
  /\ Len(m._write_history) >= Cardinality(Threads)
Crowded(r) == mgr[r]._exists_prewrite /\ Crowd(mgr[r])

\* A reader is disturbed: misled by its search, or, before it has read the version it
\* was given, passed by min_ts or met by a prewrite in a crowded history.
Disturbed(t) ==
  \/ Misled(t)
  \/ HasRow(t) /\ Req(t).type = "RD" /\ (min_ts > ts[t] \/ Crowded(Req(t).row))

\* What the last transaction before e by timestamp wrote to row r.
LastBefore(e, r) == Max({0} \cup {f.ts : f \in {g \in hist : g.ts < e.ts /\ r \in g.writes}})

\* The transactions that commit are serializable in the order of their timestamps:
\* each has read, of each row, what the last transaction before it wrote, although
\* versions are chosen, recycled and overwritten while others still use them by pointer.
TimestampOrder == \A e \in hist : \A p \in e.reads : p[2] = LastBefore(e, p[1])

\* The same of the rows a transaction writes, the ones it reads in order to update
\* them: no update is lost and none is made to an old version.
UpdatesInOrder ==
  \A e \in hist : \A p \in e.reads : p[1] \in e.writes => p[2] = LastBefore(e, p[1])

\* And the same of all rows, of the transactions whose timestamps are not in S.
OrderExcept(S) ==
  \A e \in hist : e.ts \notin S => \A p \in e.reads : p[2] = LastBefore(e, p[1])

\* A request is pending only as long as the older prewrite it waits for is there,
\* and its transaction has not been woken yet: otherwise nobody would ever wake it.
NoLostWakeup ==
  /\ \A r \in Rows : \A q \in mgr[r]._requests :
       /\ mgr[r]._exists_prewrite /\ mgr[r]._prewrite_ts < q.ts
       /\ q.ts > mgr[r]._latest_wts
  /\ \A t \in Threads : pc[t] = "wait" =>
       (ts_ready[t] <=> ~\E r \in Rows : \E q \in mgr[r]._requests : q.txn = t)

\* The versions a transaction has reserved are its own until it returns them: what
\* access asserts for W_REQ and XP_REQ.
OwnsPrewrite ==
  \A t \in Threads : \A i \in DOMAIN accesses[t] :
    LET a == accesses[t][i]
        m == mgr[a.row]
    IN  a.type = "WR" =>
          /\ m._exists_prewrite /\ m._prewrite_ts = ts[t] /\ ts[t] > m._latest_wts
          /\ PrewriteRow(m) = a.data

\* reserveRow keeps the books on the history: _num_versions counts the versions,
\* the newest is the latest, and no two entries share memory with each other or
\* with _row.
HistoryIsSound ==
  \A r \in Rows :
    LET m == mgr[r]
        used == {i \in DOMAIN m._write_history : m._write_history[i].row # NULL}
    IN
    /\ m._num_versions = Cardinality(Valid(m))
    /\ m._num_versions > 0 =>
         /\ EntryTs(m, Newest(m, Valid(m))) = m._latest_wts
         /\ EntryTs(m, Oldest(m, Valid(m))) > m._oldest_wts
    /\ \A i \in used : m._write_history[i].row # m._row
    /\ \A i, j \in used : m._write_history[i].row = m._write_history[j].row => i = j

=============================================================================
