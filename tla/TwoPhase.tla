------------------------------ MODULE TwoPhase ------------------------------
(***************************************************************************)
(* Strict two-phase locking in DBx1000: the algorithms NO_WAIT, WAIT_DIE   *)
(* and DL_DETECT.  Each worker thread owns one txn_man and runs one        *)
(* transaction after the other with it:                                    *)
(*                                                                         *)
(*   thread_t::run         picks a query, new or from the abort buffer;    *)
(*   txn_man::get_row      locks a row (row_t::get_row, Row_lock::lock_get)*)
(*                         and saves a copy of a row it is going to write; *)
(*   row_t::get_row        spins while the lock is not granted;            *)
(*   the workload          writes locked rows in place;                    *)
(*   txn_man::cleanup      gives the rows back in reverse order, restoring *)
(*                         the copies first when the transaction aborts.   *)
(*                                                                         *)
(* A step is what happens between two points where another thread can      *)
(* interfere: a Row_lock method under its latch, a load or a store of one  *)
(* of the atomics lock_ready and lock_abort, a copy of a row.              *)
(***************************************************************************)
EXTENDS RowLock, SequencesExt

CONSTANTS g_thread_cnt,         \* number of worker threads
          Rows,                 \* the rows of the database
          Val, InitVal,         \* the values of a row, and the loaded one
          Algs,                 \* the CC_ALG builds considered
          AccessTypes,          \* access types of the workload: "RD", "WR"
          MAX_ROW_PER_TXN,      \* size of txn_man::accesses
          ABORT_BUFFER_SIZE,    \* slots of thread_t::_abort_buffer
          abort_buffer_enable,  \* the run-time parameter of the same name
          MaxClock              \* BOUND on the clock behind the timestamps

Threads == 0..(g_thread_cnt - 1)

ASSUME TwoPhaseAssumption ==
  /\ g_thread_cnt \in Nat \ {0}
  /\ Rows # {}
  /\ InitVal \in Val
  /\ Algs \subseteq {"NO_WAIT", "WAIT_DIE", "DL_DETECT"}
  /\ AccessTypes \subseteq {"RD", "WR"}
  /\ MAX_ROW_PER_TXN \in Nat
  /\ ABORT_BUFFER_SIZE \in Nat \ {0}
  /\ abort_buffer_enable \in BOOLEAN
  /\ MaxClock \in Nat

VARIABLES
  cc_alg,       \* CC_ALG, chosen by the build and never changed
  clock,        \* get_sys_clock
  data,         \* data[r]: the contents of row r
  lock_type,    \* Row_lock::lock_type of each row
  owners,       \* Row_lock::owners of each row
  waiters,      \* Row_lock::waiters_head .. waiters_tail of each row
  pc,           \* where each thread is
  ts,           \* txn_man::timestamp
  req,          \* the row and the access type txn_man::get_row is called with
  lock_ready,   \* txn_man::lock_ready
  lock_abort,   \* txn_man::lock_abort
  accesses,     \* txn_man::accesses[0 .. row_cnt - 1]
  rc,           \* how the transaction ends: RCOK or Abort
  rid,          \* the loop variable of txn_man::cleanup, plus one
  buffered      \* how many aborted queries the thread's abort buffer holds

lockVars == <<lock_type, owners, waiters>>
flagVars == <<lock_ready, lock_abort>>
queryVars == <<cc_alg, clock, ts, buffered>>
vars == <<cc_alg, clock, data, lock_type, owners, waiters, pc, ts, req,
          lock_ready, lock_abort, accesses, rc, rid, buffered>>

-----------------------------------------------------------------------------
\* row_t::get_row asks for a shared lock to read and an exclusive one to write.
Mode(type) == IF type = "RD" THEN "SH" ELSE "EX"

\* Access: the row, how it is accessed, the copy orig_data taken when a write
\* lock was granted, and val, what the transaction has read or written there.
Access == [row: Rows, type: {"RD", "WR"}, orig: Val, val: Val]
Request == [row: Rows, type: {"RD", "WR"}]
NoRequest == [row |-> CHOOSE r \in Rows : TRUE, type |-> "RD"]
LockEntry == [txn: Threads, type: {"SH", "EX"}]

PC == {"idle", "run", "enqueued", "waiting", "giveup", "granted", "cleanup", "undone"}

TypeOK ==
  /\ cc_alg \in Algs
  /\ clock \in Nat
  /\ data \in [Rows -> Val]
  /\ lock_type \in [Rows -> LockMode]
  /\ owners \in [Rows -> SUBSET Threads]
  /\ waiters \in [Rows -> Seq(LockEntry)]
  /\ pc \in [Threads -> PC]
  /\ ts \in [Threads -> Nat]
  /\ req \in [Threads -> Request]
  /\ lock_ready \in [Threads -> BOOLEAN]
  /\ lock_abort \in [Threads -> BOOLEAN]
  /\ accesses \in [Threads -> Seq(Access)]
  /\ rc \in [Threads -> {"RCOK", "Abort"}]
  /\ rid \in [Threads -> Nat]
  /\ buffered \in [Threads -> Nat]

\* txn_man::init leaves the timestamp unset.  With an abort buffer it is set
\* before it is used.
Unset == IF abort_buffer_enable THEN {0} ELSE 0..MaxClock

Init ==
  /\ cc_alg \in Algs
  /\ clock = 1
  /\ data = [r \in Rows |-> InitVal]
  /\ lock_type = [r \in Rows |-> "NONE"]
  /\ owners = [r \in Rows |-> {}]
  /\ waiters = [r \in Rows |-> <<>>]
  /\ pc = [t \in Threads |-> "idle"]
  /\ ts \in [Threads -> Unset]
  /\ req = [t \in Threads |-> NoRequest]
  /\ lock_ready = [t \in Threads |-> FALSE]
  /\ lock_abort = [t \in Threads |-> FALSE]
  /\ accesses = [t \in Threads |-> <<>>]
  /\ rc = [t \in Threads |-> "RCOK"]
  /\ rid = [t \in Threads |-> 0]
  /\ buffered = [t \in Threads |-> 0]

-----------------------------------------------------------------------------
(***************************************************************************)
(* thread_t::run: the next query                                           *)
(***************************************************************************)

\* Manager::get_ts under TS_CLOCK.
get_ts(time, t) == time * g_thread_cnt + t

\* m_txn->set_ts(get_next_ts()) at any reading of the clock from now on.
set_ts(t) ==
  \E time \in {clock, clock + 1} :
    /\ time <= MaxClock
    /\ clock' = time
    /\ ts' = [ts EXCEPT ![t] = get_ts(time, t)]

Started(t) ==
  /\ pc' = [pc EXCEPT ![t] = "run"]
  /\ UNCHANGED <<cc_alg, data, lockVars, req, flagVars, accesses, rc, rid>>

\* A mutant: starts a new query although the abort buffer is full.
NewQuery_Unguarded(t) ==
  /\ pc[t] = "idle"
  /\ IF abort_buffer_enable /\ cc_alg = "WAIT_DIE" THEN set_ts(t) ELSE UNCHANGED <<clock, ts>>
  /\ Started(t)
  /\ UNCHANGED buffered

\* A new query.  With an abort buffer no ready query waits in it and it is not
\* full; only here, and only in WAIT_DIE, the transaction gets a timestamp.
NewQuery(t) ==
  /\ pc[t] = "idle"
  /\ IF abort_buffer_enable
     THEN /\ buffered[t] < ABORT_BUFFER_SIZE
          /\ IF cc_alg = "WAIT_DIE" THEN set_ts(t) ELSE UNCHANGED <<clock, ts>>
     ELSE /\ buffered[t] = 0
          /\ UNCHANGED <<clock, ts>>
  /\ Started(t)
  /\ UNCHANGED buffered

\* A mutant: takes a query out of an empty buffer.
RetryQuery_Unguarded(t) ==
  /\ pc[t] = "idle"
  /\ buffered' = [buffered EXCEPT ![t] = @ - 1]
  /\ Started(t)
  /\ UNCHANGED <<clock, ts>>

\* A query that was aborted before, taken from the abort buffer once its
\* penalty is over, or at once when there is no buffer.  The txn_man keeps the
\* timestamp of the last new query of the thread.
RetryQuery(t) ==
  /\ pc[t] = "idle"
  /\ buffered[t] > 0
  /\ buffered' = [buffered EXCEPT ![t] = @ - 1]
  /\ Started(t)
  /\ UNCHANGED <<clock, ts>>

-----------------------------------------------------------------------------
(***************************************************************************)
(* txn_man::get_row and row_t::get_row                                     *)
(***************************************************************************)
Accessed(t) == {accesses[t][i].row : i \in 1..Len(accesses[t])}

\* txn_man::finish(rc_) calls cleanup(rc_), which starts at the last row.
StartCleanup(t, rc_) ==
  /\ pc' = [pc EXCEPT ![t] = "cleanup"]
  /\ rc' = [rc EXCEPT ![t] = rc_]
  /\ rid' = [rid EXCEPT ![t] = Len(accesses[t])]
  /\ req' = [req EXCEPT ![t] = NoRequest]

\* get_row has no room for another row, whichever it is, and returns NULL; the
\* workload aborts.
RowBufferFull(t) ==
  /\ pc[t] = "run"
  /\ Len(accesses[t]) >= MAX_ROW_PER_TXN
  /\ StartCleanup(t, "Abort")
  /\ UNCHANGED <<queryVars, data, lockVars, flagVars, accesses>>

\* The transaction asks for a row it does not hold yet.
Requests(t, r, type) ==
  /\ pc[t] = "run"
  /\ Len(accesses[t]) < MAX_ROW_PER_TXN
  /\ r \notin Accessed(t)
  /\ type \in AccessTypes

ConflictFor(t, r, type) ==
  Conflict(cc_alg, lock_type[r], waiters[r], Mode(type), t, ts)

\* lock_get adds the transaction to the owners.
LockGranted(t, r, type) ==
  /\ Requests(t, r, type)
  /\ ~ConflictFor(t, r, type)
  /\ owners' = [owners EXCEPT ![r] = @ \cup {t}]
  /\ lock_type' = [lock_type EXCEPT ![r] = Mode(type)]
  /\ req' = [req EXCEPT ![t] = [row |-> r, type |-> type]]
  /\ pc' = [pc EXCEPT ![t] = "granted"]
  /\ UNCHANGED <<queryVars, data, waiters, flagVars, accesses, rc, rid>>

\* lock_get returns WAIT, with the transaction in the waiter list.
LockWait(t, r, type) ==
  /\ Requests(t, r, type)
  /\ ConflictFor(t, r, type)
  /\ CanWait(cc_alg, owners[r], t, ts)
  /\ \E p \in 1..(Len(waiters[r]) + 1) :
       /\ WaitPosition(cc_alg, waiters[r], t, ts, p)
       /\ waiters' = [waiters EXCEPT ![r] =
                        InsertAt(@, p, [txn |-> t, type |-> Mode(type)])]
  /\ lock_ready' = [lock_ready EXCEPT ![t] = FALSE]
  /\ req' = [req EXCEPT ![t] = [row |-> r, type |-> type]]
  /\ pc' = [pc EXCEPT ![t] = "enqueued"]
  /\ UNCHANGED <<queryVars, data, lock_type, owners, lock_abort, accesses, rc, rid>>

\* lock_get returns Abort and the workload aborts the transaction.
LockDenied(t, r, type) ==
  /\ Requests(t, r, type)
  /\ ConflictFor(t, r, type)
  /\ ~CanWait(cc_alg, owners[r], t, ts)
  /\ StartCleanup(t, "Abort")
  /\ UNCHANGED <<queryVars, data, lockVars, flagVars, accesses>>

\* row_t::get_row clears lock_abort, which others may have set since lock_get
\* released the latch, and starts to spin.
StartWaiting(t) ==
  /\ pc[t] = "enqueued"
  /\ lock_abort' = [lock_abort EXCEPT ![t] = FALSE]
  /\ pc' = [pc EXCEPT ![t] = "waiting"]
  /\ UNCHANGED <<queryVars, data, lockVars, req, lock_ready, accesses, rc, rid>>

\* The spin loop of a DL_DETECT build exceeds g_timeout.
Timeout(t) ==
  /\ cc_alg = "DL_DETECT"
  /\ pc[t] = "waiting"
  /\ ~lock_ready[t] /\ ~lock_abort[t]
  /\ lock_abort' = [lock_abort EXCEPT ![t] = TRUE]
  /\ UNCHANGED <<queryVars, data, lockVars, pc, req, lock_ready, accesses, rc, rid>>

\* The spinning thread t finds a cycle and stores to lock_abort of the victim u; its
\* own flags may have been set during the search.  The detector works on edges that
\* may be out of date, so any thread may be the victim; a store that finds u neither
\* enqueued nor waiting has no effect, because StartWaiting clears the flag before u
\* reads it.
DetectDeadlock(t, u) ==
  /\ cc_alg = "DL_DETECT"
  /\ pc[t] = "waiting"
  /\ pc[u] \in {"enqueued", "waiting"}
  /\ lock_abort' = [lock_abort EXCEPT ![u] = TRUE]
  /\ UNCHANGED <<queryVars, data, lockVars, pc, req, lock_ready, accesses, rc, rid>>

\* The loop has ended.  lock_abort is not read any more before StartWaiting
\* clears it; clearing it here already saves states that cannot be told apart.
LeaveLoop(t, where) ==
  /\ pc' = [pc EXCEPT ![t] = where]
  /\ lock_abort' = [lock_abort EXCEPT ![t] = FALSE]
  /\ UNCHANGED <<queryVars, data, lockVars, req, lock_ready, accesses, rc, rid>>

\* lock_ready is set, be lock_abort set or not.
WaitGranted(t) ==
  /\ pc[t] = "waiting"
  /\ lock_ready[t]
  /\ LeaveLoop(t, "granted")

\* lock_ready is not set, lock_abort is.
WaitAborted(t) ==
  /\ pc[t] = "waiting"
  /\ ~lock_ready[t] /\ lock_abort[t]
  /\ LeaveLoop(t, "giveup")

\* txn_man::get_row enters the row in accesses and copies a row to be written;
\* a reader looks at the row itself.
RecordAccess(t) ==
  /\ pc[t] = "granted"
  /\ LET r == req[t].row IN
       accesses' = [accesses EXCEPT ![t] =
          Append(@, [row |-> r, type |-> req[t].type, orig |-> data[r], val |-> data[r]])]
  /\ pc' = [pc EXCEPT ![t] = "run"]
  /\ req' = [req EXCEPT ![t] = NoRequest]
  /\ UNCHANGED <<queryVars, data, lockVars, flagVars, rc, rid>>

\* The workload writes the i-th row of the transaction in place.  Its later
\* writes to the row, which no one can tell apart, are left out.
WriteRow(t, i, v) ==
  /\ pc[t] = "run"
  /\ accesses[t][i].type = "WR"
  /\ accesses[t][i].val = accesses[t][i].orig
  /\ accesses[t][i].val # v
  /\ data' = [data EXCEPT ![accesses[t][i].row] = v]
  /\ accesses' = [accesses EXCEPT ![t][i].val = v]
  /\ UNCHANGED <<queryVars, lockVars, pc, req, flagVars, rc, rid>>

\* The workload calls finish(RCOK).
Finish(t) ==
  /\ pc[t] = "run"
  /\ StartCleanup(t, "RCOK")
  /\ UNCHANGED <<queryVars, data, lockVars, flagVars, accesses>>

-----------------------------------------------------------------------------
(***************************************************************************)
(* txn_man::cleanup and Row_lock::lock_release                             *)
(***************************************************************************)

\* A mutant: the promoted transactions are not told.
PromoteWaiters_Silent(r, o, lt, w) ==
  \E n \in 0..Len(w) :
    /\ Promoted(lt, w, n)
    /\ owners' = [owners EXCEPT ![r] = o \cup {w[i].txn : i \in 1..n}]
    /\ waiters' = [waiters EXCEPT ![r] = SubSeq(w, n + 1, Len(w))]
    /\ lock_type' = [lock_type EXCEPT ![r] = IF n = 0 THEN lt ELSE w[n].type]
    /\ UNCHANGED lock_ready

\* The end of lock_release for row r, which now has the owners o, the mode lt
\* and the waiters w: compatible waiters become owners.
PromoteWaiters(r, o, lt, w) ==
  \E n \in 0..Len(w) :
    /\ Promoted(lt, w, n)
    /\ owners' = [owners EXCEPT ![r] = o \cup {w[i].txn : i \in 1..n}]
    /\ waiters' = [waiters EXCEPT ![r] = SubSeq(w, n + 1, Len(w))]
    /\ lock_type' = [lock_type EXCEPT ![r] = IF n = 0 THEN lt ELSE w[n].type]
    /\ lock_ready' = [u \in Threads |-> lock_ready[u] \/ \E i \in 1..n : w[i].txn = u]

\* A mutant: the lock keeps its mode when the last owner leaves.
ModeAfter_Kept(r, o) == lock_type[r]

ModeAfter(r, o) == IF o = {} THEN "NONE" ELSE lock_type[r]

\* The entry of t is looked for among the owners, then among the waiters.
lock_release(t, r) ==
  IF t \in owners[r]
  THEN LET o == owners[r] \ {t} IN PromoteWaiters(r, o, ModeAfter(r, o), waiters[r])
  ELSE \E i \in 1..Len(waiters[r]) :
         /\ waiters[r][i].txn = t
         /\ PromoteWaiters(r, owners[r], lock_type[r], RemoveAt(waiters[r], i))

\* A mutant: a thread that gives up leaves its entry in the lock table.
GiveUp_NoRelease(t) ==
  /\ pc[t] = "giveup"
  /\ StartCleanup(t, "Abort")
  /\ UNCHANGED <<queryVars, data, lockVars, flagVars, accesses>>

\* row_t::get_row gives up waiting: return_row releases the lock, granted or
\* not, and the workload aborts the transaction.
GiveUp(t) ==
  /\ pc[t] = "giveup"
  /\ lock_release(t, req[t].row)
  /\ StartCleanup(t, "Abort")
  /\ UNCHANGED <<queryVars, data, lock_abort, accesses>>

\* The row cleanup is at, and whether its copy has to be restored: XP.
Current(t) == accesses[t][rid[t]]

\* A mutant: cleanup forgets to turn WR into XP.
MustRestore_Never(t) == FALSE

MustRestore(t) == rc[t] = "Abort" /\ Current(t).type = "WR"

\* return_row copies orig_data back into the row.
RestoreRow(t) ==
  /\ pc[t] = "cleanup"
  /\ rid[t] > 0
  /\ MustRestore(t)
  /\ data' = [data EXCEPT ![Current(t).row] = Current(t).orig]
  /\ pc' = [pc EXCEPT ![t] = "undone"]
  /\ UNCHANGED <<queryVars, lockVars, req, flagVars, accesses, rc, rid>>

\* return_row releases the lock.
ReturnRow(t) ==
  /\ \/ pc[t] = "undone"
     \/ pc[t] = "cleanup" /\ rid[t] > 0 /\ ~MustRestore(t)
  /\ lock_release(t, Current(t).row)
  /\ rid' = [rid EXCEPT ![t] = @ - 1]
  /\ pc' = [pc EXCEPT ![t] = "cleanup"]
  /\ UNCHANGED <<queryVars, data, req, lock_abort, accesses, rc>>

\* All rows are returned: row_cnt = 0, and thread_t::run keeps an aborted query.
CleanupDone(t) ==
  /\ pc[t] = "cleanup"
  /\ rid[t] = 0
  /\ accesses' = [accesses EXCEPT ![t] = <<>>]
  /\ buffered' = [buffered EXCEPT ![t] = IF rc[t] = "Abort" THEN @ + 1 ELSE @]
  /\ rc' = [rc EXCEPT ![t] = "RCOK"]
  /\ pc' = [pc EXCEPT ![t] = "idle"]
  /\ UNCHANGED <<cc_alg, clock, ts, data, lockVars, req, flagVars, rid>>

-----------------------------------------------------------------------------
\* The steps of thread t.
Step(t) ==
  \/ NewQuery(t) \/ RetryQuery(t)
  \/ RowBufferFull(t)
  \/ \E r \in Rows, type \in {"RD", "WR"} :
       LockGranted(t, r, type) \/ LockWait(t, r, type) \/ LockDenied(t, r, type)
  \/ StartWaiting(t) \/ Timeout(t) \/ WaitGranted(t) \/ WaitAborted(t)
  \/ RecordAccess(t)
  \/ \E i \in 1..Len(accesses[t]), v \in Val : WriteRow(t, i, v)
  \/ Finish(t) \/ GiveUp(t)
  \/ RestoreRow(t) \/ ReturnRow(t) \/ CleanupDone(t)

Next ==
  \E t \in Threads :
    \/ Step(t)
    \/ \E u \in Threads : DetectDeadlock(t, u)

Spec == Init /\ [][Next]_vars

-----------------------------------------------------------------------------
(***************************************************************************)
(* Properties                                                              *)
(***************************************************************************)

\* The accesses of t whose locks cleanup has not returned yet.
Held(t) == IF pc[t] \in {"cleanup", "undone"} THEN 1..rid[t] ELSE 1..Len(accesses[t])

\* t is in row_t::get_row with a request that was not granted at once, and as
\* far as the threads can tell it has not been granted since.
Waits(t) == pc[t] \in {"enqueued", "waiting", "giveup"}
Pending(t) == Waits(t) /\ ~lock_ready[t]

\* t has been granted row r in the mode m.
HasLock(t, r, m) ==
  \/ \E i \in Held(t) : accesses[t][i].row = r /\ Mode(accesses[t][i].type) = m
  \/ /\ pc[t] = "granted" \/ (Waits(t) /\ lock_ready[t])
     /\ req[t].row = r /\ Mode(req[t].type) = m

\* The lock table agrees with what the transactions believe, although a grant
\* reaches a waiter by its flag only, and a thread that gives up may have been
\* granted the lock in the meantime: the owners of a row are the transactions
\* that were told so, its waiters the ones whose lock_ready is still false
\* (ASSERT(entry->txn->lock_ready == false) in lock_release), each in the list
\* once, and cleanup leaks no lock.
LockTable ==
  \A r \in Rows :
    LET w == waiters[r] IN
    /\ \A t \in Threads : t \in owners[r] <=> HasLock(t, r, "SH") \/ HasLock(t, r, "EX")
    /\ \A t \in Threads : Pending(t) /\ req[t].row = r => \E i \in 1..Len(w) : w[i].txn = t
    /\ \A i \in 1..Len(w) : /\ Pending(w[i].txn)
                            /\ req[w[i].txn].row = r
                            /\ Mode(req[w[i].txn].type) = w[i].type
    /\ \A i, j \in 1..Len(w) : w[i].txn = w[j].txn => i = j

\* Two transactions never hold conflicting locks on a row, and lock_type is the
\* mode its owners hold it in, whatever order of grants, promotions and releases
\* led there.
LockCompatibility ==
  \A r \in Rows :
    /\ lock_type[r] = "NONE" <=> owners[r] = {}
    /\ \A t \in owners[r] : HasLock(t, r, lock_type[r])
    /\ lock_type[r] = "EX" => \A t, u \in owners[r] : t = u

\* Wait-die: every waiter is older than every owner, and the list is in strict
\* timestamp order, so a transaction only ever waits for younger ones and no
\* cycle of waiting transactions can form.
WaitersOlderThanOwners ==
  cc_alg = "WAIT_DIE" =>
    \A r \in Rows : \A i \in 1..Len(waiters[r]), u \in owners[r] :
      ts[waiters[r][i].txn] < ts[u]

WaitersInOrder ==
  cc_alg = "WAIT_DIE" =>
    \A r \in Rows : \A i, j \in 1..Len(waiters[r]) :
      i < j => ts[waiters[r][j].txn] < ts[waiters[r][i].txn]

WaitDie == WaitersOlderThanOwners /\ WaitersInOrder

\* No wake-up is lost: the first waiter of a row really conflicts with the
\* owners, so whoever waits will be considered by a later lock_release.
NoLostWakeup ==
  \A r \in Rows : waiters[r] # <<>> => conflict_lock(lock_type[r], waiters[r][1].type)

\* Until a transaction has decided to abort, every row it has read or written
\* still holds what it read or wrote there.
Isolation ==
  \A t \in Threads : \A i \in Held(t) :
    rc[t] = "RCOK" => data[accesses[t][i].row] = accesses[t][i].val

\* Whoever runs a query can abort: its thread has a free slot in the abort buffer
\* for it, as thread_t::run asserts after an abort.
AbortBufferHasRoom ==
  \A t \in Threads :
    /\ buffered[t] <= ABORT_BUFFER_SIZE
    /\ pc[t] # "idle" => buffered[t] < ABORT_BUFFER_SIZE

\* A transaction that waits for a lock gets it or is aborted, in the end.
WaitEnds == \A t \in Threads : []<>~Waits(t)

-----------------------------------------------------------------------------
(***************************************************************************)
(* Two-phase locking implements SerialDB.  A transaction commits when it   *)
(* calls finish(RCOK), before it gives the first row back.  The committed  *)
(* value of a row is the copy a transaction that has not committed took    *)
(* of it, if there is one, and otherwise what the row holds.               *)
(***************************************************************************)
Committed(t) == pc[t] = "cleanup" /\ rc[t] = "RCOK"

Uncommitted(r) ==
  {a \in UNION {{accesses[t][i] : i \in Held(t)} : t \in {u \in Threads : ~Committed(u)}} :
     a.row = r /\ a.type = "WR"}

CommittedDB ==
  [r \in Rows |-> IF Uncommitted(r) = {} THEN data[r]
                  ELSE (CHOOSE a \in Uncommitted(r) : TRUE).orig]

ReadSet(t) == {<<accesses[t][i].row, accesses[t][i].orig>> : i \in 1..Len(accesses[t])}
WriteSet(t) ==
  {<<accesses[t][i].row, accesses[t][i].val>> :
     i \in {j \in 1..Len(accesses[t]) : accesses[t][j].type = "WR"}}

Serial ==
  INSTANCE SerialDB WITH
    Workers <- Threads,
    db <- CommittedDB,
    outcome <- [t \in Threads |->
                 IF Committed(t)
                 THEN [reads |-> ReadSet(t), writes |-> WriteSet(t), valid |-> TRUE]
                 ELSE [reads |-> {}, writes |-> {}, valid |-> FALSE]]

\* Transactions are serializable in commit order, aborted ones leave no trace
\* and no committed transaction has read what an aborted one wrote.
Serializable == Serial!Spec

=============================================================================
