--------------------------- MODULE TwoPhaseProofs ---------------------------
(***************************************************************************)
(* Two-phase locking for any number of threads, rows, values and           *)
(* timestamps: the types of TwoPhase; its lock table (LockTable,           *)
(* LockCompatibility and NoLostWakeup, inductive only together); the order *)
(* of WAIT_DIE; and what the locks are for, Isolation and the refinement   *)
(* of SerialDB.                                                            *)
(***************************************************************************)
EXTENDS TwoPhase, SequenceLemmas, TLAPS

(***************************************************************************)
(* Types.  What the code reads at accesses[rid] is defined only because of *)
(* the order of its steps, so TypeOK is inductive together with Shape: how *)
(* far cleanup has come, and when a thread holds accesses.                 *)
(***************************************************************************)

\* Manager::get_ts under TS_CLOCK never gives two threads the same timestamp,
\* whatever their clocks show.
LEMMA GetTsInjective ==
  ASSUME NEW t \in Threads, NEW u \in Threads, NEW c \in Nat, NEW d \in Nat,
         get_ts(c, t) = get_ts(d, u)
  PROVE  t = u
<1> USE TwoPhaseAssumption DEF Threads, get_ts
<1>1. ASSUME NEW x \in Nat, NEW y \in Nat, x < y,
             NEW v \in Threads, NEW w \in Threads
      PROVE  x * g_thread_cnt + v < y * g_thread_cnt + w
  <2>1. PICK k \in Nat : y = x + 1 + k
    BY <1>1
  <2>2. y * g_thread_cnt = x * g_thread_cnt + g_thread_cnt + k * g_thread_cnt
    BY <2>1
  <2>3. k * g_thread_cnt \in Nat /\ x * g_thread_cnt \in Nat
    OBVIOUS
  <2> QED
    BY <2>2, <2>3
<1>2. CASE c < d
  BY <1>1, <1>2
<1>3. CASE d < c
  BY <1>1, <1>3
<1>4. CASE c = d
  BY <1>4
<1> QED
  BY <1>2, <1>3, <1>4

\* The promotion loop of lock_release keeps the types of the lock table.
LEMMA PromoteType ==
  ASSUME TypeOK, NEW r \in Rows, NEW o \in SUBSET Threads, NEW lt \in LockMode,
         NEW w \in Seq(LockEntry), PromoteWaiters(r, o, lt, w)
  PROVE  /\ owners' \in [Rows -> SUBSET Threads]
         /\ waiters' \in [Rows -> Seq(LockEntry)]
         /\ lock_type' \in [Rows -> LockMode]
         /\ lock_ready' \in [Threads -> BOOLEAN]
<1>1. PICK n \in 0..Len(w) :
        /\ owners' = [owners EXCEPT ![r] = o \cup {w[i].txn : i \in 1..n}]
        /\ waiters' = [waiters EXCEPT ![r] = SubSeq(w, n + 1, Len(w))]
        /\ lock_type' = [lock_type EXCEPT ![r] = IF n = 0 THEN lt ELSE w[n].type]
        /\ lock_ready' = [u \in Threads |-> lock_ready[u] \/ \E i \in 1..n : w[i].txn = u]
  BY DEF PromoteWaiters
<1>2. \A i \in 1..Len(w) : w[i].txn \in Threads /\ w[i].type \in LockMode
  <2>1. \A i \in 1..Len(w) : w[i] \in LockEntry
    OBVIOUS
  <2> QED
    BY <2>1 DEF LockEntry, LockMode
<1>3. SubSeq(w, n + 1, Len(w)) \in Seq(LockEntry)
  BY DropProperties
<1>4. {w[i].txn : i \in 1..n} \subseteq Threads
  BY <1>2
<1>5. lock_ready' \in [Threads -> BOOLEAN]
  BY <1>1 DEF TypeOK
<1> QED
  BY <1>1, <1>2, <1>3, <1>4, <1>5 DEF TypeOK

\* So does lock_release as a whole.
LEMMA ReleaseType ==
  ASSUME TypeOK, NEW t \in Threads, NEW r \in Rows, lock_release(t, r)
  PROVE  /\ owners' \in [Rows -> SUBSET Threads]
         /\ waiters' \in [Rows -> Seq(LockEntry)]
         /\ lock_type' \in [Rows -> LockMode]
         /\ lock_ready' \in [Threads -> BOOLEAN]
<1>1. CASE t \in owners[r]
  <2>1. ModeAfter(r, owners[r] \ {t}) \in LockMode
    BY DEF ModeAfter, LockMode, TypeOK
  <2> QED
    BY <1>1, <2>1, PromoteType DEF lock_release, TypeOK
<1>2. CASE t \notin owners[r]
  <2>1. PICK i \in 1..Len(waiters[r]) :
          PromoteWaiters(r, owners[r], lock_type[r], RemoveAt(waiters[r], i))
    BY <1>2 DEF lock_release
  <2>2. RemoveAt(waiters[r], i) \in Seq(LockEntry)
    BY RemoveAtProperties DEF TypeOK
  <2> QED
    BY <2>1, <2>2, PromoteType DEF TypeOK
<1> QED
  BY <1>1, <1>2

\* Where cleanup is, and what a transaction that is not in cleanup looks like.
Shape ==
  \A t \in Threads :
    /\ pc[t] \in {"cleanup", "undone"} => rid[t] <= Len(accesses[t])
    /\ pc[t] = "undone" => rid[t] > 0 /\ rc[t] = "Abort"
    /\ pc[t] \notin {"cleanup", "undone"} => rc[t] = "RCOK"
    /\ pc[t] = "idle" => accesses[t] = <<>>

\* While cleanup is at row rid > 0, accesses has an entry there.
LEMMA CurrentType ==
  ASSUME TypeOK, Shape, NEW t \in Threads, pc[t] \in {"cleanup", "undone"}, rid[t] > 0
  PROVE  /\ rid[t] \in 1..Len(accesses[t])
         /\ Current(t) \in Access
         /\ Current(t).row \in Rows
<1>1. rid[t] \in 1..Len(accesses[t])
  BY DEF TypeOK, Shape
<1>2. accesses[t] \in Seq(Access)
  BY DEF TypeOK
<1>3. Current(t) \in Access
  BY <1>1, <1>2 DEF Current
<1> QED
  BY <1>1, <1>3 DEF Access

\* Every step keeps TypeOK.
LEMMA TypeStep ==
  ASSUME TypeOK, Shape, [Next]_vars
  PROVE  TypeOK'
<1> USE TwoPhaseAssumption
<1>2. TypeOK'
  <2> USE DEF queryVars, lockVars, flagVars, PC
  <2>0. NoRequest \in Request
    BY DEF NoRequest, Request
  <2>1. ASSUME NEW t \in Threads, NewQuery(t)
        PROVE  TypeOK'
    <3>1. ASSUME NEW time \in Nat
          PROVE  get_ts(time, t) \in Nat
      BY DEF get_ts, Threads
    <3>2. clock' \in Nat /\ ts' \in [Threads -> Nat]
      <4>1. CASE UNCHANGED <<clock, ts>>
        BY <4>1 DEF TypeOK
      <4>2. CASE set_ts(t)
        <5>1. PICK time \in {clock, clock + 1} :
                clock' = time /\ ts' = [ts EXCEPT ![t] = get_ts(time, t)]
          BY <4>2 DEF set_ts
        <5>2. time \in Nat
          BY DEF TypeOK
        <5>3. get_ts(time, t) \in Nat
          BY <5>2, <3>1
        <5> QED
          BY <5>1, <5>2, <5>3 DEF TypeOK
      <4> QED
        BY <2>1, <4>1, <4>2 DEF NewQuery
    <3> QED
      BY <2>1, <3>2 DEF TypeOK, NewQuery, Started
  <2>2. ASSUME NEW t \in Threads, RetryQuery(t)
        PROVE  TypeOK'
    BY <2>2 DEF TypeOK, RetryQuery, Started
  <2>3. ASSUME NEW t \in Threads, RowBufferFull(t)
        PROVE  TypeOK'
    BY <2>3, <2>0 DEF TypeOK, RowBufferFull, StartCleanup
  <2>4. ASSUME NEW t \in Threads, NEW r \in Rows, NEW type \in {"RD", "WR"},
               LockGranted(t, r, type)
        PROVE  TypeOK'
    BY <2>4 DEF TypeOK, LockGranted, Request, LockMode, Mode
  <2>5. ASSUME NEW t \in Threads, NEW r \in Rows, NEW type \in {"RD", "WR"},
               LockWait(t, r, type)
        PROVE  TypeOK'
    <3>1. PICK p \in 1..(Len(waiters[r]) + 1) :
            waiters' = [waiters EXCEPT ![r] =
                          InsertAt(@, p, [txn |-> t, type |-> Mode(type)])]
      BY <2>5 DEF LockWait
    <3>2. [txn |-> t, type |-> Mode(type)] \in LockEntry
      BY DEF LockEntry, Mode
    <3>3. InsertAt(waiters[r], p, [txn |-> t, type |-> Mode(type)]) \in Seq(LockEntry)
      BY <3>2, InsertAtProperties DEF TypeOK
    <3> QED
      BY <2>5, <3>1, <3>3, SMTT(30) DEF TypeOK, LockWait, Request
  <2>6. ASSUME NEW t \in Threads, NEW r \in Rows, NEW type \in {"RD", "WR"},
               LockDenied(t, r, type)
        PROVE  TypeOK'
    BY <2>6, <2>0 DEF TypeOK, LockDenied, StartCleanup
  <2>7. ASSUME NEW t \in Threads, StartWaiting(t)
        PROVE  TypeOK'
    BY <2>7 DEF TypeOK, StartWaiting
  <2>8. ASSUME NEW t \in Threads, Timeout(t)
        PROVE  TypeOK'
    BY <2>8 DEF TypeOK, Timeout
  <2>9. ASSUME NEW t \in Threads, NEW u \in Threads, DetectDeadlock(t, u)
        PROVE  TypeOK'
    BY <2>9 DEF TypeOK, DetectDeadlock
  <2>10. ASSUME NEW t \in Threads, WaitGranted(t)
         PROVE  TypeOK'
    BY <2>10 DEF TypeOK, WaitGranted, LeaveLoop
  <2>11. ASSUME NEW t \in Threads, WaitAborted(t)
         PROVE  TypeOK'
    BY <2>11 DEF TypeOK, WaitAborted, LeaveLoop
  <2>12. ASSUME NEW t \in Threads, RecordAccess(t)
        PROVE  TypeOK'
    <3> DEFINE a == [row |-> req[t].row, type |-> req[t].type,
                     orig |-> data[req[t].row], val |-> data[req[t].row]]
    <3>1. a \in Access
      BY DEF TypeOK, Request, Access
    <3>2. Append(accesses[t], a) \in Seq(Access)
      BY <3>1 DEF TypeOK
    <3>3. accesses' = [accesses EXCEPT ![t] = Append(accesses[t], a)]
      BY <2>12 DEF RecordAccess
    <3> HIDE DEF a
    <3> QED
      BY <2>12, <2>0, <3>2, <3>3 DEF TypeOK, RecordAccess
  <2>13. ASSUME NEW t \in Threads, NEW i \in 1..Len(accesses[t]), NEW v \in Val,
                WriteRow(t, i, v)
         PROVE  TypeOK'
    <3>1. accesses[t] \in Seq(Access) /\ accesses[t][i] \in Access
      BY DEF TypeOK
    <3>2. [accesses[t] EXCEPT ![i].val = v] \in Seq(Access)
      BY <3>1 DEF Access
    <3>3. accesses' = [accesses EXCEPT ![t] = [accesses[t] EXCEPT ![i].val = v]]
      BY <2>13 DEF WriteRow
    <3>4. accesses' \in [Threads -> Seq(Access)]
      BY <3>2, <3>3 DEF TypeOK
    <3>5. data' \in [Rows -> Val]
      BY <2>13, <3>1 DEF WriteRow, Access, TypeOK
    <3> QED
      BY <2>13, <3>4, <3>5 DEF TypeOK, WriteRow
  <2>14. ASSUME NEW t \in Threads, Finish(t)
         PROVE  TypeOK'
    BY <2>14, <2>0 DEF TypeOK, Finish, StartCleanup
  <2>15. ASSUME NEW t \in Threads, GiveUp(t)
         PROVE  TypeOK'
    <3>1. req[t].row \in Rows
      BY DEF TypeOK, Request
    <3> QED
      BY <2>15, <2>0, <3>1, ReleaseType, SMTT(30) DEF TypeOK, GiveUp, StartCleanup
  <2>16. ASSUME NEW t \in Threads, RestoreRow(t)
         PROVE  TypeOK'
    <3>1. Current(t) \in Access
      BY <2>16, CurrentType DEF RestoreRow
    <3>2. data' \in [Rows -> Val]
      BY <2>16, <3>1 DEF RestoreRow, Access, TypeOK
    <3> QED
      BY <2>16, <3>2 DEF TypeOK, RestoreRow
  <2>17. ASSUME NEW t \in Threads, ReturnRow(t)
         PROVE  TypeOK'
    <3>1. pc[t] \in {"cleanup", "undone"} /\ rid[t] > 0
      BY <2>17 DEF ReturnRow, Shape
    <3>2. rid[t] - 1 \in Nat
      BY <3>1 DEF TypeOK
    <3>3. Current(t).row \in Rows
      BY <3>1, CurrentType
    <3> QED
      BY <2>17, <3>2, <3>3, ReleaseType DEF TypeOK, ReturnRow
  <2>18. ASSUME NEW t \in Threads, CleanupDone(t)
         PROVE  TypeOK'
    BY <2>18 DEF TypeOK, CleanupDone
  <2>19. CASE UNCHANGED vars
    BY <2>19 DEF TypeOK, vars
  <2> QED
    BY <2>1, <2>2, <2>3, <2>4, <2>5, <2>6, <2>7, <2>8, <2>9, <2>10, <2>11, <2>12,
       <2>13, <2>14, <2>15, <2>16, <2>17, <2>18, <2>19 DEF Next, Step
<1> QED
  BY <1>2

\* Every step keeps Shape.
LEMMA ShapeStep ==
  ASSUME TypeOK, Shape, [Next]_vars
  PROVE  Shape'
<1> USE DEF queryVars, lockVars, flagVars, PC, Shape
<1>1. ASSUME NEW t \in Threads, NewQuery(t)
      PROVE  Shape'
  BY <1>1 DEF TypeOK, NewQuery, Started
<1>2. ASSUME NEW t \in Threads, RetryQuery(t)
      PROVE  Shape'
  BY <1>2 DEF TypeOK, RetryQuery, Started
<1>3. ASSUME NEW t \in Threads, RowBufferFull(t)
      PROVE  Shape'
  BY <1>3 DEF TypeOK, RowBufferFull, StartCleanup
<1>4. ASSUME NEW t \in Threads, NEW r \in Rows, NEW type \in {"RD", "WR"},
             LockGranted(t, r, type)
      PROVE  Shape'
  BY <1>4 DEF TypeOK, LockGranted, Requests
<1>5. ASSUME NEW t \in Threads, NEW r \in Rows, NEW type \in {"RD", "WR"},
             LockWait(t, r, type)
      PROVE  Shape'
  BY <1>5 DEF TypeOK, LockWait, Requests
<1>6. ASSUME NEW t \in Threads, NEW r \in Rows, NEW type \in {"RD", "WR"},
             LockDenied(t, r, type)
      PROVE  Shape'
  BY <1>6 DEF TypeOK, LockDenied, StartCleanup
<1>7. ASSUME NEW t \in Threads, StartWaiting(t)
      PROVE  Shape'
  BY <1>7 DEF TypeOK, StartWaiting
<1>8. ASSUME NEW t \in Threads, Timeout(t)
      PROVE  Shape'
  BY <1>8 DEF TypeOK, Timeout
<1>9. ASSUME NEW t \in Threads, NEW u \in Threads, DetectDeadlock(t, u)
      PROVE  Shape'
  BY <1>9 DEF TypeOK, DetectDeadlock
<1>10. ASSUME NEW t \in Threads, WaitGranted(t)
       PROVE  Shape'
  BY <1>10 DEF TypeOK, WaitGranted, LeaveLoop
<1>11. ASSUME NEW t \in Threads, WaitAborted(t)
       PROVE  Shape'
  BY <1>11 DEF TypeOK, WaitAborted, LeaveLoop
<1>12. ASSUME NEW t \in Threads, RecordAccess(t)
       PROVE  Shape'
  BY <1>12 DEF TypeOK, RecordAccess
<1>13. ASSUME NEW t \in Threads, NEW i \in 1..Len(accesses[t]), NEW v \in Val,
              WriteRow(t, i, v)
       PROVE  Shape'
  BY <1>13 DEF TypeOK, WriteRow
<1>14. ASSUME NEW t \in Threads, Finish(t)
       PROVE  Shape'
  BY <1>14 DEF TypeOK, Finish, StartCleanup
<1>15. ASSUME NEW t \in Threads, GiveUp(t)
       PROVE  Shape'
  BY <1>15 DEF TypeOK, GiveUp, StartCleanup
<1>16. ASSUME NEW t \in Threads, RestoreRow(t)
       PROVE  Shape'
  BY <1>16 DEF TypeOK, RestoreRow, MustRestore
<1>17. ASSUME NEW t \in Threads, ReturnRow(t)
       PROVE  Shape'
  <2>1. rid[t] - 1 <= Len(accesses[t]) /\ rid[t] - 1 \in Int
    BY <1>17 DEF TypeOK, ReturnRow
  <2> QED
    BY <1>17, <2>1 DEF TypeOK, ReturnRow
<1>18. ASSUME NEW t \in Threads, CleanupDone(t)
       PROVE  Shape'
  BY <1>18 DEF TypeOK, CleanupDone
<1>19. CASE UNCHANGED vars
  BY <1>19 DEF vars
<1> QED
  BY <1>1, <1>2, <1>3, <1>4, <1>5, <1>6, <1>7, <1>8, <1>9, <1>10, <1>11, <1>12,
     <1>13, <1>14, <1>15, <1>16, <1>17, <1>18, <1>19 DEF Next, Step

\* Both hold when the threads start.
LEMMA InitType ==
  ASSUME Init
  PROVE  TypeOK /\ Shape
BY TwoPhaseAssumption
   DEF Init, TypeOK, Shape, Unset, NoRequest, Request, LockMode, PC

\* Every variable keeps its type for any number of threads and rows: what
\* cleanup restores and releases always is an entry of accesses, and the counts
\* rid and buffered, which only go down by one under a guard, stay natural.
THEOREM TypeCorrect == Spec => []TypeOK
<1>1. Init => TypeOK /\ Shape
  BY InitType
<1>2. TypeOK /\ Shape /\ [Next]_vars => (TypeOK /\ Shape)'
  BY TypeStep, ShapeStep
<1> QED
  BY <1>1, <1>2, PTL DEF Spec

-----------------------------------------------------------------------------
\* A step keeps room in the abort buffer: only a query that ended frees its
\* thread to start another.
LEMMA RoomStep ==
  ASSUME TypeOK, AbortBufferHasRoom, [Next]_vars
  PROVE  AbortBufferHasRoom'
<1> USE TwoPhaseAssumption
<1>1. CASE UNCHANGED vars
  BY <1>1 DEF vars, AbortBufferHasRoom
<1>2. ASSUME NEW t \in Threads, NewQuery(t)
      PROVE  AbortBufferHasRoom'
  <2>1. buffered[t] < ABORT_BUFFER_SIZE /\ buffered' = buffered
    BY <1>2 DEF NewQuery, TypeOK
  <2>2. pc' = [pc EXCEPT ![t] = "run"]
    BY <1>2 DEF NewQuery, Started
  <2> QED
    BY <2>1, <2>2 DEF AbortBufferHasRoom, TypeOK
<1>3. ASSUME NEW t \in Threads, RetryQuery(t)
      PROVE  AbortBufferHasRoom'
  BY <1>3 DEF RetryQuery, Started, AbortBufferHasRoom, TypeOK
<1>4. ASSUME NEW t \in Threads, CleanupDone(t)
      PROVE  AbortBufferHasRoom'
  BY <1>4 DEF CleanupDone, AbortBufferHasRoom, TypeOK
<1>5. ASSUME NEW t \in Threads, pc[t] # "idle", buffered' = buffered,
             \A u \in Threads : u # t => pc'[u] = pc[u]
      PROVE  AbortBufferHasRoom'
  BY <1>5 DEF AbortBufferHasRoom, TypeOK
<1>6. ASSUME NEW t \in Threads, Step(t) \/ \E u \in Threads : DetectDeadlock(t, u),
             ~NewQuery(t), ~RetryQuery(t), ~CleanupDone(t)
      PROVE  AbortBufferHasRoom'
  <2>1. pc[t] # "idle" /\ buffered' = buffered
    BY <1>6 DEF Step, RowBufferFull, LockGranted, LockWait, LockDenied, Requests, StartWaiting,
         Timeout, DetectDeadlock, WaitGranted, WaitAborted, LeaveLoop, RecordAccess, WriteRow,
         Finish, GiveUp, RestoreRow, ReturnRow, queryVars
  <2>2. \A u \in Threads : u # t => pc'[u] = pc[u]
    BY <1>6 DEF Step, RowBufferFull, LockGranted, LockWait, LockDenied, StartWaiting, StartCleanup,
         Timeout, DetectDeadlock, WaitGranted, WaitAborted, LeaveLoop, RecordAccess, WriteRow,
         Finish, GiveUp, RestoreRow, ReturnRow, TypeOK
  <2> QED
    BY <1>5, <2>1, <2>2
<1> QED
  BY <1>1, <1>2, <1>3, <1>4, <1>6 DEF Next

\* A query that aborts always finds a free slot in its thread's abort buffer, for
\* any size of the buffer: thread_t::run never starts a query without one.
THEOREM AbortBufferCorrect == Spec => []AbortBufferHasRoom
<1>1. Init => AbortBufferHasRoom
  BY TwoPhaseAssumption DEF Init, AbortBufferHasRoom
<1>2. TypeOK /\ AbortBufferHasRoom /\ [Next]_vars => AbortBufferHasRoom'
  BY RoomStep
<1> QED
  BY <1>1, <1>2, TypeCorrect, PTL DEF Spec

-----------------------------------------------------------------------------
(***************************************************************************)
(* The lock table                                                          *)
(***************************************************************************)

\* A transaction never asks for a row it has accessed already.
DistinctRows ==
  \A t \in Threads :
    /\ \A i, j \in 1..Len(accesses[t]) : accesses[t][i].row = accesses[t][j].row => i = j
    /\ Waits(t) \/ pc[t] = "granted" =>
         \A i \in 1..Len(accesses[t]) : accesses[t][i].row # req[t].row

\* The step does not change what thread u believes about locks.
SameView(u) ==
  /\ Pending(u)' <=> Pending(u)
  /\ Pending(u) => req'[u] = req[u]
  /\ \A r \in Rows, m \in LockMode : HasLock(u, r, m)' <=> HasLock(u, r, m)

\* The entries of a waiter list.
LEMMA EntryType ==
  ASSUME NEW w \in Seq(LockEntry), NEW i \in 1..Len(w)
  PROVE  w[i].txn \in Threads /\ w[i].type \in {"SH", "EX"}
<1>1. w[i] \in LockEntry
  OBVIOUS
<1> QED
  BY <1>1 DEF LockEntry

-----------------------------------------------------------------------------
\* DistinctRows is inductive together with TypeOK and Shape: get_row is called
\* for rows that are not in accesses.
LEMMA DistinctRowsStep ==
  ASSUME TypeOK, Shape, DistinctRows, [Next]_vars
  PROVE  DistinctRows'
<1> USE DEF queryVars, lockVars, flagVars, PC, DistinctRows, Waits
<1>1. ASSUME NEW t \in Threads, NewQuery(t)
      PROVE  DistinctRows'
  BY <1>1 DEF TypeOK, NewQuery, Started
<1>2. ASSUME NEW t \in Threads, RetryQuery(t)
      PROVE  DistinctRows'
  BY <1>2 DEF TypeOK, RetryQuery, Started
<1>3. ASSUME NEW t \in Threads, RowBufferFull(t)
      PROVE  DistinctRows'
  BY <1>3 DEF TypeOK, RowBufferFull, StartCleanup
<1>4. ASSUME NEW t \in Threads, NEW r \in Rows, NEW type \in {"RD", "WR"},
             LockGranted(t, r, type)
      PROVE  DistinctRows'
  BY <1>4 DEF TypeOK, LockGranted, Requests, Accessed
<1>5. ASSUME NEW t \in Threads, NEW r \in Rows, NEW type \in {"RD", "WR"},
             LockWait(t, r, type)
      PROVE  DistinctRows'
  <2>1. /\ pc' = [pc EXCEPT ![t] = "enqueued"]
        /\ req' = [req EXCEPT ![t] = [row |-> r, type |-> type]]
        /\ UNCHANGED accesses
        /\ r \notin Accessed(t)
    BY <1>5 DEF LockWait, Requests
  <2>2. ASSUME NEW u \in Threads
        PROVE  /\ accesses'[u] = accesses[u]
               /\ u # t => pc'[u] = pc[u] /\ req'[u] = req[u]
               /\ u = t => req'[u].row = r
    BY <2>1 DEF TypeOK
  <2>3. \A i \in 1..Len(accesses[t]) : accesses[t][i].row # r
    BY <2>1 DEF Accessed
  <2> HIDE DEF DistinctRows
  <2> QED
    BY <2>2, <2>3 DEF DistinctRows, Waits
<1>6. ASSUME NEW t \in Threads, NEW r \in Rows, NEW type \in {"RD", "WR"},
             LockDenied(t, r, type)
      PROVE  DistinctRows'
  BY <1>6 DEF TypeOK, LockDenied, StartCleanup
<1>7. ASSUME NEW t \in Threads, StartWaiting(t)
      PROVE  DistinctRows'
  BY <1>7 DEF TypeOK, StartWaiting
<1>8. ASSUME NEW t \in Threads, Timeout(t)
      PROVE  DistinctRows'
  BY <1>8 DEF TypeOK, Timeout
<1>9. ASSUME NEW t \in Threads, NEW u \in Threads, DetectDeadlock(t, u)
      PROVE  DistinctRows'
  BY <1>9 DEF TypeOK, DetectDeadlock
<1>10. ASSUME NEW t \in Threads, WaitGranted(t)
       PROVE  DistinctRows'
  BY <1>10 DEF TypeOK, WaitGranted, LeaveLoop
<1>11. ASSUME NEW t \in Threads, WaitAborted(t)
       PROVE  DistinctRows'
  BY <1>11 DEF TypeOK, WaitAborted, LeaveLoop
<1>12. ASSUME NEW t \in Threads, RecordAccess(t)
       PROVE  DistinctRows'
  <2> DEFINE a == [row |-> req[t].row, type |-> req[t].type,
                   orig |-> data[req[t].row], val |-> data[req[t].row]]
  <2>1. accesses' = [accesses EXCEPT ![t] = Append(accesses[t], a)]
    BY <1>12 DEF RecordAccess
  <2>2. a.row = req[t].row
    OBVIOUS
  <2>3. \A i \in 1..Len(accesses[t]) : accesses[t][i].row # a.row
    BY <1>12, <2>2 DEF RecordAccess
  <2> HIDE DEF a
  <2>4. accesses'[t] = Append(accesses[t], a)
    BY <2>1 DEF TypeOK
  <2>5. /\ Len(accesses'[t]) = Len(accesses[t]) + 1
        /\ \A i \in 1..Len(accesses[t]) : accesses'[t][i] = accesses[t][i]
        /\ accesses'[t][Len(accesses[t]) + 1] = a
    BY <2>4 DEF TypeOK
  <2>6. \A i, j \in 1..Len(accesses'[t]) : accesses'[t][i].row = accesses'[t][j].row => i = j
    <3> SUFFICES ASSUME NEW i \in 1..Len(accesses'[t]), NEW j \in 1..Len(accesses'[t]),
                        accesses'[t][i].row = accesses'[t][j].row
                 PROVE  i = j
      OBVIOUS
    <3> DEFINE n == Len(accesses[t])
    <3>1. n \in Nat
      BY DEF TypeOK
    <3>2. (i \in 1..n \/ i = n + 1) /\ (j \in 1..n \/ j = n + 1)
      BY <2>5, <3>1
    <3>3. CASE i \in 1..n /\ j \in 1..n
      BY <2>5, <3>3
    <3>4. CASE i \in 1..n /\ j = n + 1
      BY <2>3, <2>5, <3>4
    <3>5. CASE i = n + 1 /\ j \in 1..n
      BY <2>3, <2>5, <3>5
    <3> QED
      BY <3>2, <3>3, <3>4, <3>5
  <2>7. \A u \in Threads \ {t} : accesses'[u] = accesses[u] /\ req'[u] = req[u] /\ pc'[u] = pc[u]
    BY <1>12, <2>1 DEF TypeOK, RecordAccess
  <2>8. pc'[t] = "run"
    BY <1>12 DEF TypeOK, RecordAccess
  <2> QED
    BY <2>6, <2>7, <2>8
<1>13. ASSUME NEW t \in Threads, NEW i \in 1..Len(accesses[t]), NEW v \in Val,
              WriteRow(t, i, v)
       PROVE  DistinctRows'
  <2>1. \A u \in Threads : /\ Len(accesses'[u]) = Len(accesses[u])
                           /\ \A j \in 1..Len(accesses[u]) :
                                accesses'[u][j].row = accesses[u][j].row
    BY <1>13 DEF TypeOK, WriteRow, Access
  <2> QED
    BY <1>13, <2>1 DEF TypeOK, WriteRow
<1>14. ASSUME NEW t \in Threads, Finish(t)
       PROVE  DistinctRows'
  BY <1>14 DEF TypeOK, Finish, StartCleanup
<1>15. ASSUME NEW t \in Threads, GiveUp(t)
       PROVE  DistinctRows'
  BY <1>15 DEF TypeOK, GiveUp, StartCleanup
<1>16. ASSUME NEW t \in Threads, RestoreRow(t)
       PROVE  DistinctRows'
  BY <1>16 DEF TypeOK, RestoreRow
<1>17. ASSUME NEW t \in Threads, ReturnRow(t)
       PROVE  DistinctRows'
  BY <1>17 DEF TypeOK, ReturnRow
<1>18. ASSUME NEW t \in Threads, CleanupDone(t)
       PROVE  DistinctRows'
  BY <1>18 DEF TypeOK, CleanupDone
<1>19. CASE UNCHANGED vars
  BY <1>19 DEF vars
<1> QED
  BY <1>1, <1>2, <1>3, <1>4, <1>5, <1>6, <1>7, <1>8, <1>9, <1>10, <1>11, <1>12,
     <1>13, <1>14, <1>15, <1>16, <1>17, <1>18, <1>19 DEF Next, Step

-----------------------------------------------------------------------------
(***************************************************************************)
(* The steps that leave the lock table alone                               *)
(***************************************************************************)
LockInv == LockTable /\ LockCompatibility /\ NoLostWakeup

\* What a thread believes about locks depends on these variables only.
LEMMA Untouched ==
  ASSUME NEW u \in Threads, pc'[u] = pc[u], req'[u] = req[u], accesses'[u] = accesses[u],
         rid'[u] = rid[u], lock_ready'[u] = lock_ready[u]
  PROVE  SameView(u)
BY DEF SameView, Pending, Waits, HasLock, Held

\* A step that changes neither the lock table nor what a thread believes about
\* locks keeps the two in agreement.
LEMMA QuietLocks ==
  ASSUME TypeOK, LockInv, UNCHANGED lockVars, \A u \in Threads : SameView(u)
  PROVE  LockInv'
<1> USE DEF LockInv, lockVars
<1>1. LockTable'
  <2> SUFFICES ASSUME NEW r \in Rows
               PROVE
    /\ \A t \in Threads : t \in owners[r] <=> HasLock(t, r, "SH")' \/ HasLock(t, r, "EX")'
    /\ \A t \in Threads : Pending(t)' /\ req'[t].row = r =>
                            \E i \in 1..Len(waiters[r]) : waiters[r][i].txn = t
    /\ \A i \in 1..Len(waiters[r]) :
         /\ Pending(waiters[r][i].txn)'
         /\ req'[waiters[r][i].txn].row = r
         /\ Mode(req'[waiters[r][i].txn].type) = waiters[r][i].type
    /\ \A i, j \in 1..Len(waiters[r]) : waiters[r][i].txn = waiters[r][j].txn => i = j
    BY DEF LockTable, Mode
  <2>1. \A t \in Threads : t \in owners[r] <=> HasLock(t, r, "SH")' \/ HasLock(t, r, "EX")'
    BY DEF LockTable, SameView, LockMode
  <2>2. ASSUME NEW t \in Threads, Pending(t)', req'[t].row = r
        PROVE  \E i \in 1..Len(waiters[r]) : waiters[r][i].txn = t
    <3>1. Pending(t) /\ req[t].row = r
      BY <2>2 DEF SameView
    <3> QED
      BY <3>1 DEF LockTable
  <2>3. ASSUME NEW i \in 1..Len(waiters[r])
        PROVE  /\ Pending(waiters[r][i].txn)'
               /\ req'[waiters[r][i].txn].row = r
               /\ Mode(req'[waiters[r][i].txn].type) = waiters[r][i].type
    <3>1. waiters[r][i].txn \in Threads
      BY EntryType DEF TypeOK
    <3>2. /\ Pending(waiters[r][i].txn)
          /\ req[waiters[r][i].txn].row = r
          /\ Mode(req[waiters[r][i].txn].type) = waiters[r][i].type
      BY DEF LockTable
    <3> QED
      BY <3>1, <3>2 DEF SameView
  <2>4. \A i, j \in 1..Len(waiters[r]) : waiters[r][i].txn = waiters[r][j].txn => i = j
    BY DEF LockTable
  <2> QED
    BY <2>1, <2>2, <2>3, <2>4
<1>2. LockCompatibility'
  <2>1. ASSUME NEW r \in Rows, NEW t \in owners[r]
        PROVE  HasLock(t, r, lock_type[r])'
    <3>1. t \in Threads /\ lock_type[r] \in LockMode
      BY DEF TypeOK
    <3>2. HasLock(t, r, lock_type[r])
      BY DEF LockCompatibility
    <3>3. PICK m \in LockMode : m = lock_type[r]
      BY <3>1
    <3>4. HasLock(t, r, m)'
      BY <3>1, <3>2, <3>3 DEF SameView
    <3>5. m = lock_type'[r]
      BY <3>3
    <3> QED
      BY <3>4, <3>5 DEF HasLock
  <2>2. ASSUME NEW r \in Rows
        PROVE  /\ lock_type[r] = "NONE" <=> owners[r] = {}
               /\ lock_type[r] = "EX" => \A t, u \in owners[r] : t = u
    BY DEF LockCompatibility
  <2>3. lock_type' = lock_type /\ owners' = owners
    OBVIOUS
  <2> QED
    BY <2>1, <2>2, <2>3 DEF LockCompatibility
<1>3. NoLostWakeup'
  BY DEF NoLostWakeup, conflict_lock
<1> QED
  BY <1>1, <1>2, <1>3

\* Nothing but lock_get and lock_release changes the lock table, and no other
\* step changes what a thread believes.
LEMMA QuietStep ==
  ASSUME TypeOK, Shape, LockInv, NEW t \in Threads,
         \/ NewQuery(t) \/ RetryQuery(t) \/ RowBufferFull(t)
         \/ \E r \in Rows, type \in {"RD", "WR"} : LockDenied(t, r, type)
         \/ StartWaiting(t) \/ Timeout(t) \/ \E u \in Threads : DetectDeadlock(t, u)
         \/ WaitGranted(t) \/ WaitAborted(t) \/ RecordAccess(t)
         \/ \E i \in 1..Len(accesses[t]), v \in Val : WriteRow(t, i, v)
         \/ Finish(t) \/ RestoreRow(t) \/ CleanupDone(t)
  PROVE  LockInv'
<1> USE DEF queryVars, lockVars, flagVars
<1> DEFINE Elsewhere == \A u \in Threads \ {t} :
                          /\ pc'[u] = pc[u] /\ req'[u] = req[u] /\ accesses'[u] = accesses[u]
                          /\ rid'[u] = rid[u] /\ lock_ready'[u] = lock_ready[u]
<1>0. ASSUME Elsewhere, UNCHANGED lockVars, SameView(t)
      PROVE  LockInv'
  BY <1>0, Untouched, QuietLocks
<1> HIDE DEF Elsewhere
<1>1. CASE NewQuery(t) \/ RetryQuery(t)
  <2>1. pc[t] = "idle" /\ Started(t)
    BY <1>1 DEF NewQuery, RetryQuery
  <2>2. Elsewhere /\ UNCHANGED lockVars
    BY <2>1 DEF Started, TypeOK, Elsewhere
  <2>3. SameView(t)
    BY <2>1 DEF Started, TypeOK, SameView, Pending, Waits, HasLock, Held
  <2> QED
    BY <1>0, <2>2, <2>3
<1>2. CASE \/ RowBufferFull(t) \/ Finish(t)
           \/ \E r \in Rows, type \in {"RD", "WR"} : LockDenied(t, r, type)
  <2>1. /\ pc[t] = "run"
        /\ pc' = [pc EXCEPT ![t] = "cleanup"]
        /\ rid' = [rid EXCEPT ![t] = Len(accesses[t])]
        /\ \E x : req' = [req EXCEPT ![t] = x]
        /\ UNCHANGED <<lockVars, lock_ready, accesses>>
    BY <1>2 DEF RowBufferFull, Finish, LockDenied, Requests, StartCleanup
  <2>2. Elsewhere /\ UNCHANGED lockVars
    BY <2>1 DEF TypeOK, Elsewhere
  <2>3. SameView(t)
    BY <2>1 DEF TypeOK, SameView, Pending, Waits, HasLock, Held
  <2> QED
    BY <1>0, <2>2, <2>3
<1>3. CASE StartWaiting(t) \/ WaitGranted(t) \/ WaitAborted(t)
  <2>1. Elsewhere /\ UNCHANGED lockVars
    BY <1>3 DEF StartWaiting, WaitGranted, WaitAborted, LeaveLoop, TypeOK, Elsewhere
  <2>2. SameView(t)
    BY <1>3 DEF StartWaiting, WaitGranted, WaitAborted, LeaveLoop, TypeOK,
                SameView, Pending, Waits, HasLock, Held
  <2> QED
    BY <1>0, <2>1, <2>2
<1>4. CASE Timeout(t) \/ \E u \in Threads : DetectDeadlock(t, u)
  <2>1. Elsewhere /\ UNCHANGED lockVars
    BY <1>4 DEF Timeout, DetectDeadlock, Elsewhere
  <2>2. SameView(t)
    BY <1>4, Untouched DEF Timeout, DetectDeadlock
  <2> QED
    BY <1>0, <2>1, <2>2
<1>5. CASE RecordAccess(t)
  <2> DEFINE a == [row |-> req[t].row, type |-> req[t].type,
                   orig |-> data[req[t].row], val |-> data[req[t].row]]
             n == Len(accesses[t])
  <2>1. accesses' = [accesses EXCEPT ![t] = Append(accesses[t], a)]
    BY <1>5 DEF RecordAccess
  <2>2. a.row = req[t].row /\ a.type = req[t].type
    OBVIOUS
  <2> HIDE DEF a
  <2>3. Elsewhere /\ UNCHANGED lockVars
    BY <1>5, <2>1 DEF RecordAccess, TypeOK, Elsewhere
  <2>4. accesses[t] \in Seq(Access) /\ accesses'[t] = Append(accesses[t], a)
    BY <2>1 DEF TypeOK
  <2>5. /\ n \in Nat
        /\ Len(accesses'[t]) = n + 1
        /\ \A i \in 1..n : accesses'[t][i] = accesses[t][i]
        /\ accesses'[t][n + 1] = a
    BY <2>4
  <2>6. pc[t] = "granted" /\ pc'[t] = "run"
    BY <1>5 DEF RecordAccess, TypeOK
  <2>7. Held(t) = 1..n /\ Held(t)' = 1..(n + 1)
    BY <2>5, <2>6 DEF Held
  <2>8. \A r \in Rows, m \in LockMode : HasLock(t, r, m)' <=> HasLock(t, r, m)
    <3> TAKE r \in Rows, m \in LockMode
    <3>1. HasLock(t, r, m)' <=> \E i \in 1..(n + 1) : accesses'[t][i].row = r
                                                     /\ Mode(accesses'[t][i].type) = m
      BY <2>6, <2>7 DEF HasLock, Waits, Mode
    <3>2. HasLock(t, r, m) <=> \/ \E i \in 1..n : accesses[t][i].row = r
                                                  /\ Mode(accesses[t][i].type) = m
                               \/ a.row = r /\ Mode(a.type) = m
      BY <2>2, <2>6, <2>7 DEF HasLock, Waits
    <3>3. \A i : i \in 1..(n + 1) <=> i \in 1..n \/ i = n + 1
      BY <2>5
    <3> QED
      BY <2>5, <3>1, <3>2, <3>3
  <2>9. SameView(t)
    BY <2>6, <2>8 DEF SameView, Pending, Waits
  <2> QED
    BY <1>0, <2>3, <2>9
<1>6. CASE \E i \in 1..Len(accesses[t]), v \in Val : WriteRow(t, i, v)
  <2>1. PICK i \in 1..Len(accesses[t]), v \in Val : WriteRow(t, i, v)
    BY <1>6
  <2>2. Elsewhere /\ UNCHANGED lockVars
    BY <2>1 DEF WriteRow, TypeOK, Elsewhere
  <2>3. /\ Len(accesses'[t]) = Len(accesses[t])
        /\ \A j \in 1..Len(accesses[t]) : /\ accesses'[t][j].row = accesses[t][j].row
                                           /\ accesses'[t][j].type = accesses[t][j].type
    BY <2>1, SMTT(30) DEF WriteRow, TypeOK, Access
  <2>4. pc[t] = "run" /\ pc'[t] = "run"
    BY <2>1 DEF WriteRow
  <2>5. SameView(t)
    BY <2>3, <2>4 DEF SameView, Pending, Waits, HasLock, Held, Mode
  <2> QED
    BY <1>0, <2>2, <2>5
<1>7. CASE RestoreRow(t)
  <2>1. Elsewhere /\ UNCHANGED lockVars
    BY <1>7 DEF RestoreRow, TypeOK, Elsewhere
  <2>2. SameView(t)
    BY <1>7 DEF RestoreRow, TypeOK, SameView, Pending, Waits, HasLock, Held
  <2> QED
    BY <1>0, <2>1, <2>2
<1>8. CASE CleanupDone(t)
  <2>1. Elsewhere /\ UNCHANGED lockVars
    BY <1>8 DEF CleanupDone, TypeOK, Elsewhere
  <2>2. SameView(t)
    BY <1>8 DEF CleanupDone, TypeOK, SameView, Pending, Waits, HasLock, Held
  <2> QED
    BY <1>0, <2>1, <2>2
<1> QED
  BY <1>1, <1>2, <1>3, <1>4, <1>5, <1>6, <1>7, <1>8

-----------------------------------------------------------------------------
(***************************************************************************)
(* lock_get                                                                *)
(***************************************************************************)

\* A thread that runs has no request pending and no lock on a row it has not
\* accessed.
LEMMA Requester ==
  ASSUME TypeOK, LockInv, NEW t \in Threads, NEW r \in Rows, NEW type \in {"RD", "WR"},
         Requests(t, r, type)
  PROVE  /\ ~Pending(t)
         /\ \A m \in LockMode : ~HasLock(t, r, m)
         /\ t \notin owners[r]
         /\ \A q \in Rows : \A i \in 1..Len(waiters[q]) : waiters[q][i].txn # t
<1>1. ~Pending(t)
  BY DEF Requests, Pending, Waits
<1>2. \A m \in LockMode : ~HasLock(t, r, m)
  BY DEF Requests, HasLock, Held, Waits, Accessed
<1>3. t \notin owners[r]
  BY <1>2 DEF LockInv, LockTable, LockMode
<1>4. \A q \in Rows : \A i \in 1..Len(waiters[q]) : waiters[q][i].txn # t
  BY <1>1 DEF LockInv, LockTable
<1> QED
  BY <1>1, <1>2, <1>3, <1>4

\* A lock granted by lock_get is compatible with the ones granted before, and
\* leaves the first waiter in conflict with the owners.
LEMMA GrantStep ==
  ASSUME TypeOK, LockInv, NEW t \in Threads, NEW r \in Rows, NEW type \in {"RD", "WR"},
         LockGranted(t, r, type)
  PROVE  LockInv'
<1> USE DEF LockInv
<1> DEFINE m == Mode(type)
<1>1. /\ Requests(t, r, type)
      /\ ~conflict_lock(lock_type[r], m)
      /\ owners' = [owners EXCEPT ![r] = @ \cup {t}]
      /\ lock_type' = [lock_type EXCEPT ![r] = m]
      /\ req' = [req EXCEPT ![t] = [row |-> r, type |-> type]]
      /\ pc' = [pc EXCEPT ![t] = "granted"]
      /\ UNCHANGED <<waiters, lock_ready, accesses, rid>>
  BY DEF LockGranted, ConflictFor, Conflict, flagVars
<1>2. /\ ~Pending(t)
      /\ \A k \in LockMode : ~HasLock(t, r, k)
      /\ t \notin owners[r]
      /\ \A q \in Rows : \A i \in 1..Len(waiters[q]) : waiters[q][i].txn # t
  BY <1>1, Requester
<1>3. m \in {"SH", "EX"}
  BY DEF Mode
<1>4. \A u \in Threads \ {t} : SameView(u)
  <2>1. \A u \in Threads \ {t} : /\ pc'[u] = pc[u] /\ req'[u] = req[u]
                                /\ accesses'[u] = accesses[u] /\ rid'[u] = rid[u]
                                /\ lock_ready'[u] = lock_ready[u]
    BY <1>1 DEF TypeOK
  <2> QED
    BY <2>1, Untouched
<1>5. ~Pending(t)'
  BY <1>1 DEF Pending, Waits, TypeOK
<1>6. ASSUME NEW q \in Rows, NEW k \in LockMode
      PROVE  HasLock(t, q, k)' <=> HasLock(t, q, k) \/ (q = r /\ k = m)
  <2>1. pc[t] = "run" /\ pc'[t] = "granted" /\ req'[t].row = r /\ Mode(req'[t].type) = m
    BY <1>1 DEF Requests, TypeOK
  <2>2. Held(t)' = Held(t) /\ accesses'[t] = accesses[t]
    BY <1>1, <2>1 DEF Held
  <2> QED
    BY <2>1, <2>2 DEF HasLock, Waits, Mode
<1>7. owners[r] # {} => lock_type[r] = "SH" /\ m = "SH"
  <2>1. owners[r] # {} => lock_type[r] # "NONE"
    BY DEF LockCompatibility
  <2> QED
    BY <1>1, <1>3, <2>1 DEF conflict_lock, TypeOK, LockMode
<1>8. \A q \in Rows : /\ owners'[q] = IF q = r THEN owners[r] \cup {t} ELSE owners[q]
                      /\ lock_type'[q] = IF q = r THEN m ELSE lock_type[q]
                      /\ waiters'[q] = waiters[q]
  BY <1>1 DEF TypeOK
<1> HIDE DEF m
<1>9. LockTable'
  <2> SUFFICES ASSUME NEW q \in Rows
               PROVE
    /\ \A u \in Threads : u \in owners'[q] <=> HasLock(u, q, "SH")' \/ HasLock(u, q, "EX")'
    /\ \A u \in Threads : Pending(u)' /\ req'[u].row = q =>
                            \E i \in 1..Len(waiters[q]) : waiters[q][i].txn = u
    /\ \A i \in 1..Len(waiters[q]) :
         /\ Pending(waiters[q][i].txn)'
         /\ req'[waiters[q][i].txn].row = q
         /\ Mode(req'[waiters[q][i].txn].type) = waiters[q][i].type
    /\ \A i, j \in 1..Len(waiters[q]) : waiters[q][i].txn = waiters[q][j].txn => i = j
    BY <1>8 DEF LockTable, Mode
  <2>1. ASSUME NEW u \in Threads
        PROVE  u \in owners'[q] <=> HasLock(u, q, "SH")' \/ HasLock(u, q, "EX")'
    <3>1. u \in owners[q] <=> HasLock(u, q, "SH") \/ HasLock(u, q, "EX")
      BY DEF LockTable
    <3>2. CASE u = t
      BY <1>3, <1>6, <1>8, <3>1, <3>2 DEF LockMode
    <3>3. CASE u # t
      BY <1>4, <1>8, <3>1, <3>3 DEF LockMode, SameView
    <3> QED
      BY <3>2, <3>3
  <2>2. ASSUME NEW u \in Threads, Pending(u)', req'[u].row = q
        PROVE  \E i \in 1..Len(waiters[q]) : waiters[q][i].txn = u
    <3>1. u # t /\ Pending(u) /\ req[u].row = q
      BY <1>4, <1>5, <2>2 DEF SameView
    <3> QED
      BY <3>1 DEF LockTable
  <2>3. ASSUME NEW i \in 1..Len(waiters[q])
        PROVE  /\ Pending(waiters[q][i].txn)'
               /\ req'[waiters[q][i].txn].row = q
               /\ Mode(req'[waiters[q][i].txn].type) = waiters[q][i].type
    <3>1. waiters[q][i].txn \in Threads \ {t}
      BY <1>2, EntryType DEF TypeOK
    <3>2. /\ Pending(waiters[q][i].txn)
          /\ req[waiters[q][i].txn].row = q
          /\ Mode(req[waiters[q][i].txn].type) = waiters[q][i].type
      BY DEF LockTable
    <3>3. PICK u \in Threads \ {t} : u = waiters[q][i].txn
      BY <3>1
    <3>4. Pending(u)' /\ req'[u] = req[u]
      BY <1>4, <3>2, <3>3 DEF SameView
    <3> QED
      BY <1>1, <3>2, <3>3, <3>4
  <2>4. \A i, j \in 1..Len(waiters[q]) : waiters[q][i].txn = waiters[q][j].txn => i = j
    BY DEF LockTable
  <2> QED
    BY <2>1, <2>2, <2>3, <2>4
<1>10. LockCompatibility'
  <2>1. ASSUME NEW q \in Rows, NEW u \in owners'[q]
        PROVE  HasLock(u, q, lock_type[q])'
    <3>1. PICK k \in LockMode : k = lock_type'[q]
      BY <1>3, <1>8 DEF TypeOK, LockMode
    <3>2. u \in Threads
      <4>1. owners[q] \subseteq Threads /\ owners'[q] \subseteq owners[q] \cup {t}
        BY <1>8 DEF TypeOK
      <4> QED
        BY <4>1
    <3>3. CASE q = r /\ u = t
      <4>1. HasLock(u, q, k)'
        BY <1>6, <1>8, <3>1, <3>3
      <4> QED
        BY <4>1, <3>1 DEF HasLock
    <3>4. CASE ~(q = r /\ u = t)
      <4>1. u \in owners[q] /\ k = lock_type[q]
        BY <1>7, <1>8, <3>1, <3>4
      <4>2. HasLock(u, q, k)
        BY <4>1 DEF LockCompatibility
      <4>3. HasLock(u, q, k)'
        BY <1>4, <1>6, <3>2, <4>2 DEF SameView
      <4> QED
        BY <4>3, <3>1 DEF HasLock
    <3> QED
      BY <3>3, <3>4
  <2>2. ASSUME NEW q \in Rows
        PROVE  /\ lock_type'[q] = "NONE" <=> owners'[q] = {}
               /\ lock_type'[q] = "EX" => \A x, y \in owners'[q] : x = y
    BY <1>3, <1>7, <1>8 DEF LockCompatibility
  <2> QED
    BY <2>1, <2>2 DEF LockCompatibility
<1>11. NoLostWakeup'
  <2>1. ASSUME NEW q \in Rows, waiters[q] # <<>>
        PROVE  conflict_lock(lock_type'[q], waiters[q][1].type)
    <3>1. conflict_lock(lock_type[q], waiters[q][1].type)
      BY <2>1 DEF NoLostWakeup
    <3>2. lock_type[q] # "NONE"
      BY <3>1 DEF conflict_lock
    <3>3. owners[q] # {}
      BY <3>2 DEF LockCompatibility
    <3>4. lock_type'[q] = lock_type[q]
      BY <1>7, <1>8, <3>3
    <3> QED
      BY <3>1, <3>4
  <2> QED
    BY <1>1, <2>1 DEF NoLostWakeup, conflict_lock
<1> QED
  BY <1>9, <1>10, <1>11

\* A request that has to wait enters the list once; if it becomes the head it
\* is the owners it waits for, not another waiter.
LEMMA WaitStep ==
  ASSUME TypeOK, LockInv, NEW t \in Threads, NEW r \in Rows, NEW type \in {"RD", "WR"},
         LockWait(t, r, type)
  PROVE  LockInv'
<1> USE DEF LockInv
<1> DEFINE e == [txn |-> t, type |-> Mode(type)]
           w == waiters[r]
           n == Len(w)
<1>1. /\ Requests(t, r, type)
      /\ Conflict(cc_alg, lock_type[r], w, Mode(type), t, ts)
      /\ lock_ready' = [lock_ready EXCEPT ![t] = FALSE]
      /\ req' = [req EXCEPT ![t] = [row |-> r, type |-> type]]
      /\ pc' = [pc EXCEPT ![t] = "enqueued"]
      /\ UNCHANGED <<lock_type, owners, accesses, rid>>
  BY DEF LockWait, ConflictFor
<1>2. PICK p \in 1..(n + 1) :
        /\ WaitPosition(cc_alg, w, t, ts, p)
        /\ waiters' = [waiters EXCEPT ![r] = InsertAt(w, p, e)]
  BY DEF LockWait
<1>3. /\ ~Pending(t)
      /\ \A k \in LockMode : ~HasLock(t, r, k)
      /\ t \notin owners[r]
      /\ \A q \in Rows : \A i \in 1..Len(waiters[q]) : waiters[q][i].txn # t
  BY <1>1, Requester
<1>4. w \in Seq(LockEntry) /\ e \in LockEntry /\ n \in Nat
  <2>1. w \in Seq(LockEntry)
    BY DEF TypeOK
  <2>2. e \in LockEntry
    BY DEF LockEntry, Mode
  <2> QED
    BY <2>1, <2>2, LenProperties
<1> DEFINE v == InsertAt(w, p, e)
<1>5. /\ Len(v) = n + 1
      /\ v[p] = e
      /\ \A i \in 1..n : \E j \in 1..(n + 1) : v[j] = w[i]
      /\ \A j \in 1..(n + 1) : j # p =>
           \E i \in 1..n : /\ v[j] = w[i]
                           /\ (j < p /\ i = j) \/ (j > p /\ i = j - 1)
  <2> HIDE DEF w, e
  <2>1. Len(v) = n + 1
    BY <1>4, InsertAtLen
  <2>2. v[p] = e
    BY <1>4, InsertAtNew
  <2>3. ASSUME NEW i \in 1..n
        PROVE  \E j \in 1..(n + 1) : v[j] = w[i]
    <3>1. v[IF i < p THEN i ELSE i + 1] = w[i]
      BY <1>4, InsertAtOld
    <3>2. (IF i < p THEN i ELSE i + 1) \in 1..(n + 1)
      BY <1>4
    <3> HIDE DEF v
    <3> QED
      BY <3>1, <3>2
  <2>4. ASSUME NEW j \in 1..(n + 1), j # p
        PROVE  \E i \in 1..n : /\ v[j] = w[i]
                               /\ (j < p /\ i = j) \/ (j > p /\ i = j - 1)
    <3>1. v[j] = IF j < p THEN w[j] ELSE IF j = p THEN e ELSE w[j - 1]
      BY <1>4, InsertAtElement
    <3> HIDE DEF v, n
    <3>2. CASE j < p
      BY <1>4, <3>1, <3>2
    <3>3. CASE j > p
      <4>1. j - 1 \in 1..n /\ v[j] = w[j - 1]
        BY <1>4, <3>1, <3>3
      <4> QED
        BY <3>3, <4>1
    <3> QED
      BY <1>4, <2>4, <3>2, <3>3
  <2> QED
    BY <2>1, <2>2, <2>3, <2>4
<1>6. waiters'[r] = v /\ \A q \in Rows \ {r} : waiters'[q] = waiters[q]
  BY <1>2 DEF TypeOK
<1>7. e.txn = t /\ e.type = Mode(type)
  OBVIOUS
<1> HIDE DEF v, e
<1>8. \A u \in Threads \ {t} : SameView(u)
  <2>1. \A u \in Threads \ {t} : /\ pc'[u] = pc[u] /\ req'[u] = req[u]
                                /\ accesses'[u] = accesses[u] /\ rid'[u] = rid[u]
                                /\ lock_ready'[u] = lock_ready[u]
    BY <1>1 DEF TypeOK
  <2> QED
    BY <2>1, Untouched
<1>9. Pending(t)' /\ req'[t].row = r /\ req'[t].type = type
  BY <1>1 DEF Pending, Waits, TypeOK
<1>10. \A u \in Threads, q \in Rows, k \in LockMode : HasLock(u, q, k)' <=> HasLock(u, q, k)
  <2>1. ASSUME NEW q \in Rows, NEW k \in LockMode
        PROVE  HasLock(t, q, k)' <=> HasLock(t, q, k)
    <3>1. pc[t] = "run" /\ pc'[t] = "enqueued" /\ ~lock_ready'[t] /\ accesses'[t] = accesses[t]
      BY <1>1 DEF Requests, TypeOK
    <3>2. Held(t)' = Held(t)
      BY <3>1 DEF Held
    <3> QED
      BY <3>1, <3>2 DEF HasLock, Waits
  <2> QED
    BY <1>8, <2>1 DEF SameView
<1>11. ASSUME NEW q \in Rows, NEW i \in 1..Len(waiters[q]), NEW u \in Threads,
              waiters[q][i].txn = u
       PROVE  u # t /\ Pending(u)' /\ req'[u].row = q /\ Mode(req'[u].type) = waiters[q][i].type
  <2>1. u # t /\ Pending(u) /\ req[u].row = q /\ Mode(req[u].type) = waiters[q][i].type
    BY <1>3, <1>11 DEF LockTable
  <2> QED
    BY <1>8, <2>1 DEF SameView
<1>12. LockTable'
  <2> SUFFICES ASSUME NEW q \in Rows
               PROVE
    /\ \A u \in Threads : u \in owners'[q] <=> HasLock(u, q, "SH")' \/ HasLock(u, q, "EX")'
    /\ \A u \in Threads : Pending(u)' /\ req'[u].row = q =>
                            \E i \in 1..Len(waiters'[q]) : waiters'[q][i].txn = u
    /\ \A i \in 1..Len(waiters'[q]) : \E u \in Threads :
         /\ waiters'[q][i].txn = u
         /\ Pending(u)'
         /\ req'[u].row = q
         /\ Mode(req'[u].type) = waiters'[q][i].type
    /\ \A i, j \in 1..Len(waiters'[q]) : waiters'[q][i].txn = waiters'[q][j].txn => i = j
    BY DEF LockTable, Mode, Pending, Waits
  <2>1. \A u \in Threads : u \in owners'[q] <=> HasLock(u, q, "SH")' \/ HasLock(u, q, "EX")'
    BY <1>1, <1>10 DEF LockTable, LockMode
  <2>2. CASE q # r
    <3>1. waiters'[q] = waiters[q]
      BY <1>6, <2>2
    <3>2. ASSUME NEW u \in Threads, Pending(u)', req'[u].row = q
          PROVE  \E i \in 1..Len(waiters[q]) : waiters[q][i].txn = u
      <4>1. u # t
        BY <1>9, <2>2, <3>2
      <4>2. Pending(u) /\ req[u].row = q
        BY <1>8, <3>2, <4>1 DEF SameView
      <4> QED
        BY <4>2 DEF LockTable
    <3>3. \A i \in 1..Len(waiters[q]) : waiters[q][i].txn \in Threads
      BY EntryType DEF TypeOK
    <3>4. \A i, j \in 1..Len(waiters[q]) : waiters[q][i].txn = waiters[q][j].txn => i = j
      BY DEF LockTable
    <3>5. \A i \in 1..Len(waiters[q]) : \E u \in Threads :
            /\ waiters[q][i].txn = u
            /\ Pending(u)'
            /\ req'[u].row = q
            /\ Mode(req'[u].type) = waiters[q][i].type
      BY <1>11, <3>3
    <3>6. \A u \in Threads : Pending(u)' /\ req'[u].row = q =>
                             \E i \in 1..Len(waiters[q]) : waiters[q][i].txn = u
      BY <3>2
    <3> QED
      BY ONLY <2>1, <3>1, <3>4, <3>5, <3>6, Zenon
  <2>3. CASE q = r
    <3>1. ASSUME NEW u \in Threads, Pending(u)', req'[u].row = r
          PROVE  \E j \in 1..(n + 1) : v[j].txn = u
      <4>1. CASE u = t
        BY <1>5, <1>7, <4>1
      <4>2. CASE u # t
        <5>1. Pending(u) /\ req[u].row = r
          BY <1>8, <3>1, <4>2 DEF SameView
        <5>2. PICK i \in 1..n : w[i].txn = u
          BY <5>1 DEF LockTable
        <5> QED
          BY <1>5, <5>2
      <4> QED
        BY <4>1, <4>2
    <3>2. ASSUME NEW j \in 1..(n + 1)
          PROVE  \E u \in Threads : /\ v[j].txn = u
                                     /\ Pending(u)'
                                     /\ req'[u].row = r
                                     /\ Mode(req'[u].type) = v[j].type
      <4>1. CASE j = p
        BY <1>5, <1>7, <1>9, <4>1
      <4>2. CASE j # p
        <5>1. PICK i \in 1..n : v[j] = w[i]
          BY <1>5, <4>2
        <5>2. w[i].txn \in Threads
          BY <1>4, EntryType
        <5> QED
          BY <1>11, <5>1, <5>2
      <4> QED
        BY <4>1, <4>2
    <3>3. ASSUME NEW j \in 1..(n + 1), NEW k \in 1..(n + 1), v[j].txn = v[k].txn
          PROVE  j = k
      <4>1. \A i \in 1..n : w[i].txn # t
        BY <1>3
      <4>2. \A i, h \in 1..n : w[i].txn = w[h].txn => i = h
        BY DEF LockTable
      <4>3. CASE j # p /\ k # p
        <5>1. PICK i \in 1..n : v[j] = w[i] /\ ((j < p /\ i = j) \/ (j > p /\ i = j - 1))
          BY <1>5, <4>3
        <5>2. PICK h \in 1..n : v[k] = w[h] /\ ((k < p /\ h = k) \/ (k > p /\ h = k - 1))
          BY <1>5, <4>3
        <5>3. i = h
          BY <3>3, <4>2, <5>1, <5>2
        <5> QED
          BY <1>4, <5>1, <5>2, <5>3
      <4>4. CASE j = p /\ k # p
        BY <1>5, <1>7, <3>3, <4>1, <4>4
      <4>5. CASE j # p /\ k = p
        BY <1>5, <1>7, <3>3, <4>1, <4>5
      <4> QED
        BY <4>3, <4>4, <4>5
    <3>4. waiters'[q] = v /\ Len(v) = n + 1
      BY <1>5, <1>6, <2>3
    <3> HIDE DEF n
    <3> QED
      BY <2>1, <2>3, <3>1, <3>2, <3>3, <3>4
  <2> QED
    BY <2>2, <2>3
<1>13. LockCompatibility'
  <2>1. ASSUME NEW q \in Rows, NEW u \in owners[q]
        PROVE  HasLock(u, q, lock_type[q])'
    <3>1. PICK k \in LockMode : k = lock_type[q]
      BY DEF TypeOK
    <3>2. u \in Threads /\ HasLock(u, q, k)
      BY <3>1 DEF LockCompatibility, TypeOK
    <3>3. HasLock(u, q, k)' /\ k = lock_type'[q]
      BY <1>1, <1>10, <3>1, <3>2
    <3> QED
      BY <3>3 DEF HasLock
  <2> QED
    BY <1>1, <2>1 DEF LockCompatibility
<1>14. NoLostWakeup'
  <2>1. ASSUME NEW q \in Rows, waiters'[q] # <<>>
        PROVE  conflict_lock(lock_type[q], waiters'[q][1].type)
    <3>1. CASE q # r
      BY <1>6, <2>1, <3>1 DEF NoLostWakeup
    <3>2. CASE q = r /\ p # 1
      <4>1. v[1] = w[1] /\ n > 0
        BY <1>4, <1>5, <3>2
      <4> QED
        BY <1>4, <1>6, <3>2, <4>1 DEF NoLostWakeup
    <3>3. CASE q = r /\ p = 1
      <4>1. conflict_lock(lock_type[r], Mode(type))
        BY <1>1, <1>2, <1>4, <3>3 DEF Conflict, WaitPosition
      <4> QED
        BY <1>5, <1>6, <1>7, <3>3, <4>1
    <3> QED
      BY <3>1, <3>2, <3>3
  <2> QED
    BY <1>1, <2>1 DEF NoLostWakeup, conflict_lock
<1> QED
  BY <1>12, <1>13, <1>14

-----------------------------------------------------------------------------
(***************************************************************************)
(* lock_release                                                            *)
(***************************************************************************)

\* lock_release either promotes one writer to an empty lock or any number of
\* readers to a lock that is empty or shared.
LEMMA PromotionModes ==
  ASSUME NEW lt \in LockMode, NEW w \in Seq(LockEntry), NEW n \in 1..Len(w),
         Promoted(lt, w, n)
  PROVE  /\ \A i \in 1..n : w[i].type = w[n].type
         /\ lt = "NONE" \/ (lt = "SH" /\ w[n].type = "SH")
         /\ w[n].type = "EX" => n = 1
<1>1. \A i \in 1..n : w[i].type \in {"SH", "EX"}
  BY EntryType
<1>2. \A i \in 1..n : ~conflict_lock(ModeBefore(lt, w, i), w[i].type)
  BY DEF Promoted
<1>3. ASSUME NEW i \in 2..n
      PROVE  w[i].type = "SH" /\ w[i - 1].type = "SH"
  <2>1. i \in 1..n /\ i - 1 \in 1..n /\ i # 1
    OBVIOUS
  <2>2. ~conflict_lock(w[i - 1].type, w[i].type)
    BY <1>2, <2>1 DEF ModeBefore
  <2>3. w[i].type \in {"SH", "EX"} /\ w[i - 1].type \in {"SH", "EX"}
    BY <1>1, <2>1
  <2> QED
    BY <2>2, <2>3 DEF conflict_lock
<1>4. ~conflict_lock(lt, w[1].type) /\ w[1].type \in {"SH", "EX"}
  BY <1>1, <1>2 DEF ModeBefore
<1>5. CASE n = 1
  BY <1>4, <1>5 DEF conflict_lock, LockMode
<1>6. CASE n # 1
  <2>0. n \in Int /\ n >= 1
    BY LenProperties
  <2>1. n >= 2
    BY <1>6, <2>0
  <2>2. w[1].type = "SH" /\ w[n].type = "SH"
    <3>1. 2 \in 2..n /\ n \in 2..n
      BY <2>0, <2>1
    <3>2. w[2 - 1].type = "SH" /\ w[n].type = "SH"
      BY <1>3, <3>1
    <3> QED
      BY <3>2
  <2>3. ASSUME NEW i \in 1..n
        PROVE  w[i].type = "SH"
    <3>1. i = 1 \/ i \in 2..n
      OBVIOUS
    <3> QED
      BY <1>3, <2>2, <3>1
  <2> QED
    BY <1>4, <2>2, <2>3 DEF conflict_lock, LockMode
<1> QED
  BY <1>5, <1>6

\* Of the threads only t changes anything but lock_ready, and t loses its lock
\* on r, or its request for it, and nothing else.
Leaves(t, r) ==
  /\ \A u \in Threads \ {t} : /\ pc'[u] = pc[u] /\ req'[u] = req[u]
                             /\ accesses'[u] = accesses[u] /\ rid'[u] = rid[u]
  /\ \A q \in Rows \ {r}, k \in LockMode : HasLock(t, q, k)' <=> HasLock(t, q, k)
  /\ \A k \in LockMode : ~HasLock(t, r, k)'
  /\ ~Pending(t)'
  /\ Pending(t) => req[t].row = r

\* o, lt and w are what lock_release leaves of the lock of r when the entry of t
\* is taken out.
Remains(t, r, o, lt, w) ==
  /\ o = owners[r] \ {t}
  /\ lt = "NONE" <=> o = {}
  /\ o # {} => lt = lock_type[r]
  /\ \A i \in 1..Len(w) : /\ w[i].txn # t /\ Pending(w[i].txn) /\ req[w[i].txn].row = r
                          /\ Mode(req[w[i].txn].type) = w[i].type
  /\ \A u \in Threads \ {t} :
       Pending(u) /\ req[u].row = r => \E i \in 1..Len(w) : w[i].txn = u
  /\ \A i, j \in 1..Len(w) : w[i].txn = w[j].txn => i = j

\* The end of lock_release hands the lock over correctly.
LEMMA PromoteStep ==
  ASSUME TypeOK, LockInv, NEW t \in Threads, NEW r \in Rows, NEW o, NEW lt \in LockMode,
         NEW w \in Seq(LockEntry),
         Remains(t, r, o, lt, w), PromoteWaiters(r, o, lt, w), Leaves(t, r)
  PROVE  LockInv'
<1> USE DEF LockInv
<1>1. PICK n \in 0..Len(w) :
        /\ Promoted(lt, w, n)
        /\ owners' = [owners EXCEPT ![r] = o \cup {w[i].txn : i \in 1..n}]
        /\ waiters' = [waiters EXCEPT ![r] = SubSeq(w, n + 1, Len(w))]
        /\ lock_type' = [lock_type EXCEPT ![r] = IF n = 0 THEN lt ELSE w[n].type]
        /\ lock_ready' = [u \in Threads |-> lock_ready[u] \/ \E i \in 1..n : w[i].txn = u]
  BY DEF PromoteWaiters
<1> DEFINE P == {w[i].txn : i \in 1..n}
           v == SubSeq(w, n + 1, Len(w))
<1>2. \A i \in 1..Len(w) : w[i].txn \in Threads /\ w[i].type \in {"SH", "EX"}
  BY EntryType
<1>3. Len(w) \in Nat /\ n \in Nat /\ n <= Len(w)
  BY LenProperties
<1>4. Len(v) = Len(w) - n /\ \A i \in 1..(Len(w) - n) : v[i] = w[n + i]
  BY DropProperties
<1>5. /\ owners'[r] = o \cup P
      /\ waiters'[r] = v
      /\ lock_type'[r] = IF n = 0 THEN lt ELSE w[n].type
      /\ \A q \in Rows \ {r} : /\ owners'[q] = owners[q] /\ waiters'[q] = waiters[q]
                              /\ lock_type'[q] = lock_type[q]
  BY <1>1 DEF TypeOK
<1> HIDE DEF v
<1>6. \A u \in Threads : u \in P <=> \E i \in 1..n : w[i].txn = u
  OBVIOUS
<1>7. \A u \in P : u \in Threads \ {t} /\ Pending(u) /\ req[u].row = r
  BY <1>2, <1>3 DEF Remains
<1>8. \A u \in Threads : lock_ready'[u] = (lock_ready[u] \/ u \in P)
  BY <1>1, <1>6
<1> HIDE DEF P
<1>9. ASSUME NEW u \in Threads \ {t}, u \notin P
      PROVE  SameView(u)
  <2>1. lock_ready'[u] = lock_ready[u]
    BY <1>8, <1>9 DEF TypeOK
  <2> QED
    BY <2>1, Untouched DEF Leaves
<1>10. ASSUME NEW u \in P
       PROVE  /\ ~Pending(u)'
              /\ \A q \in Rows \ {r}, k \in LockMode : HasLock(u, q, k)' <=> HasLock(u, q, k)
              /\ \A k \in LockMode : k = Mode(req[u].type) => HasLock(u, r, k)'
  <2>1. /\ u \in Threads /\ pc'[u] = pc[u] /\ req'[u] = req[u] /\ accesses'[u] = accesses[u]
        /\ rid'[u] = rid[u] /\ lock_ready'[u] /\ Waits(u) /\ ~lock_ready[u] /\ req[u].row = r
    BY <1>7, <1>8 DEF Leaves, Pending
  <2>2. ~Pending(u)'
    BY <2>1 DEF Pending
  <2>3. Held(u)' = Held(u)
    BY <2>1 DEF Held
  <2>4. \A q \in Rows \ {r}, k \in LockMode : HasLock(u, q, k)' <=> HasLock(u, q, k)
    BY <2>1, <2>3 DEF HasLock, Waits, Mode
  <2>5. \A k \in LockMode : k = Mode(req[u].type) => HasLock(u, r, k)'
    BY <2>1 DEF HasLock, Waits, Mode
  <2> QED
    BY <2>2, <2>4, <2>5
<1>11. ASSUME NEW q \in Rows \ {r}, NEW u \in Threads, NEW k \in LockMode
       PROVE  HasLock(u, q, k)' <=> HasLock(u, q, k)
  <2>1. CASE u = t
    BY <2>1 DEF Leaves
  <2>2. CASE u \in P
    BY <1>10, <2>2
  <2>3. CASE u # t /\ u \notin P
    BY <1>9, <2>3 DEF SameView
  <2> QED
    BY <2>1, <2>2, <2>3
<1>12. ASSUME NEW u \in Threads, Pending(u)'
       PROVE  u # t /\ u \notin P /\ Pending(u) /\ req'[u] = req[u]
  <2>1. u # t /\ u \notin P
    BY <1>10, <1>12 DEF Leaves
  <2> QED
    BY <1>9, <1>12, <2>1 DEF SameView
<1>13. ASSUME NEW u \in Threads, Pending(u), u # t, u \notin P
       PROVE  Pending(u)' /\ req'[u] = req[u]
  BY <1>9, <1>13 DEF SameView
<1>14. ASSUME NEW i \in 1..Len(w), w[i].txn \in P
       PROVE  i \in 1..n
  <2>1. PICK j \in 1..n : w[j].txn = w[i].txn
    BY <1>14 DEF P
  <2>2. j \in 1..Len(w)
    BY <1>3
  <2> QED
    BY <2>1, <2>2 DEF Remains
<1>15. LockTable'
  <2> SUFFICES ASSUME NEW q \in Rows
               PROVE
    /\ \A u \in Threads : u \in owners'[q] <=> HasLock(u, q, "SH")' \/ HasLock(u, q, "EX")'
    /\ \A u \in Threads : Pending(u)' /\ req'[u].row = q =>
                            \E i \in 1..Len(waiters'[q]) : waiters'[q][i].txn = u
    /\ \A i \in 1..Len(waiters'[q]) : \E u \in Threads :
         /\ waiters'[q][i].txn = u
         /\ Pending(u)'
         /\ req'[u].row = q
         /\ Mode(req'[u].type) = waiters'[q][i].type
    /\ \A i, j \in 1..Len(waiters'[q]) : waiters'[q][i].txn = waiters'[q][j].txn => i = j
    BY DEF LockTable, Mode, Pending, Waits
  <2>1. CASE q # r
    <3>1. owners'[q] = owners[q] /\ waiters'[q] = waiters[q] /\ q \in Rows \ {r}
      BY <1>5, <2>1
    <3>2. \A u \in Threads : u \in owners[q] <=> HasLock(u, q, "SH")' \/ HasLock(u, q, "EX")'
      BY <1>11, <3>1 DEF LockTable, LockMode
    <3>3. ASSUME NEW u \in Threads, Pending(u)', req'[u].row = q
          PROVE  \E i \in 1..Len(waiters[q]) : waiters[q][i].txn = u
      BY <1>12, <3>3 DEF LockTable
    <3>4. ASSUME NEW i \in 1..Len(waiters[q])
          PROVE  \E u \in Threads :
                   /\ waiters[q][i].txn = u
                   /\ Pending(u)'
                   /\ req'[u].row = q
                   /\ Mode(req'[u].type) = waiters[q][i].type
      <4>1. PICK u \in Threads : u = waiters[q][i].txn
        BY EntryType DEF TypeOK
      <4>2. Pending(u) /\ req[u].row = q /\ Mode(req[u].type) = waiters[q][i].type
        BY <4>1 DEF LockTable
      <4>3. u # t /\ u \notin P
        BY <1>7, <2>1, <4>2 DEF Leaves
      <4> QED
        BY <1>13, <4>1, <4>2, <4>3
    <3>5. \A i, j \in 1..Len(waiters[q]) : waiters[q][i].txn = waiters[q][j].txn => i = j
      BY DEF LockTable
    <3> QED
      BY <3>1, <3>2, <3>3, <3>4, <3>5
  <2>2. CASE q = r
    <3>1. ASSUME NEW u \in Threads
          PROVE  u \in o \cup P <=> HasLock(u, r, "SH")' \/ HasLock(u, r, "EX")'
      <4>1. CASE u = t
        BY <1>7, <4>1 DEF Leaves, Remains, LockMode
      <4>2. CASE u \in P
        <5>1. Mode(req[u].type) \in {"SH", "EX"}
          BY DEF Mode
        <5> QED
          BY <1>10, <4>2, <5>1 DEF LockMode
      <4>3. CASE u # t /\ u \notin P
        <5>1. u \in o \cup P <=> u \in owners[r]
          BY <4>3 DEF Remains
        <5>2. u \in owners[r] <=> HasLock(u, r, "SH") \/ HasLock(u, r, "EX")
          BY DEF LockTable
        <5> QED
          BY <1>9, <4>3, <5>1, <5>2 DEF SameView, LockMode
      <4> QED
        BY <4>1, <4>2, <4>3
    <3>2. ASSUME NEW u \in Threads, Pending(u)', req'[u].row = r
          PROVE  \E i \in 1..Len(v) : v[i].txn = u
      <4>1. u # t /\ u \notin P /\ Pending(u) /\ req[u].row = r
        BY <1>12, <3>2
      <4>2. PICK j \in 1..Len(w) : w[j].txn = u
        BY <4>1 DEF Remains
      <4>3. j \notin 1..n
        BY <4>1, <4>2 DEF P
      <4>4. j - n \in 1..Len(v) /\ v[j - n] = w[n + (j - n)] /\ n + (j - n) = j
        BY <1>3, <1>4, <4>3
      <4> QED
        BY <4>2, <4>4
    <3>3. ASSUME NEW i \in 1..Len(v)
          PROVE  n + i \in 1..Len(w) /\ n + i \notin 1..n /\ v[i] = w[n + i]
      BY <1>3, <1>4
    <3>4. ASSUME NEW i \in 1..Len(v)
          PROVE  \E u \in Threads :
                   /\ v[i].txn = u
                   /\ Pending(u)'
                   /\ req'[u].row = r
                   /\ Mode(req'[u].type) = v[i].type
      <4>1. PICK j \in 1..Len(w) : j \notin 1..n /\ v[i] = w[j]
        BY <3>3
      <4>2. PICK u \in Threads : u = w[j].txn
        BY <1>2
      <4>3. u # t /\ Pending(u) /\ req[u].row = r /\ Mode(req[u].type) = w[j].type
        BY <4>2 DEF Remains
      <4>4. u \notin P
        BY <1>14, <4>1, <4>2
      <4> QED
        BY <1>13, <4>1, <4>2, <4>3, <4>4
    <3>5. ASSUME NEW i \in 1..Len(v), NEW j \in 1..Len(v), v[i].txn = v[j].txn
          PROVE  i = j
      <4>1. n + i = n + j
        BY <3>3, <3>5 DEF Remains
      <4> QED
        BY <1>3, <1>4, <4>1
    <3>6. owners'[q] = o \cup P /\ waiters'[q] = v /\ q = r
      BY <1>5, <2>2
    <3> HIDE DEF v, P
    <3>7. \A u \in Threads : u \in owners'[q] <=> HasLock(u, q, "SH")' \/ HasLock(u, q, "EX")'
      BY <3>1, <3>6
    <3>8. \A u \in Threads : Pending(u)' /\ req'[u].row = q =>
                             \E i \in 1..Len(waiters'[q]) : waiters'[q][i].txn = u
      BY <3>2, <3>6
    <3>9. \A i \in 1..Len(waiters'[q]) : \E u \in Threads :
            /\ waiters'[q][i].txn = u
            /\ Pending(u)'
            /\ req'[u].row = q
            /\ Mode(req'[u].type) = waiters'[q][i].type
      BY <3>4, <3>6
    <3>10. \A i, j \in 1..Len(waiters'[q]) : waiters'[q][i].txn = waiters'[q][j].txn => i = j
      BY <3>5, <3>6
    <3> QED
      BY ONLY <3>7, <3>8, <3>9, <3>10, Zenon
  <2> QED
    BY <2>1, <2>2
<1>16. n # 0 => /\ \A i \in 1..n : w[i].type = w[n].type
                /\ lt = "NONE" \/ (lt = "SH" /\ w[n].type = "SH")
                /\ w[n].type = "EX" => n = 1
                /\ w[n].type \in {"SH", "EX"}
  <2> SUFFICES ASSUME n # 0
               PROVE  /\ \A i \in 1..n : w[i].type = w[n].type
                      /\ lt = "NONE" \/ (lt = "SH" /\ w[n].type = "SH")
                      /\ w[n].type = "EX" => n = 1
                      /\ w[n].type \in {"SH", "EX"}
    OBVIOUS
  <2>1. n \in 1..Len(w)
    BY <1>3
  <2> QED
    BY <1>1, <1>2, <2>1, PromotionModes
<1>17. LockCompatibility'
  <2>1. ASSUME NEW q \in Rows, NEW u \in owners'[q]
        PROVE  HasLock(u, q, lock_type[q])'
    <3>1. PICK k \in LockMode : k = lock_type'[q]
      BY <1>5, <1>16 DEF TypeOK, LockMode
    <3>2. HasLock(u, q, k)'
      <4>1. CASE q # r
        <5>1. u \in owners[q] /\ u \in Threads /\ k = lock_type[q] /\ q \in Rows \ {r}
          BY <1>5, <3>1, <4>1 DEF TypeOK
        <5>2. HasLock(u, q, k)
          BY <5>1 DEF LockCompatibility
        <5> QED
          BY <1>11, <5>1, <5>2
      <4>2. CASE q = r /\ u \in P
        <5>1. PICK i \in 1..n : w[i].txn = u
          BY <4>2 DEF P
        <5>2. n # 0 /\ i \in 1..Len(w)
          BY <1>3
        <5>3. k = w[i].type
          BY <1>5, <1>16, <3>1, <4>2, <5>2
        <5>4. k = Mode(req[u].type)
          BY <5>1, <5>2, <5>3 DEF Remains
        <5> QED
          BY <1>10, <4>2, <5>4
      <4>3. CASE q = r /\ u \notin P
        <5>1. u \in o
          BY <1>5, <4>3
        <5>2. u \in owners[r] /\ u # t /\ u \in Threads
          BY <5>1 DEF Remains, TypeOK
        <5>3. lt # "NONE" /\ lt = lock_type[r]
          BY <5>1 DEF Remains
        <5>4. k = lock_type[r]
          BY <1>5, <1>16, <3>1, <4>3, <5>3
        <5>5. HasLock(u, r, k)
          BY <5>2, <5>4 DEF LockCompatibility
        <5> QED
          BY <1>9, <4>3, <5>2, <5>5 DEF SameView
      <4> QED
        BY <4>1, <4>2, <4>3
    <3> QED
      BY <3>1, <3>2 DEF HasLock
  <2>2. ASSUME NEW q \in Rows
        PROVE  /\ lock_type'[q] = "NONE" <=> owners'[q] = {}
               /\ lock_type'[q] = "EX" => \A x, y \in owners'[q] : x = y
    <3>1. CASE q # r
      BY <1>5, <3>1 DEF LockCompatibility
    <3>2. CASE q = r /\ n = 0
      <4>1. P = {}
        BY <3>2 DEF P
      <4>2. owners'[r] = o /\ lock_type'[r] = lt
        BY <1>5, <3>2, <4>1
      <4>3. lt = "EX" => \A x, y \in o : x = y
        BY DEF Remains, LockCompatibility
      <4>4. lt = "NONE" <=> o = {}
        BY DEF Remains
      <4> QED
        BY <3>2, <4>2, <4>3, <4>4
    <3>3. CASE q = r /\ n # 0
      <4>1. w[n].txn \in P
        BY <1>3, <3>3 DEF P
      <4>2. lock_type'[r] = w[n].type
        BY <1>5, <3>3
      <4>3. w[n].type = "EX" => o = {} /\ n = 1
        BY <1>16, <3>3 DEF Remains
      <4>4. n = 1 => \A x, y \in P : x = y
        BY DEF P
      <4> QED
        BY <1>5, <1>16, <3>3, <4>1, <4>2, <4>3, <4>4
    <3> QED
      BY <3>1, <3>2, <3>3
  <2> QED
    BY <2>1, <2>2 DEF LockCompatibility
<1>18. NoLostWakeup'
  <2>1. ASSUME NEW q \in Rows, waiters'[q] # <<>>
        PROVE  conflict_lock(lock_type'[q], waiters'[q][1].type)
    <3>1. CASE q # r
      BY <1>5, <2>1, <3>1 DEF NoLostWakeup
    <3>2. CASE q = r
      <4>1. v # <<>>
        BY <1>5, <2>1, <3>2
      <4>2. v \in Seq(LockEntry)
        BY DropProperties DEF v
      <4>3. Len(v) # 0
        BY <4>1, <4>2
      <4>4. n < Len(w) /\ v[1] = w[n + 1]
        BY <1>3, <1>4, <4>3
      <4>5. conflict_lock(ModeBefore(lt, w, n + 1), w[n + 1].type)
        BY <1>1, <4>4 DEF Promoted
      <4>6. ModeBefore(lt, w, n + 1) = lock_type'[r]
        BY <1>3, <1>5 DEF ModeBefore
      <4> QED
        BY <1>5, <3>2, <4>4, <4>5, <4>6
    <3> QED
      BY <3>1, <3>2
  <2> QED
    BY <2>1 DEF NoLostWakeup, conflict_lock
<1> QED
  BY <1>15, <1>17, <1>18

\* lock_release takes the one entry of t out, wherever it is.
LEMMA ReleaseStep ==
  ASSUME TypeOK, DistinctRows, LockInv, NEW t \in Threads, NEW r \in Rows,
         lock_release(t, r), Leaves(t, r)
  PROVE  LockInv'
<1> USE DEF LockInv
<1>1. CASE t \in owners[r]
  <2> DEFINE o == owners[r] \ {t}
             lt == ModeAfter(r, o)
             w == waiters[r]
  <2>1. PromoteWaiters(r, o, lt, w)
    BY <1>1 DEF lock_release
  <2>2. w \in Seq(LockEntry) /\ lt \in LockMode
    BY DEF TypeOK, ModeAfter, LockMode
  <2>3. ~Pending(t) \/ req[t].row # r
    <3> SUFFICES ASSUME Pending(t), req[t].row = r
                 PROVE  FALSE
      OBVIOUS
    <3>1. PICK m \in {"SH", "EX"} : HasLock(t, r, m)
      BY <1>1 DEF LockTable
    <3>2. PICK i \in Held(t) : accesses[t][i].row = r
      BY <3>1 DEF HasLock, Pending, Waits
    <3>3. i \in 1..Len(accesses[t])
      BY <3>2 DEF Held, Pending, Waits
    <3> QED
      BY <3>2, <3>3 DEF DistinctRows, Pending
  <2>4. \A i \in 1..Len(w) : w[i].txn # t
    BY <2>3 DEF LockTable
  <2>5. lt = "NONE" <=> o = {}
    BY <1>1 DEF ModeAfter, LockCompatibility
  <2>6. o # {} => lt = lock_type[r]
    BY DEF ModeAfter
  <2>7. Remains(t, r, o, lt, w)
    BY <2>4, <2>5, <2>6 DEF Remains, LockTable
  <2> HIDE DEF o, lt, w
  <2> QED
    BY <2>1, <2>2, <2>7, PromoteStep
<1>2. CASE t \notin owners[r]
  <2>1. PICK k \in 1..Len(waiters[r]) :
          /\ waiters[r][k].txn = t
          /\ PromoteWaiters(r, owners[r], lock_type[r], RemoveAt(waiters[r], k))
    BY <1>2 DEF lock_release
  <2> DEFINE z == waiters[r]
             w == RemoveAt(z, k)
  <2>2. z \in Seq(LockEntry) /\ k \in 1..Len(z) /\ Len(z) \in Nat
    BY LenProperties DEF TypeOK
  <2>3. /\ w \in Seq(LockEntry)
        /\ Len(w) = Len(z) - 1
        /\ \A i \in 1..(Len(z) - 1) : w[i] = IF i < k THEN z[i] ELSE z[i + 1]
    BY <2>2, RemoveAtProperties
  <2>4. \A i, j \in 1..Len(z) : z[i].txn = z[j].txn => i = j
    BY DEF LockTable
  <2>5. z[k].txn = t
    BY <2>1
  <2>6. \A i \in 1..Len(z) : /\ Pending(z[i].txn) /\ req[z[i].txn].row = r
                            /\ Mode(req[z[i].txn].type) = z[i].type
    BY DEF LockTable
  <2>7. \A u \in Threads : Pending(u) /\ req[u].row = r => \E i \in 1..Len(z) : z[i].txn = u
    BY DEF LockTable
  <2> HIDE DEF w, z
  <2>8. ASSUME NEW i \in 1..Len(w)
        PROVE  \E j \in 1..Len(z) : j # k /\ w[i] = z[j] /\ j = IF i < k THEN i ELSE i + 1
    BY <2>2, <2>3
  <2>9. ASSUME NEW j \in 1..Len(z), j # k
        PROVE  \E i \in 1..Len(w) : w[i] = z[j]
    <3>1. CASE j < k
      <4>1. j \in 1..Len(w) /\ w[j] = z[j]
        BY <2>2, <2>3, <3>1
      <4> QED
        BY <4>1
    <3>2. CASE j > k
      <4>1. j - 1 \in 1..Len(w) /\ w[j - 1] = z[(j - 1) + 1] /\ (j - 1) + 1 = j
        BY <2>2, <2>3, <3>2
      <4> QED
        BY <4>1
    <3> QED
      BY <2>2, <2>9, <3>1, <3>2
  <2>10. \A i \in 1..Len(w) : /\ w[i].txn # t /\ Pending(w[i].txn) /\ req[w[i].txn].row = r
                             /\ Mode(req[w[i].txn].type) = w[i].type
    <3> TAKE i \in 1..Len(w)
    <3>1. PICK j \in 1..Len(z) : j # k /\ w[i] = z[j]
      BY <2>8
    <3>2. z[j].txn # t
      BY <2>2, <2>4, <2>5, <3>1
    <3> QED
      BY <2>6, <3>1, <3>2
  <2>11. ASSUME NEW u \in Threads \ {t}, Pending(u), req[u].row = r
         PROVE  \E i \in 1..Len(w) : w[i].txn = u
    <3>1. PICK j \in 1..Len(z) : z[j].txn = u
      BY <2>7, <2>11
    <3>2. j # k
      BY <2>5, <3>1
    <3> QED
      BY <2>9, <3>1, <3>2
  <2>12. ASSUME NEW i \in 1..Len(w), NEW j \in 1..Len(w), w[i].txn = w[j].txn
         PROVE  i = j
    <3>1. PICK a \in 1..Len(z) : w[i] = z[a] /\ a = IF i < k THEN i ELSE i + 1
      BY <2>8
    <3>2. PICK b \in 1..Len(z) : w[j] = z[b] /\ b = IF j < k THEN j ELSE j + 1
      BY <2>8
    <3>3. a = b
      BY <2>4, <2>12, <3>1, <3>2
    <3>4. i \in Int /\ j \in Int /\ k \in Int
      BY <2>2, <2>3
    <3> QED
      BY <3>1, <3>2, <3>3, <3>4
  <2>13. owners[r] = owners[r] \ {t}
    BY <1>2
  <2>14. lock_type[r] = "NONE" <=> owners[r] = {}
    BY DEF LockCompatibility
  <2>15. Remains(t, r, owners[r], lock_type[r], w)
    BY <2>10, <2>11, <2>12, <2>13, <2>14 DEF Remains
  <2>16. PromoteWaiters(r, owners[r], lock_type[r], w)
    BY <2>1 DEF w, z
  <2>17. lock_type[r] \in LockMode
    BY DEF TypeOK
  <2> QED
    BY <2>3, <2>15, <2>16, <2>17, PromoteStep
<1> QED
  BY <1>1, <1>2

\* row_t::get_row gives up waiting and releases the row it asked for.
LEMMA GiveUpStep ==
  ASSUME TypeOK, Shape, DistinctRows, LockInv, NEW t \in Threads, GiveUp(t)
  PROVE  LockInv'
<1>1. PICK r \in Rows : r = req[t].row
  BY DEF TypeOK, Request
<1>2. /\ pc[t] = "giveup" /\ lock_release(t, r)
      /\ pc' = [pc EXCEPT ![t] = "cleanup"]
      /\ rid' = [rid EXCEPT ![t] = Len(accesses[t])]
      /\ req' = [req EXCEPT ![t] = NoRequest]
      /\ UNCHANGED accesses
  BY <1>1 DEF GiveUp, StartCleanup
<1>3. /\ pc'[t] = "cleanup" /\ accesses'[t] = accesses[t] /\ rid'[t] = Len(accesses[t])
      /\ \A i \in 1..Len(accesses[t]) : accesses[t][i].row # r
  BY <1>1, <1>2 DEF TypeOK, DistinctRows, Waits
<1>4. Held(t)' = 1..Len(accesses[t]) /\ Held(t) = 1..Len(accesses[t])
  BY <1>2, <1>3 DEF Held
<1>5. Leaves(t, r)
  <2>1. \A u \in Threads \ {t} : /\ pc'[u] = pc[u] /\ req'[u] = req[u]
                                /\ accesses'[u] = accesses[u] /\ rid'[u] = rid[u]
    BY <1>2 DEF TypeOK
  <2>2. \A q \in Rows \ {r}, k \in LockMode : HasLock(t, q, k)' <=> HasLock(t, q, k)
    BY <1>1, <1>2, <1>3, <1>4 DEF HasLock, Waits, Mode
  <2>3. \A k \in LockMode : ~HasLock(t, r, k)'
    BY <1>3, <1>4 DEF HasLock, Waits
  <2>4. ~Pending(t)'
    BY <1>3 DEF Pending, Waits
  <2>5. Pending(t) => req[t].row = r
    BY <1>1
  <2> QED
    BY <2>1, <2>2, <2>3, <2>4, <2>5 DEF Leaves
<1> QED
  BY <1>2, <1>5, ReleaseStep

\* txn_man::cleanup returns the rows one by one.
LEMMA ReturnRowStep ==
  ASSUME TypeOK, Shape, DistinctRows, LockInv, NEW t \in Threads, ReturnRow(t)
  PROVE  LockInv'
<1>1. pc[t] \in {"cleanup", "undone"} /\ rid[t] > 0
  BY DEF ReturnRow, Shape
<1>2. rid[t] \in 1..Len(accesses[t]) /\ Current(t).row \in Rows /\ Len(accesses[t]) \in Nat
  BY <1>1, CurrentType, LenProperties DEF TypeOK
<1>3. PICK r \in Rows : r = accesses[t][rid[t]].row
  BY <1>2 DEF Current
<1>4. /\ lock_release(t, r)
      /\ pc' = [pc EXCEPT ![t] = "cleanup"]
      /\ rid' = [rid EXCEPT ![t] = @ - 1]
      /\ UNCHANGED <<req, accesses>>
  BY <1>3 DEF ReturnRow, Current
<1>5. pc'[t] = "cleanup" /\ accesses'[t] = accesses[t] /\ rid'[t] = rid[t] - 1
  BY <1>4 DEF TypeOK
<1>6. Held(t) = 1..rid[t] /\ Held(t)' = 1..(rid[t] - 1)
  BY <1>1, <1>5 DEF Held
<1>7. \A i \in 1..rid[t] : accesses[t][i].row = r <=> i = rid[t]
  BY <1>2, <1>3 DEF DistinctRows
<1>8. \A i : i \in 1..rid[t] <=> i \in 1..(rid[t] - 1) \/ i = rid[t]
  BY <1>2
<1>9. rid[t] \notin 1..(rid[t] - 1)
  BY <1>2
<1>10. Leaves(t, r)
  <2>1. \A u \in Threads \ {t} : /\ pc'[u] = pc[u] /\ req'[u] = req[u]
                                /\ accesses'[u] = accesses[u] /\ rid'[u] = rid[u]
    BY <1>4 DEF TypeOK
  <2>2. ASSUME NEW q \in Rows, NEW k \in LockMode
        PROVE  /\ HasLock(t, q, k) <=> \E i \in 1..rid[t] :
                                         accesses[t][i].row = q /\ Mode(accesses[t][i].type) = k
               /\ HasLock(t, q, k)' <=> \E i \in 1..(rid[t] - 1) :
                                         accesses[t][i].row = q /\ Mode(accesses[t][i].type) = k
    BY <1>1, <1>5, <1>6 DEF HasLock, Waits, Mode
  <2>3. \A q \in Rows \ {r}, k \in LockMode : HasLock(t, q, k)' <=> HasLock(t, q, k)
    BY <1>7, <1>8, <2>2
  <2>4. \A k \in LockMode : ~HasLock(t, r, k)'
    BY <1>7, <1>8, <1>9, <2>2
  <2>5. ~Pending(t)' /\ ~Pending(t)
    BY <1>1, <1>5 DEF Pending, Waits
  <2> QED
    BY <2>1, <2>3, <2>4, <2>5 DEF Leaves
<1> QED
  BY <1>4, <1>10, ReleaseStep

-----------------------------------------------------------------------------
(***************************************************************************)
(* The theorem about the lock table                                        *)
(***************************************************************************)
LockIndInv == TypeOK /\ Shape /\ DistinctRows /\ LockInv

\* LockIndInv is inductive.
LEMMA LockIndInvStep ==
  ASSUME LockIndInv, [Next]_vars
  PROVE  LockIndInv'
<1> USE DEF LockIndInv
<1>1. TypeOK' /\ Shape' /\ DistinctRows'
  BY TypeStep, ShapeStep, DistinctRowsStep
<1>2. ASSUME NEW t \in Threads, Step(t)
      PROVE  LockInv'
  <2>1. CASE \E r \in Rows, type \in {"RD", "WR"} : LockGranted(t, r, type)
    BY <2>1, GrantStep
  <2>2. CASE \E r \in Rows, type \in {"RD", "WR"} : LockWait(t, r, type)
    BY <2>2, WaitStep
  <2>3. CASE GiveUp(t)
    BY <2>3, GiveUpStep
  <2>4. CASE ReturnRow(t)
    BY <2>4, ReturnRowStep
  <2> QED
    BY <1>2, <2>1, <2>2, <2>3, <2>4, QuietStep DEF Step
<1>3. ASSUME NEW t \in Threads, NEW u \in Threads, DetectDeadlock(t, u)
      PROVE  LockInv'
  BY <1>3, QuietStep
<1>4. CASE UNCHANGED vars
  <2>1. \A u \in Threads : SameView(u)
    BY <1>4, Untouched DEF vars
  <2>2. UNCHANGED lockVars
    BY <1>4 DEF vars, lockVars
  <2> QED
    BY <1>1, <2>1, <2>2, QuietLocks
<1> QED
  BY <1>1, <1>2, <1>3, <1>4 DEF Next

\* No lock is taken when the threads start.
LEMMA LockIndInvInit == Init => LockIndInv
<1> SUFFICES ASSUME Init
             PROVE  LockIndInv
  OBVIOUS
<1>1. TypeOK /\ Shape
  BY InitType
<1>2. DistinctRows
  BY DEF Init, DistinctRows, Waits
<1>3. ASSUME NEW t \in Threads
      PROVE  ~Waits(t) /\ pc[t] # "granted" /\ \A i : i \notin Held(t)
  <2>1. pc[t] = "idle" /\ accesses[t] = <<>>
    BY DEF Init
  <2> QED
    BY <2>1 DEF Waits, Held
<1>4. \A t \in Threads, r \in Rows, m \in LockMode : ~HasLock(t, r, m)
  BY <1>3 DEF HasLock
<1>5. LockTable
  BY <1>3, <1>4 DEF Init, LockTable, LockMode, Pending
<1>6. LockCompatibility /\ NoLostWakeup
  BY DEF Init, LockCompatibility, NoLostWakeup
<1> QED
  BY <1>1, <1>2, <1>5, <1>6 DEF LockIndInv, LockInv

\* The locking protocol keeps LockIndInv.
LEMMA LockIndInvCorrect == Spec => []LockIndInv
<1>1. LockIndInv /\ [Next]_vars => LockIndInv'
  BY LockIndInvStep
<1> QED
  BY <1>1, LockIndInvInit, PTL DEF Spec

\* The lists of every row lock agree with what the transactions believe, for any
\* number of threads and rows: whoever is an owner has been told so and will
\* release the row, and whoever waits is in the list, once.
THEOREM LockTableCorrect == Spec => []LockTable
<1>1. LockIndInv => LockTable
  BY DEF LockIndInv, LockInv
<1> QED
  BY <1>1, LockIndInvCorrect, PTL

\* No two transactions ever hold conflicting locks on a row, be they granted by
\* lock_get or handed over by lock_release.
THEOREM LockCompatibilityCorrect == Spec => []LockCompatibility
<1>1. LockIndInv => LockCompatibility
  BY DEF LockIndInv, LockInv
<1> QED
  BY <1>1, LockIndInvCorrect, PTL

\* lock_release never leaves a waiter at the head of the list that it could have
\* promoted, and lock_get never puts one there.
THEOREM NoLostWakeupCorrect == Spec => []NoLostWakeup
<1>1. LockIndInv => NoLostWakeup
  BY DEF LockIndInv, LockInv
<1> QED
  BY <1>1, LockIndInvCorrect, PTL

-----------------------------------------------------------------------------
(***************************************************************************)
(* WAIT_DIE with an abort buffer never makes a transaction wait for an     *)
(* older one; and Isolation, under all three algorithms                    *)
(***************************************************************************)

\* thread_t::run has given a timestamp to every transaction that runs or that
\* will be retried.
Stamped ==
  \A t \in Threads : pc[t] # "idle" \/ buffered[t] > 0 => \E c \in Nat : ts[t] = get_ts(c, t)

\* What is inductive about wait-die: lock_get compares timestamps that were set.
WaitDieInv ==
  cc_alg = "WAIT_DIE" => Stamped /\ WaitersOlderThanOwners /\ WaitersInOrder

\* The timestamps of two transactions that run are different.
LEMMA DistinctTs ==
  ASSUME TypeOK, Stamped, NEW t \in Threads, NEW u \in Threads, t # u,
         pc[t] # "idle", pc[u] # "idle"
  PROVE  ts[t] \in Nat /\ ts[u] \in Nat /\ (ts[t] < ts[u] \/ ts[u] < ts[t])
<1>1. PICK c \in Nat : ts[t] = get_ts(c, t)
  BY DEF Stamped
<1>2. PICK d \in Nat : ts[u] = get_ts(d, u)
  BY DEF Stamped
<1>3. ts[t] # ts[u]
  BY <1>1, <1>2, GetTsInjective
<1>4. ts[t] \in Nat /\ ts[u] \in Nat
  BY DEF TypeOK
<1> QED
  BY <1>3, <1>4

\* Idle threads neither own a lock nor wait for one.
LEMMA LockersRun ==
  ASSUME LockIndInv, NEW r \in Rows
  PROVE  /\ \A u \in owners[r] : u \in Threads /\ pc[u] # "idle"
         /\ \A i \in 1..Len(waiters[r]) : /\ waiters[r][i].txn \in Threads
                                         /\ pc[waiters[r][i].txn] # "idle"
<1> USE DEF LockIndInv, LockInv
<1>1. ASSUME NEW u \in owners[r]
      PROVE  u \in Threads /\ pc[u] # "idle"
  <2>1. u \in Threads
    BY DEF TypeOK
  <2>2. PICK m \in LockMode : HasLock(u, r, m)
    BY <2>1 DEF LockTable, LockMode
  <2>3. CASE pc[u] = "idle"
    <3>1. accesses[u] = <<>>
      BY <2>1, <2>3 DEF Shape
    <3> QED
      BY <2>2, <2>3, <3>1 DEF HasLock, Held, Waits
  <2> QED
    BY <2>1, <2>3
<1>2. ASSUME NEW i \in 1..Len(waiters[r])
      PROVE  waiters[r][i].txn \in Threads /\ pc[waiters[r][i].txn] # "idle"
  <2>1. waiters[r][i].txn \in Threads
    BY EntryType DEF TypeOK
  <2>2. Pending(waiters[r][i].txn)
    BY DEF LockTable
  <2> QED
    BY <2>1, <2>2 DEF Pending, Waits
<1> QED
  BY <1>1, <1>2

\* Only a new query changes the timestamp of a transaction, and only its own.
LEMMA TsStep ==
  ASSUME TypeOK, [Next]_vars
  PROVE  UNCHANGED ts \/ \E t \in Threads : NewQuery(t)
<1> USE DEF queryVars
<1>1. ASSUME NEW t \in Threads, Step(t), ~NewQuery(t)
      PROVE  UNCHANGED ts
  BY <1>1 DEF Step, RetryQuery, RowBufferFull, LockGranted, LockWait, LockDenied,
       StartWaiting, Timeout, WaitGranted, WaitAborted, LeaveLoop, RecordAccess, WriteRow,
       Finish, GiveUp, RestoreRow, ReturnRow, CleanupDone
<1>2. ASSUME NEW t \in Threads, NEW u \in Threads, DetectDeadlock(t, u)
      PROVE  UNCHANGED ts
  BY <1>2 DEF DetectDeadlock
<1>3. CASE UNCHANGED vars
  BY <1>3 DEF vars
<1> QED
  BY <1>1, <1>2, <1>3 DEF Next

\* The compiled algorithm never changes.
LEMMA AlgStep ==
  ASSUME [Next]_vars
  PROVE  UNCHANGED cc_alg
<1> USE DEF queryVars
<1>1. ASSUME NEW t \in Threads, Step(t)
      PROVE  UNCHANGED cc_alg
  BY <1>1 DEF Step, NewQuery, RetryQuery, Started, RowBufferFull, LockGranted, LockWait,
       LockDenied, StartWaiting, Timeout, WaitGranted, WaitAborted, LeaveLoop, RecordAccess,
       WriteRow, Finish, GiveUp, RestoreRow, ReturnRow, CleanupDone
<1>2. ASSUME NEW t \in Threads, NEW u \in Threads, DetectDeadlock(t, u)
      PROVE  UNCHANGED cc_alg
  BY <1>2 DEF DetectDeadlock
<1>3. CASE UNCHANGED vars
  BY <1>3 DEF vars
<1> QED
  BY <1>1, <1>2, <1>3 DEF Next

-----------------------------------------------------------------------------
\* With an abort buffer Stamped is kept: a transaction starts with a new
\* timestamp or with one its thread got before.
LEMMA StampedStep ==
  ASSUME abort_buffer_enable, TypeOK, cc_alg = "WAIT_DIE", Stamped, [Next]_vars
  PROVE  Stamped'
<1> USE DEF queryVars
<1>1. ASSUME UNCHANGED ts,
             \A u \in Threads : pc'[u] # "idle" \/ buffered'[u] > 0
                                 => pc[u] # "idle" \/ buffered[u] > 0
      PROVE  Stamped'
  BY <1>1 DEF Stamped
<1>2. ASSUME NEW t \in Threads, NewQuery(t)
      PROVE  Stamped'
  <2>1. set_ts(t) /\ UNCHANGED buffered /\ pc' = [pc EXCEPT ![t] = "run"]
    BY <1>2 DEF NewQuery, Started
  <2>2. PICK time \in {clock, clock + 1} : ts' = [ts EXCEPT ![t] = get_ts(time, t)]
    BY <2>1 DEF set_ts
  <2>3. time \in Nat
    BY DEF TypeOK
  <2>4. ts'[t] = get_ts(time, t)
    BY <2>2 DEF TypeOK
  <2>5. \A u \in Threads \ {t} : ts'[u] = ts[u] /\ pc'[u] = pc[u] /\ buffered'[u] = buffered[u]
    BY <2>1, <2>2 DEF TypeOK
  <2> QED
    BY <2>3, <2>4, <2>5 DEF Stamped
<1>3. ASSUME NEW t \in Threads, RetryQuery(t)
      PROVE  Stamped'
  BY <1>1, <1>3 DEF RetryQuery, Started, TypeOK
<1>4. ASSUME NEW t \in Threads, CleanupDone(t)
      PROVE  Stamped'
  BY <1>1, <1>4 DEF CleanupDone, TypeOK
<1>5. ASSUME NEW t \in Threads, UNCHANGED <<ts, buffered>>, pc[t] # "idle",
             \E x : pc' = [pc EXCEPT ![t] = x]
      PROVE  Stamped'
  BY <1>1, <1>5 DEF TypeOK
<1>6. ASSUME NEW t \in Threads, RowBufferFull(t) \/ Finish(t) \/ GiveUp(t)
      PROVE  Stamped'
  BY <1>5, <1>6 DEF RowBufferFull, Finish, GiveUp, StartCleanup
<1>7. ASSUME NEW t \in Threads, NEW r \in Rows, NEW type \in {"RD", "WR"},
             LockGranted(t, r, type) \/ LockWait(t, r, type) \/ LockDenied(t, r, type)
      PROVE  Stamped'
  <2>1. UNCHANGED <<ts, buffered>> /\ pc[t] = "run" /\ \E x : pc' = [pc EXCEPT ![t] = x]
    BY <1>7 DEF LockGranted, LockWait, LockDenied, Requests, StartCleanup
  <2> QED
    BY <1>5, <2>1
<1>8. ASSUME NEW t \in Threads, StartWaiting(t) \/ WaitGranted(t) \/ WaitAborted(t)
      PROVE  Stamped'
  BY <1>5, <1>8 DEF StartWaiting, WaitGranted, WaitAborted, LeaveLoop
<1>9. ASSUME NEW t \in Threads, Timeout(t) \/ \E u \in Threads : DetectDeadlock(t, u)
      PROVE  Stamped'
  BY <1>9 DEF Timeout, DetectDeadlock
<1>10. ASSUME NEW t \in Threads,
              RecordAccess(t) \/ RestoreRow(t) \/ ReturnRow(t)
       PROVE  Stamped'
  BY <1>5, <1>10 DEF RecordAccess, RestoreRow, ReturnRow
<1>11. ASSUME NEW t \in Threads, NEW i \in 1..Len(accesses[t]), NEW v \in Val,
              WriteRow(t, i, v)
       PROVE  Stamped'
  BY <1>1, <1>11 DEF WriteRow
<1>12. CASE UNCHANGED vars
  BY <1>1, <1>12 DEF vars
<1> QED
  BY <1>2, <1>3, <1>4, <1>6, <1>7, <1>8, <1>9, <1>10, <1>11, <1>12 DEF Next, Step

\* The order of timestamps a row shows: older transactions wait for younger
\* ones, and the list runs from young to old.
Ordered(o, w, s) ==
  /\ \A i \in 1..Len(w), u \in o : s[w[i].txn] < s[u]
  /\ \A i, j \in 1..Len(w) : i < j => s[w[j].txn] < s[w[i].txn]

\* Promotion takes the youngest waiters.
LEMMA PromoteOrder ==
  ASSUME TypeOK, NEW r \in Rows, NEW o, NEW lt, NEW w \in Seq(LockEntry),
         Ordered(o, w, ts), PromoteWaiters(r, o, lt, w)
  PROVE  /\ Ordered(owners'[r], waiters'[r], ts)
         /\ \A q \in Rows \ {r} : owners'[q] = owners[q] /\ waiters'[q] = waiters[q]
<1>1. PICK n \in 0..Len(w) :
        /\ owners' = [owners EXCEPT ![r] = o \cup {w[i].txn : i \in 1..n}]
        /\ waiters' = [waiters EXCEPT ![r] = SubSeq(w, n + 1, Len(w))]
  BY DEF PromoteWaiters
<1> DEFINE v == SubSeq(w, n + 1, Len(w))
<1>2. Len(v) = Len(w) - n /\ \A i \in 1..(Len(w) - n) : v[i] = w[n + i]
  BY DropProperties
<1>3. Len(w) \in Nat /\ n \in Nat /\ n <= Len(w)
  BY LenProperties
<1>4. owners'[r] = o \cup {w[i].txn : i \in 1..n} /\ waiters'[r] = v
  BY <1>1 DEF TypeOK
<1> HIDE DEF v
<1>5. ASSUME NEW i \in 1..Len(v)
      PROVE  n + i \in 1..Len(w) /\ v[i] = w[n + i] /\ \A j \in 1..n : j < n + i
  BY <1>2, <1>3
<1>6. ASSUME NEW i \in 1..Len(v), NEW u \in owners'[r]
      PROVE  ts[v[i].txn] < ts[u]
  <2>1. CASE u \in o
    BY <1>5, <2>1 DEF Ordered
  <2>2. CASE u \notin o
    <3>1. PICK j \in 1..n : w[j].txn = u
      BY <1>4, <2>2
    <3>2. j \in 1..Len(w)
      BY <1>3
    <3> QED
      BY <1>5, <3>1, <3>2 DEF Ordered
  <2> QED
    BY <2>1, <2>2
<1>7. ASSUME NEW i \in 1..Len(v), NEW j \in 1..Len(v), i < j
      PROVE  ts[v[j].txn] < ts[v[i].txn]
  <2>1. n + i < n + j
    BY <1>2, <1>3, <1>7
  <2> QED
    BY <1>5, <2>1 DEF Ordered
<1>8. \A q \in Rows \ {r} : owners'[q] = owners[q] /\ waiters'[q] = waiters[q]
  BY <1>1 DEF TypeOK
<1> QED
  BY <1>4, <1>6, <1>7, <1>8 DEF Ordered

\* lock_release keeps the order.
LEMMA ReleaseOrder ==
  ASSUME TypeOK, NEW t \in Threads, NEW r \in Rows, lock_release(t, r),
         Ordered(owners[r], waiters[r], ts)
  PROVE  /\ Ordered(owners'[r], waiters'[r], ts)
         /\ \A q \in Rows \ {r} : owners'[q] = owners[q] /\ waiters'[q] = waiters[q]
<1>1. waiters[r] \in Seq(LockEntry)
  BY DEF TypeOK
<1>2. CASE t \in owners[r]
  <2> DEFINE o == owners[r] \ {t}
  <2>1. Ordered(o, waiters[r], ts)
    BY DEF Ordered
  <2>2. PromoteWaiters(r, o, ModeAfter(r, o), waiters[r])
    BY <1>2 DEF lock_release
  <2> HIDE DEF o
  <2> QED
    BY <1>1, <2>1, <2>2, PromoteOrder
<1>3. CASE t \notin owners[r]
  <2>1. PICK k \in 1..Len(waiters[r]) :
          PromoteWaiters(r, owners[r], lock_type[r], RemoveAt(waiters[r], k))
    BY <1>3 DEF lock_release
  <2> DEFINE z == waiters[r]
             w == RemoveAt(z, k)
  <2>2. z \in Seq(LockEntry) /\ k \in 1..Len(z) /\ Len(z) \in Nat
    BY <1>1, LenProperties
  <2>3. /\ w \in Seq(LockEntry)
        /\ Len(w) = Len(z) - 1
        /\ \A i \in 1..(Len(z) - 1) : w[i] = IF i < k THEN z[i] ELSE z[i + 1]
    BY <2>2, RemoveAtProperties
  <2>4. Ordered(owners[r], z, ts)
    OBVIOUS
  <2> HIDE DEF w, z
  <2>5. ASSUME NEW i \in 1..Len(w)
        PROVE  \E j \in 1..Len(z) : w[i] = z[j] /\ j = IF i < k THEN i ELSE i + 1
    BY <2>2, <2>3
  <2>6. ASSUME NEW i \in 1..Len(w), NEW j \in 1..Len(w), i < j
        PROVE  ts[w[j].txn] < ts[w[i].txn]
    <3>1. PICK a \in 1..Len(z) : w[i] = z[a] /\ a = IF i < k THEN i ELSE i + 1
      BY <2>5
    <3>2. PICK b \in 1..Len(z) : w[j] = z[b] /\ b = IF j < k THEN j ELSE j + 1
      BY <2>5
    <3>3. i \in Int /\ j \in Int /\ k \in Int
      BY <2>2, <2>3
    <3>4. a < b
      BY <2>6, <3>1, <3>2, <3>3
    <3> QED
      BY <2>4, <3>1, <3>2, <3>4 DEF Ordered
  <2>7. Ordered(owners[r], w, ts)
    BY <2>4, <2>5, <2>6 DEF Ordered
  <2>8. PromoteWaiters(r, owners[r], lock_type[r], w)
    BY <2>1 DEF w, z
  <2> QED
    BY <2>3, <2>7, <2>8, PromoteOrder
<1> QED
  BY <1>2, <1>3

\* lock_get keeps the order when it grants the lock,
LEMMA GrantOrder ==
  ASSUME LockIndInv, cc_alg = "WAIT_DIE", Stamped, NEW t \in Threads, NEW r \in Rows,
         NEW type \in {"RD", "WR"}, LockGranted(t, r, type), Ordered(owners[r], waiters[r], ts)
  PROVE  /\ Ordered(owners'[r], waiters'[r], ts)
         /\ \A q \in Rows \ {r} : owners'[q] = owners[q] /\ waiters'[q] = waiters[q]
<1> USE DEF LockIndInv
<1> DEFINE w == waiters[r]
<1>1. /\ Requests(t, r, type)
      /\ ~(w # <<>> /\ ts[t] < ts[w[1].txn])
      /\ owners' = [owners EXCEPT ![r] = @ \cup {t}]
      /\ UNCHANGED waiters
  BY DEF LockGranted, ConflictFor, Conflict
<1>2. \A i \in 1..Len(w) : w[i].txn # t /\ w[i].txn \in Threads /\ pc[w[i].txn] # "idle"
  BY <1>1, Requester, LockersRun
<1>3. pc[t] # "idle"
  BY <1>1 DEF Requests
<1>4. w \in Seq(LockEntry) /\ Len(w) \in Nat
  BY LenProperties DEF TypeOK
<1>5. owners'[r] = owners[r] \cup {t} /\ waiters'[r] = w
  BY <1>1 DEF TypeOK
<1>6. ASSUME NEW i \in 1..Len(w)
      PROVE  ts[w[i].txn] < ts[t]
  <2>1. 1 \in 1..Len(w) /\ w # <<>>
    BY <1>4
  <2>2. ts[t] \in Nat /\ ts[w[1].txn] < ts[t] /\ ts[w[1].txn] \in Nat
    BY <1>1, <1>2, <1>3, <2>1, DistinctTs
  <2>3. ts[w[i].txn] \in Nat
    BY <1>2 DEF TypeOK
  <2>4. i = 1 \/ ts[w[i].txn] < ts[w[1].txn]
    BY <1>4, <2>1 DEF Ordered
  <2> QED
    BY <2>2, <2>3, <2>4
<1>7. Ordered(owners'[r], waiters'[r], ts)
  BY <1>5, <1>6 DEF Ordered
<1> QED
  BY <1>1, <1>7 DEF TypeOK

\* and when it puts the transaction in the waiter list.
LEMMA WaitOrder ==
  ASSUME LockIndInv, cc_alg = "WAIT_DIE", Stamped, NEW t \in Threads, NEW r \in Rows,
         NEW type \in {"RD", "WR"}, LockWait(t, r, type), Ordered(owners[r], waiters[r], ts)
  PROVE  /\ Ordered(owners'[r], waiters'[r], ts)
         /\ \A q \in Rows \ {r} : owners'[q] = owners[q] /\ waiters'[q] = waiters[q]
<1> USE DEF LockIndInv
<1> DEFINE e == [txn |-> t, type |-> Mode(type)]
           w == waiters[r]
           n == Len(w)
<1>1. /\ Requests(t, r, type)
      /\ \A u \in owners[r] : ~(ts[u] < ts[t])
      /\ UNCHANGED owners
  BY DEF LockWait, CanWait
<1>2. PICK p \in 1..(n + 1) :
        /\ \A i \in 1..(p - 1) : ts[t] < ts[w[i].txn]
        /\ p <= n => ~(ts[t] < ts[w[p].txn])
        /\ waiters' = [waiters EXCEPT ![r] = InsertAt(w, p, e)]
  BY DEF LockWait, WaitPosition
<1>3. \A i \in 1..n : w[i].txn # t /\ w[i].txn \in Threads /\ pc[w[i].txn] # "idle"
  BY <1>1, Requester, LockersRun
<1>4. pc[t] # "idle" /\ t \notin owners[r] /\ ts[t] \in Nat
  BY <1>1, Requester DEF Requests, TypeOK
<1>5. w \in Seq(LockEntry) /\ e \in LockEntry /\ n \in Nat
  <2>1. w \in Seq(LockEntry)
    BY DEF TypeOK
  <2>2. e \in LockEntry
    BY DEF LockEntry, Mode
  <2> QED
    BY <2>1, <2>2, LenProperties
<1>6. \A i \in 1..n : ts[w[i].txn] \in Nat
  BY <1>3 DEF TypeOK
<1> DEFINE v == InsertAt(w, p, e)
<1>7. /\ Len(v) = n + 1
      /\ v[p].txn = t
      /\ \A j \in 1..(n + 1) : j # p =>
           \E i \in 1..n : /\ v[j] = w[i]
                           /\ (j < p /\ i = j) \/ (j > p /\ i = j - 1)
  <2>0. e.txn = t
    OBVIOUS
  <2> HIDE DEF w, e
  <2>1. Len(v) = n + 1
    BY <1>5, InsertAtLen
  <2>2. v[p] = e
    BY <1>5, InsertAtNew
  <2>3. ASSUME NEW j \in 1..(n + 1), j # p
        PROVE  \E i \in 1..n : /\ v[j] = w[i]
                               /\ (j < p /\ i = j) \/ (j > p /\ i = j - 1)
    BY <1>5, <2>3, InsertAtOther
  <2> QED
    BY <2>0, <2>1, <2>2, <2>3
<1>8. waiters'[r] = v /\ owners'[r] = owners[r]
  BY <1>1, <1>2 DEF TypeOK
<1>9. \A u \in owners[r] : ts[t] < ts[u]
  BY <1>1, <1>4, LockersRun, DistinctTs
<1>10. \A i, j \in 1..n : i < j => ts[w[j].txn] < ts[w[i].txn]
  BY DEF Ordered
<1>11. \A i \in 1..n, u \in owners[r] : ts[w[i].txn] < ts[u]
  BY DEF Ordered
<1> HIDE DEF v
<1>12. ASSUME NEW i \in 1..n, p <= i
       PROVE  ts[w[i].txn] < ts[t]
  <2>1. p \in 1..n /\ p <= n
    BY <1>5, <1>12
  <2>2. ts[w[p].txn] < ts[t]
    BY <1>2, <1>3, <1>4, <2>1, DistinctTs
  <2>3. i = p \/ ts[w[i].txn] < ts[w[p].txn]
    BY <1>5, <1>10, <1>12, <2>1
  <2> QED
    BY <1>4, <1>6, <2>1, <2>2, <2>3
<1>13. ASSUME NEW j \in 1..(n + 1), NEW u \in owners[r]
       PROVE  ts[v[j].txn] < ts[u]
  <2>1. CASE j = p
    BY <1>7, <1>9, <2>1
  <2>2. CASE j # p
    BY <1>7, <1>11, <2>2
  <2> QED
    BY <2>1, <2>2
<1>14. ASSUME NEW j \in 1..(n + 1), NEW k \in 1..(n + 1), j < k
       PROVE  ts[v[k].txn] < ts[v[j].txn]
  <2>0. j \in Int /\ k \in Int /\ p \in Int
    BY <1>5
  <2>1. CASE j = p
    <3>1. PICK i \in 1..n : v[k] = w[i] /\ i = k - 1
      BY <1>7, <1>14, <2>0, <2>1
    <3>2. p <= i
      BY <1>14, <2>0, <2>1, <3>1
    <3> QED
      BY <1>7, <1>12, <2>1, <3>1, <3>2
  <2>2. CASE k = p
    <3>1. PICK i \in 1..n : v[j] = w[i] /\ i = j
      BY <1>7, <1>14, <2>0, <2>2
    <3>2. i \in 1..(p - 1)
      BY <1>14, <2>0, <2>2, <3>1
    <3> QED
      BY <1>2, <1>7, <2>2, <3>1, <3>2
  <2>3. CASE j # p /\ k # p
    <3>1. PICK i \in 1..n : v[j] = w[i] /\ ((j < p /\ i = j) \/ (j > p /\ i = j - 1))
      BY <1>7, <2>3
    <3>2. PICK h \in 1..n : v[k] = w[h] /\ ((k < p /\ h = k) \/ (k > p /\ h = k - 1))
      BY <1>7, <2>3
    <3>3. i < h
      BY <1>14, <2>0, <3>1, <3>2
    <3> QED
      BY <1>10, <3>1, <3>2, <3>3
  <2> QED
    BY <2>1, <2>2, <2>3
<1>15. Ordered(owners'[r], waiters'[r], ts)
  BY <1>7, <1>8, <1>13, <1>14 DEF Ordered
<1> QED
  BY <1>1, <1>2, <1>15 DEF TypeOK

\* A new query changes the timestamp of an idle thread.
LEMMA NewQueryOrder ==
  ASSUME LockIndInv, NEW t \in Threads, NewQuery(t), NEW r \in Rows,
         Ordered(owners[r], waiters[r], ts)
  PROVE  Ordered(owners'[r], waiters'[r], ts')
<1> USE DEF LockIndInv
<1>1. pc[t] = "idle" /\ UNCHANGED lockVars /\ \A u \in Threads \ {t} : ts'[u] = ts[u]
  BY DEF NewQuery, Started, set_ts, TypeOK
<1>2. /\ \A u \in owners[r] : u \in Threads \ {t}
      /\ \A i \in 1..Len(waiters[r]) : waiters[r][i].txn \in Threads \ {t}
  BY <1>1, LockersRun
<1>3. owners'[r] = owners[r] /\ waiters'[r] = waiters[r]
  BY <1>1 DEF lockVars
<1> QED
  BY <1>1, <1>2, <1>3 DEF Ordered

-----------------------------------------------------------------------------
\* lock_get and lock_release are the only ones to touch the lock table.
LEMMA LockVarsStep ==
  ASSUME [Next]_vars
  PROVE  \/ UNCHANGED lockVars
         \/ \E t \in Threads :
              \/ \E r \in Rows, type \in {"RD", "WR"} :
                   LockGranted(t, r, type) \/ LockWait(t, r, type)
              \/ GiveUp(t) \/ ReturnRow(t)
<1>1. ASSUME NEW t \in Threads, Step(t)
      PROVE  \/ UNCHANGED lockVars
             \/ \E r \in Rows, type \in {"RD", "WR"} :
                  LockGranted(t, r, type) \/ LockWait(t, r, type)
             \/ GiveUp(t) \/ ReturnRow(t)
  <2>1. CASE NewQuery(t) \/ RetryQuery(t)
    BY <2>1 DEF NewQuery, RetryQuery, Started
  <2>2. CASE RowBufferFull(t) \/ Finish(t)
    BY <2>2 DEF RowBufferFull, Finish
  <2>3. CASE \E r \in Rows, type \in {"RD", "WR"} : LockDenied(t, r, type)
    BY <2>3 DEF LockDenied
  <2>4. CASE StartWaiting(t) \/ Timeout(t) \/ WaitGranted(t) \/ WaitAborted(t)
    BY <2>4 DEF StartWaiting, Timeout, WaitGranted, WaitAborted, LeaveLoop
  <2>5. CASE RecordAccess(t) \/ \E i \in 1..Len(accesses[t]), v \in Val : WriteRow(t, i, v)
    BY <2>5 DEF RecordAccess, WriteRow
  <2>6. CASE RestoreRow(t) \/ CleanupDone(t)
    BY <2>6 DEF RestoreRow, CleanupDone
  <2> QED
    BY <1>1, <2>1, <2>2, <2>3, <2>4, <2>5, <2>6 DEF Step
<1>2. ASSUME NEW t \in Threads, NEW u \in Threads, DetectDeadlock(t, u)
      PROVE  UNCHANGED lockVars
  BY <1>2 DEF DetectDeadlock
<1>3. CASE UNCHANGED vars
  BY <1>3 DEF vars, lockVars
<1> QED
  BY <1>1, <1>2, <1>3 DEF Next

\* WaitDieInv is inductive relative to LockIndInv.
LEMMA WaitDieStep ==
  ASSUME abort_buffer_enable, LockIndInv, WaitDieInv, [Next]_vars
  PROVE  WaitDieInv'
<1> USE DEF LockIndInv
<1>1. cc_alg' = cc_alg
  BY AlgStep
<1> SUFFICES ASSUME cc_alg = "WAIT_DIE"
             PROVE  WaitDieInv'
  BY <1>1 DEF WaitDieInv
<1>2. Stamped /\ \A r \in Rows : Ordered(owners[r], waiters[r], ts)
  BY DEF WaitDieInv, WaitersOlderThanOwners, WaitersInOrder, Ordered
<1>3. Stamped'
  BY <1>2, StampedStep
<1>4. ASSUME NEW r \in Rows
      PROVE  Ordered(owners'[r], waiters'[r], ts')
  <2>1. CASE \E t \in Threads : NewQuery(t)
    BY <1>2, <2>1, NewQueryOrder
  <2>2. CASE UNCHANGED <<ts, lockVars>>
    BY <1>2, <2>2 DEF lockVars
  <2>3. ASSUME UNCHANGED ts, NEW t \in Threads, NEW q \in Rows, NEW type \in {"RD", "WR"},
               LockGranted(t, q, type) \/ LockWait(t, q, type)
        PROVE  Ordered(owners'[r], waiters'[r], ts')
    <3>1. /\ Ordered(owners'[q], waiters'[q], ts)
          /\ \A x \in Rows \ {q} : owners'[x] = owners[x] /\ waiters'[x] = waiters[x]
      BY <1>2, <2>3, GrantOrder, WaitOrder
    <3> QED
      BY <1>2, <2>3, <3>1
  <2>4. ASSUME UNCHANGED ts, NEW t \in Threads, NEW q \in Rows, lock_release(t, q)
        PROVE  Ordered(owners'[r], waiters'[r], ts')
    <3>1. /\ Ordered(owners'[q], waiters'[q], ts)
          /\ \A x \in Rows \ {q} : owners'[x] = owners[x] /\ waiters'[x] = waiters[x]
      BY <1>2, <2>4, ReleaseOrder
    <3> QED
      BY <1>2, <2>4, <3>1
  <2>5. ASSUME NEW t \in Threads, GiveUp(t)
        PROVE  Ordered(owners'[r], waiters'[r], ts')
    <3>1. req[t].row \in Rows /\ lock_release(t, req[t].row) /\ UNCHANGED ts
      BY <2>5 DEF GiveUp, TypeOK, Request, queryVars
    <3> QED
      BY <2>4, <3>1
  <2>6. ASSUME NEW t \in Threads, ReturnRow(t)
        PROVE  Ordered(owners'[r], waiters'[r], ts')
    <3>1. lock_release(t, Current(t).row) /\ UNCHANGED ts
      BY <2>6 DEF ReturnRow, queryVars
    <3>2. pc[t] \in {"cleanup", "undone"} /\ rid[t] > 0
      BY <2>6 DEF ReturnRow, Shape
    <3>3. Current(t).row \in Rows
      BY <3>2, CurrentType
    <3> QED
      BY <2>4, <3>1, <3>3
  <2> QED
    BY <2>1, <2>2, <2>3, <2>5, <2>6, TsStep, LockVarsStep
<1> QED
  BY <1>3, <1>4 DEF WaitDieInv, WaitersOlderThanOwners, WaitersInOrder, Ordered

\* With an abort buffer, every transaction that waits under WAIT_DIE is older
\* than every owner of the row it waits for, and than every waiter before it,
\* for any number of threads and rows: get_ts never repeats a timestamp of
\* another thread, and lock_get and lock_release keep the order.
THEOREM WaitDieCorrect ==
  ASSUME abort_buffer_enable
  PROVE  Spec => []WaitDie
<1>1. Init => WaitDieInv
  <2> SUFFICES ASSUME Init
               PROVE  WaitDieInv
    OBVIOUS
  <2>1. Stamped
    BY DEF Init, Stamped
  <2>2. \A r \in Rows : Len(waiters[r]) = 0
    BY DEF Init
  <2> QED
    BY <2>1, <2>2 DEF WaitDieInv, WaitersOlderThanOwners, WaitersInOrder
<1>2. LockIndInv /\ WaitDieInv /\ [Next]_vars
        => LockIndInv' /\ WaitDieInv'
  BY LockIndInvStep, WaitDieStep
<1>3. WaitDieInv => WaitDie
  BY DEF WaitDieInv, WaitDie, WaitersOlderThanOwners, WaitersInOrder
<1> QED
  BY <1>1, <1>2, <1>3, LockIndInvInit, PTL DEF Spec

-----------------------------------------------------------------------------
(***************************************************************************)
(* Isolation                                                               *)
(***************************************************************************)

\* Who may write a row is alone on it: a transaction that holds an exclusive
\* lock on the row of another one is that one.
LEMMA ExclusiveLock ==
  ASSUME LockIndInv, NEW t \in Threads, NEW u \in Threads, NEW r \in Rows,
         NEW i \in Held(t), accesses[t][i].row = r, accesses[t][i].type = "WR",
         NEW j \in Held(u), accesses[u][j].row = r
  PROVE  t = u
<1> USE DEF LockIndInv, LockInv
<1>1. HasLock(t, r, "EX")
  BY DEF HasLock, Mode
<1>2. t \in owners[r]
  BY <1>1 DEF LockTable
<1>3. HasLock(u, r, "SH") \/ HasLock(u, r, "EX")
  BY DEF HasLock, Mode
<1>4. u \in owners[r]
  BY <1>3 DEF LockTable
<1>5. HasLock(t, r, lock_type[r])
  BY <1>2 DEF LockCompatibility
<1>6. i \in 1..Len(accesses[t])
  BY DEF Held, Shape, TypeOK
<1>7. lock_type[r] = "EX"
  <2>1. CASE \E k \in Held(t) : accesses[t][k].row = r /\ Mode(accesses[t][k].type) = lock_type[r]
    <3>1. PICK k \in Held(t) : accesses[t][k].row = r /\ Mode(accesses[t][k].type) = lock_type[r]
      BY <2>1
    <3>2. k \in 1..Len(accesses[t])
      BY DEF Held, Shape, TypeOK
    <3>3. k = i
      BY <1>6, <3>1, <3>2 DEF DistinctRows
    <3> QED
      BY <3>1, <3>3 DEF Mode
  <2>2. CASE (pc[t] = "granted" \/ Waits(t)) /\ req[t].row = r
    BY <1>6, <2>2 DEF DistinctRows
  <2> QED
    BY <1>5, <2>1, <2>2 DEF HasLock
<1> QED
  BY <1>2, <1>4, <1>7 DEF LockCompatibility

\* The entries of accesses.
LEMMA AccessType ==
  ASSUME NEW s \in Seq(Access), NEW i \in 1..Len(s)
  PROVE  s[i] \in Access /\ s[i].row \in Rows
<1>1. s[i] \in Access
  OBVIOUS
<1> QED
  BY <1>1 DEF Access

\* Whatever u holds after the step without having aborted, it held before.
Keeps(u) ==
  rc'[u] = "RCOK" =>
    rc[u] = "RCOK" /\ \A i \in Held(u)' : i \in Held(u) /\ accesses'[u][i] = accesses[u][i]

\* A step that leaves u alone, or takes it from one place outside cleanup to
\* another, keeps what u holds.
LEMMA KeepsUntouched ==
  ASSUME NEW u \in Threads, rc'[u] = rc[u], accesses'[u] = accesses[u],
         \/ pc'[u] = pc[u] /\ rid'[u] = rid[u]
         \/ pc[u] \notin {"cleanup", "undone"} /\ pc'[u] \notin {"cleanup", "undone"}
  PROVE  Keeps(u)
BY DEF Keeps, Held

\* Isolation survives steps that change no data and give nobody a row.
LEMMA IsolationKept ==
  ASSUME Isolation, UNCHANGED data, \A u \in Threads : Keeps(u)
  PROVE  Isolation'
BY DEF Isolation, Keeps

\* Isolation is inductive relative to LockIndInv.
LEMMA IsolationStep ==
  ASSUME LockIndInv, Isolation, [Next]_vars
  PROVE  Isolation'
<1> USE DEF LockIndInv, queryVars, lockVars, flagVars
<1>0. \A u \in Threads : Held(u) \subseteq 1..Len(accesses[u])
  BY DEF Held, Shape, TypeOK
<1> DEFINE Others(t) == \A u \in Threads \ {t} : /\ pc'[u] = pc[u] /\ rid'[u] = rid[u]
                                                 /\ rc'[u] = rc[u] /\ accesses'[u] = accesses[u]
<1>1. ASSUME NEW t \in Threads, Others(t), UNCHANGED data, Keeps(t)
      PROVE  Isolation'
  <2>1. \A u \in Threads \ {t} : Keeps(u)
    BY <1>1, KeepsUntouched
  <2> QED
    BY <1>1, <2>1, IsolationKept
<1> HIDE DEF Others
<1>2. ASSUME NEW t \in Threads, NewQuery(t) \/ RetryQuery(t)
      PROVE  Isolation'
  <2>1. pc[t] = "idle" /\ Started(t)
    BY <1>2 DEF NewQuery, RetryQuery
  <2>2. Others(t) /\ UNCHANGED data
    BY <2>1 DEF Started, TypeOK, Others
  <2>3. Keeps(t)
    BY <2>1, KeepsUntouched DEF Started, TypeOK
  <2> QED
    BY <1>1, <2>2, <2>3
<1>3. ASSUME NEW t \in Threads, NEW x \in {"RCOK", "Abort"}, StartCleanup(t, x),
             UNCHANGED <<data, accesses>>, pc[t] \notin {"cleanup", "undone"}
      PROVE  Isolation'
  <2>1. Others(t)
    BY <1>3 DEF StartCleanup, TypeOK, Others
  <2>2. pc'[t] = "cleanup" /\ rid'[t] = Len(accesses[t]) /\ accesses'[t] = accesses[t]
    BY <1>3 DEF StartCleanup, TypeOK
  <2>3. rc[t] = "RCOK" /\ Held(t)' = 1..Len(accesses[t]) /\ Held(t) = 1..Len(accesses[t])
    BY <1>3, <2>2 DEF Held, Shape
  <2>4. Keeps(t)
    BY <2>2, <2>3 DEF Keeps
  <2> QED
    BY <1>1, <1>3, <2>1, <2>4
<1>4. ASSUME NEW t \in Threads, RowBufferFull(t) \/ Finish(t) \/ GiveUp(t)
      PROVE  Isolation'
  BY <1>3, <1>4 DEF RowBufferFull, Finish, GiveUp
<1>5. ASSUME NEW t \in Threads, NEW r \in Rows, NEW type \in {"RD", "WR"}, LockDenied(t, r, type)
      PROVE  Isolation'
  BY <1>3, <1>5 DEF LockDenied, Requests
<1>6. ASSUME NEW t \in Threads, UNCHANGED <<data, accesses, rc, rid>>,
             pc[t] \notin {"cleanup", "undone"},
             \E x : x \notin {"cleanup", "undone"} /\ pc' = [pc EXCEPT ![t] = x]
      PROVE  Isolation'
  <2>1. Others(t)
    BY <1>6 DEF TypeOK, Others
  <2>2. Keeps(t)
    BY <1>6, KeepsUntouched DEF TypeOK
  <2> QED
    BY <1>1, <1>6, <2>1, <2>2
<1>7. ASSUME NEW t \in Threads, NEW r \in Rows, NEW type \in {"RD", "WR"},
             LockGranted(t, r, type) \/ LockWait(t, r, type)
      PROVE  Isolation'
  <2>1. /\ UNCHANGED <<data, accesses, rc, rid>>
        /\ pc[t] = "run"
        /\ \E x \in {"granted", "enqueued"} : pc' = [pc EXCEPT ![t] = x]
    BY <1>7 DEF LockGranted, LockWait, Requests
  <2> QED
    BY <1>6, <2>1
<1>8. ASSUME NEW t \in Threads, StartWaiting(t) \/ WaitGranted(t) \/ WaitAborted(t)
      PROVE  Isolation'
  <2>1. /\ UNCHANGED <<data, accesses, rc, rid>>
        /\ pc[t] \in {"enqueued", "waiting"}
        /\ \E x \in {"waiting", "granted", "giveup"} : pc' = [pc EXCEPT ![t] = x]
    BY <1>8 DEF StartWaiting, WaitGranted, WaitAborted, LeaveLoop
  <2> QED
    BY <1>6, <2>1
<1>9. ASSUME UNCHANGED <<data, accesses, rc, rid, pc>>
      PROVE  Isolation'
  BY <1>9 DEF Isolation, Held
<1>10. ASSUME NEW t \in Threads, Timeout(t) \/ \E u \in Threads : DetectDeadlock(t, u)
       PROVE  Isolation'
  BY <1>9, <1>10 DEF Timeout, DetectDeadlock
<1>11. ASSUME NEW t \in Threads, RecordAccess(t)
       PROVE  Isolation'
  <2> DEFINE a == [row |-> req[t].row, type |-> req[t].type,
                   orig |-> data[req[t].row], val |-> data[req[t].row]]
             n == Len(accesses[t])
  <2>1. accesses' = [accesses EXCEPT ![t] = Append(accesses[t], a)]
    BY <1>11 DEF RecordAccess
  <2>2. data[a.row] = a.val
    OBVIOUS
  <2> HIDE DEF a
  <2>3. accesses[t] \in Seq(Access) /\ accesses'[t] = Append(accesses[t], a)
    BY <2>1 DEF TypeOK
  <2>4. /\ n \in Nat
        /\ Len(accesses'[t]) = n + 1
        /\ \A i \in 1..n : accesses'[t][i] = accesses[t][i]
        /\ accesses'[t][n + 1] = a
    BY <2>3
  <2>5. pc[t] = "granted" /\ pc'[t] = "run" /\ UNCHANGED <<data, rc, rid>>
    BY <1>11 DEF RecordAccess, TypeOK
  <2>6. Held(t) = 1..n /\ Held(t)' = 1..(n + 1)
    BY <2>4, <2>5 DEF Held
  <2>7. \A i \in 1..(n + 1) : i \in 1..n \/ i = n + 1
    BY <2>4
  <2>8. \A i \in Held(t)' : rc'[t] = "RCOK" => data'[accesses'[t][i].row] = accesses'[t][i].val
    BY <2>2, <2>4, <2>5, <2>6, <2>7 DEF Isolation
  <2>9. Others(t)
    BY <1>11, <2>1 DEF RecordAccess, TypeOK, Others
  <2>10. ASSUME NEW u \in Threads \ {t}
         PROVE  \A i \in Held(u)' :
                  rc'[u] = "RCOK" => data'[accesses'[u][i].row] = accesses'[u][i].val
    BY <2>5, <2>9 DEF Isolation, Others, Held
  <2> QED
    BY <2>8, <2>10 DEF Isolation
<1>12. ASSUME NEW t \in Threads, NEW i \in 1..Len(accesses[t]), NEW v \in Val,
              WriteRow(t, i, v)
       PROVE  Isolation'
  <2> DEFINE r == accesses[t][i].row
  <2>1. /\ pc[t] = "run" /\ accesses[t][i].type = "WR"
        /\ data' = [data EXCEPT ![r] = v]
        /\ accesses' = [accesses EXCEPT ![t][i].val = v]
        /\ UNCHANGED <<pc, rc, rid>>
    BY <1>12 DEF WriteRow
  <2>2. accesses[t] \in Seq(Access) /\ accesses[t][i] \in Access /\ r \in Rows
    BY AccessType DEF TypeOK
  <2>3. /\ Len(accesses'[t]) = Len(accesses[t])
        /\ accesses'[t][i].row = r /\ accesses'[t][i].val = v
        /\ \A j \in 1..Len(accesses[t]) : j # i => accesses'[t][j] = accesses[t][j]
    BY <2>1, <2>2 DEF TypeOK, Access
  <2>4. \A q \in Rows : data'[q] = IF q = r THEN v ELSE data[q]
    BY <2>1 DEF TypeOK
  <2>5. \A u \in Threads \ {t} : accesses'[u] = accesses[u]
    BY <2>1 DEF TypeOK
  <2>6. Held(t) = 1..Len(accesses[t]) /\ \A u \in Threads : Held(u)' = Held(u)
    BY <2>1, <2>3, <2>5 DEF Held
  <2>7. \A u \in Threads : \A j \in Held(u) : accesses[u][j].row \in Rows
    <3> TAKE u \in Threads
    <3> TAKE j \in Held(u)
    <3>1. accesses[u] \in Seq(Access) /\ j \in 1..Len(accesses[u])
      BY <1>0 DEF TypeOK
    <3> QED
      BY <3>1, AccessType
  <2>8. ASSUME NEW j \in Held(t), j # i
        PROVE  accesses[t][j].row # r
    BY <2>6, <2>8 DEF DistinctRows
  <2>9. ASSUME NEW u \in Threads \ {t}, NEW j \in Held(u)
        PROVE  accesses[u][j].row # r
    BY <2>1, <2>2, <2>6, ExclusiveLock
  <2> HIDE DEF r
  <2>10. ASSUME NEW u \in Threads, NEW j \in Held(u), rc[u] = "RCOK"
         PROVE  data'[accesses'[u][j].row] = accesses'[u][j].val
    <3>1. CASE u = t /\ j = i
      BY <2>2, <2>3, <2>4, <3>1
    <3>2. CASE u = t /\ j # i
      BY <2>3, <2>4, <2>6, <2>7, <2>8, <2>10, <3>2 DEF Isolation
    <3>3. CASE u # t
      BY <2>4, <2>5, <2>7, <2>9, <2>10, <3>3 DEF Isolation
    <3> QED
      BY <3>1, <3>2, <3>3
  <2> QED
    BY <2>1, <2>6, <2>10 DEF Isolation
<1>13. ASSUME NEW t \in Threads, RestoreRow(t)
       PROVE  Isolation'
  <2>1. /\ pc[t] = "cleanup" /\ rid[t] > 0 /\ rc[t] = "Abort" /\ Current(t).type = "WR"
        /\ data' = [data EXCEPT ![Current(t).row] = Current(t).orig]
        /\ pc' = [pc EXCEPT ![t] = "undone"]
        /\ UNCHANGED <<accesses, rc, rid>>
    BY <1>13 DEF RestoreRow, MustRestore
  <2>2. rid[t] \in 1..Len(accesses[t]) /\ Current(t).row \in Rows
    BY <2>1, CurrentType
  <2>3. rid[t] \in Held(t)
    BY <2>1, <2>2 DEF Held, TypeOK
  <2>4. ASSUME NEW u \in Threads \ {t}, NEW j \in Held(u)
        PROVE  accesses[u][j].row # Current(t).row
    BY <2>1, <2>2, <2>3, ExclusiveLock DEF Current
  <2>5. \A u \in Threads \ {t} : \A j \in Held(u) :
          data'[accesses[u][j].row] = data[accesses[u][j].row]
    <3> TAKE u \in Threads \ {t}
    <3> TAKE j \in Held(u)
    <3>1. accesses[u] \in Seq(Access) /\ j \in 1..Len(accesses[u])
      BY <1>0 DEF TypeOK
    <3>2. accesses[u][j].row \in Rows
      BY <3>1, AccessType
    <3> QED
      BY <2>1, <2>4, <3>2 DEF TypeOK
  <2>6. \A u \in Threads \ {t} : Held(u)' = Held(u)
    BY <2>1 DEF Held, TypeOK
  <2> QED
    BY <2>1, <2>5, <2>6 DEF Isolation
<1>14. ASSUME NEW t \in Threads, ReturnRow(t)
       PROVE  Isolation'
  <2>1. pc[t] \in {"cleanup", "undone"} /\ rid[t] > 0
    BY <1>14 DEF ReturnRow, Shape
  <2>2. pc'[t] = "cleanup" /\ rid'[t] = rid[t] - 1 /\ UNCHANGED <<data, accesses, rc>>
    BY <1>14 DEF ReturnRow, TypeOK
  <2>3. Held(t) = 1..rid[t] /\ Held(t)' = 1..(rid[t] - 1) /\ rid[t] \in Nat
    BY <2>1, <2>2 DEF Held, TypeOK
  <2>4. Keeps(t)
    BY <2>2, <2>3 DEF Keeps
  <2>5. Others(t)
    BY <1>14 DEF ReturnRow, TypeOK, Others
  <2> QED
    BY <1>1, <2>2, <2>4, <2>5
<1>15. ASSUME NEW t \in Threads, CleanupDone(t)
       PROVE  Isolation'
  <2>1. Others(t) /\ UNCHANGED data
    BY <1>15 DEF CleanupDone, TypeOK, Others
  <2>2. pc'[t] = "idle" /\ accesses'[t] = <<>>
    BY <1>15 DEF CleanupDone, TypeOK
  <2>3. \A i : i \notin Held(t)'
    BY <2>2 DEF Held
  <2>4. \A u \in Threads \ {t} : Held(u)' = Held(u)
    BY <2>1 DEF Held, Others
  <2> QED
    BY <2>1, <2>3, <2>4 DEF Isolation, Others
<1>16. CASE UNCHANGED vars
  BY <1>9, <1>16 DEF vars
<1> QED
  BY <1>2, <1>4, <1>5, <1>7, <1>8, <1>10, <1>11, <1>12, <1>13, <1>14, <1>15, <1>16
     DEF Next, Step

\* Until it aborts, a transaction finds in every row it holds what it read or
\* wrote there, for any number of threads, rows and values: neither a write nor
\* a rollback of another transaction reaches the row.
THEOREM IsolationCorrect == Spec => []Isolation
<1>1. Init => Isolation
  <2> SUFFICES ASSUME Init
               PROVE  Isolation
    OBVIOUS
  <2>1. ASSUME NEW t \in Threads
        PROVE  \A i : i \notin Held(t)
    <3>1. pc[t] = "idle" /\ accesses[t] = <<>>
      BY DEF Init
    <3> QED
      BY <3>1 DEF Held
  <2> QED
    BY <2>1 DEF Isolation
<1>2. LockIndInv /\ Isolation /\ [Next]_vars => LockIndInv' /\ Isolation'
  BY LockIndInvStep, IsolationStep
<1> QED
  BY <1>1, <1>2, LockIndInvInit, PTL DEF Spec

-----------------------------------------------------------------------------
(***************************************************************************)
(* The refinement of SerialDB.  finish(RCOK) is the commit, the end of its *)
(* cleanup retires the transaction, every other step changes neither       *)
(* CommittedDB nor an outcome.                                             *)
(***************************************************************************)

\* Undone: while return_row holds a restored row, the row is as the transaction
\* found it.  ReadsKept: what was only read has not been written.
Undone ==
  \A t \in Threads : pc[t] = "undone" =>
    Current(t).type = "WR" /\ data[Current(t).row] = Current(t).orig

ReadsKept ==
  \A t \in Threads : \A i \in 1..Len(accesses[t]) :
    accesses[t][i].type = "RD" => accesses[t][i].val = accesses[t][i].orig

SerialInv == LockIndInv /\ Isolation /\ Undone /\ ReadsKept

\* The uncommitted write of t to the row r.
Dirty(t, r) ==
  {accesses[t][i] : i \in {j \in Held(t) : /\ ~Committed(t)
                                           /\ accesses[t][j].row = r
                                           /\ accesses[t][j].type = "WR"}}

\* What an abort of the writes S, one or none, leaves in a row that holds d.
Image(S, d) == IF S = {} THEN d ELSE (CHOOSE a \in S : TRUE).orig

\* What is held is an access.
LEMMA HeldRange ==
  ASSUME TypeOK, Shape
  PROVE  \A t \in Threads : Held(t) \subseteq 1..Len(accesses[t])
BY DEF Held, Shape, TypeOK

\* Image of no write, and of one.
LEMMA ImageOf ==
  ASSUME NEW a, NEW d
  PROVE  Image({}, d) = d /\ Image({a}, d) = a.orig
<1>1. (CHOOSE x \in {a} : TRUE) = a
  OBVIOUS
<1> QED
  BY <1>1 DEF Image

\* The uncommitted writes are those of the threads.
LEMMA UncommittedIs ==
  ASSUME NEW r
  PROVE  Uncommitted(r) = UNION {Dirty(t, r) : t \in Threads}
BY DEF Uncommitted, Dirty

\* The same after a step.
LEMMA UncommittedIsNext ==
  ASSUME NEW r
  PROVE  Uncommitted(r)' = UNION {Dirty(t, r)' : t \in Threads}
BY DEF Uncommitted, Dirty

\* What the specification SerialDB sees of thread t.
Seen(t) ==
  IF Committed(t)
  THEN [reads |-> ReadSet(t), writes |-> WriteSet(t), valid |-> TRUE]
  ELSE [reads |-> {}, writes |-> {}, valid |-> FALSE]

\* The step leaves u alone.
Same(u) == /\ pc'[u] = pc[u] /\ rid'[u] = rid[u]
           /\ rc'[u] = rc[u] /\ accesses'[u] = accesses[u]

\* Of a thread that is left alone SerialDB sees the same as before.
LEMMA SameSeen ==
  ASSUME NEW u \in Threads, Same(u)
  PROVE  Seen(u)' = Seen(u) /\ \A r : Dirty(u, r)' = Dirty(u, r)
<1>1. (Committed(u)' <=> Committed(u)) /\ Held(u)' = Held(u)
  BY DEF Same, Committed, Held
<1>2. ReadSet(u)' = ReadSet(u) /\ WriteSet(u)' = WriteSet(u)
  BY DEF Same, ReadSet, WriteSet
<1>3. \A r : Dirty(u, r)' = Dirty(u, r)
  BY <1>1 DEF Dirty, Same
<1> QED
  BY <1>1, <1>2, <1>3 DEF Seen

\* A row keeps its committed value when a step of t keeps the uncommitted writes
\* to it, or when only t has any and the values an abort would leave agree.
RowKept(t, r) ==
  \/ Dirty(t, r)' = Dirty(t, r) /\ (data'[r] = data[r] \/ Dirty(t, r) # {})
  \/ /\ \A u \in Threads \ {t} : Dirty(u, r) = {}
     /\ Image(Dirty(t, r)', data'[r]) = Image(Dirty(t, r), data[r])

\* RowKept is what it says.
LEMMA RowKeeps ==
  ASSUME NEW t \in Threads, NEW r \in Rows, \A u \in Threads \ {t} : Same(u), RowKept(t, r)
  PROVE  CommittedDB'[r] = CommittedDB[r]
<1>1. \A u \in Threads \ {t} : Dirty(u, r)' = Dirty(u, r)
  BY SameSeen
<1>2. CommittedDB[r] = Image(Uncommitted(r), data[r])
  BY DEF CommittedDB, Image
<1>3. CommittedDB'[r] = Image(Uncommitted(r)', data'[r])
  BY DEF CommittedDB, Image
<1>4. CASE Dirty(t, r)' = Dirty(t, r) /\ (data'[r] = data[r] \/ Dirty(t, r) # {})
  <2>1. Uncommitted(r)' = Uncommitted(r)
    BY <1>1, <1>4, UncommittedIs, UncommittedIsNext
  <2>2. data'[r] = data[r] \/ Uncommitted(r) # {}
    BY <1>4, UncommittedIs
  <2> QED
    BY <1>2, <1>3, <2>1, <2>2 DEF Image
<1>5. CASE /\ \A u \in Threads \ {t} : Dirty(u, r) = {}
           /\ Image(Dirty(t, r)', data'[r]) = Image(Dirty(t, r), data[r])
  <2>1. Uncommitted(r) = Dirty(t, r)
    BY <1>5, UncommittedIs
  <2>2. \A u \in Threads \ {t} : Dirty(u, r)' = {}
    BY <1>1, <1>5
  <2>3. Uncommitted(r)' = Dirty(t, r)'
    BY <2>2, UncommittedIsNext
  <2> QED
    BY <1>2, <1>3, <1>5, <2>1, <2>3
<1> QED
  BY <1>4, <1>5 DEF RowKept

\* A step of t that keeps every row and what SerialDB sees of t is a stutter.
LEMMA Stutters ==
  ASSUME NEW t \in Threads, \A u \in Threads \ {t} : Same(u),
         \A r \in Rows : RowKept(t, r), Seen(t)' = Seen(t)
  PROVE  UNCHANGED Serial!vars
<1>1. CommittedDB' = CommittedDB
  <2>1. \A r \in Rows : CommittedDB'[r] = CommittedDB[r]
    BY RowKeeps
  <2> QED
    BY <2>1 DEF CommittedDB
<1>2. [u \in Threads |-> Seen(u)]' = [u \in Threads |-> Seen(u)]
  <2>1. \A u \in Threads : Seen(u)' = Seen(u)
    BY SameSeen
  <2> QED
    BY <2>1
<1> QED
  BY <1>1, <1>2 DEF Serial!vars, Seen

\* Who has an uncommitted write to a row is the only one, and it is one write.
LEMMA DirtyAlone ==
  ASSUME LockIndInv, NEW t \in Threads, NEW i \in Held(t), ~Committed(t),
         accesses[t][i].type = "WR"
  PROVE  /\ accesses[t][i].row \in Rows
         /\ Dirty(t, accesses[t][i].row) = {accesses[t][i]}
         /\ \A u \in Threads \ {t} : \A j \in Held(u) : accesses[u][j].row # accesses[t][i].row
         /\ \A u \in Threads \ {t} : Dirty(u, accesses[t][i].row) = {}
<1>1. Held(t) \subseteq 1..Len(accesses[t])
  BY DEF Held, Shape, TypeOK, LockIndInv
<1>2. accesses[t][i].row \in Rows
  BY <1>1, AccessType DEF LockIndInv, TypeOK
<1>3. \A j \in Held(t) : accesses[t][j].row = accesses[t][i].row => j = i
  BY <1>1 DEF LockIndInv, DistinctRows
<1>4. Dirty(t, accesses[t][i].row) = {accesses[t][i]}
  BY <1>3 DEF Dirty
<1>5. \A u \in Threads \ {t} : \A j \in Held(u) : accesses[u][j].row # accesses[t][i].row
  BY <1>2, ExclusiveLock
<1> QED
  BY <1>2, <1>4, <1>5 DEF Dirty

\* Nobody else holds a row that has been granted to t for writing.
LEMMA GrantedAlone ==
  ASSUME LockIndInv, NEW t \in Threads, pc[t] = "granted", req[t].type = "WR"
  PROVE  \A u \in Threads \ {t} : \A j \in Held(u) : accesses[u][j].row # req[t].row
<1> USE DEF LockIndInv, LockInv
<1> SUFFICES ASSUME NEW u \in Threads \ {t}, NEW j \in Held(u), accesses[u][j].row = req[t].row
             PROVE  FALSE
  OBVIOUS
<1> DEFINE r == req[t].row
<1>0. r \in Rows
  BY DEF TypeOK, Request
<1>1. HasLock(t, r, "EX")
  BY DEF HasLock, Mode
<1>2. t \in owners[r]
  BY <1>0, <1>1 DEF LockTable
<1>3. HasLock(u, r, "SH") \/ HasLock(u, r, "EX")
  BY DEF HasLock, Mode
<1>4. u \in owners[r]
  BY <1>0, <1>3 DEF LockTable
<1>5. HasLock(t, r, lock_type[r])
  BY <1>0, <1>2 DEF LockCompatibility
<1>6. Held(t) = 1..Len(accesses[t])
  BY DEF Held
<1>7. lock_type[r] = "EX"
  BY <1>5, <1>6 DEF HasLock, DistinctRows, Mode
<1> QED
  BY <1>0, <1>2, <1>4, <1>7 DEF LockCompatibility

-----------------------------------------------------------------------------
\* Undone and ReadsKept are inductive relative to LockIndInv: a restored row is
\* still locked by the transaction that restored it.
LEMMA UndoneStep ==
  ASSUME LockIndInv, Undone, [Next]_vars
  PROVE  Undone'
<1> USE DEF LockIndInv, queryVars, lockVars, flagVars
<1>1. ASSUME NEW t \in Threads, pc'[t] # "undone", UNCHANGED data,
             \A u \in Threads \ {t} : Same(u)
      PROVE  Undone'
  BY <1>1 DEF Undone, Same, Current
<1>2. ASSUME NEW t \in Threads, NewQuery(t) \/ RetryQuery(t)
      PROVE  Undone'
  BY <1>1, <1>2 DEF NewQuery, RetryQuery, Started, TypeOK, Same
<1>3. ASSUME NEW t \in Threads, RowBufferFull(t) \/ Finish(t) \/ GiveUp(t)
      PROVE  Undone'
  BY <1>1, <1>3 DEF RowBufferFull, Finish, GiveUp, StartCleanup, TypeOK, Same
<1>4. ASSUME NEW t \in Threads, NEW r \in Rows, NEW type \in {"RD", "WR"},
             LockGranted(t, r, type) \/ LockWait(t, r, type) \/ LockDenied(t, r, type)
      PROVE  Undone'
  BY <1>1, <1>4 DEF LockGranted, LockWait, LockDenied, StartCleanup, TypeOK, Same
<1>5. ASSUME NEW t \in Threads, StartWaiting(t) \/ WaitGranted(t) \/ WaitAborted(t)
      PROVE  Undone'
  BY <1>1, <1>5 DEF StartWaiting, WaitGranted, WaitAborted, LeaveLoop, TypeOK, Same
<1>6. ASSUME UNCHANGED <<pc, data, accesses, rid>>
      PROVE  Undone'
  BY <1>6 DEF Undone, Current
<1>7. ASSUME NEW t \in Threads, Timeout(t) \/ \E u \in Threads : DetectDeadlock(t, u)
      PROVE  Undone'
  BY <1>6, <1>7 DEF Timeout, DetectDeadlock
<1>8. ASSUME NEW t \in Threads, RecordAccess(t) \/ ReturnRow(t) \/ CleanupDone(t)
      PROVE  Undone'
  BY <1>1, <1>8 DEF RecordAccess, ReturnRow, CleanupDone, TypeOK, Same
<1>9. ASSUME NEW t \in Threads, NEW i \in Held(t), accesses[t][i].type = "WR", ~Committed(t),
             NEW v, data' = [data EXCEPT ![accesses[t][i].row] = v],
             NEW u \in Threads \ {t}, Same(u), pc[u] = "undone"
      PROVE  Current(u)'.type = "WR" /\ data'[Current(u)'.row] = Current(u)'.orig
  <2>1. Current(u)' = Current(u)
    BY <1>9 DEF Current, Same
  <2>2. rid[u] \in Held(u) /\ Current(u).row \in Rows
    BY <1>9, CurrentType DEF Held, Shape, TypeOK
  <2>3. Current(u).row # accesses[t][i].row
    BY <1>9, <2>2, DirtyAlone DEF Current
  <2> QED
    BY <1>9, <2>1, <2>2, <2>3 DEF Undone, TypeOK
<1>10. ASSUME NEW t \in Threads, NEW i \in 1..Len(accesses[t]), NEW v \in Val,
              WriteRow(t, i, v)
       PROVE  Undone'
  <2>1. pc[t] = "run" /\ pc' = pc /\ i \in Held(t) /\ ~Committed(t)
    BY <1>10 DEF WriteRow, Held, Committed
  <2>2. \A u \in Threads \ {t} : Same(u)
    BY <1>10 DEF WriteRow, TypeOK, Same
  <2> QED
    BY <1>9, <1>10, <2>1, <2>2 DEF WriteRow, Undone
<1>11. ASSUME NEW t \in Threads, RestoreRow(t)
       PROVE  Undone'
  <2>1. pc[t] = "cleanup" /\ rid[t] > 0 /\ rc[t] = "Abort"
    BY <1>11 DEF RestoreRow, MustRestore
  <2>2. rid[t] \in Held(t) /\ ~Committed(t) /\ Current(t).row \in Rows
    BY <2>1, CurrentType DEF Held, Committed, TypeOK
  <2>3. \A u \in Threads \ {t} : Same(u)
    BY <1>11 DEF RestoreRow, TypeOK, Same
  <2>4. Current(t)' = Current(t) /\ Current(t).type = "WR"
    BY <1>11 DEF RestoreRow, Current, MustRestore
  <2>5. data'[Current(t).row] = Current(t).orig
    BY <1>11, <2>2 DEF RestoreRow, TypeOK
  <2>6. data' = [data EXCEPT ![accesses[t][rid[t]].row] = Current(t).orig]
    BY <1>11 DEF RestoreRow, Current
  <2>7. ASSUME NEW u \in Threads \ {t}, pc'[u] = "undone"
        PROVE  Current(u)'.type = "WR" /\ data'[Current(u)'.row] = Current(u)'.orig
    <3>1. pc[u] = "undone" /\ Same(u) /\ accesses[t][rid[t]].type = "WR"
      BY <2>3, <2>4, <2>7 DEF Same, Current
    <3> QED
      BY <1>9, <2>2, <2>6, <3>1
  <2> QED
    BY <2>4, <2>5, <2>7 DEF Undone
<1>12. CASE UNCHANGED vars
  BY <1>6, <1>12 DEF vars
<1> QED
  BY <1>2, <1>3, <1>4, <1>5, <1>7, <1>8, <1>10, <1>11, <1>12 DEF Next, Step

\* Only rows locked for writing are written.
LEMMA ReadsKeptStep ==
  ASSUME LockIndInv, ReadsKept, [Next]_vars
  PROVE  ReadsKept'
<1> USE DEF LockIndInv, queryVars, lockVars, flagVars
<1>1. ASSUME UNCHANGED accesses
      PROVE  ReadsKept'
  BY <1>1 DEF ReadsKept
<1>2. ASSUME NEW t \in Threads, RecordAccess(t)
      PROVE  ReadsKept'
  <2> DEFINE a == [row |-> req[t].row, type |-> req[t].type,
                   orig |-> data[req[t].row], val |-> data[req[t].row]]
             n == Len(accesses[t])
  <2>1. accesses' = [accesses EXCEPT ![t] = Append(accesses[t], a)] /\ a.val = a.orig
    BY <1>2 DEF RecordAccess
  <2> HIDE DEF a
  <2>2. /\ n \in Nat
        /\ Len(accesses'[t]) = n + 1
        /\ \A i \in 1..n : accesses'[t][i] = accesses[t][i]
        /\ accesses'[t][n + 1] = a
    BY <2>1 DEF TypeOK
  <2>3. \A i \in 1..(n + 1) : i \in 1..n \/ i = n + 1
    BY <2>2
  <2>4. \A i \in 1..Len(accesses'[t]) :
          accesses'[t][i].type = "RD" => accesses'[t][i].val = accesses'[t][i].orig
    BY <2>1, <2>2, <2>3 DEF ReadsKept
  <2>5. \A u \in Threads \ {t} : accesses'[u] = accesses[u]
    BY <2>1 DEF TypeOK
  <2> QED
    BY <2>4, <2>5 DEF ReadsKept
<1>3. ASSUME NEW t \in Threads, NEW i \in 1..Len(accesses[t]), NEW v \in Val,
             WriteRow(t, i, v)
      PROVE  ReadsKept'
  <2>1. accesses[t] \in Seq(Access) /\ accesses[t][i] \in Access
    BY AccessType DEF TypeOK
  <2>2. /\ Len(accesses'[t]) = Len(accesses[t])
        /\ accesses'[t][i].type = "WR"
        /\ \A j \in 1..Len(accesses[t]) : j # i => accesses'[t][j] = accesses[t][j]
    BY <1>3, <2>1 DEF WriteRow, TypeOK, Access
  <2>3. \A u \in Threads \ {t} : accesses'[u] = accesses[u]
    BY <1>3 DEF WriteRow, TypeOK
  <2> QED
    BY <2>2, <2>3 DEF ReadsKept
<1>4. ASSUME NEW t \in Threads, CleanupDone(t)
      PROVE  ReadsKept'
  <2>1. accesses'[t] = <<>> /\ \A u \in Threads \ {t} : accesses'[u] = accesses[u]
    BY <1>4 DEF CleanupDone, TypeOK
  <2> QED
    BY <2>1 DEF ReadsKept
<1>5. ASSUME NEW t \in Threads, Step(t) \/ \E u \in Threads : DetectDeadlock(t, u),
             ~RecordAccess(t), ~CleanupDone(t),
             ~\E i \in 1..Len(accesses[t]), v \in Val : WriteRow(t, i, v)
      PROVE  UNCHANGED accesses
  BY <1>5 DEF Step, NewQuery, RetryQuery, Started, RowBufferFull, LockGranted, LockWait,
       LockDenied, StartWaiting, Timeout, DetectDeadlock, WaitGranted, WaitAborted, LeaveLoop,
       Finish, GiveUp, RestoreRow, ReturnRow
<1>6. CASE UNCHANGED vars
  BY <1>1, <1>6 DEF vars
<1> QED
  BY <1>1, <1>2, <1>3, <1>4, <1>5, <1>6 DEF Next

-----------------------------------------------------------------------------
\* A thread outside cleanup, or one that aborts, has no outcome.
LEMMA NotCommitted ==
  ASSUME NEW t \in Threads
  PROVE  /\ ~Committed(t) => Seen(t) = Serial!NoOutcome
         /\ ~Committed(t)' => Seen(t)' = Serial!NoOutcome
BY DEF Seen, Serial!NoOutcome

\* A step of t that changes no data, keeps what t holds and leaves it without an
\* outcome is a stutter.
LEMMA StuttersQuietly ==
  ASSUME NEW t \in Threads, \A u \in Threads \ {t} : Same(u), UNCHANGED data,
         ~Committed(t), ~Committed(t)',
         Held(t)' = Held(t), accesses'[t] = accesses[t]
  PROVE  UNCHANGED Serial!vars
<1>1. Seen(t)' = Seen(t)
  BY NotCommitted
<1>2. \A r \in Rows : Dirty(t, r)' = Dirty(t, r)
  BY DEF Dirty
<1> QED
  BY <1>1, <1>2, Stutters DEF RowKept

\* The copy of a row to be written is its committed value; a row only read
\* changes nothing.
LEMMA RecordAccessStutters ==
  ASSUME LockIndInv, NEW t \in Threads, RecordAccess(t)
  PROVE  UNCHANGED Serial!vars
<1> USE DEF LockIndInv, queryVars, lockVars, flagVars
<1>0. PICK q \in Rows : q = req[t].row
  BY DEF TypeOK, Request
<1> DEFINE a == [row |-> q, type |-> req[t].type, orig |-> data[q], val |-> data[q]]
           n == Len(accesses[t])
<1>1. /\ pc[t] = "granted" /\ pc'[t] = "run" /\ UNCHANGED <<data, rc, rid>>
      /\ accesses' = [accesses EXCEPT ![t] = Append(accesses[t], a)]
  BY <1>0 DEF RecordAccess, TypeOK
<1>2. a.row = q /\ a.type = req[t].type /\ a.orig = data[q]
  OBVIOUS
<1> HIDE DEF a
<1>3. /\ n \in Nat
      /\ Len(accesses'[t]) = n + 1
      /\ \A i \in 1..n : accesses'[t][i] = accesses[t][i]
      /\ accesses'[t][n + 1] = a
  BY <1>1 DEF TypeOK
<1>4. Held(t) = 1..n /\ Held(t)' = 1..(n + 1)
  BY <1>1, <1>3 DEF Held
<1>5. ~Committed(t) /\ ~Committed(t)'
  BY <1>1 DEF Committed
<1>6. \A i \in 1..(n + 1) : i \in 1..n \/ i = n + 1
  BY <1>3
<1>7. \A u \in Threads \ {t} : Same(u)
  BY <1>1 DEF RecordAccess, TypeOK, Same
<1>8. ASSUME NEW r \in Rows, a.row # r \/ a.type # "WR"
      PROVE  RowKept(t, r)
  <2>1. \A x \in Dirty(t, r)' : x \in Dirty(t, r)
    BY <1>3, <1>4, <1>5, <1>6, <1>8 DEF Dirty
  <2>2. n + 1 \in Int /\ \A i \in 1..n : i \in 1..(n + 1)
    BY <1>3
  <2>3. \A x \in Dirty(t, r) : x \in Dirty(t, r)'
    BY <1>3, <1>4, <1>5, <2>2 DEF Dirty
  <2> QED
    BY <1>1, <2>1, <2>3 DEF RowKept
<1>9. ASSUME a.type = "WR"
      PROVE  RowKept(t, q)
  <2>1. \A i \in 1..n : accesses[t][i].row # q
    BY <1>0, <1>1 DEF DistinctRows
  <2>2. Dirty(t, q) = {}
    BY <1>4, <2>1 DEF Dirty
  <2>3. Dirty(t, q)' = {a}
    <3>1. n + 1 \in Held(t)' /\ accesses'[t][n + 1] = a
      BY <1>3, <1>4
    <3>2. a \in Dirty(t, q)'
      BY <1>2, <1>5, <1>9, <3>1 DEF Dirty
    <3>3. \A x \in Dirty(t, q)' : x = a
      BY <1>3, <1>4, <1>6, <2>1 DEF Dirty
    <3> QED
      BY <3>2, <3>3
  <2>4. \A u \in Threads \ {t} : Dirty(u, q) = {}
    BY <1>0, <1>1, <1>2, <1>9, GrantedAlone DEF Dirty
  <2>5. Image(Dirty(t, q)', data'[q]) = Image(Dirty(t, q), data[q])
    BY <1>1, <1>2, <2>2, <2>3, ImageOf
  <2> QED
    BY <2>4, <2>5 DEF RowKept
<1>10. Seen(t)' = Seen(t)
  BY <1>5, NotCommitted
<1> QED
  BY <1>2, <1>7, <1>8, <1>9, <1>10, Stutters

\* A write in place is not committed: the copy remains.
LEMMA WriteRowStutters ==
  ASSUME LockIndInv, NEW t \in Threads, NEW i \in 1..Len(accesses[t]), NEW v \in Val,
         WriteRow(t, i, v)
  PROVE  UNCHANGED Serial!vars
<1> USE DEF LockIndInv, queryVars, lockVars, flagVars
<1> DEFINE a == accesses[t][i]
           b == accesses'[t][i]
<1>0. PICK q \in Rows : q = a.row
  BY AccessType DEF TypeOK
<1>1. /\ pc[t] = "run" /\ a.type = "WR" /\ UNCHANGED <<pc, rc, rid>>
      /\ data' = [data EXCEPT ![q] = v]
      /\ accesses' = [accesses EXCEPT ![t][i].val = v]
  BY <1>0 DEF WriteRow
<1>2. accesses[t] \in Seq(Access) /\ a \in Access
  BY AccessType DEF TypeOK
<1>3. /\ Len(accesses'[t]) = Len(accesses[t])
      /\ b.row = q /\ b.orig = a.orig /\ b.type = "WR"
      /\ \A j \in 1..Len(accesses[t]) : j # i => accesses'[t][j] = accesses[t][j]
  BY <1>0, <1>1, <1>2 DEF TypeOK, Access
<1>4. Held(t) = 1..Len(accesses[t]) /\ Held(t)' = Held(t)
  BY <1>1, <1>3 DEF Held
<1>5. ~Committed(t) /\ ~Committed(t)'
  BY <1>1 DEF Committed
<1>6. \A u \in Threads \ {t} : Same(u)
  BY <1>1 DEF TypeOK, Same
<1>7. ASSUME NEW r \in Rows, r # q
      PROVE  RowKept(t, r)
  <2>1. Dirty(t, r)' = Dirty(t, r)
    <3>1. \A j \in Held(t) : accesses'[t][j].row = r => j # i /\ accesses'[t][j] = accesses[t][j]
      BY <1>0, <1>3, <1>4, <1>7
    <3>2. \A j \in Held(t) : accesses[t][j].row = r => j # i /\ accesses'[t][j] = accesses[t][j]
      BY <1>0, <1>3, <1>4, <1>7
    <3>3. \A x \in Dirty(t, r)' : x \in Dirty(t, r)
      BY <1>4, <1>5, <3>1 DEF Dirty
    <3>4. \A x \in Dirty(t, r) : x \in Dirty(t, r)'
      BY <1>4, <1>5, <3>2 DEF Dirty
    <3> QED
      BY <3>3, <3>4
  <2>2. data'[r] = data[r]
    BY <1>1, <1>7 DEF TypeOK
  <2> QED
    BY <2>1, <2>2 DEF RowKept
<1>8. RowKept(t, q)
  <2>1. Dirty(t, q) = {a} /\ \A u \in Threads \ {t} : Dirty(u, q) = {}
    BY <1>0, <1>1, <1>4, <1>5, DirtyAlone
  <2>2. Dirty(t, q)' = {b}
    <3>1. \A j \in Held(t) : accesses'[t][j].row = q => j = i
      BY <1>0, <1>3, <1>4 DEF DistinctRows
    <3>2. \A x \in Dirty(t, q)' : x = b
      BY <1>4, <3>1 DEF Dirty
    <3>3. b \in Dirty(t, q)'
      BY <1>3, <1>4, <1>5 DEF Dirty
    <3> QED
      BY <3>2, <3>3
  <2> HIDE DEF a, b
  <2>3. Image(Dirty(t, q)', data'[q]) = Image(Dirty(t, q), data[q])
    BY <1>3, <2>1, <2>2, ImageOf
  <2> QED
    BY <2>1, <2>3 DEF RowKept
<1>9. Seen(t)' = Seen(t)
  BY <1>5, NotCommitted
<1> QED
  BY <1>6, <1>7, <1>8, <1>9, Stutters

\* Restoring the copy gives the row the committed value it had all along.
LEMMA RestoreRowStutters ==
  ASSUME LockIndInv, NEW t \in Threads, RestoreRow(t)
  PROVE  UNCHANGED Serial!vars
<1> USE DEF LockIndInv, queryVars, lockVars, flagVars
<1>1. /\ pc[t] = "cleanup" /\ rid[t] > 0 /\ rc[t] = "Abort" /\ Current(t).type = "WR"
      /\ data' = [data EXCEPT ![Current(t).row] = Current(t).orig]
      /\ pc' = [pc EXCEPT ![t] = "undone"]
      /\ UNCHANGED <<accesses, rc, rid>>
  BY DEF RestoreRow, MustRestore
<1>2. rid[t] \in Held(t) /\ ~Committed(t) /\ Current(t).row \in Rows
  BY <1>1, CurrentType DEF Held, Committed, TypeOK
<1>3. Held(t)' = Held(t) /\ ~Committed(t)'
  BY <1>1 DEF Held, Committed, TypeOK
<1>4. \A u \in Threads \ {t} : Same(u)
  BY <1>1 DEF TypeOK, Same
<1>5. \A r \in Rows : Dirty(t, r)' = Dirty(t, r)
  BY <1>1, <1>2, <1>3 DEF Dirty
<1>6. Dirty(t, Current(t).row) # {}
  BY <1>1, <1>2, DirtyAlone DEF Current
<1>7. \A r \in Rows : RowKept(t, r)
  BY <1>1, <1>5, <1>6 DEF RowKept, TypeOK
<1>8. Seen(t)' = Seen(t)
  BY <1>2, <1>3, NotCommitted
<1> QED
  BY <1>4, <1>7, <1>8, Stutters

\* A row is given back when it holds its committed value.
LEMMA ReturnRowStutters ==
  ASSUME LockIndInv, Undone, NEW t \in Threads, ReturnRow(t)
  PROVE  UNCHANGED Serial!vars
<1> USE DEF LockIndInv, queryVars, lockVars, flagVars
<1>1. pc[t] \in {"cleanup", "undone"} /\ rid[t] > 0
  BY DEF ReturnRow, Shape
<1>2. pc'[t] = "cleanup" /\ rid'[t] = rid[t] - 1 /\ UNCHANGED <<data, accesses, rc>>
  BY DEF ReturnRow, TypeOK
<1>3. Held(t) = 1..rid[t] /\ Held(t)' = 1..(rid[t] - 1) /\ rid[t] \in Nat
  BY <1>1, <1>2 DEF Held, TypeOK
<1>4. \A u \in Threads \ {t} : Same(u)
  BY DEF ReturnRow, TypeOK, Same
<1>5. CASE rc[t] = "RCOK"
  <2>1. Committed(t) /\ Committed(t)'
    BY <1>1, <1>2, <1>5 DEF Committed, Shape
  <2>2. Seen(t)' = Seen(t)
    BY <1>2, <2>1 DEF Seen, ReadSet, WriteSet
  <2>3. \A r \in Rows : Dirty(t, r) = {} /\ Dirty(t, r)' = {}
    BY <2>1 DEF Dirty
  <2> QED
    BY <1>2, <1>4, <2>2, <2>3, Stutters DEF RowKept
<1>6. CASE rc[t] # "RCOK"
  <2>1. ~Committed(t) /\ ~Committed(t)'
    BY <1>2, <1>6 DEF Committed
  <2>2. Seen(t)' = Seen(t)
    BY <2>1, NotCommitted
  <2>3. \A i \in Held(t) : i \in Held(t)' \/ i = rid[t]
    BY <1>3
  <2>4. \A i \in Held(t)' : i \in Held(t) /\ i # rid[t]
    BY <1>3
  <2>5. ASSUME NEW r \in Rows, Current(t).row # r \/ Current(t).type # "WR"
        PROVE  RowKept(t, r)
    <3>1. Dirty(t, r)' = Dirty(t, r)
      BY <1>2, <2>1, <2>3, <2>4, <2>5 DEF Dirty, Current
    <3> QED
      BY <1>2, <3>1 DEF RowKept
  <2>6. ASSUME NEW r \in Rows, Current(t).row = r, Current(t).type = "WR"
        PROVE  RowKept(t, r)
    <3>1. pc[t] = "undone"
      BY <1>1, <1>6, <2>6 DEF ReturnRow, MustRestore, TypeOK
    <3>2. data[r] = Current(t).orig
      BY <2>6, <3>1 DEF Undone
    <3>3. rid[t] \in Held(t)
      BY <1>1, <1>3
    <3>4. Dirty(t, r) = {Current(t)} /\ \A u \in Threads \ {t} : Dirty(u, r) = {}
      BY <2>1, <2>6, <3>3, DirtyAlone DEF Current
    <3>5. Dirty(t, r)' = {}
      <4>1. rid[t] \in 1..Len(accesses[t])
        BY <1>1, CurrentType
      <4>2. \A i \in Held(t)' : accesses[t][i].row # r
        BY <1>3, <2>4, <2>6, <4>1 DEF DistinctRows, Current
      <4> QED
        BY <1>2, <4>2 DEF Dirty
    <3>6. Image(Dirty(t, r)', data'[r]) = Image(Dirty(t, r), data[r])
      BY <1>2, <3>2, <3>4, <3>5, ImageOf
    <3> QED
      BY <3>4, <3>6 DEF RowKept
  <2> QED
    BY <1>4, <2>2, <2>5, <2>6, Stutters
<1> QED
  BY <1>5, <1>6

\* The end of cleanup retires a committed transaction.
LEMMA CleanupDoneRetires ==
  ASSUME LockIndInv, NEW t \in Threads, CleanupDone(t)
  PROVE  Serial!Retire(t) \/ UNCHANGED Serial!vars
<1> USE DEF LockIndInv, queryVars, lockVars, flagVars
<1>1. /\ pc[t] = "cleanup" /\ rid[t] = 0 /\ pc'[t] = "idle" /\ accesses'[t] = <<>>
      /\ UNCHANGED data
  BY DEF CleanupDone, TypeOK
<1>2. \A i : i \notin Held(t) /\ i \notin Held(t)'
  BY <1>1 DEF Held
<1>3. \A u \in Threads \ {t} : Same(u)
  BY DEF CleanupDone, TypeOK, Same
<1>4. \A r \in Rows : RowKept(t, r)
  BY <1>1, <1>2 DEF RowKept, Dirty
<1>5. ~Committed(t)' /\ Seen(t)' = Serial!NoOutcome
  BY <1>1, NotCommitted DEF Committed
<1>6. CASE ~Committed(t)
  BY <1>3, <1>4, <1>5, <1>6, Stutters, NotCommitted
<1>7. CASE Committed(t)
  <2>1. CommittedDB' = CommittedDB
    <3>1. \A r \in Rows : CommittedDB'[r] = CommittedDB[r]
      BY <1>3, <1>4, RowKeeps
    <3> QED
      BY <3>1 DEF CommittedDB
  <2>2. Seen(t).valid
    BY <1>7 DEF Seen
  <2>3. [u \in Threads |-> Seen(u)]'
          = [[u \in Threads |-> Seen(u)] EXCEPT ![t] = Serial!NoOutcome]
    <3>1. \A u \in Threads \ {t} : Seen(u)' = Seen(u)
      BY <1>3, SameSeen
    <3> QED
      BY <1>5, <3>1
  <2>4. [u \in Threads |-> Seen(u)][t].valid
    BY <2>2
  <2> QED
    BY <2>1, <2>3, <2>4 DEF Serial!Retire, Seen
<1> QED
  BY <1>6, <1>7

\* finish(RCOK) commits.  What the transaction read is committed still, because
\* nobody else has an uncommitted write to a row it holds and the row holds what it
\* read; what it wrote in place becomes the committed value.
LEMMA FinishCommits ==
  ASSUME SerialInv, TypeOK', NEW t \in Threads, Finish(t)
  PROVE  Serial!Commit(t)
<1> USE DEF SerialInv, LockIndInv, queryVars, lockVars, flagVars
<1> DEFINE n == Len(accesses[t])
           Written == {accesses[t][i].row : i \in {j \in 1..n : accesses[t][j].type = "WR"}}
           Read == {accesses[t][i].row : i \in 1..n}
<1>1. /\ pc[t] = "run" /\ pc'[t] = "cleanup" /\ rc'[t] = "RCOK" /\ rc[t] = "RCOK"
      /\ UNCHANGED <<data, accesses>>
  BY DEF Finish, StartCleanup, TypeOK, Shape
<1>2. ~Committed(t) /\ Committed(t)' /\ Held(t) = 1..n
  BY <1>1 DEF Committed, Held
<1>3. \A u \in Threads \ {t} : Same(u)
  BY DEF Finish, StartCleanup, TypeOK, Same
<1>4. \A i \in 1..n : accesses[t][i] \in Access /\ accesses[t][i].row \in Rows
  BY AccessType DEF TypeOK
<1>5. \A i \in 1..n : data[accesses[t][i].row] = accesses[t][i].val
  BY <1>1, <1>2 DEF Isolation
<1>6. \A r \in Rows : Dirty(t, r)' = {}
  BY <1>2 DEF Dirty
<1>7. ASSUME NEW i \in 1..n, accesses[t][i].type = "WR"
      PROVE  /\ CommittedDB[accesses[t][i].row] = accesses[t][i].orig
             /\ CommittedDB'[accesses[t][i].row] = accesses[t][i].val
  <2>1. PICK r \in Rows : r = accesses[t][i].row
    BY <1>4
  <2>2. Dirty(t, r) = {accesses[t][i]} /\ \A u \in Threads \ {t} : Dirty(u, r) = {}
    BY <1>2, <1>7, <2>1, DirtyAlone
  <2>3. Uncommitted(r) = {accesses[t][i]}
    BY <2>2, UncommittedIs
  <2>4. CommittedDB[r] = accesses[t][i].orig
    BY <2>3 DEF CommittedDB
  <2>5. \A u \in Threads : Dirty(u, r)' = {}
    BY <1>3, <1>6, <2>2, SameSeen
  <2>6. Uncommitted(r)' = {}
    BY <2>5, UncommittedIsNext
  <2>7. CommittedDB'[r] = data[r]
    BY <1>1, <2>6 DEF CommittedDB
  <2> QED
    BY <1>5, <2>1, <2>4, <2>7
<1>8. ASSUME NEW r \in Rows, r \notin Written
      PROVE  CommittedDB'[r] = CommittedDB[r]
  <2>1. Dirty(t, r) = {}
    BY <1>2, <1>8 DEF Dirty
  <2> QED
    BY <1>1, <1>3, <1>6, <2>1, RowKeeps DEF RowKept
<1>9. ASSUME NEW i \in 1..n, accesses[t][i].type # "WR"
      PROVE  CommittedDB[accesses[t][i].row] = accesses[t][i].orig
  <2>1. PICK r \in Rows : r = accesses[t][i].row
    BY <1>4
  <2>2. \A u \in Threads : \A j \in Held(u) : accesses[u][j].row = r => accesses[u][j].type # "WR"
    <3> SUFFICES ASSUME NEW u \in Threads, NEW j \in Held(u), accesses[u][j].row = r,
                        accesses[u][j].type = "WR"
                 PROVE  FALSE
      OBVIOUS
    <3>1. u = t
      BY <1>2, <2>1, ExclusiveLock
    <3> QED
      BY <1>2, <1>9, <2>1, <3>1 DEF DistinctRows
  <2>3. Uncommitted(r) = {}
    BY <2>2 DEF Uncommitted
  <2>4. accesses[t][i].type = "RD"
    BY <1>4, <1>9 DEF Access
  <2> QED
    BY <1>5, <2>1, <2>3, <2>4 DEF CommittedDB, ReadsKept
<1>10. CommittedDB' \in [Rows -> Val]
  <2>1. ASSUME NEW r \in Rows
        PROVE  CommittedDB'[r] \in Val
    <3>1. CASE Uncommitted(r)' = {}
      BY <3>1 DEF CommittedDB, TypeOK
    <3>2. CASE Uncommitted(r)' # {}
      <4>1. \A a \in Uncommitted(r)' : a.orig \in Val
        <5>1. \A u \in Threads : \A i \in Held(u)' : accesses'[u][i] \in Access
          <6>1. \A u \in Threads \ {t} : Held(u)' = Held(u)
            BY <1>3 DEF Same, Held
          <6>2. Held(t)' = 1..n
            BY <1>1 DEF Finish, StartCleanup, Held, TypeOK
          <6>3. \A u \in Threads : Held(u) \subseteq 1..Len(accesses[u])
            BY HeldRange
          <6> QED
            BY <1>1, <6>1, <6>2, <6>3, AccessType DEF TypeOK
        <5> QED
          BY <5>1 DEF Uncommitted, Access
      <4>2. (CHOOSE a \in Uncommitted(r)' : TRUE) \in Uncommitted(r)'
        BY <3>2
      <4> QED
        BY <3>2, <4>1, <4>2 DEF CommittedDB
    <3> QED
      BY <3>1, <3>2
  <2> QED
    BY <2>1 DEF CommittedDB
<1>11. ReadSet(t)' = {<<r, CommittedDB[r]>> : r \in Read}
  <2>1. ReadSet(t)' = {<<accesses[t][i].row, accesses[t][i].orig>> : i \in 1..n}
    BY <1>1 DEF ReadSet
  <2>2. \A i \in 1..n : CommittedDB[accesses[t][i].row] = accesses[t][i].orig
    BY <1>7, <1>9
  <2> HIDE DEF n
  <2> QED
    BY <2>1, <2>2
<1>12. WriteSet(t)' = {<<r, CommittedDB'[r]>> : r \in Written}
  <2>1. WriteSet(t)' = {<<accesses[t][i].row, accesses[t][i].val>> :
                          i \in {j \in 1..n : accesses[t][j].type = "WR"}}
    BY <1>1 DEF WriteSet
  <2>2. \A i \in {j \in 1..n : accesses[t][j].type = "WR"} :
          CommittedDB'[accesses[t][i].row] = accesses[t][i].val
    BY <1>7
  <2> HIDE DEF n
  <2> QED
    BY <2>1, <2>2
<1>13. Seen(t)' = Serial!Outcome({<<r, CommittedDB[r]>> : r \in Read},
                                 {<<r, CommittedDB'[r]>> : r \in Written})
  BY <1>2, <1>11, <1>12 DEF Seen, Serial!Outcome
<1>14. [u \in Threads |-> Seen(u)]'
         = [[u \in Threads |-> Seen(u)] EXCEPT ![t] =
              Serial!Outcome({<<r, CommittedDB[r]>> : r \in Read},
                             {<<r, CommittedDB'[r]>> : r \in Written})]
  <2>1. \A u \in Threads \ {t} : Seen(u)' = Seen(u)
    BY <1>3, SameSeen
  <2> QED
    BY <1>13, <2>1
<1>15. ~[u \in Threads |-> Seen(u)][t].valid /\ [u \in Threads |-> Seen(u)]'[t].valid
  BY <1>2 DEF Seen
<1>16. Read \in SUBSET Rows /\ Written \in SUBSET Rows
  BY <1>4
<1>17. \A r \in Rows \ Written : CommittedDB'[r] = CommittedDB[r]
  BY <1>8
<1> HIDE DEF Read, Written
<1> QED
  BY <1>10, <1>14, <1>15, <1>16, <1>17 DEF Serial!Commit, Seen

\* Every step is a commit, a retirement or a stutter of SerialDB.
LEMMA SerialStep ==
  ASSUME SerialInv, [Next]_vars
  PROVE  [Serial!Next]_(Serial!vars)
<1> USE DEF queryVars, lockVars, flagVars
<1>0. LockIndInv /\ TypeOK /\ Shape /\ TypeOK'
  BY LockIndInvStep DEF SerialInv, LockIndInv
<1>1. ASSUME NEW t \in Threads, NewQuery(t) \/ RetryQuery(t)
      PROVE  UNCHANGED Serial!vars
  <2>1. pc[t] = "idle" /\ Started(t)
    BY <1>1 DEF NewQuery, RetryQuery
  <2>2. \A u \in Threads \ {t} : Same(u)
    BY <1>0, <2>1 DEF Started, TypeOK, Same
  <2> QED
    BY <1>0, <2>1, <2>2, StuttersQuietly DEF Started, TypeOK, Committed, Held
<1>2. ASSUME NEW t \in Threads, StartCleanup(t, "Abort"), UNCHANGED <<data, accesses>>,
             pc[t] \notin {"cleanup", "undone"}
      PROVE  UNCHANGED Serial!vars
  <2>1. pc'[t] = "cleanup" /\ rid'[t] = Len(accesses[t]) /\ rc'[t] = "Abort"
    BY <1>0, <1>2 DEF StartCleanup, TypeOK
  <2>2. \A u \in Threads \ {t} : Same(u)
    BY <1>0, <1>2 DEF StartCleanup, TypeOK, Same
  <2> QED
    BY <1>2, <2>1, <2>2, StuttersQuietly DEF Committed, Held
<1>3. ASSUME NEW t \in Threads, RowBufferFull(t) \/ GiveUp(t)
      PROVE  UNCHANGED Serial!vars
  BY <1>2, <1>3 DEF RowBufferFull, GiveUp
<1>4. ASSUME NEW t \in Threads, NEW r \in Rows, NEW type \in {"RD", "WR"}, LockDenied(t, r, type)
      PROVE  UNCHANGED Serial!vars
  BY <1>2, <1>4 DEF LockDenied, Requests
<1>5. ASSUME NEW t \in Threads, UNCHANGED <<data, accesses, rc, rid>>,
             pc[t] \notin {"cleanup", "undone"},
             \E x : x \notin {"cleanup", "undone"} /\ pc' = [pc EXCEPT ![t] = x]
      PROVE  UNCHANGED Serial!vars
  <2>1. \A u \in Threads \ {t} : Same(u)
    BY <1>0, <1>5 DEF TypeOK, Same
  <2> QED
    BY <1>0, <1>5, <2>1, StuttersQuietly DEF TypeOK, Committed, Held
<1>6. ASSUME NEW t \in Threads, NEW r \in Rows, NEW type \in {"RD", "WR"},
             LockGranted(t, r, type) \/ LockWait(t, r, type)
      PROVE  UNCHANGED Serial!vars
  <2>1. /\ UNCHANGED <<data, accesses, rc, rid>>
        /\ pc[t] = "run"
        /\ \E x \in {"granted", "enqueued"} : pc' = [pc EXCEPT ![t] = x]
    BY <1>6 DEF LockGranted, LockWait, Requests
  <2> QED
    BY <1>5, <2>1
<1>7. ASSUME NEW t \in Threads, StartWaiting(t) \/ WaitGranted(t) \/ WaitAborted(t)
      PROVE  UNCHANGED Serial!vars
  <2>1. /\ UNCHANGED <<data, accesses, rc, rid>>
        /\ pc[t] \in {"enqueued", "waiting"}
        /\ \E x \in {"waiting", "granted", "giveup"} : pc' = [pc EXCEPT ![t] = x]
    BY <1>7 DEF StartWaiting, WaitGranted, WaitAborted, LeaveLoop
  <2> QED
    BY <1>5, <2>1
<1>8. ASSUME UNCHANGED <<data, accesses, rc, rid, pc>>
      PROVE  UNCHANGED Serial!vars
  BY <1>8 DEF Serial!vars, CommittedDB, Uncommitted, Committed, Held, ReadSet, WriteSet
<1>9. ASSUME NEW t \in Threads, Timeout(t) \/ \E u \in Threads : DetectDeadlock(t, u)
      PROVE  UNCHANGED Serial!vars
  BY <1>8, <1>9 DEF Timeout, DetectDeadlock
<1>10. ASSUME NEW t \in Threads, Finish(t)
       PROVE  Serial!Next
  BY <1>0, <1>10, FinishCommits DEF Serial!Next
<1>11. ASSUME NEW t \in Threads, CleanupDone(t)
       PROVE  Serial!Next \/ UNCHANGED Serial!vars
  BY <1>0, <1>11, CleanupDoneRetires DEF Serial!Next
<1>12. ASSUME NEW t \in Threads, RecordAccess(t) \/ RestoreRow(t) \/ ReturnRow(t)
       PROVE  UNCHANGED Serial!vars
  BY <1>0, <1>12, RecordAccessStutters, RestoreRowStutters, ReturnRowStutters DEF SerialInv
<1>13. ASSUME NEW t \in Threads, NEW i \in 1..Len(accesses[t]), NEW v \in Val,
              WriteRow(t, i, v)
       PROVE  UNCHANGED Serial!vars
  BY <1>0, <1>13, WriteRowStutters
<1>14. CASE UNCHANGED vars
  BY <1>8, <1>14 DEF vars
<1> QED
  BY <1>1, <1>3, <1>4, <1>6, <1>7, <1>9, <1>10, <1>11, <1>12, <1>13, <1>14 DEF Next, Step

\* At the start nobody holds a row and the committed database is the loaded one.
LEMMA SerialStart ==
  ASSUME Init
  PROVE  SerialInv /\ Serial!Init
<1>1. ASSUME NEW t \in Threads
      PROVE  pc[t] = "idle" /\ accesses[t] = <<>> /\ ~Committed(t) /\ \A i : i \notin Held(t)
  <2>1. pc[t] = "idle" /\ accesses[t] = <<>>
    BY DEF Init
  <2> QED
    BY <2>1 DEF Held, Committed
<1>2. Isolation /\ Undone /\ ReadsKept
  BY <1>1 DEF Isolation, Undone, ReadsKept
<1>3. \A r \in Rows : Uncommitted(r) = {}
  BY <1>1 DEF Uncommitted
<1>4. CommittedDB = [r \in Rows |-> InitVal]
  BY <1>3 DEF CommittedDB, Init
<1>5. [t \in Threads |-> Seen(t)] = [t \in Threads |-> Serial!NoOutcome]
  BY <1>1, NotCommitted
<1> QED
  BY <1>2, <1>4, <1>5, LockIndInvInit DEF SerialInv, Serial!Init, Seen

\* Two-phase locking, with any number of threads, rows and values and under each
\* of the three algorithms, implements SerialDB: transactions commit one at a time,
\* each having read the values the database holds at the instant of its commit,
\* and a transaction that aborts leaves no trace.
THEOREM SerializableCorrect == Spec => Serializable
<1>1. SerialInv /\ [Next]_vars => SerialInv'
  BY LockIndInvStep, IsolationStep, UndoneStep, ReadsKeptStep DEF SerialInv
<1>2. SerialInv /\ [Next]_vars => [Serial!Next]_(Serial!vars)
  BY SerialStep
<1>3. Init => SerialInv /\ Serial!Init
  BY SerialStart
<1> QED
  BY <1>1, <1>2, <1>3, PTL DEF Spec, Serializable, Serial!Spec
=============================================================================
