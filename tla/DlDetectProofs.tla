--------------------------- MODULE DlDetectProofs ---------------------------
(***************************************************************************)
(* That the edges the deadlock detector works on are all there are and     *)
(* that none of them leads astray, for every number of threads and rows.   *)
(* What is proved of TwoPhase holds of the program with its detector.      *)
(***************************************************************************)
EXTENDS DlDetect, TwoPhaseProofs

\* Every step of DlDetect, those of the search included, is a step of TwoPhase or
\* leaves its variables alone; the store of detect_cycle is DetectDeadlock.
LEMMA DlStepImplements ==
  ASSUME NEW t \in Threads, DlStep(t)
  PROVE  Next \/ UNCHANGED vars
<1>1. CASE Elsewhere(t)
  BY <1>1 DEF Elsewhere, Next, Step
<1>2. CASE \E r \in Rows, type \in {"RD", "WR"} : LockWaitEdges(t, r, type)
  BY <1>2 DEF LockWaitEdges, Next, Step
<1>3. CASE LeaveSpinning(t)
  BY <1>3 DEF LeaveSpinning, Next, Step
<1>4. CASE CleanupClears(t)
  BY <1>4 DEF CleanupClears, Next, Step
<1>5. CASE StartDetect(t)
  BY <1>5 DEF StartDetect
<1>6. CASE EnterNode(t)
  BY <1>6 DEF EnterNode
<1>7. CASE FollowEdge(t)
  BY <1>7 DEF FollowEdge
<1>8. CASE StoreVictim(t)
  BY <1>8 DEF StoreVictim, Next
<1> QED
  BY <1>1, <1>2, <1>3, <1>4, <1>5, <1>6, <1>7, <1>8 DEF DlStep

\* What is proved of TwoPhase, where any waiter may be the victim, holds here.
LEMMA DetectorInTwoPhase == DlSpec => Spec
<1>1. DlInit => Init
  BY DEF DlInit
<1>2. [DlNext]_<<vars, dlVars>> => [Next]_vars
  BY DlStepImplements DEF DlNext
<1> QED
  BY <1>1, <1>2, PTL DEF DlSpec, Spec

\* With the detector, too, lock_get and lock_release keep the lock table in agreement
\* with the transactions, owners compatible, and no waiter forgotten.
THEOREM DetectorLockTable == DlSpec => [](LockTable /\ LockCompatibility /\ NoLostWakeup)
BY DetectorInTwoPhase, LockTableCorrect, LockCompatibilityCorrect, NoLostWakeupCorrect, PTL

\* With the detector, too, transactions commit one at a time and aborted ones leave no
\* trace, whoever the search makes its victim and however late the store reaches it.
THEOREM DetectorSerializable == DlSpec => Serializable
BY DetectorInTwoPhase, SerializableCorrect

-----------------------------------------------------------------------------
(***************************************************************************)
(* The edges recorded for a wait stay complete                             *)
(***************************************************************************)

\* The lock with the owners o, the mode lt and the waiters w: x has for each waiter,
\* unless it is giving up, the waiters before it and the owners it conflicts with.
Covered(o, lt, w, x, p) ==
  \A i \in 1..Len(w) : p[w[i].txn] # "giveup" =>
    /\ \A j \in 1..Len(w) :
         j < i /\ conflict_lock(w[i].type, w[j].type) => w[j].txn \in x[w[i].txn]
    /\ conflict_lock(w[i].type, lt) => o \subseteq x[w[i].txn]

\* The inductive form of EdgesStayComplete.
EdgesInv ==
  /\ txnids \in [Threads -> SUBSET Threads]
  /\ cc_alg = "DL_DETECT" =>
       \A r \in Rows : Covered(owners[r], lock_type[r], waiters[r], txnids, pc)

\* It implies the statement about WaitsFor.
LEMMA EdgesInvMeans ==
  ASSUME TypeOK, EdgesInv
  PROVE  EdgesStayComplete
<1> SUFFICES ASSUME cc_alg = "DL_DETECT", NEW r \in Rows, NEW i \in 1..Len(waiters[r]),
                    pc[waiters[r][i].txn] # "giveup"
             PROVE  WaitsFor(SubSeq(waiters[r], 1, i - 1), r, waiters[r][i].type)
                      \subseteq txnids[waiters[r][i].txn]
  BY DEF EdgesStayComplete
<1> DEFINE w == waiters[r]
           b == SubSeq(w, 1, i - 1)
<1>1. w \in Seq(LockEntry) /\ Len(w) \in Nat /\ i \in 1..Len(w)
  BY LenProperties DEF TypeOK
<1>2. Len(b) = i - 1 /\ \A j \in 1..(i - 1) : b[j] = w[j]
  BY <1>1, SubSeqProperties, Z3
<1>3. Covered(owners[r], lock_type[r], w, txnids, pc)
  BY DEF EdgesInv
<1>4. pc[w[i].txn] # "giveup"
  OBVIOUS
<1> HIDE DEF w, b
<1>5. ASSUME NEW j \in 1..Len(b), conflict_lock(w[i].type, b[j].type)
      PROVE  b[j].txn \in txnids[w[i].txn]
  <2>1. j \in 1..Len(w) /\ j < i /\ b[j] = w[j]
    BY <1>1, <1>2
  <2> QED
    BY <1>1, <1>3, <1>4, <1>5, <2>1 DEF Covered
<1>6. conflict_lock(w[i].type, lock_type[r]) => owners[r] \subseteq txnids[w[i].txn]
  BY <1>1, <1>3, <1>4 DEF Covered
<1>7. WaitsFor(b, r, w[i].type) \subseteq txnids[w[i].txn]
  BY <1>5, <1>6 DEF WaitsFor
<1> QED
  BY <1>7 DEF w, b

\* The other rows keep their locks.
OthersKept(r) ==
  \A q \in Rows \ {r} : /\ owners'[q] = owners[q] /\ waiters'[q] = waiters[q]
                        /\ lock_type'[q] = lock_type[q]

\* Promotion makes owners of waiters, and the lock gets their mode: who conflicts with
\* the lock then was in conflict with them when they waited, and has them recorded.
LEMMA PromoteEdges ==
  ASSUME TypeOK, NEW r \in Rows, NEW o, NEW lt \in LockMode, NEW w \in Seq(LockEntry),
         NEW x, NEW p, lt = "NONE" => o = {},
         Covered(o, lt, w, x, p), PromoteWaiters(r, o, lt, w)
  PROVE  Covered(owners'[r], lock_type'[r], waiters'[r], x, p) /\ OthersKept(r)
<1>1. PICK n \in 0..Len(w) :
        /\ Promoted(lt, w, n)
        /\ owners' = [owners EXCEPT ![r] = o \cup {w[i].txn : i \in 1..n}]
        /\ waiters' = [waiters EXCEPT ![r] = SubSeq(w, n + 1, Len(w))]
        /\ lock_type' = [lock_type EXCEPT ![r] = IF n = 0 THEN lt ELSE w[n].type]
  BY DEF PromoteWaiters
<1> DEFINE v == SubSeq(w, n + 1, Len(w))
           m == IF n = 0 THEN lt ELSE w[n].type
<1>2. Len(v) = Len(w) - n /\ \A i \in 1..(Len(w) - n) : v[i] = w[n + i]
  BY DropProperties
<1>3. Len(w) \in Nat /\ n \in Nat /\ n <= Len(w)
  BY LenProperties
<1>4. /\ owners'[r] = o \cup {w[i].txn : i \in 1..n}
      /\ waiters'[r] = v
      /\ lock_type'[r] = m
  BY <1>1 DEF TypeOK
<1>5. n > 0 => /\ \A i \in 1..n : w[i].type = m
               /\ lt = "NONE" \/ lt = m
  <2>1. SUFFICES ASSUME n > 0
                 PROVE  (\A i \in 1..n : w[i].type = m) /\ (lt = "NONE" \/ lt = m)
    OBVIOUS
  <2>2. n \in 1..Len(w) /\ m = w[n].type
    BY <1>3, <2>1
  <2> QED
    BY <1>1, <2>2, PromotionModes
<1>6. n = 0 => m = lt
  OBVIOUS
<1> HIDE DEF v, m
<1>7. ASSUME NEW i \in 1..Len(v)
      PROVE  n + i \in 1..Len(w) /\ v[i] = w[n + i] /\ \A j \in 1..n : j < n + i
  BY <1>2, <1>3
<1>8. ASSUME NEW i \in 1..Len(v), p[v[i].txn] # "giveup",
             NEW j \in 1..Len(v), j < i, conflict_lock(v[i].type, v[j].type)
      PROVE  v[j].txn \in x[v[i].txn]
  <2>1. n + j < n + i
    BY <1>2, <1>3, <1>8
  <2> QED
    BY <1>7, <1>8, <2>1 DEF Covered
<1>9. ASSUME NEW i \in 1..Len(v), p[v[i].txn] # "giveup", conflict_lock(v[i].type, m),
             NEW u \in owners'[r]
      PROVE  u \in x[v[i].txn]
  <2>1. CASE u \in o
    <3>1. lt = m
      BY <1>3, <1>5, <1>6, <2>1
    <3> QED
      BY <1>7, <1>9, <2>1, <3>1 DEF Covered
  <2>2. CASE u \notin o
    <3>1. PICK k \in 1..n : w[k].txn = u
      BY <1>4, <2>2
    <3>2. k \in 1..Len(w) /\ w[k].type = m /\ k < n + i
      BY <1>3, <1>5, <1>7
    <3> QED
      BY <1>7, <1>9, <3>1, <3>2 DEF Covered
  <2> QED
    BY <2>1, <2>2
<1>10. OthersKept(r)
  BY <1>1 DEF TypeOK, OthersKept
<1> QED
  BY <1>4, <1>8, <1>9, <1>10 DEF Covered

\* lock_release takes an owner or a waiter away, and promotes.
LEMMA ReleaseEdges ==
  ASSUME TypeOK, LockCompatibility, NEW t \in Threads, NEW r \in Rows, lock_release(t, r),
         NEW x, NEW p, Covered(owners[r], lock_type[r], waiters[r], x, p)
  PROVE  Covered(owners'[r], lock_type'[r], waiters'[r], x, p) /\ OthersKept(r)
<1>1. waiters[r] \in Seq(LockEntry) /\ lock_type[r] \in LockMode
  BY DEF TypeOK
<1>2. CASE t \in owners[r]
  <2> DEFINE o == owners[r] \ {t}
             lt == ModeAfter(r, o)
  <2>1. lt \in LockMode /\ (lt = "NONE" => o = {})
    BY <1>1, <1>2 DEF ModeAfter, LockMode, LockCompatibility
  <2>2. Covered(o, lt, waiters[r], x, p)
    BY DEF Covered, ModeAfter
  <2>3. PromoteWaiters(r, o, lt, waiters[r])
    BY <1>2 DEF lock_release
  <2> HIDE DEF o, lt
  <2> QED
    BY <1>1, <2>1, <2>2, <2>3, PromoteEdges
<1>3. CASE t \notin owners[r]
  <2>1. PICK k \in 1..Len(waiters[r]) :
          PromoteWaiters(r, owners[r], lock_type[r], RemoveAt(waiters[r], k))
    BY <1>3 DEF lock_release
  <2> DEFINE z == waiters[r]
             w == RemoveAt(z, k)
  <2>2. z \in Seq(LockEntry) /\ k \in 1..Len(z) /\ Len(z) \in Nat
    BY <1>1, LenProperties
  <2>3. /\ w \in Seq(LockEntry)
        /\ Len(w) = Len(z) - 1
        /\ \A i \in 1..(Len(z) - 1) : w[i] = IF i < k THEN z[i] ELSE z[i + 1]
    BY <2>2, RemoveAtProperties
  <2>4. Covered(owners[r], lock_type[r], z, x, p)
    OBVIOUS
  <2>5. PromoteWaiters(r, owners[r], lock_type[r], w)
    BY <2>1
  <2> HIDE DEF w, z
  <2>6. ASSUME NEW i \in 1..Len(w)
        PROVE  \E j \in 1..Len(z) : w[i] = z[j] /\ j = IF i < k THEN i ELSE i + 1
    <3> DEFINE j == IF i < k THEN i ELSE i + 1
    <3>1. i \in 1..(Len(z) - 1) /\ j \in 1..Len(z)
      BY <2>2, <2>3
    <3>2. w[i] = z[j]
      BY <2>3, <3>1
    <3> HIDE DEF j
    <3>3. \E m \in 1..Len(z) : w[i] = z[m] /\ m = j
      BY <3>1, <3>2
    <3> QED
      BY <3>3 DEF j
  <2>7. ASSUME NEW i \in 1..Len(w), p[w[i].txn] # "giveup",
               NEW j \in 1..Len(w), j < i, conflict_lock(w[i].type, w[j].type)
        PROVE  w[j].txn \in x[w[i].txn]
    <3>1. PICK a \in 1..Len(z) : w[i] = z[a] /\ a = IF i < k THEN i ELSE i + 1
      BY <2>6
    <3>2. PICK b \in 1..Len(z) : w[j] = z[b] /\ b = IF j < k THEN j ELSE j + 1
      BY <2>6
    <3>3. i \in Int /\ j \in Int /\ k \in Int
      BY <2>2, <2>3
    <3>4. b < a
      BY <2>7, <3>1, <3>2, <3>3
    <3> QED
      BY <2>4, <2>7, <3>1, <3>2, <3>4 DEF Covered
  <2>8. Covered(owners[r], lock_type[r], w, x, p)
    <3>1. ASSUME NEW i \in 1..Len(w), p[w[i].txn] # "giveup",
                 conflict_lock(w[i].type, lock_type[r])
          PROVE  owners[r] \subseteq x[w[i].txn]
      <4>1. PICK a \in 1..Len(z) : w[i] = z[a]
        BY <2>6
      <4> QED
        BY <2>4, <3>1, <4>1 DEF Covered
    <3> QED
      BY <2>7, <3>1 DEF Covered
  <2>9. lock_type[r] = "NONE" => owners[r] = {}
    BY DEF LockCompatibility
  <2> QED
    BY <1>1, <2>3, <2>5, <2>8, <2>9, PromoteEdges
<1> QED
  BY <1>2, <1>3

\* lock_get grants a lock only if no one waits,
LEMMA GrantEdges ==
  ASSUME TypeOK, cc_alg = "DL_DETECT", NEW t \in Threads, NEW r \in Rows,
         NEW type \in {"RD", "WR"}, LockGranted(t, r, type), NEW x, NEW p
  PROVE  Covered(owners'[r], lock_type'[r], waiters'[r], x, p) /\ OthersKept(r)
<1>1. /\ waiters[r] = <<>>
      /\ UNCHANGED waiters
      /\ owners' = [owners EXCEPT ![r] = @ \cup {t}]
      /\ lock_type' = [lock_type EXCEPT ![r] = Mode(type)]
  BY DEF LockGranted, ConflictFor, Conflict
<1>2. OthersKept(r)
  BY <1>1 DEF OthersKept, TypeOK
<1>3. 1..Len(waiters'[r]) = {}
  BY <1>1
<1> QED
  BY <1>2, <1>3 DEF Covered

\* and records the edges of a new waiter, who joins at the tail.
LEMMA WaitEdges ==
  ASSUME TypeOK, LockInv, cc_alg = "DL_DETECT", NEW t \in Threads, NEW r \in Rows,
         NEW type \in {"RD", "WR"}, LockWaitEdges(t, r, type),
         EdgesInv
  PROVE  \A q \in Rows : Covered(owners'[q], lock_type'[q], waiters'[q], txnids', pc')
<1> DEFINE e == [txn |-> t, type |-> Mode(type)]
           w == waiters[r]
           n == Len(w)
           v == InsertAt(w, n + 1, e)
<1>1. /\ Requests(t, r, type)
      /\ pc' = [pc EXCEPT ![t] = "enqueued"]
      /\ waiters' = [waiters EXCEPT ![r] = v]
      /\ UNCHANGED <<owners, lock_type>>
      /\ txnids' = [txnids EXCEPT ![t] = WaitsFor(w, r, Mode(type))]
  BY DEF LockWaitEdges, LockWait, WaitPosition
<1>2. \A q \in Rows : \A i \in 1..Len(waiters[q]) :
        waiters[q][i].txn # t /\ waiters[q][i].txn \in Threads
  BY <1>1, Requester, EntryType DEF TypeOK
<1>3. txnids'[t] = WaitsFor(w, r, Mode(type)) /\ \A u \in Threads \ {t} : txnids'[u] = txnids[u]
  BY <1>1 DEF EdgesInv
<1>4. \A u \in Threads \ {t} : pc'[u] = pc[u]
  BY <1>1 DEF TypeOK
<1>5. \A q \in Rows : Covered(owners[q], lock_type[q], waiters[q], txnids', pc')
  BY <1>2, <1>3, <1>4 DEF Covered, EdgesInv
<1>6. e \in LockEntry /\ w \in Seq(LockEntry) /\ n \in Nat
  BY LenProperties DEF TypeOK, LockEntry, Mode
<1>7. Len(v) = n + 1 /\ \A i \in 1..(n + 1) : v[i] = IF i < n + 1 THEN w[i] ELSE e
  <2>1. n + 1 \in 1..(n + 1)
    BY <1>6
  <2>2. Len(v) = n + 1
    BY <1>6, <2>1, InsertAtLen
  <2>3. v[n + 1] = e
    BY <1>6, <2>1, InsertAtNew
  <2>4. ASSUME NEW i \in 1..n
        PROVE  v[i] = w[i]
    <3>1. v[IF i < n + 1 THEN i ELSE i + 1] = w[i]
      BY <1>6, <2>1, InsertAtOld
    <3> QED
      BY <1>6, <3>1
  <2> QED
    BY <1>6, <2>2, <2>3, <2>4
<1>8. waiters'[r] = v /\ \A q \in Rows \ {r} : waiters'[q] = waiters[q]
  BY <1>1 DEF TypeOK
<1>9. Covered(owners[r], lock_type[r], w, txnids', pc')
  BY <1>5
<1>10. e.txn = t /\ e.type = Mode(type)
  OBVIOUS
<1>11. /\ \A j \in 1..n : conflict_lock(Mode(type), w[j].type) => w[j].txn \in txnids'[t]
       /\ conflict_lock(Mode(type), lock_type[r]) => owners[r] \subseteq txnids'[t]
  BY <1>3 DEF WaitsFor
<1> HIDE DEF e, v, w, n
<1>12. Covered(owners[r], lock_type[r], v, txnids', pc')
  <2> SUFFICES ASSUME NEW i \in 1..Len(v), pc'[v[i].txn] # "giveup"
               PROVE  /\ \A j \in 1..Len(v) : j < i /\ conflict_lock(v[i].type, v[j].type)
                                                => v[j].txn \in txnids'[v[i].txn]
                      /\ conflict_lock(v[i].type, lock_type[r])
                           => owners[r] \subseteq txnids'[v[i].txn]
    BY DEF Covered
  <2>1. \A j \in 1..Len(v) : j < i => j \in 1..n /\ v[j] = w[j]
    BY <1>6, <1>7
  <2>2. CASE i \in 1..n
    <3>1. v[i] = w[i] /\ n = Len(w)
      BY <1>6, <1>7, <2>2 DEF n
    <3> QED
      BY <1>9, <2>1, <2>2, <3>1 DEF Covered
  <2>3. CASE i = n + 1
    <3>1. v[i] = e
      BY <1>6, <1>7, <2>3
    <3> QED
      BY <1>10, <1>11, <2>1, <3>1
  <2> QED
    BY <1>6, <1>7, <2>2, <2>3
<1> QED
  BY <1>1, <1>5, <1>8, <1>12

\* Edges may be added, and transactions may decide to give up.
LEMMA CoveredKept ==
  ASSUME NEW o, NEW lt, NEW w, NEW x, NEW p, NEW y, NEW q, Covered(o, lt, w, x, p),
         \A i \in 1..Len(w) : q[w[i].txn] # "giveup" =>
            p[w[i].txn] # "giveup" /\ x[w[i].txn] \subseteq y[w[i].txn]
  PROVE  Covered(o, lt, w, y, q)
BY DEF Covered

\* A step that keeps the lock table and the edges, of a thread that is not giving up.
LEMMA QuietEdges ==
  ASSUME TypeOK, EdgesInv, NEW t \in Threads, pc[t] # "giveup",
         \E x : pc' = [pc EXCEPT ![t] = x], UNCHANGED <<cc_alg, lockVars, txnids>>
  PROVE  EdgesInv'
<1>1. \A u \in Threads : pc[u] = "giveup" => pc'[u] = "giveup"
  BY DEF TypeOK
<1>2. ASSUME NEW r \in Rows, NEW i \in 1..Len(waiters[r])
      PROVE  waiters[r][i].txn \in Threads
  BY EntryType DEF TypeOK
<1>3. UNCHANGED <<lock_type, owners, waiters>>
  BY DEF lockVars
<1>4. ASSUME NEW r \in Rows, cc_alg = "DL_DETECT"
      PROVE  Covered(owners[r], lock_type[r], waiters[r], txnids, pc')
  <2>1. Covered(owners[r], lock_type[r], waiters[r], txnids, pc)
    BY <1>4 DEF EdgesInv
  <2>2. \A i \in 1..Len(waiters[r]) : waiters[r][i].txn \in Threads
    BY <1>2
  <2>3. \A i \in 1..Len(waiters[r]) : pc'[waiters[r][i].txn] # "giveup" =>
          /\ pc[waiters[r][i].txn] # "giveup"
          /\ txnids[waiters[r][i].txn] \subseteq txnids[waiters[r][i].txn]
    BY <1>1, <2>2
  <2> QED
    BY <2>1, <2>3, CoveredKept, Zenon
<1> QED
  BY <1>3, <1>4 DEF EdgesInv

\* The steps of TwoPhase that do not concern the detector keep the edges.
LEMMA ElsewhereEdges ==
  ASSUME LockIndInv, LockIndInv', EdgesInv, NEW t \in Threads, Elsewhere(t),
         UNCHANGED dlVars, UNCHANGED cc_alg
  PROVE  EdgesInv'
<1> USE DEF LockIndInv
<1>0. UNCHANGED txnids
  BY DEF dlVars
<1>1. CASE NewQuery(t) \/ RetryQuery(t)
  <2>1. pc[t] = "idle" /\ pc' = [pc EXCEPT ![t] = "run"] /\ UNCHANGED lockVars
    BY <1>1 DEF NewQuery, RetryQuery, Started
  <2> QED
    BY <1>0, <2>1, QuietEdges
<1>2. CASE RowBufferFull(t) \/ Finish(t)
  <2>1. pc[t] = "run" /\ pc' = [pc EXCEPT ![t] = "cleanup"] /\ UNCHANGED lockVars
    BY <1>2 DEF RowBufferFull, Finish, StartCleanup
  <2> QED
    BY <1>0, <2>1, QuietEdges
<1>3. ASSUME NEW r \in Rows, NEW type \in {"RD", "WR"}, LockDenied(t, r, type)
      PROVE  EdgesInv'
  <2>1. pc[t] = "run" /\ pc' = [pc EXCEPT ![t] = "cleanup"] /\ UNCHANGED lockVars
    BY <1>3 DEF LockDenied, Requests, StartCleanup
  <2> QED
    BY <1>0, <2>1, QuietEdges
<1>4. CASE StartWaiting(t) \/ RecordAccess(t) \/ RestoreRow(t)
  <2>1. pc[t] # "giveup" /\ (\E x : pc' = [pc EXCEPT ![t] = x]) /\ UNCHANGED lockVars
    BY <1>4 DEF StartWaiting, RecordAccess, RestoreRow
  <2> QED
    BY <1>0, <2>1, QuietEdges
<1>5. ASSUME NEW i \in 1..Len(accesses[t]), NEW v \in Val, WriteRow(t, i, v)
      PROVE  EdgesInv'
  <2>1. pc[t] = "run" /\ UNCHANGED <<pc, lockVars>>
    BY <1>5 DEF WriteRow
  <2>2. pc' = [pc EXCEPT ![t] = "run"]
    BY <2>1 DEF TypeOK
  <2> QED
    BY <1>0, <2>1, <2>2, QuietEdges
<1>6. ASSUME NEW q \in Rows,
             OthersKept(q),
             cc_alg = "DL_DETECT" => Covered(owners'[q], lock_type'[q], waiters'[q], txnids, pc),
             \A u \in Threads \ {t} : pc'[u] = pc[u],
             \A r \in Rows : \A i \in 1..Len(waiters'[r]) : waiters'[r][i].txn # t
      PROVE  EdgesInv'
  <2>1. ASSUME NEW r \in Rows, cc_alg = "DL_DETECT"
        PROVE  Covered(owners'[r], lock_type'[r], waiters'[r], txnids, pc')
    <3>1. Covered(owners'[r], lock_type'[r], waiters'[r], txnids, pc)
      BY <1>6, <2>1 DEF OthersKept, EdgesInv
    <3>2. waiters'[r] \in Seq(LockEntry)
      BY DEF TypeOK
    <3>3. \A i \in 1..Len(waiters'[r]) :
            waiters'[r][i].txn \in Threads /\ waiters'[r][i].txn # t
      BY <1>6, <3>2, EntryType
    <3> QED
      BY <1>6, <3>1, <3>3, CoveredKept
  <2> QED
    BY <1>0, <2>1 DEF EdgesInv
<1>7. ~Pending(t)' => \A r \in Rows : \A i \in 1..Len(waiters'[r]) : waiters'[r][i].txn # t
  BY DEF LockInv, LockTable
<1>8. ASSUME NEW r \in Rows, NEW type \in {"RD", "WR"}, LockGranted(t, r, type)
      PROVE  EdgesInv'
  <2>1. pc' = [pc EXCEPT ![t] = "granted"] /\ UNCHANGED <<waiters>>
    BY <1>8 DEF LockGranted
  <2>2. ~Pending(t)' /\ \A u \in Threads \ {t} : pc'[u] = pc[u]
    BY <2>1 DEF Pending, Waits, TypeOK
  <2>3. cc_alg = "DL_DETECT" =>
          Covered(owners'[r], lock_type'[r], waiters'[r], txnids, pc)
    BY <1>8, GrantEdges
  <2>4. OthersKept(r)
    BY <1>8 DEF LockGranted, OthersKept, TypeOK
  <2> QED
    BY <1>6, <1>7, <2>2, <2>3, <2>4
<1>9. ASSUME NEW q \in Rows, lock_release(t, q), pc' = [pc EXCEPT ![t] = "cleanup"]
      PROVE  EdgesInv'
  <2>1. ~Pending(t)' /\ \A u \in Threads \ {t} : pc'[u] = pc[u]
    BY <1>9 DEF Pending, Waits, TypeOK
  <2>2. CASE cc_alg = "DL_DETECT"
    <3>1. Covered(owners[q], lock_type[q], waiters[q], txnids, pc)
      BY <2>2 DEF EdgesInv
    <3>2. LockCompatibility
      BY DEF LockInv
    <3>3. Covered(owners'[q], lock_type'[q], waiters'[q], txnids, pc) /\ OthersKept(q)
      BY <1>9, <3>1, <3>2, ReleaseEdges
    <3> QED
      BY <1>6, <1>7, <2>1, <3>3
  <2>3. CASE cc_alg # "DL_DETECT"
    BY <1>0, <2>3 DEF EdgesInv
  <2> QED
    BY <2>2, <2>3
<1>10. CASE GiveUp(t)
  <2>1. req[t].row \in Rows /\ lock_release(t, req[t].row) /\ pc' = [pc EXCEPT ![t] = "cleanup"]
    BY <1>10 DEF GiveUp, StartCleanup, TypeOK, Request
  <2> QED
    BY <1>9, <2>1
<1>11. CASE ReturnRow(t)
  <2>1. lock_release(t, Current(t).row) /\ pc' = [pc EXCEPT ![t] = "cleanup"]
    BY <1>11 DEF ReturnRow
  <2>2. pc[t] \in {"cleanup", "undone"} /\ rid[t] > 0
    BY <1>11 DEF ReturnRow, Shape
  <2>3. Current(t).row \in Rows
    BY <2>2, CurrentType
  <2> QED
    BY <1>9, <2>1, <2>3
<1> QED
  BY <1>1, <1>2, <1>3, <1>4, <1>5, <1>8, <1>10, <1>11 DEF Elsewhere

\* A waiter leaves the spin loop when it is an owner, or to give up.
LEMMA LeaveEdges ==
  ASSUME LockIndInv, EdgesInv, NEW t \in Threads, LeaveSpinning(t), UNCHANGED cc_alg
  PROVE  EdgesInv'
<1> USE DEF LockIndInv
<1>1. /\ txnids' = [txnids EXCEPT ![t] = {}]
      /\ UNCHANGED lockVars
      /\ \/ lock_ready[t] /\ pc' = [pc EXCEPT ![t] = "granted"]
         \/ pc' = [pc EXCEPT ![t] = "giveup"]
  BY DEF LeaveSpinning, WaitGranted, WaitAborted, LeaveLoop
<1>2. UNCHANGED <<lock_type, owners, waiters>>
  BY <1>1 DEF lockVars
<1>3. /\ txnids' \in [Threads -> SUBSET Threads]
      /\ \A u \in Threads \ {t} : txnids'[u] = txnids[u] /\ pc'[u] = pc[u]
  BY <1>1 DEF EdgesInv, TypeOK
<1>4. ASSUME NEW r \in Rows, cc_alg = "DL_DETECT"
      PROVE  Covered(owners[r], lock_type[r], waiters[r], txnids', pc')
  <2>1. Covered(owners[r], lock_type[r], waiters[r], txnids, pc)
    BY <1>4 DEF EdgesInv
  <2>2. ASSUME NEW i \in 1..Len(waiters[r]), pc'[waiters[r][i].txn] # "giveup"
        PROVE  waiters[r][i].txn \in Threads \ {t}
    <3>1. waiters[r][i].txn \in Threads /\ Pending(waiters[r][i].txn)
      BY EntryType DEF TypeOK, LockInv, LockTable
    <3>2. CASE waiters[r][i].txn = t
      <4>1. ~lock_ready[t]
        BY <3>1, <3>2 DEF Pending
      <4>2. pc'[t] = "giveup"
        BY <1>1, <4>1 DEF TypeOK
      <4> QED
        BY <2>2, <3>2, <4>2
    <3> QED
      BY <3>1, <3>2
  <2> QED
    BY <1>3, <2>1, <2>2, CoveredKept
<1> QED
  BY <1>2, <1>3, <1>4 DEF EdgesInv

\* The edges to a transaction that has ended can go: it neither owns a lock nor waits.
LEMMA CleanupEdges ==
  ASSUME LockIndInv, EdgesInv, NEW t \in Threads, CleanupClears(t), UNCHANGED cc_alg
  PROVE  EdgesInv'
<1> USE DEF LockIndInv
<1>1. /\ pc[t] = "cleanup" /\ rid[t] = 0
      /\ pc' = [pc EXCEPT ![t] = "idle"]
      /\ UNCHANGED lockVars
      /\ txnids' = [u \in Threads |-> txnids[u] \ {t}]
  BY DEF CleanupClears, CleanupDone
<1>2. UNCHANGED <<lock_type, owners, waiters>>
  BY <1>1 DEF lockVars
<1>3. ~Pending(t) /\ \A r \in Rows, m \in {"SH", "EX"} : ~HasLock(t, r, m)
  BY <1>1 DEF Pending, Waits, HasLock, Held
<1>4. ASSUME NEW r \in Rows
      PROVE  /\ t \notin owners[r]
             /\ \A i \in 1..Len(waiters[r]) : waiters[r][i].txn \in Threads \ {t}
  <2>1. \A i \in 1..Len(waiters[r]) : waiters[r][i].txn \in Threads
    BY EntryType DEF TypeOK
  <2> QED
    BY <1>3, <2>1 DEF LockInv, LockTable
<1>5. txnids' \in [Threads -> SUBSET Threads]
  BY <1>1 DEF EdgesInv
<1>6. \A u \in Threads \ {t} : pc'[u] = pc[u] /\ txnids'[u] = txnids[u] \ {t}
  BY <1>1 DEF TypeOK
<1>7. ASSUME NEW r \in Rows, cc_alg = "DL_DETECT"
      PROVE  Covered(owners[r], lock_type[r], waiters[r], txnids', pc')
  <2>1. Covered(owners[r], lock_type[r], waiters[r], txnids, pc)
    BY <1>7 DEF EdgesInv
  <2> QED
    BY <1>4, <1>6, <2>1 DEF Covered
<1> QED
  BY <1>2, <1>5, <1>7 DEF EdgesInv

\* Every step keeps EdgesInv.
LEMMA EdgesInvStep ==
  ASSUME LockIndInv, LockIndInv', EdgesInv, [DlNext]_<<vars, dlVars>>
  PROVE  EdgesInv'
<1>0. UNCHANGED cc_alg
  <2>1. [Next]_vars
    BY DlStepImplements DEF DlNext
  <2> QED
    BY <2>1, AlgStep
<1>1. ASSUME NEW t \in Threads, Elsewhere(t), UNCHANGED dlVars
      PROVE  EdgesInv'
  BY <1>0, <1>1, ElsewhereEdges
<1>2. ASSUME NEW t \in Threads, NEW r \in Rows, NEW type \in {"RD", "WR"},
             LockWaitEdges(t, r, type)
      PROVE  EdgesInv'
  <2>1. txnids' \in [Threads -> SUBSET Threads]
    <3>1. WaitsFor(waiters[r], r, Mode(type)) \subseteq Threads
      BY EntryType DEF WaitsFor, TypeOK, LockIndInv
    <3>2. PICK x \in SUBSET Threads : txnids' = [txnids EXCEPT ![t] = x]
      BY <1>2, <3>1 DEF LockWaitEdges
    <3> QED
      BY <3>2 DEF EdgesInv
  <2>2. cc_alg = "DL_DETECT" =>
          \A q \in Rows : Covered(owners'[q], lock_type'[q], waiters'[q], txnids', pc')
    BY <1>2, WaitEdges DEF LockIndInv
  <2> QED
    BY <1>0, <2>1, <2>2 DEF EdgesInv
<1>3. ASSUME NEW t \in Threads, LeaveSpinning(t) \/ CleanupClears(t)
      PROVE  EdgesInv'
  BY <1>0, <1>3, LeaveEdges, CleanupEdges
<1>4. ASSUME NEW t \in Threads, StartDetect(t) \/ EnterNode(t) \/ FollowEdge(t) \/ StoreVictim(t)
      PROVE  EdgesInv'
  <2>1. UNCHANGED <<cc_alg, txnids, lock_type, owners, waiters, pc>>
    <3>1. CASE StartDetect(t)
      BY <3>1 DEF StartDetect, vars
    <3>2. CASE EnterNode(t)
      BY <3>2 DEF EnterNode, vars
    <3>3. CASE FollowEdge(t)
      <4>1. UNCHANGED <<vars, txnids, dep_added, dependency>>
        BY <3>3 DEF FollowEdge
      <4> QED
        BY <4>1 DEF vars
    <3>4. CASE StoreVictim(t)
      BY <3>4 DEF StoreVictim, DetectDeadlock, vars, lockVars, queryVars
    <3> QED
      BY <1>4, <3>1, <3>2, <3>3, <3>4
  <2> QED
    BY <2>1 DEF EdgesInv
<1>5. CASE UNCHANGED <<vars, dlVars>>
  BY <1>5 DEF EdgesInv, vars, dlVars
<1> QED
  BY <1>1, <1>2, <1>3, <1>4, <1>5 DEF DlNext, DlStep

\* The edges lock_get records at the beginning of a wait name, at any later time of the
\* wait, everyone who is in its way, whoever has released the lock, been promoted or
\* given up since: the detector misses no deadlock for want of an edge.
THEOREM EdgesStayCompleteCorrect == DlSpec => []EdgesStayComplete
<1>1. DlInit => EdgesInv
  BY DEF DlInit, Init, EdgesInv, Covered
<1>2. DlSpec => []LockIndInv
  BY DetectorInTwoPhase, LockIndInvCorrect, PTL
<1>3. LockIndInv /\ LockIndInv' /\ EdgesInv /\ [DlNext]_<<vars, dlVars>> => EdgesInv'
  BY EdgesInvStep
<1>4. LockIndInv /\ EdgesInv => EdgesStayComplete
  BY EdgesInvMeans DEF LockIndInv
<1> QED
  BY <1>1, <1>2, <1>3, <1>4, PTL DEF DlSpec

-----------------------------------------------------------------------------
(***************************************************************************)
(* The graph and the searches keep their types                             *)
(***************************************************************************)
DlTypes ==
  /\ txnids \in [Threads -> SUBSET Threads]
  /\ dep_added \in [Threads -> BOOLEAN]
  /\ dependency \in [Threads -> DepThd]
  /\ detect \in [Threads -> Search]

LEMMA NoSearchType == NoSearch \in Search
BY DEF NoSearch, Search

\* The returns of nextNode leave a part of the stack: there is a last call that has an
\* edge to look at, or none.
LEMMA UnwoundType ==
  ASSUME NEW s \in Seq(Frame)
  PROVE  Unwound(s) \in Seq(Frame)
<1> DEFINE P(n) == /\ n > 0 => s[n].edges # {}
                   /\ \A i \in (n + 1)..Len(s) : s[i].edges = {}
           T == {n \in 0..Len(s) : \A i \in (n + 1)..Len(s) : s[i].edges = {}}
<1>1. Len(s) \in Nat
  OBVIOUS
<1>2. Len(s) \in T /\ T \subseteq Nat
  BY <1>1
<1>3. PICK n \in T : \A m \in T : n <= m
  BY <1>2, LeastNat
<1>4. n > 0 => s[n].edges # {}
  <2>1. ASSUME n > 0, s[n].edges = {} PROVE FALSE
    <3>1. n - 1 \in 0..Len(s) /\ n \in 1..Len(s)
      BY <2>1, <1>1, <1>3
    <3>2. \A i \in (n - 1 + 1)..Len(s) : s[i].edges = {}
      <4>1. \A i \in (n - 1 + 1)..Len(s) : i = n \/ i \in (n + 1)..Len(s)
        BY <1>1, <3>1
      <4> QED
        BY <4>1, <2>1, <1>3
    <3>3. n - 1 \in T /\ n \in Nat
      BY <3>1, <3>2, <1>1
    <3>4. n <= n - 1
      BY <3>3, <1>3
    <3> QED
      BY <3>3, <3>4
  <2> QED
    BY <2>1
<1>5. \E k \in 0..Len(s) : P(k)
  BY <1>3, <1>4
<1>6. PICK k \in 0..Len(s) : Unwound(s) = SubSeq(s, 1, k)
  <2> DEFINE c == CHOOSE k \in 0..Len(s) : P(k)
  <2>1. c \in 0..Len(s)
    BY <1>5
  <2>2. Unwound(s) = SubSeq(s, 1, c)
    BY DEF Unwound
  <2> QED
    BY <2>1, <2>2
<1> QED
  BY <1>1, <1>6

LEMMA SearchOnType ==
  ASSUME NEW s \in Seq(Frame), NEW visited \in SUBSET Threads, NEW u \in Threads \cup {NoTxn}
  PROVE  SearchOn(s, visited, u) \in Search
<1>1. Unwound(s) \in Seq(Frame)
  BY UnwoundType
<1> QED
  BY <1>1, NoSearchType DEF SearchOn, Search

\* A loop has a victim, and it is one of its transactions: of those with the fewest
\* locks, the one entered last.
LEMMA VictimType ==
  ASSUME NEW s \in Seq(Frame), NEW k \in 1..Len(s)
  PROVE  Victim(s, k) \in k..Len(s)
<1> DEFINE N == k..Len(s)
           P(i) == \A j \in N : s[i].locks < s[j].locks \/ (s[i].locks = s[j].locks /\ j <= i)
           L == {s[j].locks : j \in N}
<1>1. Len(s) \in Nat /\ k \in Nat /\ k \in N
  OBVIOUS
<1>2. \A j \in N : s[j].locks \in Nat
  <2>1. ASSUME NEW j \in N PROVE s[j].locks \in Nat
    <3>1. j \in 1..Len(s)
      BY <1>1
    <3>2. s[j] \in Frame
      BY <3>1
    <3> QED
      BY <3>2 DEF Frame
  <2> QED
    BY <2>1
<1>3. L \subseteq Nat /\ L # {}
  BY <1>1, <1>2
<1>4. PICK x \in L : \A y \in L : x <= y
  BY <1>3, LeastNat
<1> DEFINE D == {Len(s) - j : j \in {j \in N : s[j].locks = x}}
<1>5. D \subseteq Nat /\ D # {}
  BY <1>1, <1>4
<1>6. PICK d \in D : \A y \in D : d <= y
  <2> HIDE DEF D
  <2> QED
    BY <1>5, LeastNat
<1>7. PICK i \in N : s[i].locks = x /\ d = Len(s) - i
  BY <1>6
<1>8. ASSUME NEW j \in N
      PROVE  s[i].locks < s[j].locks \/ (s[i].locks = s[j].locks /\ j <= i)
  <2>1. s[j].locks \in Nat /\ x \in Nat /\ x <= s[j].locks
    BY <1>2, <1>3, <1>4, <1>8
  <2>2. s[j].locks = x => Len(s) - i <= Len(s) - j
    <3>1. s[j].locks = x => Len(s) - j \in D
      BY <1>8
    <3> QED
      BY <3>1, <1>6, <1>7
  <2>3. i \in Nat /\ j \in Nat
    BY <1>1
  <2> QED
    BY <2>1, <2>2, <2>3, <1>1, <1>7
<1>9. \E n \in N : P(n)
  BY <1>8
<1> DEFINE c == CHOOSE n \in N : P(n)
<1>10. c \in N
  BY <1>9
<1>11. Victim(s, k) = c
  BY DEF Victim
<1> QED
  BY <1>10, <1>11

LEMMA LoopFoundType ==
  ASSUME NEW s \in Seq(Frame), NEW k \in 1..Len(s)
  PROVE  LoopFound(s, k) \in Search
<1> DEFINE i == Victim(s, k)
<1>1. i \in 1..Len(s)
  <2>1. i \in k..Len(s)
    BY VictimType
  <2> QED
    BY <2>1
<1> HIDE DEF i
<1>2. s[i] \in Frame
  BY <1>1
<1>3. s[i].node \in Threads
  BY <1>2 DEF Frame
<1>4. [NoSearch EXCEPT !.victim = s[i].node] \in Search
  <2>1. NoSearch.victim \in Threads \cup {NoTxn} /\ NoSearch \in Search
    BY NoSearchType DEF NoSearch
  <2> QED
    BY <1>3, <2>1 DEF Search
<1>5. LoopFound(s, k) = IF s[i].current THEN [NoSearch EXCEPT !.victim = s[i].node] ELSE NoSearch
  BY DEF LoopFound, i
<1> QED
  BY <1>4, <1>5, NoSearchType

LEMMA ForgetType ==
  ASSUME NEW d \in Search, NEW t \in Threads
  PROVE  Forget(d, t) \in Search
<1> DEFINE s == [i \in 1..Len(d.stack) |->
                   [d.stack[i] EXCEPT !.edges = @ \ {t}, !.current = @ /\ d.stack[i].node # t]]
<1>1. /\ d.stack \in Seq(Frame) /\ d.visited \in SUBSET Threads
      /\ d.next \in Threads \cup {NoTxn} /\ Len(d.stack) \in Nat
  BY DEF Search
<1>2. s \in Seq(Frame)
  <2>1. ASSUME NEW i \in 1..Len(d.stack)
        PROVE  [d.stack[i] EXCEPT !.edges = @ \ {t}, !.current = @ /\ d.stack[i].node # t] \in Frame
    <3>1. d.stack[i] \in Frame
      BY <1>1, <2>1
    <3> QED
      BY <3>1 DEF Frame
  <2>2. s \in [1..Len(d.stack) -> Frame]
    BY <2>1
  <2> HIDE DEF s
  <2>3. \A n \in Nat : s \in [1..n -> Frame] => s \in Seq(Frame)
    OBVIOUS
  <2> QED
    BY <1>1, <2>2, <2>3
<1> HIDE DEF s
<1>3. SearchOn(s, d.visited \cup {t}, NoTxn) \in Search /\ SearchOn(s, d.visited, d.next) \in Search
  BY <1>1, <1>2, SearchOnType
<1>4. Forget(d, t) = CASE d.victim = t -> NoSearch
                       [] d.victim \notin {t, NoTxn} -> d
                       [] d.victim = NoTxn /\ d.next = t -> SearchOn(s, d.visited \cup {t}, NoTxn)
                       [] OTHER -> SearchOn(s, d.visited, d.next)
  BY DEF Forget, s
<1>5. d.victim = t \/ d.victim \notin {t, NoTxn} \/ (d.victim = NoTxn /\ d.victim # t)
  OBVIOUS
<1>6. CASE d.victim = t
  <2>1. t # NoTxn
    BY DlAssumption
  <2>2. Forget(d, t) = NoSearch
    BY <1>4, <1>6, <2>1
  <2> QED
    BY <2>2, NoSearchType
<1>7. CASE d.victim \notin {t, NoTxn}
  <2>1. Forget(d, t) = d
    BY <1>4, <1>7
  <2> QED
    BY <2>1
<1>8. CASE d.victim = NoTxn /\ d.victim # t
  <2>1. Forget(d, t) = IF d.next = t THEN SearchOn(s, d.visited \cup {t}, NoTxn)
                       ELSE SearchOn(s, d.visited, d.next)
    BY <1>4, <1>8
  <2> QED
    BY <2>1, <1>3
<1> QED
  BY <1>5, <1>6, <1>7, <1>8

LEMMA EnterType ==
  ASSUME NEW u \in Threads, NEW dep \in DepThd
  PROVE  Enter(u, dep) \in Frame
BY DEF Enter, DepThd, Frame

LEMMA AddDepType ==
  ASSUME TypeOK, DlTypes, NEW t \in Threads
  PROVE  add_dep(t) \in DepThd
<1>1. /\ dependency[t] \in DepThd /\ dependency[t].adj \in SUBSET Threads
      /\ txnids[t] \in SUBSET Threads
  BY DEF DlTypes, DepThd
<1>2. Len(accesses[t]) \in Nat
  BY DEF TypeOK
<1> QED
  BY <1>1, <1>2 DEF add_dep, DepThd

\* One step of the search of t.
LEMMA SearchStepType ==
  ASSUME TypeOK, DlTypes, NEW t \in Threads,
         StartDetect(t) \/ EnterNode(t) \/ FollowEdge(t) \/ StoreVictim(t)
  PROVE  DlTypes'
<1> DEFINE d == detect[t]
<1>1. /\ d \in Search /\ d.stack \in Seq(Frame) /\ d.visited \in SUBSET Threads
      /\ d.next \in Threads \cup {NoTxn} /\ Len(d.stack) \in Nat
  BY DEF DlTypes, Search
<1> HIDE DEF d
<1>2. ASSUME NEW x \in Search, detect' = [detect EXCEPT ![t] = x],
             UNCHANGED <<txnids, dep_added, dependency>>
      PROVE  DlTypes'
  BY <1>2 DEF DlTypes
<1>3. CASE StartDetect(t)
  <2>1. add_dep(t) \in DepThd
    BY AddDepType
  <2>2. Enter(t, add_dep(t)) \in Frame
    BY <2>1, EnterType
  <2>3. <<Enter(t, add_dep(t))>> \in Seq(Frame) /\ {t} \in SUBSET Threads
    BY <2>2
  <2>4. SearchOn(<<Enter(t, add_dep(t))>>, {t}, NoTxn) \in Search
    BY <2>3, SearchOnType
  <2>5. /\ dep_added' = [dep_added EXCEPT ![t] = TRUE]
        /\ dependency' = [dependency EXCEPT ![t] = add_dep(t)]
        /\ detect' = [detect EXCEPT ![t] = SearchOn(<<Enter(t, add_dep(t))>>, {t}, NoTxn)]
        /\ txnids' = txnids
    BY <1>3 DEF StartDetect
  <2> QED
    BY <2>1, <2>4, <2>5 DEF DlTypes
<1>4. CASE EnterNode(t)
  <2> DEFINE s == IF dependency[d.next].txnid
                  THEN Append(d.stack, Enter(d.next, dependency[d.next])) ELSE d.stack
  <2>1. d.next \in Threads
    BY <1>1, <1>4 DEF EnterNode, d
  <2>2. dependency[d.next] \in DepThd
    BY <2>1 DEF DlTypes
  <2>3. Enter(d.next, dependency[d.next]) \in Frame
    BY <2>1, <2>2, EnterType
  <2>4. s \in Seq(Frame) /\ d.visited \cup {d.next} \in SUBSET Threads
    BY <2>1, <2>3, <1>1
  <2>5. /\ detect' = [detect EXCEPT ![t] = SearchOn(s, d.visited \cup {d.next}, NoTxn)]
        /\ UNCHANGED <<txnids, dep_added, dependency>>
    BY <1>4 DEF EnterNode, d
  <2> HIDE DEF s
  <2>6. SearchOn(s, d.visited \cup {d.next}, NoTxn) \in Search
    BY <2>4, SearchOnType
  <2> QED
    BY <2>5, <2>6, <1>2
<1>5. CASE FollowEdge(t)
  <2> DEFINE n == Len(d.stack)
             rest(u) == [d.stack EXCEPT ![n].edges = @ \ {u}]
  <2>1. n > 0 /\ n \in 1..n
    BY <1>1, <1>5 DEF FollowEdge, d
  <2>2. d.stack[n] \in Frame
    BY <1>1, <2>1
  <2>3. PICK u \in d.stack[n].edges :
          \/ \E k \in 1..n : detect' = [detect EXCEPT ![t] = LoopFound(d.stack, k)]
          \/ detect' = [detect EXCEPT ![t] = SearchOn(rest(u), d.visited, u)]
          \/ detect' = [detect EXCEPT ![t] = SearchOn(rest(u), d.visited, NoTxn)]
    BY <1>5 DEF FollowEdge, d
  <2>4. u \in Threads
    BY <2>2, <2>3 DEF Frame
  <2>5. rest(u) \in Seq(Frame)
    <3>1. [d.stack[n] EXCEPT !.edges = @ \ {u}] \in Frame
      BY <2>2 DEF Frame
    <3>2. rest(u) = [d.stack EXCEPT ![n] = [d.stack[n] EXCEPT !.edges = @ \ {u}]]
      OBVIOUS
    <3> QED
      BY <3>1, <3>2, <2>1, <1>1
  <2>6. UNCHANGED <<txnids, dep_added, dependency>>
    BY <1>5 DEF FollowEdge
  <2>7. /\ \A k \in 1..n : LoopFound(d.stack, k) \in Search
        /\ SearchOn(rest(u), d.visited, u) \in Search
        /\ SearchOn(rest(u), d.visited, NoTxn) \in Search
    <3> HIDE DEF rest
    <3> QED
      BY <1>1, <2>4, <2>5, LoopFoundType, SearchOnType
  <2> HIDE DEF rest, n
  <2> QED
    BY <2>3, <2>6, <2>7, <1>2
<1>6. CASE StoreVictim(t)
  <2>1. detect' = [detect EXCEPT ![t] = NoSearch] /\ UNCHANGED <<txnids, dep_added, dependency>>
    BY <1>6 DEF StoreVictim
  <2> QED
    BY <2>1, <1>2, NoSearchType
<1> QED
  BY <1>3, <1>4, <1>5, <1>6

\* The end of a transaction, when it is taken out of the graph and of all searches.
LEMMA CleanupType ==
  ASSUME DlTypes, NEW t \in Threads, CleanupClears(t)
  PROVE  DlTypes'
<1>1. txnids' \in [Threads -> SUBSET Threads] /\ dep_added' \in [Threads -> BOOLEAN]
  BY DEF CleanupClears, DlTypes
<1>2. dependency' \in [Threads -> DepThd]
  <2>1. ASSUME NEW u \in Threads PROVE [dependency[u] EXCEPT !.adj = @ \ {t}] \in DepThd
    <3>1. dependency[u] \in DepThd
      BY DEF DlTypes
    <3> QED
      BY <3>1 DEF DepThd
  <2>2. NoDep \in DepThd
    BY DEF NoDep, DepThd
  <2> QED
    BY <2>1, <2>2 DEF CleanupClears
<1>3. detect' \in [Threads -> Search]
  <2>1. \A u \in Threads : detect[u] \in Search /\ Forget(detect[u], t) \in Search
    BY ForgetType DEF DlTypes
  <2> QED
    BY <2>1 DEF CleanupClears
<1> QED
  BY <1>1, <1>2, <1>3 DEF DlTypes

LEMMA DlTypesStep ==
  ASSUME TypeOK, DlTypes, [DlNext]_<<vars, dlVars>>
  PROVE  DlTypes'
<1>1. CASE UNCHANGED dlVars
  BY <1>1 DEF DlTypes, dlVars
<1>2. ASSUME NEW t \in Threads, NEW r \in Rows, NEW type \in {"RD", "WR"},
             LockWaitEdges(t, r, type)
      PROVE  DlTypes'
  <2>1. WaitsFor(waiters[r], r, Mode(type)) \subseteq Threads
    BY EntryType DEF WaitsFor, TypeOK
  <2>2. PICK x \in SUBSET Threads : txnids' = [txnids EXCEPT ![t] = x]
    BY <1>2, <2>1 DEF LockWaitEdges
  <2>3. UNCHANGED <<dep_added, dependency, detect>>
    BY <1>2 DEF LockWaitEdges
  <2> QED
    BY <2>2, <2>3 DEF DlTypes
<1>3. ASSUME NEW t \in Threads, LeaveSpinning(t)
      PROVE  DlTypes'
  BY <1>3 DEF LeaveSpinning, DlTypes
<1> QED
  BY <1>1, <1>2, <1>3, CleanupType, SearchStepType DEF DlNext, DlStep

\* The graph and the searches of the detector keep their types, whatever changes under
\* a search: it only ever enters transactions, its victim is one of the loop it has
\* found, and the removal of an ended transaction leaves a search that can go on.
THEOREM DlTypeCorrect == DlSpec => []DlTypeOK
<1>1. DlInit => DlTypes
  <2>1. NoDep \in DepThd
    BY DEF NoDep, DepThd
  <2> QED
    BY <2>1, NoSearchType DEF DlInit, DlTypes
<1>2. DlSpec => []TypeOK
  BY DetectorInTwoPhase, TypeCorrect, PTL
<1>3. TypeOK /\ DlTypes /\ [DlNext]_<<vars, dlVars>> => DlTypes'
  BY DlTypesStep
<1>4. TypeOK /\ DlTypes => DlTypeOK
  BY DEF DlTypes, DlTypeOK
<1> QED
  BY <1>1, <1>2, <1>3, <1>4, PTL DEF DlSpec

-----------------------------------------------------------------------------
(***************************************************************************)
(* No edge leads astray                                                    *)
(***************************************************************************)

\* The lock with the owners o, the mode lt and the waiters w: u is before the i-th
\* waiter and in conflict with it.
Ahead(o, lt, w, i, u) ==
  \/ conflict_lock(w[i].type, lt) /\ u \in o
  \/ \E j \in 1..Len(w) : j < i /\ w[j].txn = u /\ conflict_lock(w[i].type, w[j].type)

\* Whoever the edges x of its waiters lead to is ahead of them, or among the ending E.
TrueAt(o, lt, w, x, E) ==
  \A i \in 1..Len(w) : \A u \in x[w[i].txn] : u \in E \/ Ahead(o, lt, w, i, u)

Known == [t \in Threads |-> Edges(t)]
Endings == {t \in Threads : Ending(t)}

\* The inductive form of EdgesStayTrue: once a wait has ended with a grant, all its
\* edges lead to transactions that are ending, and so they do in later waits.
TruthInv ==
  cc_alg = "DL_DETECT" =>
    /\ \A r \in Rows : TrueAt(owners[r], lock_type[r], waiters[r], Known, Endings)
    /\ \A t \in Threads : ~Pending(t) /\ ~Ending(t) => Edges(t) \subseteq Endings
    /\ \A t \in Threads : pc[t] \notin {"enqueued", "waiting"} => txnids[t] = {}

\* It implies the statement about WaitsFor.
LEMMA TruthInvMeans ==
  ASSUME LockIndInv, TruthInv
  PROVE  EdgesStayTrue
<1> USE DEF LockIndInv
<1> SUFFICES ASSUME cc_alg = "DL_DETECT", NEW t \in Threads, ~Ending(t), NEW u \in Edges(t),
                    ~Ending(u)
             PROVE  InTheWay(u, t)
  BY DEF EdgesStayTrue
<1>1. u \notin Endings
  BY DEF Endings
<1>2. Pending(t)
  BY <1>1 DEF TruthInv
<1> DEFINE r == req[t].row
           w == waiters[r]
<1>3. r \in Rows
  BY DEF TypeOK, Request
<1>4. PICK i \in 1..Len(w) : w[i].txn = t
  BY <1>2, <1>3 DEF LockInv, LockTable
<1>5. Ahead(owners[r], lock_type[r], w, i, u)
  <2>1. TrueAt(owners[r], lock_type[r], w, Known, Endings)
    BY <1>3 DEF TruthInv
  <2>2. u \in Known[w[i].txn]
    BY <1>4 DEF Known
  <2> QED
    BY <1>1, <2>1, <2>2 DEF TrueAt
<1>6. w \in Seq(LockEntry) /\ Len(w) \in Nat
  BY <1>3, LenProperties DEF TypeOK
<1> DEFINE b == SubSeq(w, 1, i - 1)
<1>7. Len(b) = i - 1 /\ \A j \in 1..(i - 1) : b[j] = w[j]
  BY <1>6, SubSeqProperties, Z3
<1> HIDE DEF w, r, b
<1>8. u \in WaitsFor(b, r, w[i].type)
  <2>1. CASE conflict_lock(w[i].type, lock_type[r]) /\ u \in owners[r]
    BY <2>1 DEF WaitsFor
  <2>2. ASSUME NEW j \in 1..Len(w), j < i, w[j].txn = u, conflict_lock(w[i].type, w[j].type)
        PROVE  u \in WaitsFor(b, r, w[i].type)
    <3>1. j \in 1..Len(b) /\ b[j] = w[j]
      BY <1>6, <1>7, <2>2
    <3> QED
      BY <2>2, <3>1 DEF WaitsFor
  <2> QED
    BY <1>5, <2>1, <2>2 DEF Ahead
<1> QED
  BY <1>3, <1>4, <1>8 DEF InTheWay, w, b

\* Fewer edges, and more transactions that are ending.
LEMMA TrueAtKept ==
  ASSUME NEW o, NEW lt, NEW w, NEW x, NEW y, NEW E, NEW F, TrueAt(o, lt, w, x, E),
         E \subseteq F, \A i \in 1..Len(w) : y[w[i].txn] \subseteq x[w[i].txn] \cup F
  PROVE  TrueAt(o, lt, w, y, F)
BY DEF TrueAt

\* Promotion: a waiter that stays has the promoted ones ahead of it as owners, and one
\* that is promoted had no one ahead of it any more.
LEMMA PromoteTruth ==
  ASSUME TypeOK, NEW r \in Rows, NEW o, NEW lt \in LockMode, NEW w \in Seq(LockEntry),
         NEW x, NEW E, lt = "NONE" => o = {},
         TrueAt(o, lt, w, x, E), PromoteWaiters(r, o, lt, w)
  PROVE  /\ TrueAt(owners'[r], lock_type'[r], waiters'[r], x, E) /\ OthersKept(r)
         /\ \A u \in Threads : lock_ready'[u] /\ ~lock_ready[u] => x[u] \subseteq E
<1>1. PICK n \in 0..Len(w) :
        /\ Promoted(lt, w, n)
        /\ owners' = [owners EXCEPT ![r] = o \cup {w[i].txn : i \in 1..n}]
        /\ waiters' = [waiters EXCEPT ![r] = SubSeq(w, n + 1, Len(w))]
        /\ lock_type' = [lock_type EXCEPT ![r] = IF n = 0 THEN lt ELSE w[n].type]
        /\ lock_ready' = [u \in Threads |-> lock_ready[u] \/ \E i \in 1..n : w[i].txn = u]
  BY DEF PromoteWaiters
<1> DEFINE v == SubSeq(w, n + 1, Len(w))
           m == IF n = 0 THEN lt ELSE w[n].type
<1>2. Len(v) = Len(w) - n /\ \A i \in 1..(Len(w) - n) : v[i] = w[n + i]
  BY DropProperties
<1>3. Len(w) \in Nat /\ n \in Nat /\ n <= Len(w)
  BY LenProperties
<1>4. /\ owners'[r] = o \cup {w[i].txn : i \in 1..n}
      /\ waiters'[r] = v
      /\ lock_type'[r] = m
  BY <1>1 DEF TypeOK
<1>5. n > 0 => /\ \A i \in 1..n : w[i].type = m
               /\ lt = "NONE" \/ (lt = "SH" /\ m = "SH")
               /\ m = "EX" => n = 1
  <2>1. SUFFICES ASSUME n > 0
                 PROVE  /\ \A i \in 1..n : w[i].type = m
                        /\ lt = "NONE" \/ (lt = "SH" /\ m = "SH")
                        /\ m = "EX" => n = 1
    OBVIOUS
  <2>2. n \in 1..Len(w) /\ m = w[n].type
    BY <1>3, <2>1
  <2> QED
    BY <1>1, <2>2, PromotionModes
<1>6. n = 0 => m = lt
  OBVIOUS
<1> HIDE DEF v, m
<1>7. ASSUME NEW i \in 1..Len(v), NEW u \in x[v[i].txn], u \notin E
      PROVE  Ahead(owners'[r], m, v, i, u)
  <2>1. n + i \in 1..Len(w) /\ v[i] = w[n + i] /\ i \in Nat
    BY <1>2, <1>3
  <2>2. Ahead(o, lt, w, n + i, u)
    BY <1>7, <2>1 DEF TrueAt
  <2>3. CASE conflict_lock(w[n + i].type, lt) /\ u \in o
    <3>1. lt = m
      BY <1>3, <1>5, <1>6, <2>3
    <3> QED
      BY <1>4, <2>1, <2>3, <3>1 DEF Ahead
  <2>4. ASSUME NEW j \in 1..Len(w), j < n + i, w[j].txn = u,
               conflict_lock(w[n + i].type, w[j].type)
        PROVE  Ahead(owners'[r], m, v, i, u)
    <3>1. CASE j <= n
      <4>1. j \in 1..n /\ n > 0
        BY <1>3, <3>1
      <4>2. w[j].type = m /\ u \in owners'[r]
        BY <1>4, <1>5, <2>4, <4>1
      <4> QED
        BY <2>1, <2>4, <4>2 DEF Ahead
    <3>2. CASE ~(j <= n)
      <4>1. j - n \in 1..Len(v) /\ j - n < i /\ n + (j - n) = j
        BY <1>2, <1>3, <2>1, <2>4, <3>2
      <4>2. v[j - n] = w[j]
        BY <1>2, <4>1
      <4> QED
        BY <2>1, <2>4, <4>1, <4>2 DEF Ahead
    <3> QED
      BY <3>1, <3>2
  <2> QED
    BY <2>2, <2>3, <2>4 DEF Ahead
<1>8. ASSUME NEW k \in 1..n, NEW u \in x[w[k].txn], u \notin E
      PROVE  FALSE
  <2>1. k \in 1..Len(w) /\ n > 0 /\ w[k].type = m
    BY <1>3, <1>5
  <2>2. Ahead(o, lt, w, k, u)
    BY <1>8, <2>1 DEF TrueAt
  <2>3. CASE conflict_lock(w[k].type, lt) /\ u \in o
    BY <1>5, <2>1, <2>3 DEF conflict_lock
  <2>4. ASSUME NEW j \in 1..Len(w), j < k, conflict_lock(w[k].type, w[j].type)
        PROVE  FALSE
    <3>1. j \in 1..n /\ n # 1
      BY <1>3, <2>4
    <3>2. w[j].type = m /\ m # "EX"
      BY <1>5, <2>1, <3>1
    <3> QED
      BY <2>1, <2>4, <3>2 DEF conflict_lock
  <2> QED
    BY <2>2, <2>3, <2>4 DEF Ahead
<1>9. OthersKept(r)
  BY <1>1 DEF TypeOK, OthersKept
<1>10. ASSUME NEW u \in Threads, lock_ready'[u], ~lock_ready[u]
       PROVE  x[u] \subseteq E
  <2>1. PICK k \in 1..n : w[k].txn = u
    BY <1>1, <1>10
  <2> QED
    BY <1>8, <2>1
<1>11. TrueAt(owners'[r], lock_type'[r], waiters'[r], x, E)
  BY <1>4, <1>7 DEF TrueAt
<1> QED
  BY <1>9, <1>10, <1>11

\* lock_release of a transaction that is ending, or gives up and ends with it.
LEMMA ReleaseTruth ==
  ASSUME TypeOK, LockCompatibility, NEW t \in Threads, NEW r \in Rows, lock_release(t, r),
         NEW x, NEW E, t \in E, TrueAt(owners[r], lock_type[r], waiters[r], x, E)
  PROVE  /\ TrueAt(owners'[r], lock_type'[r], waiters'[r], x, E) /\ OthersKept(r)
         /\ \A u \in Threads : lock_ready'[u] /\ ~lock_ready[u] => x[u] \subseteq E
<1>1. waiters[r] \in Seq(LockEntry) /\ lock_type[r] \in LockMode
  BY DEF TypeOK
<1>2. CASE t \in owners[r]
  <2> DEFINE o == owners[r] \ {t}
             lt == ModeAfter(r, o)
  <2>1. lt \in LockMode /\ (lt = "NONE" => o = {})
    BY <1>1, <1>2 DEF ModeAfter, LockMode, LockCompatibility
  <2>2. TrueAt(o, lt, waiters[r], x, E)
    <3>1. \A u \in owners[r] : u \notin E => u \in o /\ lt = lock_type[r]
      BY DEF ModeAfter
    <3> HIDE DEF o, lt
    <3> QED
      BY <3>1 DEF TrueAt, Ahead
  <2>3. PromoteWaiters(r, o, lt, waiters[r])
    BY <1>2 DEF lock_release
  <2> HIDE DEF o, lt
  <2> QED
    BY <1>1, <2>1, <2>2, <2>3, PromoteTruth
<1>3. CASE t \notin owners[r]
  <2>1. PICK k \in 1..Len(waiters[r]) :
          /\ waiters[r][k].txn = t
          /\ PromoteWaiters(r, owners[r], lock_type[r], RemoveAt(waiters[r], k))
    BY <1>3 DEF lock_release
  <2> DEFINE z == waiters[r]
             w == RemoveAt(z, k)
  <2>2. z \in Seq(LockEntry) /\ k \in 1..Len(z) /\ Len(z) \in Nat
    BY <1>1, LenProperties
  <2>3. /\ w \in Seq(LockEntry)
        /\ Len(w) = Len(z) - 1
        /\ \A i \in 1..(Len(z) - 1) : w[i] = IF i < k THEN z[i] ELSE z[i + 1]
    BY <2>2, RemoveAtProperties
  <2>4. TrueAt(owners[r], lock_type[r], z, x, E)
    OBVIOUS
  <2>5. PromoteWaiters(r, owners[r], lock_type[r], w) /\ z[k].txn = t
    BY <2>1
  <2> HIDE DEF w, z
  <2>6. ASSUME NEW i \in 1..Len(w), NEW u \in x[w[i].txn], u \notin E
        PROVE  Ahead(owners[r], lock_type[r], w, i, u)
    <3> DEFINE a == IF i < k THEN i ELSE i + 1
    <3>1. i \in 1..(Len(z) - 1) /\ a \in 1..Len(z)
      BY <2>2, <2>3
    <3>2. w[i] = z[a]
      BY <2>3, <3>1
    <3>3. Ahead(owners[r], lock_type[r], z, a, u)
      <4> HIDE DEF a
      <4> QED
        BY <2>4, <2>6, <3>1, <3>2 DEF TrueAt
    <3>4. CASE conflict_lock(z[a].type, lock_type[r]) /\ u \in owners[r]
      BY <3>2, <3>4 DEF Ahead
    <3>5. ASSUME NEW j \in 1..Len(z), j < a, z[j].txn = u, conflict_lock(z[a].type, z[j].type)
          PROVE  Ahead(owners[r], lock_type[r], w, i, u)
      <4>1. j # k
        BY <2>5, <2>6, <3>5
      <4> DEFINE b == IF j < k THEN j ELSE j - 1
      <4>2. b \in 1..(Len(z) - 1) /\ b < i /\ j = (IF b < k THEN b ELSE b + 1)
        BY <2>2, <2>3, <3>1, <3>5, <4>1
      <4> HIDE DEF b
      <4>3. w[b] = z[j] /\ b \in 1..Len(w)
        BY <2>3, <4>2
      <4> QED
        BY <3>2, <3>5, <4>2, <4>3 DEF Ahead
    <3> HIDE DEF a
    <3> QED
      BY <3>3, <3>4, <3>5 DEF Ahead
  <2>7. TrueAt(owners[r], lock_type[r], w, x, E)
    BY <2>6 DEF TrueAt
  <2>8. lock_type[r] = "NONE" => owners[r] = {}
    BY DEF LockCompatibility
  <2> QED
    BY <1>1, <2>3, <2>5, <2>7, <2>8, PromoteTruth
<1> QED
  BY <1>2, <1>3

\* A step that keeps the lock table and the edges, of a thread that does not stop
\* ending, and whose wait, if it ends, was granted before.
LEMMA QuietTruth ==
  ASSUME TypeOK, TypeOK', TruthInv, NEW t \in Threads, NEW y, pc' = [pc EXCEPT ![t] = y],
         UNCHANGED <<cc_alg, lockVars, lock_ready, dlVars>>,
         Ending(t) => Ending(t)',
         Pending(t) => Pending(t)' \/ Ending(t)',
         y \notin {"enqueued", "waiting"} => txnids[t] = {}
  PROVE  TruthInv'
<1> SUFFICES ASSUME cc_alg = "DL_DETECT"
             PROVE  TruthInv'
  BY DEF TruthInv
<1>1. UNCHANGED <<lock_type, owners, waiters, txnids, dependency>>
  BY DEF lockVars, dlVars
<1>2. \A u \in Threads \ {t} : pc'[u] = pc[u]
  BY DEF TypeOK
<1>3. pc'[t] = y
  BY DEF TypeOK
<1>4. Endings \subseteq Endings'
  BY <1>2 DEF Endings, Ending
<1>5. \A u \in Threads : Edges(u)' = Edges(u)
  BY <1>1 DEF Edges
<1>6. Known' = Known
  BY <1>5 DEF Known
<1>7. ASSUME NEW r \in Rows
      PROVE  TrueAt(owners'[r], lock_type'[r], waiters'[r], Known', Endings')
  <2>1. TrueAt(owners[r], lock_type[r], waiters[r], Known, Endings)
    BY DEF TruthInv
  <2> QED
    BY <1>1, <1>4, <1>6, <2>1, TrueAtKept
<1>8. ASSUME NEW u \in Threads, ~Pending(u)', ~Ending(u)'
      PROVE  Edges(u)' \subseteq Endings'
  <2>1. ~Pending(u) /\ ~Ending(u)
    BY <1>2, <1>8 DEF Pending, Waits, Ending
  <2> QED
    BY <1>4, <1>5, <2>1 DEF TruthInv
<1>9. ASSUME NEW u \in Threads, pc'[u] \notin {"enqueued", "waiting"}
      PROVE  txnids'[u] = {}
  BY <1>1, <1>2, <1>3, <1>9 DEF TruthInv
<1> QED
  BY <1>7, <1>8, <1>9 DEF TruthInv

\* lock_release by a transaction that is ending afterwards.
LEMMA EndTruth ==
  ASSUME LockIndInv, TypeOK', TruthInv, NEW t \in Threads, NEW q \in Rows, lock_release(t, q),
         pc' = [pc EXCEPT ![t] = "cleanup"], txnids[t] = {}, UNCHANGED <<cc_alg, dlVars>>
  PROVE  TruthInv'
<1> USE DEF LockIndInv
<1> SUFFICES ASSUME cc_alg = "DL_DETECT"
             PROVE  TruthInv'
  BY DEF TruthInv
<1>1. UNCHANGED <<txnids, dependency>>
  BY DEF dlVars
<1>2. \A u \in Threads \ {t} : pc'[u] = pc[u]
  BY DEF TypeOK
<1>3. pc'[t] = "cleanup"
  BY DEF TypeOK
<1>4. Endings \subseteq Endings' /\ t \in Endings'
  BY <1>2, <1>3 DEF Endings, Ending
<1>5. \A u \in Threads : Edges(u)' = Edges(u)
  BY <1>1 DEF Edges
<1>6. Known' = Known
  BY <1>5 DEF Known
<1>7. \A r \in Rows : TrueAt(owners[r], lock_type[r], waiters[r], Known, Endings')
  BY <1>4, TrueAtKept DEF TruthInv
<1>8. /\ TrueAt(owners'[q], lock_type'[q], waiters'[q], Known, Endings') /\ OthersKept(q)
      /\ \A u \in Threads : lock_ready'[u] /\ ~lock_ready[u] => Known[u] \subseteq Endings'
  <2>1. LockCompatibility
    BY DEF LockInv
  <2> QED
    BY <1>4, <1>7, <2>1, ReleaseTruth
<1>9. ASSUME NEW r \in Rows
      PROVE  TrueAt(owners'[r], lock_type'[r], waiters'[r], Known', Endings')
  BY <1>6, <1>7, <1>8 DEF OthersKept
<1>10. ASSUME NEW u \in Threads, ~Pending(u)', ~Ending(u)'
       PROVE  Edges(u)' \subseteq Endings'
  <2>1. u # t /\ pc'[u] = pc[u]
    BY <1>2, <1>3, <1>10 DEF Ending
  <2>2. CASE ~Pending(u)
    <3>1. Edges(u) \subseteq Endings
      BY <1>10, <2>1, <2>2 DEF Ending, TruthInv
    <3> QED
      BY <1>4, <1>5, <3>1
  <2>3. CASE Pending(u)
    <3>1. lock_ready'[u] /\ ~lock_ready[u]
      BY <1>10, <2>1, <2>3 DEF Pending, Waits, TypeOK
    <3>2. Known[u] \subseteq Endings'
      BY <1>8, <3>1
    <3> QED
      BY <1>5, <3>2 DEF Known
  <2> QED
    BY <2>2, <2>3
<1>11. ASSUME NEW u \in Threads, pc'[u] \notin {"enqueued", "waiting"}
       PROVE  txnids'[u] = {}
  BY <1>1, <1>2, <1>11 DEF TruthInv
<1> QED
  BY <1>9, <1>10, <1>11 DEF TruthInv

\* lock_get grants a lock only if no one waits.
LEMMA GrantTruth ==
  ASSUME LockIndInv, TypeOK', TruthInv, NEW t \in Threads, NEW r \in Rows,
         NEW type \in {"RD", "WR"}, LockGranted(t, r, type), UNCHANGED <<cc_alg, dlVars>>
  PROVE  TruthInv'
<1> USE DEF LockIndInv
<1> SUFFICES ASSUME cc_alg = "DL_DETECT"
             PROVE  TruthInv'
  BY DEF TruthInv
<1>1. /\ waiters[r] = <<>> /\ UNCHANGED <<waiters, lock_ready>>
      /\ owners' = [owners EXCEPT ![r] = @ \cup {t}]
      /\ lock_type' = [lock_type EXCEPT ![r] = Mode(type)]
      /\ pc[t] = "run" /\ pc' = [pc EXCEPT ![t] = "granted"]
  BY DEF LockGranted, ConflictFor, Conflict, Requests, flagVars
<1>2. \A u \in Threads \ {t} : pc'[u] = pc[u]
  BY <1>1 DEF TypeOK
<1>3. pc'[t] = "granted"
  BY <1>1 DEF TypeOK
<1>4. Endings' = Endings
  BY <1>1, <1>2, <1>3 DEF Endings, Ending
<1>5. /\ UNCHANGED <<txnids, dependency>>
      /\ \A u \in Threads : Edges(u)' = Edges(u)
  BY DEF dlVars, Edges
<1>6. Known' = Known
  BY <1>5 DEF Known
<1>7. ASSUME NEW q \in Rows
      PROVE  TrueAt(owners'[q], lock_type'[q], waiters'[q], Known', Endings')
  <2>1. CASE q = r
    <3>1. 1..Len(waiters'[q]) = {}
      BY <1>1, <2>1
    <3> QED
      BY <3>1 DEF TrueAt
  <2>2. CASE q # r
    <3>1. owners'[q] = owners[q] /\ lock_type'[q] = lock_type[q] /\ waiters'[q] = waiters[q]
      BY <1>1, <2>2 DEF TypeOK
    <3> QED
      BY <1>4, <1>6, <3>1 DEF TruthInv
  <2> QED
    BY <2>1, <2>2
<1>8. ASSUME NEW u \in Threads, ~Pending(u)', ~Ending(u)'
      PROVE  Edges(u)' \subseteq Endings'
  <2>1. ~Pending(u) /\ ~Ending(u)
    BY <1>1, <1>2, <1>8 DEF Pending, Waits, Ending
  <2> QED
    BY <1>4, <1>5, <2>1 DEF TruthInv
<1>9. ASSUME NEW u \in Threads, pc'[u] \notin {"enqueued", "waiting"}
      PROVE  txnids'[u] = {}
  BY <1>1, <1>2, <1>5, <1>9 DEF TruthInv
<1> QED
  BY <1>7, <1>8, <1>9 DEF TruthInv

\* lock_get records for a new waiter who is ahead of it; the edges it has from earlier
\* waits lead to transactions that are ending.
LEMMA WaitTruth ==
  ASSUME LockIndInv, TypeOK', DlTypes, TruthInv, NEW t \in Threads, NEW r \in Rows,
         NEW type \in {"RD", "WR"}, LockWaitEdges(t, r, type), UNCHANGED cc_alg
  PROVE  TruthInv'
<1> USE DEF LockIndInv
<1> SUFFICES ASSUME cc_alg = "DL_DETECT"
             PROVE  TruthInv'
  BY DEF TruthInv
<1> DEFINE e == [txn |-> t, type |-> Mode(type)]
           w == waiters[r]
           n == Len(w)
           v == InsertAt(w, n + 1, e)
<1>1. /\ Requests(t, r, type)
      /\ pc[t] = "run" /\ pc' = [pc EXCEPT ![t] = "enqueued"]
      /\ waiters' = [waiters EXCEPT ![r] = v]
      /\ lock_ready' = [lock_ready EXCEPT ![t] = FALSE]
      /\ UNCHANGED <<owners, lock_type, dependency>>
      /\ txnids' = [txnids EXCEPT ![t] = WaitsFor(w, r, Mode(type))]
  BY DEF LockWaitEdges, LockWait, WaitPosition, Requests
<1>2. /\ pc'[t] = "enqueued"
      /\ \A u \in Threads \ {t} : pc'[u] = pc[u] /\ lock_ready'[u] = lock_ready[u]
  BY <1>1 DEF TypeOK
<1>3. Endings' = Endings
  BY <1>1, <1>2 DEF Endings, Ending
<1>4. ~Pending(t) /\ ~Ending(t) /\ txnids[t] = {}
  BY <1>1 DEF Pending, Waits, Ending, TruthInv
<1>5. /\ \A u \in Threads \ {t} : Edges(u)' = Edges(u)
      /\ Edges(t)' = Edges(t) \cup WaitsFor(w, r, Mode(type))
  <2>1. \A u \in Threads \ {t} : txnids'[u] = txnids[u]
    BY <1>1 DEF DlTypes
  <2>2. txnids'[t] = WaitsFor(w, r, Mode(type))
    BY <1>1 DEF DlTypes
  <2> QED
    BY <1>1, <1>4, <2>1, <2>2 DEF Edges
<1>6. Edges(t) \subseteq Endings
  BY <1>4 DEF TruthInv
<1>7. \A q \in Rows : \A i \in 1..Len(waiters[q]) : waiters[q][i].txn \in Threads \ {t}
  <2>1. \A q \in Rows : \A i \in 1..Len(waiters[q]) : waiters[q][i].txn # t
    BY <1>1, Requester
  <2>2. \A q \in Rows : \A i \in 1..Len(waiters[q]) : waiters[q][i].txn \in Threads
    BY EntryType DEF TypeOK
  <2> QED
    BY <2>1, <2>2
<1>8. ASSUME NEW q \in Rows
      PROVE  TrueAt(owners[q], lock_type[q], waiters[q], Known', Endings)
  <2>1. TrueAt(owners[q], lock_type[q], waiters[q], Known, Endings)
    BY DEF TruthInv
  <2>2. \A u \in Threads \ {t} : Known'[u] = Known[u]
    BY <1>5 DEF Known
  <2> QED
    BY <1>7, <2>1, <2>2 DEF TrueAt
<1>9. e \in LockEntry /\ w \in Seq(LockEntry) /\ n \in Nat
  BY LenProperties DEF TypeOK, LockEntry, Mode
<1>10. Len(v) = n + 1 /\ v[n + 1] = e /\ \A i \in 1..n : v[i] = w[i]
  <2>1. n + 1 \in 1..(n + 1)
    BY <1>9
  <2>2. Len(v) = n + 1
    BY <1>9, <2>1, InsertAtLen
  <2>3. v[n + 1] = e
    BY <1>9, <2>1, InsertAtNew
  <2>4. ASSUME NEW i \in 1..n
        PROVE  v[i] = w[i]
    <3>1. v[IF i < n + 1 THEN i ELSE i + 1] = w[i]
      BY <1>9, <2>1, InsertAtOld
    <3> QED
      BY <1>9, <3>1
  <2> QED
    BY <2>2, <2>3, <2>4
<1>11. waiters'[r] = v /\ \A q \in Rows \ {r} : waiters'[q] = waiters[q]
  BY <1>1 DEF TypeOK
<1>12. e.txn = t /\ e.type = Mode(type) /\ Known'[t] = Edges(t)'
  BY DEF Known
<1>13. ASSUME NEW u \in WaitsFor(w, r, Mode(type))
       PROVE  \/ conflict_lock(Mode(type), lock_type[r]) /\ u \in owners[r]
              \/ \E j \in 1..n : w[j].txn = u /\ conflict_lock(Mode(type), w[j].type)
  BY <1>13 DEF WaitsFor
<1>14. TrueAt(owners[r], lock_type[r], w, Known', Endings) /\ n = Len(w)
  BY <1>8
<1> HIDE DEF e, v, w, n
<1>15. TrueAt(owners[r], lock_type[r], v, Known', Endings)
  <2> SUFFICES ASSUME NEW i \in 1..Len(v), NEW u \in Known'[v[i].txn], u \notin Endings
               PROVE  Ahead(owners[r], lock_type[r], v, i, u)
    BY DEF TrueAt
  <2>1. CASE i \in 1..n
    <3>1. v[i] = w[i] /\ \A j \in 1..n : j \in 1..Len(v) /\ v[j] = w[j]
      BY <1>9, <1>10, <2>1
    <3>2. Ahead(owners[r], lock_type[r], w, i, u)
      BY <1>14, <2>1, <3>1 DEF TrueAt
    <3> QED
      BY <1>14, <3>1, <3>2 DEF Ahead
  <2>2. CASE i = n + 1
    <3>1. v[i] = e /\ \A j \in 1..n : j \in 1..Len(v) /\ v[j] = w[j] /\ j < i
      BY <1>9, <1>10, <2>2
    <3>2. u \in WaitsFor(w, r, Mode(type))
      BY <1>5, <1>6, <1>12, <3>1
    <3> QED
      BY <1>12, <1>13, <3>1, <3>2 DEF Ahead
  <2> QED
    BY <1>9, <1>10, <2>1, <2>2
<1>16. ASSUME NEW q \in Rows
       PROVE  TrueAt(owners'[q], lock_type'[q], waiters'[q], Known', Endings')
  BY <1>1, <1>3, <1>8, <1>11, <1>15
<1>17. ASSUME NEW u \in Threads, ~Pending(u)', ~Ending(u)'
       PROVE  Edges(u)' \subseteq Endings'
  <2>1. u # t
    BY <1>1, <1>2, <1>17 DEF Pending, Waits, TypeOK
  <2>2. ~Pending(u) /\ ~Ending(u)
    BY <1>2, <1>17, <2>1 DEF Pending, Waits, Ending
  <2> QED
    BY <1>3, <1>5, <2>1, <2>2 DEF TruthInv
<1>18. ASSUME NEW u \in Threads, pc'[u] \notin {"enqueued", "waiting"}
       PROVE  txnids'[u] = {}
  <2>1. u # t
    BY <1>2, <1>18
  <2>2. txnids'[u] = txnids[u] /\ pc'[u] = pc[u]
    BY <1>1, <1>2, <2>1 DEF DlTypes
  <2> QED
    BY <1>18, <2>2 DEF TruthInv
<1> QED
  BY <1>16, <1>17, <1>18 DEF TruthInv

\* A wait ends, with a grant or to be given up.
LEMMA LeaveTruth ==
  ASSUME LockIndInv, TypeOK', DlTypes, TruthInv, NEW t \in Threads, LeaveSpinning(t),
         UNCHANGED cc_alg
  PROVE  TruthInv'
<1> USE DEF LockIndInv
<1> SUFFICES ASSUME cc_alg = "DL_DETECT"
             PROVE  TruthInv'
  BY DEF TruthInv
<1>1. /\ txnids' = [txnids EXCEPT ![t] = {}]
      /\ pc[t] = "waiting"
      /\ UNCHANGED <<lockVars, lock_ready, dependency>>
      /\ \/ lock_ready[t] /\ pc' = [pc EXCEPT ![t] = "granted"]
         \/ ~lock_ready[t] /\ pc' = [pc EXCEPT ![t] = "giveup"]
  BY DEF LeaveSpinning, WaitGranted, WaitAborted, LeaveLoop
<1>2. UNCHANGED <<lock_type, owners, waiters>>
  BY <1>1 DEF lockVars
<1>3. /\ \A u \in Threads \ {t} : pc'[u] = pc[u] /\ txnids'[u] = txnids[u]
      /\ txnids'[t] = {}
      /\ \/ lock_ready[t] /\ pc'[t] = "granted"
         \/ ~lock_ready[t] /\ pc'[t] = "giveup"
  BY <1>1 DEF TypeOK, DlTypes
<1>4. Endings' = Endings
  BY <1>1, <1>3 DEF Endings, Ending
<1>5. \A u \in Threads : Edges(u)' \subseteq Edges(u)
  BY <1>1, <1>3 DEF Edges
<1>6. \A u \in Threads : Pending(u)' = Pending(u) /\ Ending(u)' = Ending(u)
  BY <1>1, <1>3 DEF Pending, Waits, Ending
<1>7. ASSUME NEW r \in Rows
      PROVE  TrueAt(owners'[r], lock_type'[r], waiters'[r], Known', Endings')
  <2>1. TrueAt(owners[r], lock_type[r], waiters[r], Known, Endings)
    BY DEF TruthInv
  <2>2. \A i \in 1..Len(waiters[r]) : waiters[r][i].txn \in Threads
    BY EntryType DEF TypeOK
  <2>3. \A u \in Threads : Known'[u] \subseteq Known[u]
    BY <1>5 DEF Known
  <2> QED
    BY <1>2, <1>4, <2>1, <2>2, <2>3, TrueAtKept
<1> QED
  BY <1>3, <1>4, <1>5, <1>6, <1>7 DEF TruthInv

\* A transaction that ends is taken out of the edges of the others, and has none.
LEMMA CleanupTruth ==
  ASSUME LockIndInv, TypeOK', DlTypes, TruthInv, NEW t \in Threads, CleanupClears(t),
         UNCHANGED cc_alg
  PROVE  TruthInv'
<1> USE DEF LockIndInv
<1> SUFFICES ASSUME cc_alg = "DL_DETECT"
             PROVE  TruthInv'
  BY DEF TruthInv
<1>1. /\ pc[t] = "cleanup" /\ pc' = [pc EXCEPT ![t] = "idle"]
      /\ UNCHANGED <<lockVars, lock_ready>>
      /\ txnids' = [u \in Threads |-> txnids[u] \ {t}]
      /\ dependency' = [u \in Threads |->
            IF u = t THEN NoDep ELSE [dependency[u] EXCEPT !.adj = @ \ {t}]]
  BY DEF CleanupClears, CleanupDone, flagVars
<1>2. UNCHANGED <<lock_type, owners, waiters>>
  BY <1>1 DEF lockVars
<1>3. pc'[t] = "idle" /\ \A u \in Threads \ {t} : pc'[u] = pc[u]
  BY <1>1 DEF TypeOK
<1>4. Endings' = Endings \ {t}
  BY <1>1, <1>3 DEF Endings, Ending
<1>5. txnids[t] = {}
  BY <1>1 DEF TruthInv
<1>6. Edges(t)' = {} /\ \A u \in Threads \ {t} : Edges(u)' = Edges(u) \ {t}
  <2>1. dependency'[t].adj = {} /\ txnids'[t] = {}
    BY <1>1, <1>5 DEF NoDep
  <2>2. ASSUME NEW u \in Threads \ {t}
        PROVE  dependency'[u].adj = dependency[u].adj \ {t} /\ txnids'[u] = txnids[u] \ {t}
    <3>1. dependency[u] \in DepThd
      BY DEF DlTypes
    <3> QED
      BY <1>1, <3>1 DEF DepThd
  <2> QED
    BY <2>1, <2>2 DEF Edges
<1>7. ASSUME NEW r \in Rows
      PROVE  TrueAt(owners'[r], lock_type'[r], waiters'[r], Known', Endings')
  <2>1. TrueAt(owners[r], lock_type[r], waiters[r], Known, Endings)
    BY DEF TruthInv
  <2>2. \A i \in 1..Len(waiters[r]) : waiters[r][i].txn \in Threads
    BY EntryType DEF TypeOK
  <2>3. \A u \in Threads : Known'[u] \subseteq Known[u] \ {t}
    BY <1>6 DEF Known
  <2> QED
    BY <1>2, <1>4, <2>1, <2>2, <2>3 DEF TrueAt
<1>8. ASSUME NEW u \in Threads, ~Pending(u)', ~Ending(u)'
      PROVE  Edges(u)' \subseteq Endings'
  <2>1. CASE u = t
    BY <1>6, <2>1
  <2>2. CASE u # t
    <3>1. ~Pending(u) /\ ~Ending(u)
      BY <1>1, <1>3, <1>8, <2>2 DEF Pending, Waits, Ending
    <3> QED
      BY <1>4, <1>6, <2>2, <3>1 DEF TruthInv
  <2> QED
    BY <2>1, <2>2
<1>9. ASSUME NEW u \in Threads, pc'[u] \notin {"enqueued", "waiting"}
      PROVE  txnids'[u] = {}
  <2>1. txnids[u] = {}
    BY <1>3, <1>5, <1>9 DEF TruthInv
  <2> QED
    BY <1>1, <2>1
<1> QED
  BY <1>7, <1>8, <1>9 DEF TruthInv

\* add_dep moves the edges of a wait into the graph; the search reads.
LEMMA SearchTruth ==
  ASSUME LockIndInv, DlTypes, TruthInv, NEW t \in Threads,
         StartDetect(t) \/ EnterNode(t) \/ FollowEdge(t) \/ StoreVictim(t)
  PROVE  TruthInv'
<1>1. UNCHANGED <<cc_alg, txnids, lock_type, owners, waiters, pc, lock_ready>>
  <2>1. CASE StartDetect(t)
    BY <2>1 DEF StartDetect, vars
  <2>2. CASE EnterNode(t)
    BY <2>2 DEF EnterNode, vars
  <2>3. CASE FollowEdge(t)
    <3>1. UNCHANGED <<vars, txnids, dep_added, dependency>>
      BY <2>3 DEF FollowEdge
    <3> QED
      BY <3>1 DEF vars
  <2>4. CASE StoreVictim(t)
    BY <2>4 DEF StoreVictim, DetectDeadlock, vars, lockVars, queryVars
  <2> QED
    BY <2>1, <2>2, <2>3, <2>4
<1>2. \A u \in Threads : Edges(u)' = Edges(u)
  <2>1. CASE StartDetect(t)
    <3>1. dependency' = [dependency EXCEPT ![t] = add_dep(t)]
      BY <2>1 DEF StartDetect
    <3>2. add_dep(t).adj \cup txnids[t] = dependency[t].adj \cup txnids[t]
      BY DEF add_dep
    <3>3. dependency'[t] = add_dep(t) /\ \A u \in Threads \ {t} : dependency'[u] = dependency[u]
      BY <3>1 DEF DlTypes
    <3> QED
      BY <1>1, <3>2, <3>3 DEF Edges
  <2>2. CASE EnterNode(t) \/ FollowEdge(t) \/ StoreVictim(t)
    <3>1. UNCHANGED dependency
      BY <2>2 DEF EnterNode, FollowEdge, StoreVictim
    <3> QED
      BY <1>1, <3>1 DEF Edges
  <2> QED
    BY <2>1, <2>2
<1>3. Known' = Known /\ Endings' = Endings
  BY <1>1, <1>2 DEF Known, Endings, Ending
<1>4. \A u \in Threads : Pending(u)' = Pending(u) /\ Ending(u)' = Ending(u)
  BY <1>1 DEF Pending, Waits, Ending
<1> QED
  BY <1>1, <1>2, <1>3, <1>4 DEF TruthInv

\* The steps of TwoPhase that do not concern the detector.
LEMMA ElsewhereTruth ==
  ASSUME LockIndInv, TypeOK', TruthInv, NEW t \in Threads, Elsewhere(t),
         UNCHANGED <<cc_alg, dlVars>>
  PROVE  TruthInv'
<1> USE DEF LockIndInv
<1> SUFFICES ASSUME cc_alg = "DL_DETECT"
             PROVE  TruthInv'
  BY DEF TruthInv
<1>0. \A u \in Threads : pc[u] \notin {"enqueued", "waiting"} => txnids[u] = {}
  BY DEF TruthInv
<1>1. ASSUME NEW y \in {"run", "cleanup", "undone"}, pc' = [pc EXCEPT ![t] = y],
             pc[t] \in {"idle", "run", "granted", "cleanup"},
             pc[t] = "cleanup" => y = "undone",
             UNCHANGED <<lockVars, lock_ready>>
      PROVE  TruthInv'
  <2>1. pc'[t] = y
    BY <1>1 DEF TypeOK
  <2>2. ~Pending(t) /\ (Ending(t) => Ending(t)') /\ txnids[t] = {}
    BY <1>0, <1>1, <2>1 DEF Pending, Waits, Ending
  <2> QED
    BY <1>1, <2>2, QuietTruth
<1>2. CASE NewQuery(t) \/ RetryQuery(t) \/ RowBufferFull(t) \/ Finish(t) \/ RecordAccess(t)
           \/ RestoreRow(t)
  <2>1. \E y \in {"run", "cleanup", "undone"} :
          /\ pc' = [pc EXCEPT ![t] = y] /\ UNCHANGED <<lockVars, lock_ready>>
          /\ pc[t] \in {"idle", "run", "granted", "cleanup"}
          /\ pc[t] = "cleanup" => y = "undone"
    BY <1>2 DEF NewQuery, RetryQuery, Started, RowBufferFull, Finish, StartCleanup,
                RecordAccess, RestoreRow, flagVars
  <2> QED
    BY <1>1, <2>1
<1>3. ASSUME NEW r \in Rows, NEW type \in {"RD", "WR"}, LockDenied(t, r, type)
      PROVE  TruthInv'
  <2>1. /\ pc[t] = "run" /\ pc' = [pc EXCEPT ![t] = "cleanup"]
        /\ UNCHANGED <<lockVars, lock_ready>>
    BY <1>3 DEF LockDenied, Requests, StartCleanup, flagVars
  <2> QED
    BY <1>1, <2>1
<1>4. ASSUME NEW i \in 1..Len(accesses[t]), NEW v \in Val, WriteRow(t, i, v)
      PROVE  TruthInv'
  <2>1. pc[t] = "run" /\ UNCHANGED <<pc, lockVars, lock_ready>>
    BY <1>4 DEF WriteRow, flagVars
  <2>2. pc' = [pc EXCEPT ![t] = "run"]
    BY <2>1 DEF TypeOK
  <2> QED
    BY <1>1, <2>1, <2>2
<1>5. CASE StartWaiting(t)
  <2>1. /\ pc[t] = "enqueued" /\ pc' = [pc EXCEPT ![t] = "waiting"]
        /\ UNCHANGED <<lockVars, lock_ready>>
    BY <1>5 DEF StartWaiting
  <2>2. pc'[t] = "waiting"
    BY <2>1 DEF TypeOK
  <2>3. ~Ending(t) /\ (Pending(t) => Pending(t)')
    BY <2>1, <2>2 DEF Ending, Pending, Waits
  <2> QED
    BY <2>1, <2>3, QuietTruth
<1>6. CASE GiveUp(t)
  <2>1. /\ req[t].row \in Rows /\ lock_release(t, req[t].row) /\ pc[t] = "giveup"
        /\ pc' = [pc EXCEPT ![t] = "cleanup"]
    BY <1>6 DEF GiveUp, StartCleanup, TypeOK, Request
  <2> QED
    BY <1>0, <2>1, EndTruth
<1>7. CASE ReturnRow(t)
  <2>1. lock_release(t, Current(t).row) /\ pc' = [pc EXCEPT ![t] = "cleanup"]
    BY <1>7 DEF ReturnRow
  <2>2. pc[t] \in {"cleanup", "undone"} /\ rid[t] > 0
    BY <1>7 DEF ReturnRow, Shape
  <2>3. Current(t).row \in Rows
    BY <2>2, CurrentType
  <2> QED
    BY <1>0, <2>1, <2>2, <2>3, EndTruth
<1> QED
  BY <1>2, <1>3, <1>4, <1>5, <1>6, <1>7, GrantTruth DEF Elsewhere

\* Every step keeps TruthInv.
LEMMA TruthInvStep ==
  ASSUME LockIndInv, LockIndInv', DlTypes, TruthInv, [DlNext]_<<vars, dlVars>>
  PROVE  TruthInv'
<1>0. UNCHANGED cc_alg /\ TypeOK'
  <2>1. [Next]_vars
    BY DlStepImplements DEF DlNext
  <2> QED
    BY <2>1, AlgStep DEF LockIndInv
<1>1. CASE UNCHANGED <<vars, dlVars>>
  <2>1. UNCHANGED <<cc_alg, txnids, dependency, lock_type, owners, waiters, pc, lock_ready>>
    BY <1>1 DEF vars, dlVars
  <2>2. \A u \in Threads : /\ Edges(u)' = Edges(u)
                           /\ Pending(u)' = Pending(u) /\ Ending(u)' = Ending(u)
    BY <2>1 DEF Edges, Pending, Waits, Ending
  <2>3. Known' = Known /\ Endings' = Endings
    BY <2>2 DEF Known, Endings
  <2> QED
    BY <2>1, <2>2, <2>3 DEF TruthInv
<1>2. ASSUME NEW t \in Threads, DlStep(t)
      PROVE  TruthInv'
  BY <1>0, <1>2, ElsewhereTruth, WaitTruth, LeaveTruth, CleanupTruth, SearchTruth DEF DlStep
<1> QED
  BY <1>1, <1>2 DEF DlNext

\* Although edges are removed only when a transaction ends, and those of earlier waits
\* are followed in later ones, each leads to a transaction that is in the way or is
\* giving its locks back: a loop of the graph is a deadlock, unless a transaction on it
\* is ending, which the search does not know.
THEOREM EdgesStayTrueCorrect == DlSpec => []EdgesStayTrue
<1>1. DlInit => TruthInv
  BY DEF DlInit, Init, TruthInv, TrueAt, Edges, NoDep
<1>2. DlSpec => []LockIndInv
  BY DetectorInTwoPhase, LockIndInvCorrect, PTL
<1>3. DlSpec => []DlTypes
  BY DlTypeCorrect, PTL DEF DlTypeOK, DlTypes
<1>4. LockIndInv /\ LockIndInv' /\ DlTypes /\ TruthInv /\ [DlNext]_<<vars, dlVars>> => TruthInv'
  BY TruthInvStep
<1>5. LockIndInv /\ TruthInv => EdgesStayTrue
  BY TruthInvMeans
<1> QED
  BY <1>1, <1>2, <1>3, <1>4, <1>5, PTL DEF DlSpec

=============================================================================
