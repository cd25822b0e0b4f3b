----------------------------- MODULE SiloProofs -----------------------------
(***************************************************************************)
(* The lock bits, the tids, the copies and the serializability of Silo,    *)
(* for every number of threads, rows and transactions.                     *)
(***************************************************************************)
EXTENDS Silo, SequenceLemmas

\* The parameters under which a row is released as often as it was locked: with
\* validation_lock = "waiting", and with bounded spinning but not pre_abort, this is
\* not so.
Sound(c) == c.no_wait /\ (c.bounded => c.pre_abort)

\* TypeOK without the history, which no guard looks at.
Types ==
  /\ config \in Config /\ Sound(config)
  /\ data \in [Rows -> Words]
  /\ tid \in [Rows -> Nat]
  /\ locked \in [Rows -> BOOLEAN]
  /\ pc \in [Threads -> PC]
  /\ req \in [Threads -> Request]
  /\ v \in [Threads -> Nat]
  /\ copy \in [Threads -> Words]
  /\ accesses \in [Threads -> Seq(Access)]
  /\ cur_tid \in [Threads -> Nat]
  /\ write_set \in [Threads -> Seq(Nat)]
  /\ num_locks \in [Threads -> Nat]
  /\ idx \in [Threads -> Nat]

-----------------------------------------------------------------------------
(***************************************************************************)
(* Finite sets of numbers                                                  *)
(***************************************************************************)

\* An access of a sequence of accesses,
LEMMA AccessOf ==
  ASSUME NEW s \in Seq(Access), NEW i \in 1..Len(s)
  PROVE  /\ s[i] \in Access /\ s[i].row \in Rows /\ s[i].tid \in Nat
         /\ s[i].read \in Words /\ s[i].val \in Words
<1>1. s[i] \in Access
  BY ElementOfSeq
<1> QED
  BY <1>1 DEF Access

\* The tids of a sequence of accesses are bounded,
LEMMA TidsBounded ==
  ASSUME NEW s \in Seq(Access)
  PROVE  \E n \in Nat : \A i \in 1..Len(s) : s[i].tid <= n
<1> DEFINE f == [i \in 1..Len(s) |-> s[i].tid]
<1>1. Len(s) \in Nat /\ f \in [1..Len(s) -> Nat]
  BY LenProperties, AccessOf
<1>2. Bounded(f, Len(s))
  BY <1>1, BoundedUpTo
<1> QED
  BY <1>2 DEF Bounded

\* so that NextTid, in validate_silo, is larger than all of them.
LEMMA NextTidLarger ==
  ASSUME Types, NEW t \in Threads
  PROVE  /\ NextTid(t) \in Nat
         /\ NextTid(t) > cur_tid[t]
         /\ \A i \in 1..Len(accesses[t]) : accesses[t][i].tid < NextTid(t)
<1> DEFINE s == accesses[t]
           seen == {s[i].tid : i \in DOMAIN s}
           S == seen \cup {0}
<1>1. s \in Seq(Access) /\ Len(s) \in Nat /\ DOMAIN s = 1..Len(s) /\ \A i \in 1..Len(s) : s[i].tid \in Nat
  BY LenProperties, AccessOf DEF Types
<1>2. PICK n \in Nat : \A x \in S : x <= n
  <2>1. PICK n \in Nat : \A i \in 1..Len(s) : s[i].tid <= n
    BY <1>1, TidsBounded
  <2>2. \A x \in S : x <= n
    BY <1>1, <2>1
  <2> QED
    BY <2>2
<1>3. S \subseteq Nat
  BY <1>1
<1> DEFINE U == {m \in Nat : \A x \in S : x <= m}
<1>4. PICK m \in U : \A k \in U : m <= k
  BY <1>2, LeastNat
<1>5. m \in S
  <2> SUFFICES ASSUME m \notin S PROVE FALSE
    OBVIOUS
  <2>1. m # 0 /\ m \in Nat
    BY <1>4
  <2>2. m - 1 \in U
    <3>1. \A x \in S : x \in Nat /\ x <= m /\ x # m
      BY <1>3, <1>4
    <3> HIDE DEF S
    <3>2. \A x \in S : x <= m - 1
      BY <2>1, <3>1
    <3> QED
      BY <2>1, <3>2
  <2> HIDE DEF U
  <2>3. m <= m - 1
    BY <1>4, <2>2
  <2> QED
    BY <2>1, <2>3
<1>6. Max(S) \in S /\ \A y \in S : Max(S) >= y
  <2>1. \E x \in S : \A y \in S : x >= y
    BY <1>3, <1>4, <1>5
  <2> QED BY <2>1 DEF Max
<1>7. NextTid(t) = IF Max(S) > cur_tid[t] THEN Max(S) + 1 ELSE cur_tid[t] + 1
  BY DEF NextTid
<1>8. cur_tid[t] \in Nat /\ Max(S) \in Nat
  BY <1>3, <1>6 DEF Types
<1>9. \A i \in 1..Len(s) : s[i].tid \in S
  BY <1>1
<1> HIDE DEF S
<1>10. \A y \in S : y \in Nat /\ y <= Max(S)
  BY <1>3, <1>6, <1>8
<1> QED
  BY <1>7, <1>8, <1>9, <1>10

-----------------------------------------------------------------------------
(***************************************************************************)
(* Types                                                                   *)
(***************************************************************************)

\* A step of t leaves what other transactions keep for themselves alone.
Local(t) ==
  \A u \in Threads : u # t =>
    /\ pc'[u] = pc[u] /\ req'[u] = req[u] /\ v'[u] = v[u] /\ copy'[u] = copy[u]
    /\ accesses'[u] = accesses[u] /\ cur_tid'[u] = cur_tid[u]
    /\ write_set'[u] = write_set[u] /\ num_locks'[u] = num_locks[u] /\ idx'[u] = idx[u]

\* Where validate_silo of t has come: the accesses are to different rows, the write
\* set has the writes among them, idx and num_locks stay within it.
Shape(t) ==
  LET ws == write_set[t] IN
  /\ \A i, j \in 1..Len(accesses[t]) : accesses[t][i].row = accesses[t][j].row => i = j
  /\ \A k \in 1..Len(ws) : ws[k] \in {i \in 1..Len(accesses[t]) : accesses[t][i].type = "WR"}
  /\ \A j, k \in 1..Len(ws) : ws[j] = ws[k] => j = k
  /\ num_locks[t] <= Len(ws)
  /\ pc[t] \in {"idle", "exec", "load", "copy1", "copy2", "reload"} => Len(ws) = 0
  /\ pc[t] \in {"idle", "exec", "load", "copy1", "copy2", "reload", "pre"} => num_locks[t] = 0
  /\ pc[t] \in {"load", "copy1", "copy2", "reload"} =>
       \A i \in 1..Len(accesses[t]) : accesses[t][i].row # req[t].row
  /\ pc[t] \notin {"validate", "unlock", "abort", "write1", "write2", "store", "release"} => idx[t] = 0
  /\ pc[t] = "cas" => num_locks[t] < Len(ws)
  /\ pc[t] \in {"unlock", "abort", "write1"} => idx[t] <= num_locks[t]
  /\ pc[t] \in {"write2", "store", "release"} => idx[t] < num_locks[t]
  /\ pc[t] \in {"validate", "write1", "write2", "store", "release"} => num_locks[t] = Len(ws)

\* The row a step of validate_silo works on is in accesses.
LEMMA AccType ==
  ASSUME Types, NEW t \in Threads, Shape(t), NEW k \in 1..Len(write_set[t])
  PROVE  /\ Acc(t, k) \in Access /\ Acc(t, k).row \in Rows /\ Acc(t, k).tid \in Nat
         /\ Acc(t, k).read \in Words /\ Acc(t, k).val \in Words
         /\ write_set[t][k] \in 1..Len(accesses[t]) /\ Acc(t, k).type = "WR"
         /\ \A j \in 1..Len(write_set[t]) : Acc(t, j).row = Acc(t, k).row => j = k
<1>1. write_set[t][k] \in 1..Len(accesses[t]) /\ Acc(t, k).type = "WR"
  BY DEF Shape, Acc
<1>2. accesses[t] \in Seq(Access)
  BY DEF Types
<1>3. \A j \in 1..Len(write_set[t]) : Acc(t, j).row = Acc(t, k).row => j = k
  BY DEF Shape, Acc
<1> QED
  BY <1>1, <1>2, <1>3, AccessOf DEF Acc

\* A step keeps the types and touches nothing of the other threads.
LEMMA TypesStep ==
  ASSUME Types, NEW t \in Threads, Shape(t), Step(t)
  PROVE  Types' /\ Local(t)
<1> USE SiloAssumption DEF Goto, rowVars, accessVars, validateVars, history
<1>t. \A n \in Nat : n + 1 \in Nat
  OBVIOUS
<1>n. 0 \in Nat /\ NoCopy \in Words
  BY DEF NoCopy, Words
<1>p. \A s \in PC : [pc EXCEPT ![t] = s] \in [Threads -> PC]
  BY DEF Types
<1>e. <<>> \in Seq(Access) /\ <<>> \in Seq(Nat)
  BY EmptySeq
<1>1. CASE NewQuery(t)
  BY <1>1, <1>p, SMTT(30) DEF NewQuery, Types, Local, PC
<1>2. CASE RowBufferFull(t)
  BY <1>2, <1>p, <1>e, SMTT(30) DEF RowBufferFull, Types, Local, PC
<1>3. ASSUME NEW r \in Rows, NEW type \in {"RD", "WR"}, GetRow(t, r, type)
      PROVE  Types' /\ Local(t)
  BY <1>3, <1>p, SMTT(30) DEF GetRow, Types, Local, PC, Request
<1>4. CASE LoadWord(t)
  <2>1. req[t].row \in Rows
    BY DEF Types, Request
  <2> QED
    BY <1>4, <1>p, <2>1, ZenonT(30) DEF LoadWord, Types, Local, PC
<1>5. CASE CopyWord(t)
  <2>1. req[t].row \in Rows
    BY DEF Types, Request
  <2>2. data[req[t].row] \in Words
    BY <2>1 DEF Types
  <2>3. copy' \in [Threads -> Words] /\ \A u \in Threads : u # t => copy'[u] = copy[u]
    <3>1. /\ data[req[t].row][1] \in Val /\ data[req[t].row][2] \in Val
          /\ copy[t] \in Words /\ copy \in [Threads -> Words]
      BY <2>2 DEF Types, Words
    <3>2. \A x \in Val : /\ [copy[t] EXCEPT ![1] = x] \in Words
                         /\ [copy[t] EXCEPT ![2] = x] \in Words
      BY <3>1 DEF Words
    <3> QED
      BY <1>5, <3>1, <3>2 DEF CopyWord
  <2> QED
    BY <1>5, <1>p, <2>3 DEF CopyWord, Types, Local, PC
<1>6. ASSUME NEW w \in Val, ReadDone(t, w)
      PROVE  Types' /\ Local(t)
  <2> DEFINE a == [row |-> req[t].row, type |-> req[t].type, tid |-> v[t], read |-> copy[t],
                   val |-> IF req[t].type = "WR" THEN <<w, w>> ELSE copy[t]]
  <2>1. req[t] \in Request /\ v[t] \in Nat /\ copy[t] \in Words /\ <<w, w>> \in Words
    BY DEF Types, Words
  <2>2. a \in Access
    BY <2>1 DEF Request, Access
  <2>3. Append(accesses[t], a) \in Seq(Access)
    BY <2>2, AppendProperties DEF Types
  <2>4. NoRequest \in Request
    BY <2>1 DEF NoRequest, Request
  <2>5. accesses' = [accesses EXCEPT ![t] = Append(@, a)]
    BY <1>6 DEF ReadDone
  <2> HIDE DEF a
  <2> QED
    BY <1>6, <1>p, <1>n, <2>3, <2>4, <2>5, SMTT(30) DEF ReadDone, Types, Local, PC
<1>7. CASE ReadAgain(t)
  BY <1>7, <1>p, <1>n, SMTT(30) DEF ReadAgain, Types, Local, PC
<1>8. CASE StartValidate(t)
  <2> DEFINE W == {i \in DOMAIN accesses[t] : accesses[t][i].type = "WR"}
  <2>1. PICK ws \in SetToSeqs(W) : write_set' = [write_set EXCEPT ![t] = ws]
    BY <1>8 DEF StartValidate
  <2>2. ws \in Seq(Nat)
    <3>1. Len(accesses[t]) \in Nat /\ W \subseteq 1..Len(accesses[t])
      BY LenProperties DEF Types
    <3> HIDE DEF W
    <3>2. IsFiniteSet(W) /\ W \in SUBSET Nat
      BY <3>1, PositionsFinite
    <3> QED
      BY <3>2, SetToSeqsProperties
  <2>3. pc' \in [Threads -> PC] /\ \A u \in Threads : u # t => pc'[u] = pc[u]
    BY <1>8 DEF StartValidate, PC, Types
  <2> QED
    BY <1>8, <2>1, <2>2, <2>3 DEF StartValidate, Types, Local
<1>9. CASE PreAbort(t)
  BY <1>9, SMTT(30) DEF PreAbort, Types, Local, PC
<1>10. CASE TryLock(t)
  <2>1. num_locks[t] + 1 \in 1..Len(write_set[t])
    <3>1. num_locks[t] \in Nat /\ Len(write_set[t]) \in Nat
      BY LenProperties DEF Types
    <3> QED
      BY <1>10, <3>1 DEF TryLock
  <2>2. tid[Acc(t, num_locks[t] + 1).row] \in Nat
    BY <2>1, AccType DEF Types
  <2> QED
    BY <1>10, <1>p, <2>2, SMTT(30) DEF TryLock, Types, Local, PC
<1>11. CASE LockRow(t)
  BY <1>11, <1>p, <1>t, <1>n, ZenonT(30) DEF LockRow, Types, Local, PC
<1>12. CASE LockFails(t)
  <2>1. config.no_wait
    BY DEF Types, Sound
  <2>2. /\ v' = [v EXCEPT ![t] = 0] /\ pc' = [pc EXCEPT ![t] = "unlock"]
        /\ UNCHANGED <<config, rowVars, req, copy, accesses, cur_tid, num_locks, write_set, idx>>
    BY <1>12, <2>1 DEF LockFails
  <2> QED
    BY <1>p, <2>2 DEF Types, Local, PC
<1>13. CASE Unlock(t)
  BY <1>13, <1>t, ZenonT(30) DEF Unlock, Types, Local
<1>14. CASE Retry(t)
  BY <1>14, <1>n, <1>p, SMTT(30) DEF Retry, Types, Local, PC
<1>15. CASE AllLocked(t)
  BY <1>15, <1>p, SMTT(30) DEF AllLocked, Types, Local, PC
<1>16. CASE ValidateRead(t)
  <2>1. PICK i \in DOMAIN accesses[t] :
           \/ idx' = [idx EXCEPT ![t] = i] /\ UNCHANGED pc
           \/ idx' = [idx EXCEPT ![t] = 0] /\ Goto(t, "abort")
    BY <1>16 DEF ValidateRead
  <2>2. i \in Nat
    BY LenProperties DEF Types
  <2>3. /\ idx' \in [Threads -> Nat] /\ pc' \in [Threads -> PC]
        /\ \A u \in Threads : u # t => idx'[u] = idx[u] /\ pc'[u] = pc[u]
    <3>1. idx \in [Threads -> Nat] /\ pc \in [Threads -> PC]
      BY DEF Types
    <3>2. CASE idx' = [idx EXCEPT ![t] = i] /\ UNCHANGED pc
      BY <2>2, <3>1, <3>2
    <3>3. CASE idx' = [idx EXCEPT ![t] = 0] /\ Goto(t, "abort")
      BY <1>p, <3>1, <3>3 DEF PC
    <3> QED
      BY <2>1, <3>2, <3>3
  <2> QED
    BY <1>16, <2>3 DEF ValidateRead, Types, Local
<1>17. CASE ValidateWrites(t)
  <2>1. NextTid(t) \in Nat
    BY NextTidLarger
  <2>2. /\ cur_tid' \in [Threads -> Nat] /\ pc' \in [Threads -> PC]
        /\ \A u \in Threads : u # t => cur_tid'[u] = cur_tid[u] /\ pc'[u] = pc[u]
    <3>1. \/ cur_tid' = [cur_tid EXCEPT ![t] = NextTid(t)] /\ pc' = [pc EXCEPT ![t] = "write1"]
          \/ cur_tid' = cur_tid /\ pc' = [pc EXCEPT ![t] = "abort"]
      BY <1>17 DEF ValidateWrites
    <3>2. cur_tid \in [Threads -> Nat] /\ pc \in [Threads -> PC]
      BY DEF Types
    <3> QED
      BY <1>p, <2>1, <3>1, <3>2 DEF PC
  <2> QED
    BY <1>17, <2>2 DEF ValidateWrites, Types, Local
<1>18. CASE WriteWord(t)
  <2> DEFINE a == Acc(t, idx[t] + 1)
  <2>1. idx[t] + 1 \in 1..Len(write_set[t])
    <3>1. idx[t] \in Nat /\ Len(write_set[t]) \in Nat
      BY LenProperties DEF Types
    <3> QED
      BY <1>18, <3>1 DEF WriteWord
  <2>2. a.row \in Rows /\ a.val[1] \in Val /\ a.val[2] \in Val
    BY <2>1, AccType DEF Words
  <2>3. data[a.row] \in Words /\ data \in [Rows -> Words]
    BY <2>2 DEF Types
  <2>4. \A x \in Val : /\ [data[a.row] EXCEPT ![1] = x] \in Words
                       /\ [data[a.row] EXCEPT ![2] = x] \in Words
    BY <2>3 DEF Words
  <2>5. data' \in [Rows -> Words]
    BY <1>18, <2>2, <2>3, <2>4 DEF WriteWord
  <2> QED
    BY <1>18, <1>p, <2>5 DEF WriteWord, Types, Local, PC
<1>19. CASE StoreTid(t)
  BY <1>19, <1>p, ZenonT(30) DEF StoreTid, Types, Local, PC
<1>20. CASE ReleaseRow(t)
  BY <1>20, <1>p, <1>t, ZenonT(30) DEF ReleaseRow, Types, Local, PC
<1>21. CASE Commit(t) \/ Abort(t)
  <2>1. Cleanup(t)
    BY <1>21 DEF Commit, Abort
  <2> QED
    BY <2>1, <1>p, <1>e, <1>n DEF Cleanup, Types, Local, PC
<1> QED
  BY <1>1, <1>2, <1>3, <1>4, <1>5, <1>6, <1>7, <1>8, <1>9, <1>10, <1>11, <1>12, <1>13, <1>14,
     <1>15, <1>16, <1>17, <1>18, <1>19, <1>20, <1>21 DEF Step

\* The part of Shape that a step disturbs only by changing accesses or write_set.
Sets(t) ==
  LET ws == write_set[t] IN
  /\ \A i, j \in 1..Len(accesses[t]) : accesses[t][i].row = accesses[t][j].row => i = j
  /\ \A k \in 1..Len(ws) : ws[k] \in {i \in 1..Len(accesses[t]) : accesses[t][i].type = "WR"}
  /\ \A j, k \in 1..Len(ws) : ws[j] = ws[k] => j = k

\* Shape is kept.
LEMMA ShapeStep ==
  ASSUME Types, NEW t \in Threads, Shape(t), Step(t)
  PROVE  Shape(t)'
<1> USE DEF Goto, rowVars, accessVars, validateVars, history
<1>y. /\ pc \in [Threads -> PC] /\ idx \in [Threads -> Nat] /\ num_locks \in [Threads -> Nat]
      /\ write_set \in [Threads -> Seq(Nat)] /\ accesses \in [Threads -> Seq(Access)]
      /\ req \in [Threads -> Request]
  BY DEF Types
<1>l. Len(write_set[t]) \in Nat /\ Len(accesses[t]) \in Nat
  BY <1>y, LenProperties
<1>s. Sets(t) /\ (accesses'[t] = accesses[t] /\ write_set'[t] = write_set[t] => Sets(t)')
  BY DEF Shape, Sets
<1>1. CASE NewQuery(t)
  BY <1>1, <1>y, <1>l, <1>s DEF NewQuery, Shape, Sets
<1>2. CASE RowBufferFull(t)
  BY <1>2, <1>y, <1>l, <1>s DEF RowBufferFull, Shape, Sets
<1>3. ASSUME NEW r \in Rows, NEW type \in {"RD", "WR"}, GetRow(t, r, type)
      PROVE  Shape(t)'
  BY <1>3, <1>y, <1>l, <1>s, LenProperties DEF GetRow, Shape, Sets
<1>4. CASE LoadWord(t)
  BY <1>4, <1>y, <1>l, <1>s DEF LoadWord, Shape, Sets
<1>5. CASE CopyWord(t)
  BY <1>5, <1>y, <1>l, <1>s DEF CopyWord, Shape, Sets
<1>6. ASSUME NEW w \in Val, ReadDone(t, w)
      PROVE  Shape(t)'
  <2> DEFINE a == [row |-> req[t].row, type |-> req[t].type, tid |-> v[t], read |-> copy[t],
                   val |-> IF req[t].type = "WR" THEN <<w, w>> ELSE copy[t]]
  <2>1. /\ pc[t] = "reload" /\ pc'[t] = "exec" /\ a.row = req[t].row
        /\ accesses'[t] = Append(accesses[t], a)
        /\ UNCHANGED <<write_set, num_locks, idx>>
    BY <1>6, <1>y DEF ReadDone
  <2> HIDE DEF a
  <2>2. /\ Len(accesses'[t]) = Len(accesses[t]) + 1
        /\ \A i \in 1..Len(accesses[t]) : accesses'[t][i] = accesses[t][i]
        /\ accesses'[t][Len(accesses[t]) + 1] = a
    BY <2>1, <1>y
  <2>3. \A i, j \in 1..Len(accesses'[t]) : accesses'[t][i].row = accesses'[t][j].row => i = j
    <3>1. \A i \in 1..Len(accesses[t]) : accesses[t][i].row # a.row
      BY <2>1 DEF Shape
    <3>2. \A i \in 1..Len(accesses'[t]) : i \in 1..Len(accesses[t]) \/ i = Len(accesses[t]) + 1
      BY <2>2, <1>l
    <3> QED
      BY <2>2, <3>1, <3>2, <1>s DEF Sets
  <2> QED
    BY <2>1, <2>3, <1>y, <1>l DEF Shape
<1>7. CASE ReadAgain(t)
  BY <1>7, <1>y, <1>l, <1>s DEF ReadAgain, Shape, Sets
<1>8. CASE StartValidate(t)
  <2> DEFINE W == {i \in DOMAIN accesses[t] : accesses[t][i].type = "WR"}
  <2>1. PICK ws \in SetToSeqs(W) : write_set' = [write_set EXCEPT ![t] = ws]
    BY <1>8 DEF StartValidate
  <2>2. W = {i \in 1..Len(accesses[t]) : accesses[t][i].type = "WR"}
    BY <1>y, LenProperties
  <2>3. IsFiniteSet(W) /\ W \in SUBSET Nat
    <3>1. Len(accesses[t]) \in Nat /\ W \subseteq 1..Len(accesses[t])
      BY <2>2, <1>l
    <3> HIDE DEF W
    <3> QED
      BY <3>1, PositionsFinite
  <2> HIDE DEF W
  <2>4. /\ ws \in Seq(Nat) /\ Len(ws) \in Nat
        /\ \A k \in 1..Len(ws) : ws[k] \in W
        /\ \A j, k \in 1..Len(ws) : ws[j] = ws[k] => j = k
    BY <2>3, SetToSeqsProperties, LenProperties
  <2>5. /\ pc[t] = "exec" /\ (pc'[t] = "pre" \/ pc'[t] = "lock") /\ write_set'[t] = ws
        /\ UNCHANGED <<accesses, num_locks, idx>>
    BY <1>8, <1>y, <2>1 DEF StartValidate
  <2>6. Sets(t)'
    BY <2>2, <2>4, <2>5, <1>s DEF Sets
  <2>7. num_locks'[t] = 0 /\ idx'[t] = 0 /\ Len(write_set'[t]) \in Nat
    BY <2>4, <2>5 DEF Shape
  <2>8. CASE pc'[t] = "pre"
    BY <2>6, <2>7, <2>8 DEF Shape, Sets
  <2>9. CASE pc'[t] = "lock"
    BY <2>6, <2>7, <2>9 DEF Shape, Sets
  <2> QED
    BY <2>5, <2>8, <2>9
<1>9. CASE PreAbort(t)
  BY <1>9, <1>y, <1>l, <1>s DEF PreAbort, Shape, Sets
<1>10. CASE TryLock(t)
  BY <1>10, <1>y, <1>l, <1>s DEF TryLock, Shape, Sets
<1>11. CASE LockRow(t)
  BY <1>11, <1>y, <1>l, <1>s DEF LockRow, Shape, Sets
<1>12. CASE LockFails(t)
  BY <1>12, <1>y, <1>l, <1>s DEF LockFails, Shape, Sets
<1>13. CASE Unlock(t)
  BY <1>13, <1>y, <1>l, <1>s DEF Unlock, Shape, Sets
<1>14. CASE Retry(t)
  BY <1>14, <1>y, <1>l, <1>s DEF Retry, Shape, Sets
<1>15. CASE AllLocked(t)
  BY <1>15, <1>y, <1>l, <1>s DEF AllLocked, Shape, Sets
<1>16. CASE ValidateRead(t)
  BY <1>16, <1>y, <1>l, <1>s DEF ValidateRead, Shape, Sets
<1>17. CASE ValidateWrites(t)
  <2>1. /\ pc[t] = "validate" /\ (pc'[t] = "write1" \/ pc'[t] = "abort") /\ idx'[t] = 0
        /\ UNCHANGED <<accesses, write_set, num_locks>>
    BY <1>17, <1>y DEF ValidateWrites
  <2>2. num_locks[t] = Len(write_set[t]) /\ Sets(t)'
    BY <2>1, <1>s DEF Shape
  <2>3. UNCHANGED <<accesses[t], write_set[t], num_locks[t]>> /\ num_locks[t] \in Nat
    BY <2>1, <1>y
  <2>4. CASE pc'[t] = "write1"
    BY <2>1, <2>2, <2>3, <2>4 DEF Shape, Sets
  <2>5. CASE pc'[t] = "abort"
    BY <2>1, <2>2, <2>3, <2>5 DEF Shape, Sets
  <2> QED
    BY <2>1, <2>4, <2>5
<1>18. CASE WriteWord(t)
  BY <1>18, <1>y, <1>l, <1>s DEF WriteWord, Shape, Sets
<1>19. CASE StoreTid(t)
  BY <1>19, <1>y, <1>l, <1>s DEF StoreTid, Shape, Sets
<1>20. CASE ReleaseRow(t)
  BY <1>20, <1>y, <1>l, <1>s DEF ReleaseRow, Shape, Sets
<1>21. CASE Commit(t) \/ Abort(t)
  <2>1. Cleanup(t)
    BY <1>21 DEF Commit, Abort
  <2> QED
    BY <2>1, <1>y DEF Cleanup, Shape
<1> QED
  BY <1>1, <1>2, <1>3, <1>4, <1>5, <1>6, <1>7, <1>8, <1>9, <1>10, <1>11, <1>12, <1>13, <1>14,
     <1>15, <1>16, <1>17, <1>18, <1>19, <1>20, <1>21 DEF Step

-----------------------------------------------------------------------------
(***************************************************************************)
(* The lock bits                                                           *)
(***************************************************************************)

\* Holds in one formula: in all its loops validate_silo releases, or has yet to
\* release, the rows from some position to num_locks.
First(t) == IF pc[t] = "validate" THEN 1 ELSE idx[t] + 1
Held(t) == {Acc(t, k).row : k \in First(t)..num_locks[t]}

\* Held says what Holds does.
LEMMA HoldsIsHeld ==
  ASSUME Types, NEW t \in Threads, Shape(t)
  PROVE  Holds(t) = Held(t)
<1>1. pc[t] \in PC /\ idx[t] \in Nat /\ num_locks[t] \in Nat
  BY DEF Types
<1>2. CASE pc[t] \in {"lock", "cas", "validate"}
  BY <1>1, <1>2 DEF Holds, Held, First, Shape
<1>3. CASE pc[t] \in {"unlock", "abort"}
  BY <1>1, <1>3 DEF Holds, Held, First, Shape
<1>4. CASE pc[t] \in {"write1", "write2", "store", "release"}
  BY <1>1, <1>4 DEF Holds, Held, First, Shape
<1>5. CASE pc[t] \in {"idle", "exec", "load", "copy1", "copy2", "reload", "pre"}
  <2>1. Holds(t) = {}
    BY <1>5 DEF Holds
  <2>2. First(t) = 1 /\ num_locks[t] = 0
    BY <1>5 DEF First, Shape
  <2> QED
    BY <2>1, <2>2 DEF Held
<1> QED
  BY <1>1, <1>2, <1>3, <1>4, <1>5 DEF PC

\* The inductive form of LockBit.
BitInv ==
  \A r \in Rows :
    /\ locked[r] <=> \E t \in Threads : r \in Held(t)
    /\ \A t, u \in Threads : r \in Held(t) /\ r \in Held(u) => t = u

\* What a step of t may do to the lock bits: nothing, set one that is not set, or
\* clear one that t holds.
Keeps(t) == locked' = locked /\ Held(t)' = Held(t)
Acquires(t, r) ==
  ~locked[r] /\ locked' = [locked EXCEPT ![r] = TRUE] /\ Held(t)' = Held(t) \cup {r}
Releases(t, r) ==
  r \in Held(t) /\ locked' = [locked EXCEPT ![r] = FALSE] /\ Held(t)' = Held(t) \ {r}

\* A step of t leaves what others hold alone.
LEMMA HeldElsewhere ==
  ASSUME NEW t \in Threads, NEW u \in Threads, u # t, Local(t)
  PROVE  Held(u)' = Held(u)
<1>1. /\ pc'[u] = pc[u] /\ idx'[u] = idx[u] /\ num_locks'[u] = num_locks[u]
      /\ accesses'[u] = accesses[u] /\ write_set'[u] = write_set[u]
  BY DEF Local
<1>2. First(u)' = First(u)
  BY <1>1 DEF First
<1>3. \A k : Acc(u, k)' = Acc(u, k)
  BY <1>1 DEF Acc
<1> QED
  BY <1>1, <1>2, <1>3 DEF Held

\* Such a step keeps BitInv.
LEMMA BitInvKept ==
  ASSUME Types, BitInv, NEW t \in Threads, Local(t),
         Keeps(t) \/ \E r \in Rows : Acquires(t, r) \/ Releases(t, r)
  PROVE  BitInv'
<1>1. \A u \in Threads : u # t => Held(u)' = Held(u)
  BY HeldElsewhere
<1>2. locked \in [Rows -> BOOLEAN]
  BY DEF Types
<1>3. CASE Keeps(t)
  BY <1>1, <1>3 DEF Keeps, BitInv
<1>4. ASSUME NEW r \in Rows, Acquires(t, r)
      PROVE  BitInv'
  <2>1. \A u \in Threads : r \notin Held(u)
    BY <1>4 DEF Acquires, BitInv
  <2>2. locked'[r] = TRUE /\ \A q \in Rows : q # r => locked'[q] = locked[q]
    BY <1>2, <1>4 DEF Acquires
  <2>3. Held(t)' = Held(t) \cup {r}
    BY <1>4 DEF Acquires
  <2> QED
    BY <1>1, <2>1, <2>2, <2>3 DEF BitInv
<1>5. ASSUME NEW r \in Rows, Releases(t, r)
      PROVE  BitInv'
  <2>1. \A u \in Threads : r \in Held(u) => u = t
    BY <1>5 DEF Releases, BitInv
  <2>2. locked'[r] = FALSE /\ \A q \in Rows : q # r => locked'[q] = locked[q]
    BY <1>2, <1>5 DEF Releases
  <2>3. Held(t)' = Held(t) \ {r}
    BY <1>5 DEF Releases
  <2> QED
    BY <1>1, <2>1, <2>2, <2>3 DEF BitInv
<1> QED
  BY <1>3, <1>4, <1>5

\* Every step is of this kind.
LEMMA HeldStep ==
  ASSUME Types, NEW t \in Threads, Shape(t), BitInv, Step(t)
  PROVE  Keeps(t) \/ \E r \in Rows : Acquires(t, r) \/ Releases(t, r)
<1> USE DEF Goto, rowVars, accessVars, validateVars, history
<1>y. /\ pc \in [Threads -> PC] /\ idx \in [Threads -> Nat] /\ num_locks \in [Threads -> Nat]
      /\ write_set \in [Threads -> Seq(Nat)] /\ accesses \in [Threads -> Seq(Access)]
      /\ Len(write_set[t]) \in Nat
  BY LenProperties DEF Types
<1>e. First(t) > num_locks[t] => Held(t) = {}
  BY <1>y DEF Held, First
<1>f. num_locks'[t] = 0 /\ idx'[t] = 0 => Held(t)' = {}
  <2> SUFFICES ASSUME num_locks'[t] = 0, idx'[t] = 0 PROVE Held(t)' = {}
    OBVIOUS
  <2>1. First(t)' = 1
    BY DEF First
  <2> QED
    BY <2>1 DEF Held
<1>a. accesses' = accesses /\ write_set' = write_set => \A k : Acc(t, k)' = Acc(t, k)
  BY DEF Acc
\* Before validation nothing is held.
<1>1. CASE \/ NewQuery(t) \/ RowBufferFull(t) \/ LoadWord(t) \/ CopyWord(t) \/ ReadAgain(t)
           \/ StartValidate(t) \/ PreAbort(t)
           \/ (\E r \in Rows, type \in {"RD", "WR"} : GetRow(t, r, type))
           \/ (\E w \in Val : ReadDone(t, w))
  <2>1. /\ pc[t] \in {"idle", "exec", "load", "copy1", "copy2", "reload", "pre"}
        /\ UNCHANGED <<locked, num_locks, idx>>
    BY <1>1 DEF NewQuery, RowBufferFull, LoadWord, CopyWord, ReadAgain, StartValidate, PreAbort,
                GetRow, ReadDone
  <2>2. num_locks[t] = 0 /\ idx[t] = 0
    BY <2>1 DEF Shape
  <2> QED
    BY <2>1, <2>2, <1>e, <1>f DEF Keeps, First
<1>2. CASE LockRow(t)
  <2> DEFINE n == num_locks[t]
             a == Acc(t, n + 1)
  <2>1. /\ pc[t] = "cas" /\ (pc'[t] = "abort" \/ pc'[t] = "lock") /\ ~locked[a.row]
        /\ locked' = [locked EXCEPT ![a.row] = TRUE]
        /\ UNCHANGED <<accesses, write_set, idx>> /\ num_locks'[t] = n + 1
    BY <1>2, <1>y DEF LockRow
  <2>2. idx[t] = 0 /\ n \in Nat /\ n + 1 \in 1..Len(write_set[t])
    BY <2>1, <1>y DEF Shape
  <2>3. First(t) = 1 /\ First(t)' = 1
    BY <2>1, <2>2 DEF First
  <2>4. Held(t)' = {Acc(t, k).row : k \in 1..(n + 1)}
    BY <2>1, <2>3, <1>a DEF Held
  <2>5. Held(t) = {Acc(t, k).row : k \in 1..n}
    BY <2>3 DEF Held
  <2>6. \A k : k \in 1..(n + 1) <=> k \in 1..n \/ k = n + 1
    BY <2>2
  <2>7. Held(t)' = Held(t) \cup {a.row}
    BY <2>4, <2>5, <2>6
  <2>8. a.row \in Rows
    BY <2>2, AccType
  <2> QED
    BY <2>1, <2>7, <2>8 DEF Acquires
<1>3. CASE Unlock(t) \/ ReleaseRow(t)
  <2> DEFINE n == num_locks[t]
             a == Acc(t, idx[t] + 1)
  <2>1. /\ pc[t] \in {"unlock", "abort", "release"} /\ pc'[t] # "validate" /\ idx[t] < n
        /\ locked' = [locked EXCEPT ![a.row] = FALSE]
        /\ UNCHANGED <<accesses, write_set, num_locks>> /\ idx'[t] = idx[t] + 1
    BY <1>3, <1>y DEF Unlock, ReleaseRow, Shape
  <2>2. idx[t] \in Nat /\ n \in Nat /\ n <= Len(write_set[t])
    BY <1>y DEF Shape
  <2>3. First(t) = idx[t] + 1 /\ First(t)' = idx[t] + 2
    BY <2>1, <2>2 DEF First
  <2>4. Held(t)' = {Acc(t, k).row : k \in (idx[t] + 2)..n}
    BY <2>1, <2>3, <1>a DEF Held
  <2>5. Held(t) = {Acc(t, k).row : k \in (idx[t] + 1)..n}
    BY <2>3 DEF Held
  <2>6. \A k : k \in (idx[t] + 1)..n <=> k \in (idx[t] + 2)..n \/ k = idx[t] + 1
    BY <2>1, <2>2
  <2>7. idx[t] + 1 \in 1..Len(write_set[t])
    BY <2>1, <2>2, <1>y
  <2>8. a.row \in Rows /\ \A j \in 1..Len(write_set[t]) : Acc(t, j).row = a.row => j = idx[t] + 1
    BY <2>7, AccType
  <2>9. ASSUME NEW k \in (idx[t] + 2)..n PROVE Acc(t, k).row # a.row
    <3>1. k \in 1..Len(write_set[t]) /\ k # idx[t] + 1
      BY <2>2, <1>y
    <3> QED
      BY <2>8, <3>1
  <2>10. a.row \in Held(t) /\ Held(t)' = Held(t) \ {a.row}
    BY <2>4, <2>5, <2>6, <2>9
  <2> QED
    BY <2>1, <2>8, <2>10 DEF Releases
<1>4. CASE StoreTid(t)
  <2> DEFINE r == Acc(t, idx[t] + 1).row
  <2>1. /\ pc[t] = "store" /\ pc'[t] = "release" /\ locked' = [locked EXCEPT ![r] = TRUE]
        /\ UNCHANGED <<accesses, write_set, idx, num_locks>>
    BY <1>4, <1>y DEF StoreTid
  <2>2. idx[t] + 1 \in First(t)..num_locks[t] /\ idx[t] + 1 \in 1..Len(write_set[t])
    BY <2>1, <1>y DEF Shape, First
  <2>3. r \in Rows
    BY <2>2, AccType
  <2>4. locked[r]
    BY <2>2, <2>3 DEF Held, BitInv
  <2>5. locked' = locked
    BY <2>1, <2>3, <2>4 DEF Types
  <2>6. Held(t)' = Held(t)
    BY <2>1, <1>a DEF Held, First
  <2> QED
    BY <2>5, <2>6 DEF Keeps
\* An attempt or a transaction ends once everything is released.
<1>5. CASE Retry(t) \/ Commit(t) \/ Abort(t)
  <2>1. /\ locked' = locked /\ idx'[t] = 0 /\ num_locks'[t] = 0
        /\ pc[t] \in {"unlock", "write1", "abort"} /\ idx[t] = num_locks[t]
    <3>1. CASE Retry(t)
      <4>1. config.bounded => config.pre_abort
        BY DEF Types, Sound
      <4> QED
        BY <3>1, <4>1, <1>y DEF Retry
    <3>2. CASE Commit(t)
      BY <3>2, <1>y DEF Commit, Cleanup, Shape
    <3>3. CASE Abort(t)
      BY <3>3, <1>y DEF Abort, Cleanup
    <3> QED
      BY <1>5, <3>1, <3>2, <3>3
  <2>2. First(t) > num_locks[t]
    BY <2>1, <1>y DEF First
  <2> QED
    BY <2>1, <2>2, <1>e, <1>f DEF Keeps
\* The other steps of validation.
<1>6. CASE TryLock(t) \/ LockFails(t) \/ AllLocked(t) \/ ValidateRead(t) \/ ValidateWrites(t) \/ WriteWord(t)
  <2>1. UNCHANGED <<locked, accesses, write_set, num_locks>>
    <3>1. config.no_wait
      BY DEF Types, Sound
    <3> QED
      BY <1>6, <3>1 DEF TryLock, LockFails, AllLocked, ValidateRead, ValidateWrites, WriteWord
  <2>2. First(t)' = First(t)
    <3>1. CASE TryLock(t) \/ LockFails(t) \/ AllLocked(t)
      BY <3>1, <1>y DEF TryLock, LockFails, AllLocked, First, Shape
    <3>2. CASE ValidateRead(t)
      BY <3>2, <1>y DEF ValidateRead, First
    <3>3. CASE ValidateWrites(t)
      BY <3>3, <1>y DEF ValidateWrites, First
    <3>4. CASE WriteWord(t)
      BY <3>4, <1>y DEF WriteWord, First
    <3> QED
      BY <1>6, <3>1, <3>2, <3>3, <3>4
  <2>3. Held(t)' = Held(t)
    BY <2>1, <2>2, <1>a DEF Held
  <2> QED
    BY <2>1, <2>3 DEF Keeps
<1> QED
  BY <1>1, <1>2, <1>3, <1>4, <1>5, <1>6 DEF Step

-----------------------------------------------------------------------------
(***************************************************************************)
(* The tids                                                                *)
(***************************************************************************)

\* The first row of the write set that does not have its new tid yet.
Todo(t) == IF pc[t] = "release" THEN idx[t] + 2 ELSE idx[t] + 1

\* The tid of a row only grows: what was read is not newer than the row, and what
\* is going to be stored is newer.
TidInv ==
  \A t \in Threads :
    /\ \A i \in 1..Len(accesses[t]) : accesses[t][i].tid <= tid[accesses[t][i].row]
    /\ pc[t] \in {"copy1", "copy2", "reload"} => v[t] <= tid[req[t].row]
    /\ pc[t] \in {"write1", "write2", "store", "release"} =>
         \A k \in Todo(t)..Len(write_set[t]) : tid[Acc(t, k).row] < cur_tid[t]

\* What t is writing back it holds.
LEMMA WritesHeld ==
  ASSUME Types, NEW t \in Threads, Shape(t), pc[t] \in {"write1", "write2", "store", "release"},
         NEW k \in (idx[t] + 1)..Len(write_set[t])
  PROVE  k \in 1..Len(write_set[t]) /\ Acc(t, k).row \in Held(t) /\ Acc(t, k).row \in Rows
<1>1. idx[t] \in Nat /\ Len(write_set[t]) \in Nat
  BY LenProperties DEF Types
<1>2. k \in First(t)..num_locks[t] /\ k \in 1..Len(write_set[t])
  BY <1>1 DEF Shape, First
<1> QED
  BY <1>2, AccType DEF Held

\* Only StoreTid changes a tid, and increases it.
LEMMA TidStep ==
  ASSUME Types, NEW t \in Threads, Shape(t), TidInv, Step(t)
  PROVE  \/ tid' = tid
         \/ /\ StoreTid(t)
            /\ Acc(t, idx[t] + 1).row \in Held(t) \cap Rows
            /\ tid[Acc(t, idx[t] + 1).row] < cur_tid[t]
            /\ tid' = [tid EXCEPT ![Acc(t, idx[t] + 1).row] = cur_tid[t]]
<1>1. CASE StoreTid(t)
  <2>1. pc[t] = "store" /\ tid' = [tid EXCEPT ![Acc(t, idx[t] + 1).row] = cur_tid[t]]
    BY <1>1 DEF StoreTid
  <2>2. idx[t] \in Nat /\ Len(write_set[t]) \in Nat
    BY LenProperties DEF Types
  <2>3. idx[t] + 1 \in (idx[t] + 1)..Len(write_set[t]) /\ Todo(t) = idx[t] + 1
    BY <2>1, <2>2 DEF Shape, Todo
  <2>4. Acc(t, idx[t] + 1).row \in Held(t) \cap Rows
    BY <2>1, <2>3, WritesHeld
  <2>5. tid[Acc(t, idx[t] + 1).row] < cur_tid[t]
    BY <2>1, <2>3 DEF TidInv
  <2> QED
    BY <1>1, <2>1, <2>4, <2>5
<1>2. CASE ~StoreTid(t)
  BY <1>2 DEF Step, NewQuery, RowBufferFull, GetRow, LoadWord, CopyWord, ReadDone, ReadAgain,
     StartValidate, PreAbort, TryLock, LockRow, LockFails, Unlock, Retry, AllLocked, ValidateRead,
     ValidateWrites, WriteWord, ReleaseRow, Commit, Abort, Cleanup, rowVars
<1> QED
  BY <1>1, <1>2

\* What a step does to accesses: it adds what has been read, it clears them, or it
\* leaves them alone.
LEMMA AccessesStep ==
  ASSUME Types, NEW t \in Threads, Step(t)
  PROVE  \/ accesses'[t] = accesses[t]
         \/ accesses'[t] = <<>> /\ pc'[t] = "idle"
         \/ \E w \in Val : ReadDone(t, w)
<1>1. accesses \in [Threads -> Seq(Access)] /\ pc \in [Threads -> PC]
  BY DEF Types
<1> QED
  BY <1>1 DEF Step, NewQuery, RowBufferFull, GetRow, LoadWord, CopyWord, ReadAgain,
     StartValidate, PreAbort, TryLock, LockRow, LockFails, Unlock, Retry, AllLocked, ValidateRead,
     ValidateWrites, WriteWord, StoreTid, ReleaseRow, Commit, Abort, Cleanup, Goto

\* What ReadDone adds.
LEMMA ReadDoneAdds ==
  ASSUME Types, NEW t \in Threads, NEW w \in Val, ReadDone(t, w)
  PROVE  LET n == Len(accesses[t]) IN
         /\ n \in Nat /\ Len(accesses'[t]) = n + 1
         /\ \A i \in 1..n : accesses'[t][i] = accesses[t][i]
         /\ accesses'[t][n + 1].row = req[t].row
         /\ accesses'[t][n + 1].tid = v[t]
         /\ accesses'[t][n + 1].read = copy[t]
         /\ accesses'[t][n + 1].type = "WR" => accesses'[t][n + 1].val = <<w, w>>
         /\ pc[t] = "reload" /\ pc'[t] = "exec" /\ ~locked[req[t].row] /\ tid[req[t].row] = v[t]
         /\ UNCHANGED <<data, tid, locked>>
<1> DEFINE n == Len(accesses[t])
           a == [row |-> req[t].row, type |-> req[t].type, tid |-> v[t], read |-> copy[t],
                 val |-> IF req[t].type = "WR" THEN <<w, w>> ELSE copy[t]]
<1>1. accesses[t] \in Seq(Access) /\ n \in Nat /\ t \in DOMAIN accesses /\ t \in DOMAIN pc
  BY LenProperties DEF Types
<1>2. accesses'[t] = Append(accesses[t], a)
  BY <1>1, ReadDone(t, w) DEF ReadDone
<1>3. /\ a.row = req[t].row /\ a.tid = v[t] /\ a.read = copy[t]
      /\ a.type = "WR" => a.val = <<w, w>>
  OBVIOUS
<1> HIDE DEF a
<1>4. /\ Len(accesses'[t]) = n + 1 /\ accesses'[t][n + 1] = a
      /\ \A i \in 1..n : accesses'[t][i] = accesses[t][i]
  BY <1>1, <1>2
<1>5. /\ pc[t] = "reload" /\ pc'[t] = "exec" /\ ~locked[req[t].row] /\ tid[req[t].row] = v[t]
      /\ UNCHANGED <<data, tid, locked>>
  BY <1>1, ReadDone(t, w) DEF ReadDone, SameWord, Goto, rowVars
<1> QED
  BY <1>1, <1>3, <1>4, <1>5

\* A step keeps TidInv.
LEMMA TidInvStep ==
  ASSUME Types, NEW t \in Threads, \A u \in Threads : Shape(u), BitInv, TidInv, Step(t), Local(t),
         Types'
  PROVE  TidInv'
<1>y. \A u \in Threads : /\ accesses[u] \in Seq(Access) /\ Len(accesses[u]) \in Nat
                         /\ Len(write_set[u]) \in Nat /\ idx[u] \in Nat /\ v[u] \in Nat
                         /\ num_locks[u] \in Nat /\ cur_tid[u] \in Nat /\ req[u].row \in Rows
                         /\ pc[u] \in PC
  BY LenProperties DEF Types, Request
<1>z. pc \in [Threads -> PC] /\ idx \in [Threads -> Nat] /\ v \in [Threads -> Nat] /\ req \in [Threads -> Request]
      /\ tid \in [Rows -> Nat] /\ tid' \in [Rows -> Nat] /\ cur_tid \in [Threads -> Nat]
  BY DEF Types
<1>a. \A u \in Threads : \A i \in 1..Len(accesses[u]) :
        accesses[u][i].row \in Rows /\ accesses[u][i].tid \in Nat
  BY <1>y, AccessOf
<1>s. \/ tid' = tid
      \/ \E r \in Held(t) \cap Rows : tid[r] < cur_tid[t] /\ tid' = [tid EXCEPT ![r] = cur_tid[t]]
  <2>1. Shape(t)
    OBVIOUS
  <2> QED
    BY <2>1, TidStep, Zenon
<1>g. \A r \in Rows : tid[r] <= tid'[r]
  BY <1>s, <1>z, <1>y
<1>1. ASSUME NEW u \in Threads, NEW i \in 1..Len(accesses'[u])
      PROVE  accesses'[u][i].tid <= tid'[accesses'[u][i].row]
  <2>1. CASE accesses'[u] = accesses[u]
    <3>1. /\ accesses[u][i].tid <= tid[accesses[u][i].row]
          /\ accesses[u][i].row \in Rows /\ accesses[u][i].tid \in Nat
      BY <2>1, <1>a DEF TidInv
    <3>2. tid[accesses[u][i].row] \in Nat /\ tid'[accesses[u][i].row] \in Nat
      BY <3>1, <1>z
    <3> QED
      BY <2>1, <1>g, <3>1, <3>2
  <2>2. CASE u = t /\ accesses'[t] = <<>>
    BY <2>2
  <2>3. ASSUME u = t, NEW w \in Val, ReadDone(t, w)
        PROVE  accesses'[u][i].tid <= tid'[accesses'[u][i].row]
    <3> DEFINE n == Len(accesses[t])
    <3>1. /\ n \in Nat /\ Len(accesses'[t]) = n + 1 /\ tid' = tid
          /\ \A j \in 1..n : accesses'[t][j] = accesses[t][j]
          /\ accesses'[t][n + 1].row = req[t].row /\ accesses'[t][n + 1].tid = v[t]
          /\ tid[req[t].row] = v[t]
      BY <2>3, ReadDoneAdds
    <3>2. CASE i \in 1..n
      BY <2>3, <3>1, <3>2 DEF TidInv
    <3>3. CASE i = n + 1
      BY <2>3, <3>1, <3>3, <1>y
    <3> QED
      BY <2>3, <3>1, <3>2, <3>3
  <2> QED
    BY <2>1, <2>2, <2>3, AccessesStep DEF Local
<1>2. ASSUME NEW u \in Threads, pc'[u] \in {"copy1", "copy2", "reload"}
      PROVE  v'[u] <= tid'[req'[u].row]
  <2>1. CASE u # t
    <3>1. pc[u] = pc'[u] /\ v'[u] = v[u] /\ req'[u] = req[u]
      BY <2>1 DEF Local
    <3>2. v[u] <= tid[req[u].row]
      BY <3>1, <1>2 DEF TidInv
    <3>3. tid[req[u].row] \in Nat /\ tid'[req[u].row] \in Nat
      BY <1>y, <1>z
    <3> QED
      BY <3>1, <3>2, <3>3, <1>y, <1>g
  <2>2. CASE u = t
    <3>1. LoadWord(t) \/ CopyWord(t)
      BY <2>2, <1>2, <1>z, ZenonT(30) DEF Step, NewQuery, RowBufferFull, GetRow, ReadDone, ReadAgain, Goto,
         StartValidate, PreAbort, TryLock, LockRow, LockFails, Unlock, Retry, AllLocked, ValidateRead,
         ValidateWrites, WriteWord, StoreTid, ReleaseRow, Commit, Abort, Cleanup
    <3>2. CASE LoadWord(t)
      BY <2>2, <3>2, <1>y, <1>z DEF LoadWord, rowVars
    <3>3. CASE CopyWord(t)
      BY <2>2, <3>3, <1>y DEF CopyWord, rowVars, TidInv
    <3> QED
      BY <3>1, <3>2, <3>3
  <2> QED
    BY <2>1, <2>2
<1>3. ASSUME NEW u \in Threads, pc'[u] \in {"write1", "write2", "store", "release"},
             NEW k \in Todo(u)'..Len(write_set'[u])
      PROVE  tid'[Acc(u, k)'.row] < cur_tid'[u]
  <2>1. CASE u # t
    <3>1. /\ pc[u] = pc'[u] /\ idx[u] = idx'[u] /\ write_set[u] = write_set'[u]
          /\ accesses'[u] = accesses[u] /\ cur_tid'[u] = cur_tid[u]
      BY <2>1 DEF Local
    <3>2. Todo(u)' = Todo(u) /\ Acc(u, k)' = Acc(u, k)
      BY <3>1 DEF Todo, Acc
    <3>3. tid[Acc(u, k).row] < cur_tid[u]
      BY <3>1, <3>2, <1>3 DEF TidInv
    <3>4. k \in (idx[u] + 1)..Len(write_set[u])
      BY <3>1, <3>2, <1>y DEF Todo
    <3>5. Acc(u, k).row \in Held(u) /\ Acc(u, k).row \in Rows
      BY <3>1, <3>4, <1>3, WritesHeld
    <3>6. tid'[Acc(u, k).row] = tid[Acc(u, k).row]
      BY <2>1, <3>5, <1>s, <1>z DEF BitInv
    <3> QED
      BY <3>1, <3>2, <3>3, <3>6
  <2>2. CASE u = t
    <3>1. ValidateWrites(t) \/ WriteWord(t) \/ StoreTid(t) \/ ReleaseRow(t)
      BY <2>2, <1>3, <1>z, ZenonT(30) DEF Step, NewQuery, RowBufferFull, GetRow, ReadDone, ReadAgain, Goto,
         StartValidate, PreAbort, TryLock, LockRow, LockFails, Unlock, Retry, AllLocked, ValidateRead,
         LoadWord, CopyWord, Commit, Abort, Cleanup
    <3>2. CASE ValidateWrites(t)
      <4>1. /\ cur_tid'[t] = NextTid(t) /\ UNCHANGED <<tid, accesses, write_set>> /\ idx'[t] = 0
            /\ \A j \in DOMAIN write_set[t] : tid[Acc(t, j).row] = Acc(t, j).tid
            /\ pc'[t] = "write1"
        BY <2>2, <3>2, <1>3, <1>z DEF ValidateWrites, Goto, rowVars
      <4>2. k \in 1..Len(write_set[t]) /\ k \in DOMAIN write_set[t] /\ Acc(t, k)' = Acc(t, k)
        BY <2>2, <4>1, <1>y, LenProperties DEF Todo, Acc, Types
      <4>3. write_set[t][k] \in 1..Len(accesses[t])
        BY <4>2, AccType
      <4>4. Acc(t, k).tid < NextTid(t)
        BY <4>3, NextTidLarger DEF Acc
      <4> QED
        BY <2>2, <4>1, <4>2, <4>4
    <3>3. CASE WriteWord(t)
      <4>1. /\ pc[t] \in {"write1", "write2"} /\ pc'[t] \in {"write2", "store"}
            /\ UNCHANGED <<tid, accesses, write_set, idx, cur_tid>>
        BY <3>3, <1>z DEF WriteWord, Goto, validateVars
      <4>2. Todo(t)' = Todo(t) /\ Acc(t, k)' = Acc(t, k)
        BY <4>1 DEF Todo, Acc
      <4> QED
        BY <2>2, <4>1, <4>2 DEF TidInv
    <3>4. CASE StoreTid(t)
      <4> DEFINE r == Acc(t, idx[t] + 1).row
      <4>1. /\ pc[t] = "store" /\ pc'[t] = "release" /\ tid' = [tid EXCEPT ![r] = cur_tid[t]]
            /\ UNCHANGED <<accesses, write_set, idx, cur_tid>>
        BY <3>4, <1>z DEF StoreTid, Goto, validateVars
      <4>2. Todo(t)' = idx[t] + 2 /\ Todo(t) = idx[t] + 1 /\ Acc(t, k)' = Acc(t, k)
        BY <4>1 DEF Todo, Acc
      <4>3. k \in (idx[t] + 1)..Len(write_set[t]) /\ k # idx[t] + 1
        BY <2>2, <4>1, <4>2, <1>y
      <4>4. /\ k \in 1..Len(write_set[t]) /\ idx[t] + 1 \in 1..Len(write_set[t])
            /\ idx[t] + 1 \in (idx[t] + 1)..Len(write_set[t])
        BY <4>3, <1>y
      <4>5. Acc(t, k).row # r /\ Acc(t, k).row \in Rows
        BY <4>3, <4>4, AccType
      <4>6. tid[Acc(t, k).row] < cur_tid[t]
        BY <4>1, <4>2, <4>3 DEF TidInv
      <4>7. tid'[Acc(t, k).row] = tid[Acc(t, k).row]
        BY <4>1, <4>5, <1>z
      <4> QED
        BY <2>2, <4>1, <4>2, <4>6, <4>7
    <3>5. CASE ReleaseRow(t)
      <4>1. /\ pc[t] = "release" /\ pc'[t] = "write1" /\ idx'[t] = idx[t] + 1
            /\ UNCHANGED <<tid, accesses, write_set, cur_tid>>
        BY <3>5, <1>z DEF ReleaseRow, Goto
      <4>2. Todo(t)' = idx[t] + 1 + 1 /\ Todo(t) = idx[t] + 2 /\ Acc(t, k)' = Acc(t, k)
        BY <4>1 DEF Todo, Acc
      <4>3. k \in Todo(t)..Len(write_set[t])
        BY <2>2, <4>1, <4>2, <1>y
      <4> QED
        BY <2>2, <4>1, <4>2, <4>3 DEF TidInv
    <3> QED
      BY <3>1, <3>2, <3>3, <3>4, <3>5
  <2> QED
    BY <2>1, <2>2
<1> QED
  BY <1>1, <1>2, <1>3 DEF TidInv

-----------------------------------------------------------------------------
(***************************************************************************)
(* The copies                                                              *)
(***************************************************************************)

\* Row_silo::write has begun to change row r, which still has its old tid.
Writing(t, r) == pc[t] \in {"write2", "store"} /\ Acc(t, idx[t] + 1).row = r
Dirty(r) == \E t \in Threads : Writing(t, r)

\* Unless the row is being overwritten or has a new tid, it has the contents that
\* were read under its tid; both words of a row are equal unless one of them has just
\* been overwritten.
Read(t) ==
  \A i \in 1..Len(accesses[t]) :
    LET a == accesses[t][i] IN
    /\ \A r \in Rows : a.row = r /\ ~Dirty(r) /\ tid[r] = a.tid => data[r] = a.read
    /\ a.read[1] = a.read[2]
    /\ a.type = "WR" => a.val[1] = a.val[2]
Copied(t) ==
  \A r \in Rows :
    pc[t] \in {"copy2", "reload"} /\ req[t].row = r /\ ~Dirty(r) /\ tid[r] = v[t] =>
      copy[t][1] = data[r][1] /\ (pc[t] = "reload" => copy[t][2] = data[r][2])
Written(t) ==
  LET a == Acc(t, idx[t] + 1) IN
  /\ pc[t] \in {"write2", "store"} => data[a.row][1] = a.val[1]
  /\ pc[t] = "store" => data[a.row][2] = a.val[2]
DataInv ==
  /\ \A t \in Threads : Read(t) /\ Copied(t) /\ Written(t)
  /\ \A r \in Rows : ~Dirty(r) => data[r][1] = data[r][2]

\* Two copies with the same words are the same.
LEMMA WordsEqual ==
  ASSUME NEW x \in Words, NEW y \in Words, x[1] = y[1], x[2] = y[2]
  PROVE  x = y
BY DEF Words

\* A row that is not locked is not being overwritten.
LEMMA UnlockedIsClean ==
  ASSUME Types, \A t \in Threads : Shape(t), BitInv, NEW r \in Rows, ~locked[r]
  PROVE  ~Dirty(r)
<1> SUFFICES ASSUME NEW t \in Threads, Writing(t, r) PROVE FALSE
  BY DEF Dirty
<1>1. pc[t] \in {"write2", "store"} /\ Acc(t, idx[t] + 1).row = r /\ Shape(t)
  BY DEF Writing
<1>2. idx[t] + 1 \in (idx[t] + 1)..Len(write_set[t])
  BY <1>1, LenProperties DEF Shape, Types
<1>3. r \in Held(t)
  BY <1>1, <1>2, WritesHeld
<1> QED
  BY <1>3 DEF BitInv

\* Which rows are being overwritten changes with WriteWord and StoreTid only.
LEMMA WritingElsewhere ==
  ASSUME NEW t \in Threads, NEW u \in Threads, u # t, Local(t), NEW r
  PROVE  Writing(u, r)' <=> Writing(u, r)
<1>1. /\ pc'[u] = pc[u] /\ idx'[u] = idx[u]
      /\ accesses'[u] = accesses[u] /\ write_set'[u] = write_set[u]
  BY DEF Local
<1>2. Acc(u, idx[u] + 1)' = Acc(u, idx[u] + 1)
  BY <1>1 DEF Acc
<1> QED
  BY <1>1, <1>2 DEF Writing

\* The row that WriteWord and StoreTid of t work on.
LEMMA WritingNow ==
  ASSUME Types, NEW t \in Threads, Shape(t), WriteWord(t) \/ StoreTid(t)
  PROVE  /\ idx[t] + 1 \in 1..Len(write_set[t]) /\ Acc(t, idx[t] + 1).row \in Rows
         /\ Acc(t, idx[t] + 1).val \in Words
         /\ Acc(t, idx[t] + 1)' = Acc(t, idx[t] + 1) /\ idx'[t] = idx[t]
         /\ UNCHANGED accesses
<1>1. /\ pc[t] \in {"write1", "write2", "store"} /\ UNCHANGED <<accesses, write_set, idx>>
      /\ idx[t] < Len(write_set[t])
  BY DEF WriteWord, StoreTid, validateVars, Shape
<1>2. idx[t] + 1 \in 1..Len(write_set[t])
  BY <1>1, LenProperties DEF Types
<1> QED
  BY <1>1, <1>2, AccType DEF Acc

\* The steps that touch no row and begin or end no write.
LEMMA QuietRows ==
  ASSUME Types, NEW t \in Threads, Shape(t), Step(t), Local(t), ~WriteWord(t), ~StoreTid(t)
  PROVE  /\ UNCHANGED <<data, tid>> /\ pc[t] \notin {"write2", "store"} /\ pc'[t] \notin {"write2", "store"}
         /\ \A r : Dirty(r)' <=> Dirty(r)
<1>1. pc \in [Threads -> PC]
  BY DEF Types
<1>2. UNCHANGED <<data, tid>>
  BY DEF Step, NewQuery, RowBufferFull, GetRow, LoadWord, CopyWord, ReadDone, ReadAgain,
     StartValidate, PreAbort, TryLock, LockRow, LockFails, Unlock, Retry, AllLocked, ValidateRead,
     ValidateWrites, ReleaseRow, Commit, Abort, Cleanup, rowVars
<1>3. pc[t] \notin {"write2", "store"}
  BY DEF Step, NewQuery, RowBufferFull, GetRow, LoadWord, CopyWord, ReadDone, ReadAgain,
     StartValidate, PreAbort, TryLock, LockRow, LockFails, Unlock, Retry, AllLocked, ValidateRead,
     ValidateWrites, ReleaseRow, Commit, Abort
<1>4. pc'[t] \notin {"write2", "store"}
  BY <1>1, <1>3 DEF Step, NewQuery, RowBufferFull, GetRow, LoadWord, CopyWord, ReadDone, ReadAgain,
     StartValidate, PreAbort, TryLock, LockRow, LockFails, Unlock, Retry, AllLocked, ValidateRead,
     ValidateWrites, ReleaseRow, Commit, Abort, Cleanup, Goto
<1>5. ASSUME NEW r PROVE Dirty(r)' <=> Dirty(r)
  <2>1. ~Writing(t, r) /\ ~Writing(t, r)'
    BY <1>3, <1>4 DEF Writing
  <2>2. \A u \in Threads : u # t => (Writing(u, r)' <=> Writing(u, r))
    BY WritingElsewhere
  <2> QED
    BY <2>1, <2>2 DEF Dirty
<1> QED
  BY <1>2, <1>3, <1>4, <1>5

\* A row that is clean after a step and still has a tid x it has had is a row that
\* the step has not touched.
LEMMA RowStep ==
  ASSUME Types, NEW t \in Threads, Shape(t), TidInv, Step(t), Local(t),
         NEW r \in Rows, NEW x \in Nat, x <= tid[r], ~Dirty(r)', tid'[r] = x
  PROVE  ~Dirty(r) /\ tid[r] = x /\ data'[r] = data[r]
<1>1. CASE ~WriteWord(t) /\ ~StoreTid(t)
  BY <1>1, QuietRows
<1> DEFINE q == Acc(t, idx[t] + 1).row
<1>2. ASSUME r # q, WriteWord(t) \/ StoreTid(t)
      PROVE  ~Dirty(r) /\ tid[r] = x /\ data'[r] = data[r]
  <2>1. ~Writing(t, r)
    BY <1>2 DEF Writing
  <2>2. \A u \in Threads : u # t => (Writing(u, r)' <=> Writing(u, r))
    BY WritingElsewhere
  <2>3. tid'[r] = tid[r] /\ data'[r] = data[r]
    BY <1>2 DEF WriteWord, StoreTid, Types
  <2> QED
    BY <2>1, <2>2, <2>3 DEF Dirty
<1>3. ASSUME r = q, WriteWord(t) PROVE FALSE
  <2>1. pc'[t] \in {"write2", "store"}
    BY <1>3 DEF WriteWord, Goto, Types
  <2>2. Writing(t, r)'
    BY <1>3, <2>1, WritingNow DEF Writing
  <2> QED
    BY <2>2 DEF Dirty
<1>4. ASSUME r = q, StoreTid(t) PROVE FALSE
  <2>1. /\ pc[t] = "store" /\ tid' = [tid EXCEPT ![r] = cur_tid[t]]
        /\ idx[t] + 1 \in Todo(t)..Len(write_set[t])
    <3>1. pc[t] = "store" /\ tid' = [tid EXCEPT ![r] = cur_tid[t]]
      BY <1>4 DEF StoreTid
    <3>2. idx[t] + 1 \in 1..Len(write_set[t]) /\ idx[t] \in Nat /\ Len(write_set[t]) \in Nat
      BY <1>4, WritingNow, LenProperties DEF Types
    <3>3. Todo(t) = idx[t] + 1
      BY <3>1 DEF Todo
    <3> QED
      BY <3>1, <3>2, <3>3
  <2>2. tid[r] < cur_tid[t]
    BY <1>4, <2>1 DEF TidInv
  <2>3. tid'[r] = cur_tid[t] /\ tid[r] \in Nat /\ cur_tid[t] \in Nat
    BY <2>1 DEF Types
  <2> QED
    BY <2>2, <2>3
<1> QED
  BY <1>1, <1>2, <1>3, <1>4

\* A step keeps DataInv.
LEMMA DataInvStep ==
  ASSUME Types, Types', NEW t \in Threads, \A u \in Threads : Shape(u), \A u \in Threads : Shape(u)',
         BitInv, BitInv', TidInv, DataInv, Step(t), Local(t)
  PROVE  DataInv'
<1>y. \A u \in Threads : /\ accesses[u] \in Seq(Access) /\ Len(accesses[u]) \in Nat
                         /\ v[u] \in Nat /\ req[u].row \in Rows /\ copy[u] \in Words /\ Shape(u)
  BY LenProperties DEF Types, Request
<1>z. /\ pc \in [Threads -> PC] /\ tid \in [Rows -> Nat] /\ data \in [Rows -> Words]
      /\ copy \in [Threads -> Words] /\ data' \in [Rows -> Words] /\ idx \in [Threads -> Nat]
  BY DEF Types
<1>a. \A u \in Threads : \A i \in 1..Len(accesses[u]) :
        accesses[u][i].row \in Rows /\ accesses[u][i].tid \in Nat
  BY <1>y, AccessOf
\* What Read and Copied say of a row survives the step.
<1>s. \A r \in Rows, x \in Nat : x <= tid[r] /\ ~Dirty(r)' /\ tid'[r] = x
                                   => ~Dirty(r) /\ tid[r] = x /\ data'[r] = data[r]
  BY <1>y, RowStep
<1>1. ASSUME NEW u \in Threads PROVE Read(u)'
  <2> SUFFICES ASSUME NEW i \in 1..Len(accesses'[u]), NEW r \in Rows
               PROVE  /\ accesses'[u][i].row = r /\ ~Dirty(r)' /\ tid'[r] = accesses'[u][i].tid
                           => data'[r] = accesses'[u][i].read
                      /\ accesses'[u][i].read[1] = accesses'[u][i].read[2]
                      /\ accesses'[u][i].type = "WR" => accesses'[u][i].val[1] = accesses'[u][i].val[2]
    <3>1. Rows # {}
      BY <1>y
    <3> QED
      BY <3>1 DEF Read
  <2> DEFINE a == accesses'[u][i]
             Good == /\ a.row = r /\ ~Dirty(r)' /\ tid'[r] = a.tid => data'[r] = a.read
                     /\ a.read[1] = a.read[2]
                     /\ a.type = "WR" => a.val[1] = a.val[2]
  <2> SUFFICES Good
    OBVIOUS
  <2>1. ASSUME i \in 1..Len(accesses[u]), accesses'[u][i] = accesses[u][i]
        PROVE  Good
    <3> DEFINE b == accesses[u][i]
    <3>1. /\ b.row = r /\ ~Dirty(r) /\ tid[r] = b.tid => data[r] = b.read
          /\ b.read[1] = b.read[2] /\ (b.type = "WR" => b.val[1] = b.val[2])
          /\ b.tid <= tid[b.row] /\ b.tid \in Nat
      BY <2>1, <1>a DEF DataInv, Read, TidInv
    <3>2. a = b
      BY <2>1
    <3> HIDE DEF a, b
    <3>3. b.row = r /\ ~Dirty(r)' /\ tid'[r] = b.tid => data'[r] = b.read
      BY <3>1, <1>s
    <3> QED
      BY <3>1, <3>2, <3>3 DEF a
  <2>2. CASE accesses'[u] = accesses[u]
    BY <2>1, <2>2
  <2>3. CASE u = t /\ accesses'[t] = <<>>
    BY <2>3
  <2>4. ASSUME u = t, NEW w \in Val, ReadDone(t, w)
        PROVE  Good
    <3> DEFINE n == Len(accesses[t])
    <3>1. /\ n \in Nat /\ Len(accesses'[t]) = n + 1 /\ UNCHANGED <<data, tid, locked>>
          /\ \A j \in 1..n : accesses'[t][j] = accesses[t][j]
          /\ accesses'[t][n + 1].row = req[t].row /\ accesses'[t][n + 1].tid = v[t]
          /\ accesses'[t][n + 1].read = copy[t]
          /\ accesses'[t][n + 1].type = "WR" => accesses'[t][n + 1].val = <<w, w>>
          /\ tid[req[t].row] = v[t] /\ ~locked[req[t].row] /\ pc[t] = "reload"
      BY <2>4, ReadDoneAdds
    <3>2. CASE i \in 1..n
      BY <2>1, <2>4, <3>1, <3>2
    <3>3. CASE i = n + 1
      <4>1. req[t].row \in Rows /\ ~Dirty(req[t].row)
        BY <3>1, <1>y, UnlockedIsClean
      <4>2. /\ copy[t][1] = data[req[t].row][1] /\ copy[t][2] = data[req[t].row][2]
            /\ data[req[t].row][1] = data[req[t].row][2]
        BY <3>1, <4>1 DEF DataInv, Copied
      <4>3. data[req[t].row] = copy[t]
        BY <4>1, <4>2, <1>y, <1>z, WordsEqual
      <4>4. a.row = req[t].row /\ a.read = copy[t] /\ (a.type = "WR" => a.val = <<w, w>>)
        BY <2>4, <3>1, <3>3
      <4> HIDE DEF a
      <4> QED
        BY <3>1, <4>2, <4>3, <4>4 DEF a
    <3> QED
      BY <2>4, <3>1, <3>2, <3>3
  <2> QED
    BY <2>2, <2>3, <2>4, AccessesStep DEF Local
<1>2. ASSUME NEW u \in Threads PROVE Copied(u)'
  <2> SUFFICES ASSUME NEW r \in Rows, pc'[u] \in {"copy2", "reload"}, req'[u].row = r,
                      ~Dirty(r)', tid'[r] = v'[u]
               PROVE  copy'[u][1] = data'[r][1] /\ (pc'[u] = "reload" => copy'[u][2] = data'[r][2])
    BY DEF Copied
  <2>1. CASE u # t
    <3>1. pc[u] = pc'[u] /\ v'[u] = v[u] /\ req'[u] = req[u] /\ copy'[u] = copy[u]
      BY <2>1 DEF Local
    <3>2. v[u] \in Nat /\ v[u] <= tid[r]
      BY <3>1, <1>y DEF TidInv
    <3>3. ~Dirty(r) /\ tid[r] = v[u] /\ data'[r] = data[r]
      BY <3>1, <3>2, <1>s
    <3> QED
      BY <3>1, <3>3 DEF DataInv, Copied
  <2>2. CASE u = t
    <3>1. CopyWord(t)
      BY <2>2, <1>z, ZenonT(30) DEF Step, NewQuery, RowBufferFull, GetRow, LoadWord, ReadDone, ReadAgain, Goto,
         StartValidate, PreAbort, TryLock, LockRow, LockFails, Unlock, Retry, AllLocked, ValidateRead,
         ValidateWrites, WriteWord, StoreTid, ReleaseRow, Commit, Abort, Cleanup
    <3>2. /\ ~WriteWord(t) /\ ~StoreTid(t) /\ UNCHANGED <<data, tid, v, req>>
      BY <3>1 DEF CopyWord, WriteWord, StoreTid, rowVars
    <3>3. req[t].row = r /\ ~Dirty(r) /\ tid[r] = v[t]
      <4>1. ~Dirty(r)
        BY <3>2, <1>y, QuietRows
      <4> QED
        BY <2>2, <3>2, <4>1
    <3>4. CASE pc[t] = "copy1"
      <4>1. pc'[t] = "copy2" /\ copy' = [copy EXCEPT ![t][1] = data[r][1]]
        BY <3>3, <3>1, <3>4, <1>z DEF CopyWord, Goto
      <4>2. copy'[t] = [copy[t] EXCEPT ![1] = data[r][1]]
        BY <4>1, <1>z
      <4>3. copy'[t][1] = data[r][1]
        BY <4>2, <1>y DEF Words
      <4> QED
        BY <2>2, <3>2, <4>1, <4>3
    <3>5. CASE pc[t] = "copy2"
      <4>1. copy' = [copy EXCEPT ![t][2] = data[r][2]]
        BY <3>3, <3>1, <3>5 DEF CopyWord
      <4>2. copy'[t] = [copy[t] EXCEPT ![2] = data[r][2]]
        BY <4>1, <1>z
      <4>3. copy'[t][2] = data[r][2] /\ copy'[t][1] = copy[t][1]
        BY <4>2, <1>y DEF Words
      <4>4. copy[t][1] = data[r][1]
        BY <2>2, <3>3, <3>5 DEF DataInv, Copied
      <4> QED
        BY <2>2, <3>2, <4>3, <4>4
    <3> QED
      BY <3>1, <3>4, <3>5 DEF CopyWord
  <2> QED
    BY <2>1, <2>2
<1>3. ASSUME NEW u \in Threads PROVE Written(u)'
  <2> DEFINE b == Acc(u, idx[u] + 1)
  <2> SUFFICES ASSUME pc'[u] \in {"write2", "store"}
               PROVE  LET c == Acc(u, idx[u] + 1)' IN
                      data'[c.row][1] = c.val[1] /\ (pc'[u] = "store" => data'[c.row][2] = c.val[2])
    BY DEF Written
  <2>1. CASE u # t
    <3>1. /\ pc[u] = pc'[u] /\ idx'[u] = idx[u] /\ write_set'[u] = write_set[u] /\ accesses'[u] = accesses[u]
          /\ Acc(u, idx[u] + 1)' = b
      BY <2>1 DEF Local, Acc
    <3>2. data[b.row][1] = b.val[1] /\ (pc[u] = "store" => data[b.row][2] = b.val[2])
      BY <3>1 DEF DataInv, Written
    <3>3. b.row \in Held(u) /\ b.row \in Rows
      <4>1. idx[u] + 1 \in (idx[u] + 1)..Len(write_set[u])
        <5>1. idx[u] \in Nat /\ Len(write_set[u]) \in Nat /\ idx[u] < Len(write_set[u])
          <6>1. idx[u] \in Nat /\ Len(write_set[u]) \in Nat
            BY LenProperties DEF Types
          <6> QED
            BY <3>1, <1>y, <6>1 DEF Shape
        <5> QED
          BY <5>1
      <4> QED
        BY <3>1, <4>1, <1>y, WritesHeld
    <3>4. data'[b.row] = data[b.row]
      <4>1. CASE WriteWord(t)
        <5>1. pc[t] \in {"write1", "write2"} /\ idx[t] + 1 \in (idx[t] + 1)..Len(write_set[t])
          <6>1. idx[t] \in Nat /\ Len(write_set[t]) \in Nat
            BY LenProperties DEF Types
          <6> QED
            BY <4>1, <6>1 DEF WriteWord
        <5>2. Acc(t, idx[t] + 1).row \in Held(t)
          BY <5>1, <1>y, WritesHeld
        <5>3. Acc(t, idx[t] + 1).row # b.row
          BY <2>1, <3>3, <5>2 DEF BitInv
        <5> QED
          BY <4>1, <3>3, <5>3, <1>z DEF WriteWord
      <4>2. CASE StoreTid(t)
        BY <4>2 DEF StoreTid
      <4>3. CASE ~WriteWord(t) /\ ~StoreTid(t)
        BY <4>3, <1>y, QuietRows
      <4> QED
        BY <4>1, <4>2, <4>3
    <3> QED
      BY <3>1, <3>2, <3>4
  <2>2. CASE u = t
    <3>1. WriteWord(t)
      <4>1. CASE StoreTid(t)
        BY <2>2, <4>1, <1>z DEF StoreTid, Goto
      <4>2. CASE ~WriteWord(t) /\ ~StoreTid(t)
        BY <2>2, <4>2, <1>y, QuietRows
      <4> QED
        BY <4>1, <4>2
    <3>2. Acc(t, idx[t] + 1)' = b /\ b.row \in Rows /\ b.val \in Words
      BY <2>2, <3>1, <1>y, WritingNow
    <3>3. data[b.row] \in Words
      BY <3>2, <1>z
    <3>4. CASE pc[t] = "write1"
      <4>1. pc'[t] = "write2" /\ data' = [data EXCEPT ![b.row][1] = b.val[1]]
        BY <2>2, <3>1, <3>4, <1>z DEF WriteWord, Goto
      <4>2. data'[b.row] = [data[b.row] EXCEPT ![1] = b.val[1]]
        BY <4>1, <3>2, <1>z
      <4>3. data'[b.row][1] = b.val[1]
        BY <4>2, <3>3 DEF Words
      <4> QED
        BY <2>2, <3>2, <4>1, <4>3
    <3>5. CASE pc[t] = "write2"
      <4>1. data' = [data EXCEPT ![b.row][2] = b.val[2]]
        BY <2>2, <3>1, <3>5, <1>z DEF WriteWord
      <4>2. data'[b.row] = [data[b.row] EXCEPT ![2] = b.val[2]]
        BY <4>1, <3>2, <1>z
      <4>3. data'[b.row][2] = b.val[2] /\ data'[b.row][1] = data[b.row][1]
        BY <4>2, <3>3 DEF Words
      <4>4. data[b.row][1] = b.val[1]
        BY <2>2, <3>5 DEF DataInv, Written
      <4> QED
        BY <2>2, <3>2, <4>3, <4>4
    <3> QED
      BY <3>1, <3>4, <3>5 DEF WriteWord
  <2> QED
    BY <2>1, <2>2
<1>4. ASSUME NEW r \in Rows, ~Dirty(r)' PROVE data'[r][1] = data'[r][2]
  <2> DEFINE b == Acc(t, idx[t] + 1)
  <2>1. CASE StoreTid(t) /\ r = b.row
    <3>1. pc[t] = "store" /\ data' = data
      BY <2>1 DEF StoreTid
    <3>2. data[r][1] = b.val[1] /\ data[r][2] = b.val[2]
      BY <2>1, <3>1 DEF DataInv, Written
    <3>3. idx[t] + 1 \in 1..Len(write_set[t])
      BY <2>1, <1>y, WritingNow
    <3>4. write_set[t][idx[t] + 1] \in 1..Len(accesses[t]) /\ b.type = "WR"
      BY <3>3, <1>y, AccType
    <3>5. b.val[1] = b.val[2]
      BY <3>4 DEF DataInv, Read, Acc
    <3> QED
      BY <3>1, <3>2, <3>5
  <2>2. CASE ~(StoreTid(t) /\ r = b.row)
    <3>1. tid'[r] = tid[r]
      <4>1. CASE StoreTid(t)
        BY <2>2, <4>1, <1>z DEF StoreTid
      <4>2. CASE WriteWord(t)
        BY <4>2 DEF WriteWord
      <4>3. CASE ~WriteWord(t) /\ ~StoreTid(t)
        BY <4>3, <1>y, QuietRows
      <4> QED
        BY <4>1, <4>2, <4>3
    <3>2. tid[r] \in Nat /\ tid[r] <= tid[r]
      BY <1>z
    <3>3. ~Dirty(r) /\ data'[r] = data[r]
      BY <3>1, <3>2, <1>4, <1>s
    <3> QED
      BY <3>3 DEF DataInv
  <2> QED
    BY <2>1, <2>2
<1> QED
  BY <1>1, <1>2, <1>3, <1>4 DEF DataInv

-----------------------------------------------------------------------------
(***************************************************************************)
(* The theorems                                                            *)
(***************************************************************************)

\* The inductive invariant.  A tid says something about the contents only because
\* whoever stores one holds the lock bit, and the lock bits are sound only because
\* validate_silo counts what it locks.
SiloInv == Types /\ (\A t \in Threads : Shape(t)) /\ BitInv /\ TidInv /\ DataInv

\* It holds when all threads are idle,
LEMMA SiloInvInit ==
  ASSUME \A c \in Configs : Sound(c), Init
  PROVE  SiloInv
<1> USE SiloAssumption
<1>n. NoCopy \in Words /\ NoCopy[1] = NoCopy[2]
  BY DEF NoCopy, Words
<1>e. <<>> \in Seq(Access) /\ <<>> \in Seq(Nat) /\ Len(<<>>) = 0
  BY EmptySeq
<1>r. NoRequest \in Request
  BY DEF NoRequest, Request
<1>1. Types
  BY <1>n, <1>e, <1>r DEF Init, Types, PC
<1>2. \A t \in Threads : /\ pc[t] = "idle" /\ accesses[t] = <<>> /\ write_set[t] = <<>>
                         /\ num_locks[t] = 0 /\ idx[t] = 0
  BY DEF Init
<1>3. \A t \in Threads : Shape(t)
  BY <1>2, <1>e DEF Shape
<1>4. BitInv
  <2>1. \A t \in Threads : Held(t) = {}
    BY <1>2 DEF Held, First
  <2> QED
    BY <2>1 DEF Init, BitInv
<1>5. TidInv
  BY <1>2, <1>e DEF TidInv
<1>6. DataInv
  <2>1. \A r \in Rows : data[r] = NoCopy
    BY DEF Init
  <2> QED
    BY <1>2, <1>e, <1>n, <2>1 DEF DataInv, Read, Copied, Written
<1> QED
  BY <1>1, <1>3, <1>4, <1>5, <1>6 DEF SiloInv

\* A step of t keeps Shape of the others.
LEMMA ShapeElsewhere ==
  ASSUME NEW t \in Threads, NEW u \in Threads, u # t, Local(t), Shape(u)
  PROVE  Shape(u)'
<1>1. /\ pc'[u] = pc[u] /\ req'[u] = req[u] /\ accesses'[u] = accesses[u]
      /\ write_set'[u] = write_set[u] /\ num_locks'[u] = num_locks[u] /\ idx'[u] = idx[u]
  BY DEF Local
<1> QED
  BY <1>1 DEF Shape

\* Every step keeps SiloInv,
LEMMA SiloInvStep ==
  ASSUME SiloInv, [Next]_vars
  PROVE  SiloInv'
<1> USE DEF SiloInv
<1>1. ASSUME NEW t \in Threads, Step(t)
      PROVE  SiloInv'
  <2>1. Shape(t)
    OBVIOUS
  <2>2. Types' /\ Local(t)
    BY <1>1, <2>1, TypesStep
  <2>3. Shape(t)'
    BY <1>1, <2>1, ShapeStep
  <2>4. ASSUME NEW u \in Threads PROVE Shape(u)'
    <3>1. CASE u = t
      BY <2>3, <3>1
    <3>2. CASE u # t
      BY <2>2, <3>2, ShapeElsewhere
    <3> QED
      BY <3>1, <3>2
  <2>5. BitInv'
    <3>1. Keeps(t) \/ \E r \in Rows : Acquires(t, r) \/ Releases(t, r)
      BY <1>1, <2>1, HeldStep
    <3> QED
      BY <2>2, <3>1, BitInvKept
  <2>6. TidInv'
    BY <1>1, <2>2, TidInvStep
  <2>7. DataInv'
    BY <1>1, <2>2, <2>4, <2>5, DataInvStep
  <2> QED
    BY <2>2, <2>4, <2>5, <2>6, <2>7
<1>2. CASE UNCHANGED vars
  <2> USE <1>2 DEF vars
  <2>1. Types'
    BY DEF Types
  <2>2. \A t \in Threads : Shape(t)'
    BY DEF Shape
  <2>3. BitInv'
    BY DEF BitInv, Held, First, Acc
  <2>4. TidInv'
    BY DEF TidInv, Todo, Acc
  <2>5. DataInv'
    <3>1. \A t \in Threads : Acc(t, idx[t] + 1)' = Acc(t, idx[t] + 1)
      BY DEF Acc
    <3>2. \A t \in Threads, r \in Rows : Writing(t, r)' <=> Writing(t, r)
      BY <3>1 DEF Writing
    <3>3. \A r \in Rows : Dirty(r)' <=> Dirty(r)
      BY <3>2 DEF Dirty
    <3>4. \A t \in Threads : Read(t)'
      BY <3>3 DEF DataInv, Read
    <3>5. \A t \in Threads : Copied(t)'
      BY <3>3 DEF DataInv, Copied
    <3>6. \A t \in Threads : Written(t)'
      BY <3>1 DEF DataInv, Written
    <3> QED
      BY <3>3, <3>4, <3>5, <3>6 DEF DataInv
  <2> QED
    BY <2>1, <2>2, <2>3, <2>4, <2>5
<1> QED
  BY <1>1, <1>2 DEF Next, AllDone

\* so that SiloInv holds throughout.
LEMMA SiloInvCorrect ==
  ASSUME \A c \in Configs : Sound(c)
  PROVE  Spec => []SiloInv
<1>1. Init => SiloInv
  BY SiloInvInit
<1>2. SiloInv /\ [Next]_vars => SiloInv'
  BY SiloInvStep
<1> QED
  BY <1>1, <1>2, PTL DEF Spec

\* The lock bit of a row is set exactly while one transaction counts the row among
\* those it has to release, whatever order validate_silo of the threads is
\* interleaved in: no abort and no retry leaves a bit behind or clears another's.
THEOREM LockBitCorrect ==
  ASSUME \A c \in Configs : Sound(c)
  PROVE  Spec => []LockBit
<1>1. SiloInv => LockBit
  <2> SUFFICES ASSUME SiloInv PROVE LockBit
    OBVIOUS
  <2>1. \A t \in Threads : Holds(t) = Held(t)
    BY HoldsIsHeld DEF SiloInv
  <2> QED
    BY <2>1 DEF SiloInv, BitInv, LockBit
<1> QED
  BY <1>1, SiloInvCorrect, PTL

\* The assertions of Row_silo::release and Row_silo::write hold: the lock bit is set
\* when it is cleared or the row overwritten, and the new tid of a row is larger.
THEOREM AssertsHoldCorrect ==
  ASSUME \A c \in Configs : Sound(c)
  PROVE  Spec => []AssertsHold
<1>1. SiloInv => AssertsHold
  <2> SUFFICES ASSUME SiloInv, NEW t \in Threads
               PROVE  LET r == Acc(t, idx[t] + 1).row IN
                      /\ pc[t] \in {"unlock", "abort"} /\ idx[t] < num_locks[t] => locked[r]
                      /\ pc[t] = "release" => locked[r]
                      /\ pc[t] = "store" => locked[r] /\ cur_tid[t] > tid[r]
    BY DEF AssertsHold
  <2> DEFINE r == Acc(t, idx[t] + 1).row
  <2>1. /\ idx[t] \in Nat /\ num_locks[t] \in Nat /\ Len(write_set[t]) \in Nat /\ Types
        /\ num_locks[t] <= Len(write_set[t]) /\ Shape(t) /\ cur_tid[t] \in Nat
    BY LenProperties DEF SiloInv, Types, Shape
  <2>2. ASSUME pc[t] # "validate", idx[t] < num_locks[t]
        PROVE  locked[r] /\ r \in Rows
    <3>1. idx[t] + 1 \in First(t)..num_locks[t] /\ idx[t] + 1 \in 1..Len(write_set[t])
      BY <2>1, <2>2 DEF First
    <3>2. r \in Held(t)
      BY <3>1 DEF Held
    <3>3. r \in Rows
      BY <2>1, <3>1, AccType
    <3> QED
      BY <3>2, <3>3 DEF SiloInv, BitInv
  <2>3. pc[t] \in {"store", "release"} => idx[t] < num_locks[t]
    BY <2>1 DEF Shape
  <2>4. ASSUME pc[t] = "store" PROVE cur_tid[t] > tid[r]
    <3>1. idx[t] + 1 \in Todo(t)..Len(write_set[t])
      BY <2>1, <2>3, <2>4 DEF Todo
    <3>2. tid[r] < cur_tid[t]
      BY <2>4, <3>1 DEF SiloInv, TidInv
    <3>3. tid[r] \in Nat
      BY <2>2, <2>3, <2>4 DEF SiloInv, Types
    <3> QED
      BY <2>1, <3>2, <3>3
  <2> QED
    BY <2>2, <2>3, <2>4
<1> QED
  BY <1>1, SiloInvCorrect, PTL

\* What Row_silo::validate relies on: a row that is unlocked and has the tid it was
\* read under still has the contents that were read.
THEOREM TidNamesVersionCorrect ==
  ASSUME \A c \in Configs : Sound(c)
  PROVE  Spec => []TidNamesVersion
<1>1. SiloInv => TidNamesVersion
  <2> SUFFICES ASSUME SiloInv, NEW t \in Threads, NEW i \in DOMAIN accesses[t],
                      ~locked[accesses[t][i].row],
                      tid[accesses[t][i].row] = accesses[t][i].tid
               PROVE  data[accesses[t][i].row] = accesses[t][i].read
    BY DEF TidNamesVersion
  <2>1. accesses[t] \in Seq(Access) /\ i \in 1..Len(accesses[t])
    BY LenProperties DEF SiloInv, Types
  <2>2. accesses[t][i].row \in Rows
    BY <2>1, AccessOf
  <2>3. ~Dirty(accesses[t][i].row)
    BY <2>2, UnlockedIsClean DEF SiloInv
  <2> QED
    BY <2>1, <2>2, <2>3 DEF SiloInv, DataInv, Read
<1> QED
  BY <1>1, SiloInvCorrect, PTL

\* Row_silo::access never hands out a copy of which one half was taken before and the
\* other after a write.
THEOREM NoTornReadCorrect ==
  ASSUME \A c \in Configs : Sound(c)
  PROVE  Spec => []NoTornRead
<1>1. SiloInv => NoTornRead
  <2> SUFFICES ASSUME SiloInv, NEW t \in Threads, NEW i \in DOMAIN accesses[t]
               PROVE  accesses[t][i].read[1] = accesses[t][i].read[2]
    BY DEF NoTornRead
  <2>1. accesses[t] \in Seq(Access) /\ i \in 1..Len(accesses[t])
    BY LenProperties DEF SiloInv, Types
  <2>2. Rows # {}
    BY <2>1, AccessOf
  <2> QED
    BY <2>1, <2>2 DEF SiloInv, DataInv, Read
<1> QED
  BY <1>1, SiloInvCorrect, PTL

-----------------------------------------------------------------------------
(***************************************************************************)
(* The history                                                             *)
(***************************************************************************)

\* The committed transactions among the first n of h that write row r.
Writers(h, n, r) == {i \in 1..n : Counts(h[i]) /\ Writes(h[i], r)}

\* A row holds what the last of its writers has left there.
LEMMA AfterLast ==
  ASSUME NEW db, NEW h, NEW n \in Nat, NEW r \in Rows, NEW k \in Writers(h, n, r),
         \A j \in Writers(h, n, r) : j <= k
  PROVE  After(db, h, n)[r] = LeftBy(h[k], r)
<1> DEFINE W == Writers(h, n, r)
<1>1. W \subseteq 1..n /\ k \in W
  BY DEF Writers
<1>2. IsFiniteSet(W) /\ W \in SUBSET Nat
  BY <1>1, PositionsFinite
<1>3. Max(W) \in W /\ Max(W) \in Nat /\ \A x \in W : x <= Max(W)
  <2> HIDE DEF W
  <2> QED
    BY <1>1, <1>2, MaxProperties
<1>4. Max(W) = k
  <2>1. Max(W) <= k /\ k <= Max(W) /\ k \in Nat
    BY <1>1, <1>2, <1>3
  <2> QED
    BY <1>3, <2>1
<1>5. After(db, h, n)[r] = IF W = {} THEN db[r] ELSE LeftBy(h[Max(W)], r)
  BY DEF After, Writers
<1> QED
  BY <1>1, <1>4, <1>5

\* A row that nobody writes stays as it is.
LEMMA AfterNone ==
  ASSUME NEW db, NEW h, NEW n \in Nat, NEW r \in Rows, Writers(h, n, r) = {}
  PROVE  After(db, h, n)[r] = db[r]
BY DEF After, Writers

\* There is a last writer, unless there is none.
LEMMA LastWriter ==
  ASSUME NEW h, NEW n \in Nat, NEW r, Writers(h, n, r) # {}
  PROVE  \E k \in Writers(h, n, r) : \A j \in Writers(h, n, r) : j <= k
<1> DEFINE W == Writers(h, n, r)
<1>1. W \subseteq 1..n /\ W # {}
  BY DEF Writers
<1>2. IsFiniteSet(W) /\ W \in SUBSET Nat
  BY <1>1, PositionsFinite
<1> HIDE DEF W
<1>3. Max(W) \in W /\ \A x \in W : x <= Max(W)
  BY <1>1, <1>2, MaxProperties
<1> QED
  BY <1>3 DEF W

\* Only the writers of a row matter to it.
LEMMA AfterAgree ==
  ASSUME NEW db, NEW h, NEW g, NEW n \in Nat, NEW r \in Rows,
         \A i \in 1..n : /\ Counts(h[i]) /\ Writes(h[i], r) <=> Counts(g[i]) /\ Writes(g[i], r)
                         /\ Counts(h[i]) /\ Writes(h[i], r) => h[i].writes = g[i].writes
  PROVE  After(db, h, n)[r] = After(db, g, n)[r]
<1>1. Writers(h, n, r) = Writers(g, n, r)
  BY DEF Writers
<1>2. CASE Writers(h, n, r) = {}
  <2>1. After(db, h, n)[r] = db[r]
    BY <1>2, AfterNone
  <2>2. Writers(g, n, r) = {}
    BY <1>1, <1>2
  <2>3. After(db, g, n)[r] = db[r]
    BY <2>2, AfterNone
  <2> QED
    BY <2>1, <2>3
<1>3. CASE Writers(h, n, r) # {}
  <2>1. PICK k \in Writers(h, n, r) : \A j \in Writers(h, n, r) : j <= k
    BY <1>3, LastWriter
  <2>2. After(db, h, n)[r] = LeftBy(h[k], r) /\ After(db, g, n)[r] = LeftBy(g[k], r)
    BY <1>1, <2>1, AfterLast
  <2>3. h[k].writes = g[k].writes
    BY <2>1 DEF Writers
  <2> QED
    BY <2>2, <2>3 DEF LeftBy
<1> QED
  BY <1>2, <1>3

\* Those that do not write a row do not matter to it.
LEMMA AfterTail ==
  ASSUME NEW db, NEW h, NEW n \in Nat, NEW m \in Nat, n <= m, NEW r \in Rows,
         \A i \in (n + 1)..m : ~(Counts(h[i]) /\ Writes(h[i], r))
  PROVE  After(db, h, m)[r] = After(db, h, n)[r]
<1>1. Writers(h, m, r) = Writers(h, n, r)
  BY DEF Writers
<1>2. CASE Writers(h, n, r) = {}
  BY <1>1, <1>2, AfterNone
<1>3. CASE Writers(h, n, r) # {}
  <2>1. PICK k \in Writers(h, n, r) : \A j \in Writers(h, n, r) : j <= k
    BY <1>3, LastWriter
  <2> QED
    BY <1>1, <2>1, AfterLast
<1> QED
  BY <1>2, <1>3

\* Moving the first n transactions to the base changes nothing.
LEMMA AfterTrim ==
  ASSUME NEW h \in Seq(Entry), NEW n \in 0..Len(h), NEW m \in 0..(Len(h) - n), NEW r \in Rows, NEW db
  PROVE  After(After(db, h, n), SubSeq(h, n + 1, Len(h)), m)[r] = After(db, h, n + m)[r]
<1> DEFINE g == SubSeq(h, n + 1, Len(h))
<1>0. Len(h) \in Nat /\ n \in Nat /\ m \in Nat /\ n + m \in Nat
  BY LenProperties
<1>1. \A i \in 1..(Len(h) - n) : g[i] = h[n + i]
  BY DropProperties
<1> HIDE DEF g
<1>2. \A i \in Writers(g, m, r) : n + i \in Writers(h, n + m, r) /\ i \in 1..m
  <2> SUFFICES ASSUME NEW i \in Writers(g, m, r) PROVE n + i \in Writers(h, n + m, r) /\ i \in 1..m
    OBVIOUS
  <2>1. i \in 1..m /\ Counts(g[i]) /\ Writes(g[i], r)
    BY DEF Writers
  <2>2. g[i] = h[n + i] /\ n + i \in 1..(n + m)
    BY <1>0, <1>1, <2>1
  <2> QED
    BY <2>1, <2>2 DEF Writers
<1>3. \A j \in Writers(h, n + m, r) : j > n => j - n \in Writers(g, m, r)
  <2> SUFFICES ASSUME NEW j \in Writers(h, n + m, r), j > n PROVE j - n \in Writers(g, m, r)
    OBVIOUS
  <2>1. j \in 1..(n + m) /\ Counts(h[j]) /\ Writes(h[j], r)
    BY DEF Writers
  <2>2. j - n \in 1..m /\ g[j - n] = h[j]
    BY <1>0, <1>1, <2>1
  <2> QED
    BY <2>1, <2>2 DEF Writers
<1>4. CASE Writers(g, m, r) = {}
  <2>1. After(After(db, h, n), g, m)[r] = After(db, h, n)[r]
    BY <1>0, <1>4, AfterNone
  <2>2. \A i \in (n + 1)..(n + m) : ~(Counts(h[i]) /\ Writes(h[i], r))
    <3> SUFFICES ASSUME NEW i \in (n + 1)..(n + m), Counts(h[i]), Writes(h[i], r) PROVE FALSE
      OBVIOUS
    <3>1. i \in Writers(h, n + m, r) /\ i > n
      BY <1>0 DEF Writers
    <3> QED
      BY <1>3, <1>4, <3>1
  <2>3. After(db, h, n + m)[r] = After(db, h, n)[r]
    BY <1>0, <2>2, AfterTail
  <2> QED
    BY <2>1, <2>3 DEF g
<1>5. CASE Writers(g, m, r) # {}
  <2>1. PICK k \in Writers(g, m, r) : \A j \in Writers(g, m, r) : j <= k
    BY <1>0, <1>5, LastWriter
  <2>2. After(After(db, h, n), g, m)[r] = LeftBy(g[k], r)
    BY <1>0, <2>1, AfterLast
  <2>3. n + k \in Writers(h, n + m, r) /\ k \in 1..m
    BY <1>2, <2>1
  <2>4. \A j \in Writers(h, n + m, r) : j <= n + k
    <3> SUFFICES ASSUME NEW j \in Writers(h, n + m, r) PROVE j <= n + k
      OBVIOUS
    <3>1. j \in 1..(n + m)
      BY DEF Writers
    <3>2. CASE j > n
      <4>1. j - n <= k
        BY <1>3, <2>1, <3>2
      <4> QED
        BY <1>0, <2>3, <3>1, <4>1
    <3> QED
      BY <1>0, <2>3, <3>1, <3>2
  <2>5. After(db, h, n + m)[r] = LeftBy(h[n + k], r)
    BY <1>0, <2>3, <2>4, AfterLast
  <2>6. g[k] = h[n + k]
    BY <1>0, <1>1, <2>3
  <2> QED
    BY <2>2, <2>5, <2>6 DEF g
<1> QED
  BY <1>4, <1>5

-----------------------------------------------------------------------------
(***************************************************************************)
(* The invariant of the history                                            *)
(***************************************************************************)

\* Where t is when it writes back, and when it may yet commit or has to.
WritePC == {"write1", "write2", "store", "release"}
Active == {"validate"} \cup WritePC

\* The rows whose new tid t has yet to store, if it commits.
Owns(t) ==
  {Acc(t, k).row : k \in (IF pc[t] = "validate" THEN 1 ELSE Todo(t))..Len(write_set[t])}

\* A transaction that can still commit, and one that is going to.
Live(e) == e.st = "pending" /\ pc[e.txn] = "validate"
Runs(e) == Live(e) \/ e.st = "decided"

HistType(h, b) == h \in Seq(Entry) /\ b \in [Rows -> Words]

\* A thread has an entry in the history h, and only one, while it validates or writes.
Entries(h) ==
  /\ \A i \in 1..Len(h) :
       /\ h[i].st = "pending" => pc[h[i].txn] \in {"validate", "abort"}
       /\ h[i].st = "decided" => pc[h[i].txn] \in WritePC
       /\ Runs(h[i]) => h[i].reads = ReadPairs(h[i].txn) /\ h[i].writes = WritePairs(h[i].txn)
  /\ \A i, j \in 1..Len(h) : h[i].txn = h[j].txn /\ ~Ended(h[i]) /\ ~Ended(h[j]) => i = j
  /\ \A t \in Threads : pc[t] \in Active => \E i \in 1..Len(h) : h[i].txn = t /\ ~Ended(h[i])

\* Nobody writes a row after a transaction that has not written it yet.
Latest(h) ==
  \A i, k \in 1..Len(h) : i < k /\ Runs(h[i]) =>
    \A r \in Owns(h[i].txn) : ~Writes(h[k], r)

\* The i-th transaction has read what it should have, p, and no transaction that can
\* still commit will change that.
Good(h, b, i, p) ==
  /\ p[2] = After(b, h, i - 1)[p[1]]
  /\ \A j \in 1..(i - 1) : Live(h[j]) => ~Writes(h[j], p[1])

\* This is so for what commits, and as far as validate_silo has come for the others.
ReadsGood(h, b) ==
  \A i \in 1..Len(h) :
    LET s == accesses[h[i].txn] IN
    /\ Counts(h[i]) => \A p \in h[i].reads : Good(h, b, i, p)
    /\ Live(h[i]) => \A m \in 1..Len(s) :
         s[m].type = "RD" /\ m <= idx[h[i].txn] => Good(h, b, i, <<s[m].row, s[m].read>>)

\* A row that was written, or is going to be, by a transaction later in the history
\* is newer than the version read, or is going to be.
Newer(h) ==
  \A i, k \in 1..Len(h) : i < k /\ Live(h[i]) /\ Counts(h[k]) =>
    LET s == accesses[h[i].txn] IN
    \A m \in 1..Len(s) : Writes(h[k], s[m].row) =>
      s[m].tid < tid[s[m].row] \/ (h[k].st = "decided" /\ s[m].row \in Owns(h[k].txn))

\* The rows hold what the history leaves in them, unless it has yet to be written.
Stored(h, b) ==
  \A r \in Rows : \/ data[r] = After(b, h, Len(h))[r]
                  \/ \E t \in Threads : pc[t] \in WritePC /\ r \in Owns(t)

HistInv(h, b) ==
  HistType(h, b) /\ Entries(h) /\ Latest(h) /\ ReadsGood(h, b) /\ Newer(h) /\ Stored(h, b)

\* A row left alone by a step.
LEMMA OwnsElsewhere ==
  ASSUME NEW t \in Threads, NEW u \in Threads, u # t, Local(t)
  PROVE  /\ Owns(u)' = Owns(u) /\ pc'[u] = pc[u] /\ accesses'[u] = accesses[u] /\ idx'[u] = idx[u]
         /\ ReadPairs(u)' = ReadPairs(u) /\ WritePairs(u)' = WritePairs(u)
<1>1. /\ pc'[u] = pc[u] /\ idx'[u] = idx[u]
      /\ accesses'[u] = accesses[u] /\ write_set'[u] = write_set[u]
  BY DEF Local
<1>2. \A k : Acc(u, k)' = Acc(u, k)
  BY <1>1 DEF Acc
<1> QED
  BY <1>1, <1>2 DEF Owns, Todo, ReadPairs, WritePairs

\* The parts of an entry.
LEMMA EntryParts ==
  ASSUME NEW h \in Seq(Entry), NEW i \in 1..Len(h)
  PROVE  /\ h[i] \in Entry /\ h[i].txn \in Threads
         /\ h[i].st \in {"pending", "decided", "finished", "aborted"}
         /\ \A p \in h[i].reads : p[1] \in Rows /\ p[2] \in Words
         /\ \A p \in h[i].writes : p[1] \in Rows /\ p[2] \in Words
<1>1. h[i] \in Entry
  BY ElementOfSeq
<1> QED
  BY <1>1 DEF Entry

\* The history becomes H: the entry of t may end.
KeepsEntries(t, H) ==
  /\ Len(H) = Len(order)
  /\ \A i \in 1..Len(order) :
       /\ H[i].txn = order[i].txn /\ H[i].reads = order[i].reads /\ H[i].writes = order[i].writes
       /\ Counts(H[i]) <=> Counts(order[i])
       /\ Ended(H[i]) \/ H[i] = order[i]
       /\ order[i].txn # t \/ pc'[t] \in Active => H[i] = order[i]

\* What a step of t that begins no entry and decides none has to do for HistInv:
\* a row is given its value and its tid before t is done with it, and what
\* validate_silo accepts is good.
LEMMA HistKept ==
  ASSUME HistInv(order, base), TidInv, Types, Types', NEW t \in Threads, Local(t),
         NEW H \in Seq(Entry), NEW B, B = base, KeepsEntries(t, H),
         pc'[t] = "validate" => pc[t] = "validate",
         pc'[t] \in WritePC => pc[t] \in WritePC,
         \A i \in 1..Len(order) : order[i].txn = t /\ ~Ended(H[i]) =>
           /\ pc[t] \in {"validate", "abort"} => pc'[t] \in {"validate", "abort"}
           /\ pc[t] \in WritePC => pc'[t] \in WritePC,
         pc'[t] \in Active => accesses'[t] = accesses[t] /\ Owns(t)' \subseteq Owns(t),
         \A r \in Rows : tid'[r] >= tid[r],
         \A r \in Rows : r \in Owns(t) /\ pc[t] \in WritePC /\ ~(pc'[t] \in WritePC /\ r \in Owns(t)') =>
           tid'[r] > tid[r] /\ data'[r] = After(B, order, Len(order))[r],
         \A r \in Rows : ~(pc[t] \in WritePC /\ r \in Owns(t)) => data'[r] = data[r],
         pc'[t] = "validate" =>
           \A i \in 1..Len(order) : order[i].txn = t /\ order[i].st = "pending" =>
             \A m \in 1..Len(accesses[t]) :
               accesses[t][m].type = "RD" /\ m <= idx'[t] /\ ~(m <= idx[t]) =>
                 Good(order, B, i, <<accesses[t][m].row, accesses[t][m].read>>)
  PROVE  HistInv(H, B)'
<1>0. /\ order \in Seq(Entry) /\ Len(order) \in Nat /\ Len(H) = Len(order) /\ B \in [Rows -> Words]
      /\ tid \in [Rows -> Nat] /\ tid' \in [Rows -> Nat]
  BY LenProperties DEF HistInv, HistType, Types, KeepsEntries
<1> DEFINE D == 1..Len(order)
<1>e. \A i \in D : /\ order[i].txn \in Threads
                   /\ \A p \in order[i].reads : p[1] \in Rows
  BY <1>0, EntryParts
<1>k. \A i \in D : /\ H[i].txn = order[i].txn /\ H[i].reads = order[i].reads
                   /\ H[i].writes = order[i].writes
                   /\ Counts(H[i]) <=> Counts(order[i])
                   /\ Ended(H[i]) \/ H[i] = order[i]
                   /\ order[i].txn # t \/ pc'[t] \in Active => H[i] = order[i]
  BY DEF KeepsEntries
<1>w. \A i \in D : \A r : Writes(H[i], r) <=> Writes(order[i], r)
  BY <1>k DEF Writes
<1>u. \A u \in Threads : u # t => /\ Owns(u)' = Owns(u) /\ pc'[u] = pc[u]
                                 /\ accesses'[u] = accesses[u] /\ idx'[u] = idx[u]
                                 /\ ReadPairs(u)' = ReadPairs(u) /\ WritePairs(u)' = WritePairs(u)
  BY OwnsElsewhere
<1>a. \A n \in Nat, r \in Rows : n <= Len(order) => After(B, H, n)[r] = After(B, order, n)[r]
  <2> SUFFICES ASSUME NEW n \in Nat, NEW r \in Rows, n <= Len(order)
               PROVE  After(B, H, n)[r] = After(B, order, n)[r]
    OBVIOUS
  <2>1. \A i \in 1..n : i \in D
    BY <1>0
  <2>2. \A i \in 1..n : /\ Counts(H[i]) /\ Writes(H[i], r) <=> Counts(order[i]) /\ Writes(order[i], r)
                        /\ H[i].writes = order[i].writes
    BY <1>k, <1>w, <2>1
  <2> QED
    BY <2>2, AfterAgree
\* Who is live or decided after the step was so before.
<1>l. ASSUME NEW i \in D, Live(H[i])'
      PROVE  H[i] = order[i] /\ Live(order[i]) /\ H[i].st = "pending" /\ pc'[H[i].txn] = "validate"
             /\ pc[order[i].txn] = "validate"
  <2>1. H[i].st = "pending" /\ pc'[H[i].txn] = "validate"
    BY <1>l DEF Live
  <2>2. ~Ended(H[i])
    BY <2>1 DEF Ended
  <2> QED
    BY <1>e, <1>k, <1>u, <2>1, <2>2 DEF Live
<1>r. ASSUME NEW i \in D, Runs(H[i])'
      PROVE  H[i] = order[i] /\ Runs(order[i]) /\ Owns(H[i].txn)' \subseteq Owns(H[i].txn)
             /\ accesses'[order[i].txn] = accesses[order[i].txn] /\ pc'[order[i].txn] \in Active
  <2>1. CASE Live(H[i])'
    <3>1. H[i] = order[i] /\ Live(order[i]) /\ pc'[order[i].txn] = "validate"
      BY <1>l, <2>1
    <3> QED
      BY <1>e, <1>u, <3>1 DEF Runs, Active
  <2>2. CASE H[i].st = "decided"
    <3>1. ~Ended(H[i])
      BY <2>2 DEF Ended
    <3>2. H[i] = order[i] /\ pc[order[i].txn] \in WritePC
      BY <1>k, <2>2, <3>1 DEF HistInv, Entries
    <3>3. pc'[order[i].txn] \in WritePC
      BY <1>e, <1>u, <3>1, <3>2
    <3> QED
      BY <1>e, <1>u, <2>2, <3>2, <3>3 DEF Runs, Active
  <2> QED
    BY <1>r, <2>1, <2>2 DEF Runs
<1>1. HistType(H, B)'
  BY <1>0 DEF HistType
<1>2. Entries(H)'
  <2>1. ASSUME NEW i \in D
        PROVE  /\ H[i].st = "pending" => pc'[H[i].txn] \in {"validate", "abort"}
               /\ H[i].st = "decided" => pc'[H[i].txn] \in WritePC
    <3>1. CASE Ended(H[i])
      BY <3>1 DEF Ended
    <3>2. CASE ~Ended(H[i])
      <4>1. H[i] = order[i]
        BY <1>k, <3>2
      <4>2. /\ H[i].st = "pending" => pc[H[i].txn] \in {"validate", "abort"}
            /\ H[i].st = "decided" => pc[H[i].txn] \in WritePC
        BY <4>1 DEF HistInv, Entries
      <4> QED
        BY <1>e, <1>u, <3>2, <4>1, <4>2
    <3> QED
      BY <3>1, <3>2
  <2>2. ASSUME NEW i \in D, Runs(H[i])'
        PROVE  H[i].reads = ReadPairs(H[i].txn)' /\ H[i].writes = WritePairs(H[i].txn)'
    <3>1. H[i] = order[i] /\ Runs(order[i]) /\ accesses'[order[i].txn] = accesses[order[i].txn]
      BY <1>r, <2>2
    <3>2. H[i].reads = ReadPairs(H[i].txn) /\ H[i].writes = WritePairs(H[i].txn)
      BY <3>1 DEF HistInv, Entries
    <3> QED
      BY <3>1, <3>2 DEF ReadPairs, WritePairs
  <2>3. ASSUME NEW i \in D, NEW j \in D, H[i].txn = H[j].txn, ~Ended(H[i]), ~Ended(H[j])
        PROVE  i = j
    BY <1>k, <2>3 DEF HistInv, Entries
  <2>4. ASSUME NEW u \in Threads, pc'[u] \in Active
        PROVE  \E i \in D : H[i].txn = u /\ ~Ended(H[i])
    <3>1. pc[u] \in Active
      BY <1>u, <2>4 DEF Active
    <3>2. PICK i \in D : order[i].txn = u /\ ~Ended(order[i])
      BY <3>1 DEF HistInv, Entries
    <3>3. H[i] = order[i]
      BY <1>k, <2>4, <3>2
    <3> QED
      BY <3>2, <3>3
  <2> QED
    BY <1>0, <2>1, <2>2, <2>3, <2>4 DEF Entries
<1>3. Latest(H)'
  <2> SUFFICES ASSUME NEW i \in D, NEW k \in D, i < k, Runs(H[i])', NEW r \in Owns(H[i].txn)'
               PROVE  ~Writes(H[k], r)
    BY <1>0 DEF Latest
  <2>1. Runs(order[i]) /\ r \in Owns(order[i].txn)
    BY <1>r
  <2> QED
    BY <1>w, <2>1 DEF HistInv, Latest
<1>g. ASSUME NEW i \in D, NEW p, p[1] \in Rows, Good(order, B, i, p)
      PROVE  Good(H, B, i, p)'
  <2>1. i - 1 \in Nat /\ i - 1 <= Len(order) /\ \A j \in 1..(i - 1) : j \in D
    BY <1>0
  <2>2. After(B, H, i - 1)[p[1]] = After(B, order, i - 1)[p[1]]
    BY <1>a, <1>g, <2>1
  <2>3. ASSUME NEW j \in 1..(i - 1), Live(H[j])' PROVE ~Writes(H[j], p[1])
    BY <1>g, <1>l, <1>w, <2>1, <2>3 DEF Good
  <2> QED
    BY <1>g, <2>2, <2>3 DEF Good
<1>4. ReadsGood(H, B)'
  <2>1. ASSUME NEW i \in D, Counts(H[i]), NEW p \in H[i].reads PROVE Good(H, B, i, p)'
    BY <1>e, <1>g, <1>k, <2>1 DEF HistInv, ReadsGood
  <2>2. ASSUME NEW i \in D, Live(H[i])', NEW m \in 1..Len(accesses'[H[i].txn]),
               accesses'[H[i].txn][m].type = "RD", m <= idx'[H[i].txn]
        PROVE  Good(H, B, i, <<accesses[H[i].txn][m].row, accesses[H[i].txn][m].read>>)'
    <3> DEFINE u == order[i].txn
               a == accesses[u][m]
    <3>1. H[i] = order[i] /\ Live(order[i]) /\ pc'[u] = "validate" /\ order[i].st = "pending"
      BY <1>l, <2>2
    <3>2. accesses'[u] = accesses[u] /\ u \in Threads
      BY <1>e, <1>u, <3>1 DEF Active
    <3>3. m \in 1..Len(accesses[u]) /\ accesses[u] \in Seq(Access) /\ a.type = "RD"
      BY <2>2, <3>1, <3>2 DEF Types
    <3>4. Good(order, B, i, <<a.row, a.read>>)
      <4>1. CASE m <= idx[u]
        BY <3>1, <3>3, <4>1 DEF HistInv, ReadsGood
      <4>2. CASE ~(m <= idx[u])
        <5>1. u = t
          BY <1>u, <2>2, <3>1, <3>2, <4>2
        <5> QED
          BY <2>2, <3>1, <3>3, <4>2, <5>1
      <4> QED
        BY <4>1, <4>2
    <3>5. a.row \in Rows
      BY <3>3, AccessOf
    <3>6. PICK p : p = <<a.row, a.read>>
      OBVIOUS
    <3>7. p[1] \in Rows /\ Good(order, B, i, p)
      BY <3>4, <3>5, <3>6
    <3>8. Good(H, B, i, p)'
      BY <1>g, <3>7
    <3>9. p = <<accesses'[H[i].txn][m].row, accesses'[H[i].txn][m].read>>
      BY <3>1, <3>2, <3>6
    <3> QED
      BY <3>8, <3>9 DEF Good
  <2> QED
    BY <1>0, <2>1, <2>2 DEF ReadsGood
<1>5. Newer(H)'
  <2> SUFFICES ASSUME NEW i \in D, NEW k \in D, i < k, Live(H[i])', Counts(H[k]),
                      NEW m \in 1..Len(accesses'[H[i].txn]),
                      Writes(H[k], accesses'[H[i].txn][m].row)
               PROVE  LET a == accesses'[H[i].txn][m] IN
                      a.tid < tid'[a.row] \/ (H[k].st = "decided" /\ a.row \in Owns(H[k].txn)')
    BY <1>0 DEF Newer
  <2> DEFINE u == order[i].txn
             x == order[k].txn
             a == accesses[u][m]
  <2>1. H[i] = order[i] /\ Live(order[i]) /\ pc'[u] = "validate"
    BY <1>l
  <2>2. accesses'[u] = accesses[u] /\ u \in Threads /\ x \in Threads
    BY <1>e, <1>u, <2>1 DEF Active
  <2>3. m \in 1..Len(accesses[u]) /\ accesses[u] \in Seq(Access)
    BY <2>1, <2>2 DEF Types
  <2>4. a.row \in Rows /\ a.tid \in Nat /\ a.tid <= tid[a.row]
    BY <2>2, <2>3, AccessOf DEF TidInv
  <2>5. tid[a.row] \in Nat /\ tid'[a.row] \in Nat /\ tid'[a.row] >= tid[a.row]
    BY <1>0, <2>4
  <2>6. a.tid < tid[a.row] \/ (order[k].st = "decided" /\ a.row \in Owns(x))
    BY <1>k, <1>w, <2>1, <2>2, <2>3 DEF HistInv, Newer
  <2>7. CASE a.tid < tid[a.row]
    BY <2>1, <2>2, <2>4, <2>5, <2>7
  <2>8. CASE order[k].st = "decided" /\ a.row \in Owns(x)
    <3>1. pc[x] \in WritePC
      BY <2>8 DEF HistInv, Entries
    <3>2. CASE x # t
      BY <1>k, <1>u, <2>1, <2>2, <2>8, <3>2
    <3>3. CASE x = t /\ pc'[t] \in WritePC /\ a.row \in Owns(t)'
      BY <1>k, <2>1, <2>2, <2>8, <3>3 DEF Active
    <3>4. CASE x = t /\ ~(pc'[t] \in WritePC /\ a.row \in Owns(t)')
      <4>1. tid'[a.row] > tid[a.row]
        BY <2>4, <2>8, <3>1, <3>4
      <4>2. a.tid < tid'[a.row]
        BY <2>4, <2>5, <4>1
      <4> QED
        BY <2>1, <2>2, <4>2
    <3> QED
      BY <3>2, <3>3, <3>4
  <2> QED
    BY <2>6, <2>7, <2>8
<1>6. Stored(H, B)'
  <2> SUFFICES ASSUME NEW r \in Rows
               PROVE  \/ data'[r] = After(B, H, Len(H))[r]
                      \/ \E u \in Threads : pc'[u] \in WritePC /\ r \in Owns(u)'
    BY DEF Stored
  <2>1. After(B, H, Len(H))[r] = After(B, order, Len(order))[r]
    BY <1>0, <1>a
  <2>2. CASE pc[t] \in WritePC /\ r \in Owns(t)
    BY <2>1, <2>2
  <2>3. CASE ~(pc[t] \in WritePC /\ r \in Owns(t))
    <3>1. data'[r] = data[r]
      BY <2>3
    <3>2. CASE data[r] = After(B, order, Len(order))[r]
      BY <2>1, <3>1, <3>2
    <3>3. CASE \E u \in Threads : pc[u] \in WritePC /\ r \in Owns(u)
      BY <1>u, <2>3, <3>3
    <3> QED
      BY <3>2, <3>3 DEF HistInv, Stored
  <2> QED
    BY <2>2, <2>3
<1> QED
  BY <1>1, <1>2, <1>3, <1>4, <1>5, <1>6 DEF HistInv

\* What a history leaves in the database is a database.
LEMMA AfterType ==
  ASSUME NEW h \in Seq(Entry), NEW n \in 0..Len(h), NEW b \in [Rows -> Words]
  PROVE  After(b, h, n) \in [Rows -> Words]
<1>0. n \in Nat /\ Len(h) \in Nat
  BY LenProperties
<1>1. ASSUME NEW r \in Rows PROVE After(b, h, n)[r] \in Words
  <2>1. CASE Writers(h, n, r) = {}
    BY <1>0, <2>1, AfterNone
  <2>2. CASE Writers(h, n, r) # {}
    <3>1. PICK k \in Writers(h, n, r) : \A j \in Writers(h, n, r) : j <= k
      BY <1>0, <2>2, LastWriter
    <3>2. After(b, h, n)[r] = LeftBy(h[k], r)
      BY <1>0, <3>1, AfterLast
    <3>3. k \in 1..Len(h) /\ \E p \in h[k].writes : p[1] = r
      BY <1>0, <3>1 DEF Writers, Writes
    <3>4. \A p \in h[k].writes : p[2] \in Words
      BY <3>3, EntryParts
    <3>5. LeftBy(h[k], r) \in Words
      BY <3>3, <3>4 DEF LeftBy
    <3> QED
      BY <3>2, <3>5
  <2> QED
    BY <2>1, <2>2
<1> QED
  BY <1>1 DEF After

\* Record moves transactions that are over to the base.
LEMMA HistTrim ==
  ASSUME Types', NEW H, NEW B, HistInv(H, B)', NEW n \in 0..Len(H), \A i \in 1..n : Ended(H[i]),
         NEW h, h = SubSeq(H, n + 1, Len(H)), NEW b, b = After(B, H, n)
  PROVE  HistInv(h, b)'
<1>0. H \in Seq(Entry) /\ B \in [Rows -> Words] /\ Len(H) \in Nat /\ n \in Nat
  BY LenProperties DEF HistInv, HistType
<1>1. /\ h \in Seq(Entry) /\ Len(h) = Len(H) - n /\ Len(h) \in Nat
      /\ \A i \in 1..Len(h) : h[i] = H[n + i]
  BY <1>0, DropProperties
<1>i. \A i \in 1..Len(h) : n + i \in 1..Len(H) /\ h[i] = H[n + i] /\ i \in Int
  BY <1>0, <1>1
<1>j. \A i, k \in 1..Len(h) : i < k => n + i < n + k
  BY <1>0, <1>1
<1>t. b \in [Rows -> Words]
  BY <1>0, AfterType
<1>a. \A m \in 0..Len(h), r \in Rows : After(b, h, m)[r] = After(B, H, n + m)[r]
  BY <1>0, <1>1, AfterTrim
<1>2. Entries(h)'
  <2>1. \A i \in 1..Len(h) :
          /\ h[i].st = "pending" => pc'[h[i].txn] \in {"validate", "abort"}
          /\ h[i].st = "decided" => pc'[h[i].txn] \in WritePC
          /\ Runs(h[i])' => h[i].reads = ReadPairs(h[i].txn)' /\ h[i].writes = WritePairs(h[i].txn)'
    BY <1>i DEF HistInv, Entries
  <2>2. ASSUME NEW i \in 1..Len(h), NEW j \in 1..Len(h),
               h[i].txn = h[j].txn /\ ~Ended(h[i]) /\ ~Ended(h[j])
        PROVE  i = j
    <3>0. \A x, y \in 1..Len(H) : H[x].txn = H[y].txn /\ ~Ended(H[x]) /\ ~Ended(H[y]) => x = y
      BY DEF HistInv, Entries
    <3>1. n + i = n + j
      BY <1>i, <2>2, <3>0
    <3> QED
      BY <1>0, <1>1, <3>1
  <2>3. ASSUME NEW t \in Threads, pc'[t] \in Active
        PROVE  \E i \in 1..Len(h) : h[i].txn = t /\ ~Ended(h[i])
    <3>1. PICK j \in 1..Len(H) : H[j].txn = t /\ ~Ended(H[j])
      BY <2>3 DEF HistInv, Entries
    <3>2. j \notin 1..n
      BY <3>1
    <3>3. j - n \in 1..Len(h) /\ n + (j - n) = j
      BY <1>0, <1>1, <3>2
    <3> QED
      BY <1>i, <3>1, <3>3
  <2> QED
    BY <2>1, <2>2, <2>3 DEF Entries
<1>3. Latest(h)'
  <2> SUFFICES ASSUME NEW i \in 1..Len(h), NEW k \in 1..Len(h), i < k, Runs(h[i])',
                      NEW r \in Owns(h[i].txn)'
               PROVE  ~Writes(h[k], r)
    BY DEF Latest
  <2> QED
    BY <1>i, <1>j DEF HistInv, Latest
<1>g. ASSUME NEW i \in 1..Len(h), NEW p, p[1] \in Rows, Good(H, B, n + i, p)'
      PROVE  Good(h, b, i, p)'
  <2>1. i - 1 \in 0..Len(h) /\ n + (i - 1) = (n + i) - 1
    BY <1>0, <1>1
  <2>2. After(b, h, i - 1)[p[1]] = After(B, H, (n + i) - 1)[p[1]]
    BY <1>a, <1>g, <2>1
  <2>3. \A j \in 1..(i - 1) : j \in 1..Len(h) /\ n + j \in 1..((n + i) - 1)
    BY <1>0, <1>1
  <2>4. p[2] = After(B, H, (n + i) - 1)[p[1]]
    BY <1>g DEF Good
  <2>5. \A j \in 1..(i - 1) : Live(h[j])' => ~Writes(h[j], p[1])
    BY <1>g, <1>i, <2>3 DEF Good
  <2> QED
    BY <2>2, <2>4, <2>5 DEF Good
<1>4. ReadsGood(h, b)'
  <2>1. ASSUME NEW i \in 1..Len(h), Counts(h[i]), NEW p \in h[i].reads
        PROVE  Good(h, b, i, p)'
    <3>1. p[1] \in Rows
      BY <1>1, EntryParts
    <3>2. Good(H, B, n + i, p)'
      BY <1>i, <2>1 DEF HistInv, ReadsGood
    <3> QED
      BY <1>g, <3>1, <3>2
  <2>2. ASSUME NEW i \in 1..Len(h), Live(h[i])', NEW m \in 1..Len(accesses'[h[i].txn]),
               accesses'[h[i].txn][m].type = "RD", m <= idx'[h[i].txn],
               accesses'[h[i].txn][m].row \in Rows
        PROVE  Good(h, b, i, <<accesses[h[i].txn][m].row, accesses[h[i].txn][m].read>>)'
    <3>1. PICK p : p = <<accesses'[h[i].txn][m].row, accesses'[h[i].txn][m].read>>
      OBVIOUS
    <3>2. p[1] \in Rows
      BY <2>2, <3>1
    <3>5. PICK k \in 1..Len(H) : k = n + i /\ H[k] = h[i]
      BY <1>i
    <3>6. Good(H, B, k, <<accesses[H[k].txn][m].row, accesses[H[k].txn][m].read>>)'
      BY <2>2, <3>5 DEF HistInv, ReadsGood
    <3>3. Good(H, B, n + i, p)'
      BY <3>1, <3>5, <3>6 DEF Good
    <3>4. Good(h, b, i, p)'
      BY <1>g, <3>2, <3>3
    <3> QED
      BY <3>1, <3>4 DEF Good
  <2>3. \A i \in 1..Len(h) : Live(h[i])' =>
          \A m \in 1..Len(accesses'[h[i].txn]) : accesses'[h[i].txn][m].row \in Rows
    <3> SUFFICES ASSUME NEW i \in 1..Len(h), Live(h[i])', NEW m \in 1..Len(accesses'[h[i].txn])
                 PROVE  accesses'[h[i].txn][m].row \in Rows
      OBVIOUS
    <3>1. accesses'[h[i].txn] \in Seq(Access)
      BY <1>1, EntryParts DEF Types
    <3> QED
      BY <3>1, AccessOf
  <2> QED
    BY <2>1, <2>2, <2>3 DEF ReadsGood
<1>5. Newer(h)'
  <2> SUFFICES ASSUME NEW i \in 1..Len(h), NEW k \in 1..Len(h), i < k, Live(h[i])', Counts(h[k]),
                      NEW m \in 1..Len(accesses'[h[i].txn]),
                      Writes(h[k], accesses'[h[i].txn][m].row)
               PROVE  LET a == accesses'[h[i].txn][m] IN
                      a.tid < tid'[a.row] \/ (h[k].st = "decided" /\ a.row \in Owns(h[k].txn)')
    BY DEF Newer
  <2> QED
    BY <1>i, <1>j DEF HistInv, Newer
<1>6. Stored(h, b)'
  <2>1. \A r \in Rows : After(b, h, Len(h))[r] = After(B, H, Len(H))[r]
    <3>1. Len(h) \in 0..Len(h) /\ n + Len(h) = Len(H)
      BY <1>0, <1>1
    <3> QED
      BY <1>a, <3>1
  <2> QED
    BY <2>1 DEF HistInv, Stored
<1> QED
  BY <1>1, <1>t, <1>2, <1>3, <1>4, <1>5, <1>6 DEF HistInv, HistType

-----------------------------------------------------------------------------
(***************************************************************************)
(* What validate_silo finds                                                *)
(***************************************************************************)

\* From validate_silo on, the write set has all the writes.
Covers(t) ==
  pc[t] \notin {"idle", "exec", "load", "copy1", "copy2", "reload"} =>
    \A i \in 1..Len(accesses[t]) : accesses[t][i].type = "WR" =>
      \E k \in 1..Len(write_set[t]) : write_set[t][k] = i

\* What t owns it holds.
LEMMA OwnsHeld ==
  ASSUME Types, NEW t \in Threads, Shape(t),
         pc[t] \in Active \/ num_locks[t] = Len(write_set[t])
  PROVE  Owns(t) \subseteq Held(t) \cap Rows
<1>1. idx[t] \in Nat /\ Len(write_set[t]) \in Nat /\ num_locks[t] = Len(write_set[t])
  BY LenProperties DEF Types, Shape, Active, WritePC
<1> SUFFICES ASSUME NEW k \in (IF pc[t] = "validate" THEN 1 ELSE Todo(t))..Len(write_set[t])
             PROVE  Acc(t, k).row \in Held(t) /\ Acc(t, k).row \in Rows
  BY DEF Owns
<1>2. k \in First(t)..num_locks[t] /\ k \in 1..Len(write_set[t])
  BY <1>1 DEF First, Todo
<1> QED
  BY <1>2, AccType DEF Held

\* While it validates, and before it has stored the first tid, t owns what it writes.
LEMMA OwnsWrites ==
  ASSUME Types, NEW t \in Threads, Shape(t), Covers(t),
         pc[t] \in {"lock", "validate"} \/ (pc[t] = "write1" /\ idx[t] = 0), NEW r
  PROVE  (\E p \in WritePairs(t) : p[1] = r) <=> r \in Owns(t)
<1>1. /\ accesses[t] \in Seq(Access) /\ DOMAIN accesses[t] = 1..Len(accesses[t])
      /\ Len(write_set[t]) \in Nat
  BY LenProperties DEF Types
<1>2. (IF pc[t] = "validate" THEN 1 ELSE Todo(t)) = 1
  BY DEF Todo, Shape
<1>3. Owns(t) = {Acc(t, k).row : k \in 1..Len(write_set[t])}
  BY <1>2 DEF Owns
<1>4. ASSUME NEW p \in WritePairs(t), p[1] = r PROVE r \in Owns(t)
  <2>1. PICK i \in 1..Len(accesses[t]) : accesses[t][i].type = "WR" /\ accesses[t][i].row = r
    BY <1>1, <1>4 DEF WritePairs
  <2>2. PICK k \in 1..Len(write_set[t]) : write_set[t][k] = i
    BY <2>1 DEF Covers
  <2> QED
    BY <1>3, <2>1, <2>2 DEF Acc
<1>5. ASSUME r \in Owns(t) PROVE \E p \in WritePairs(t) : p[1] = r
  <2>1. PICK k \in 1..Len(write_set[t]) : Acc(t, k).row = r
    BY <1>3, <1>5
  <2>2. write_set[t][k] \in 1..Len(accesses[t]) /\ Acc(t, k).type = "WR"
    BY AccType
  <2>3. <<Acc(t, k).row, Acc(t, k).val>> \in WritePairs(t)
    BY <1>1, <2>2 DEF WritePairs, Acc
  <2> QED
    BY <2>1, <2>3
<1> QED
  BY <1>4, <1>5

\* What a transaction in validate_silo has read is good if the row has the tid it was
\* read under and no other transaction holds it: whoever wrote the row later in the
\* history would have changed the tid, or holds it.
LEMMA GoodRead ==
  ASSUME SiloInv, \A u \in Threads : Covers(u), HistInv(order, base), NEW B, B = base,
         NEW i \in 1..Len(order), Live(order[i]), NEW t \in Threads, t = order[i].txn,
         NEW m \in 1..Len(accesses[t]), NEW r \in Rows, r = accesses[t][m].row,
         tid[r] = accesses[t][m].tid, \A u \in Threads : r \in Held(u) => u = t
  PROVE  Good(order, B, i, <<r, accesses[t][m].read>>)
<1> USE DEF SiloInv
<1>0. /\ order \in Seq(Entry) /\ Len(order) \in Nat /\ pc[t] = "validate"
      /\ accesses[t] \in Seq(Access) /\ tid[r] \in Nat /\ pc[t] \notin WritePC
      /\ i - 1 \in Nat /\ i - 1 <= Len(order) /\ ~Ended(order[i])
  BY LenProperties DEF HistInv, HistType, Live, Types, WritePC, Ended
<1>1. ~Dirty(r)
  <2> SUFFICES ASSUME NEW u \in Threads, Writing(u, r) PROVE FALSE
    BY DEF Dirty
  <2>1. pc[u] \in {"write2", "store"} /\ Acc(u, idx[u] + 1).row = r /\ Shape(u)
    BY DEF Writing
  <2>i. Types /\ idx[u] \in Nat /\ Len(write_set[u]) \in Nat
    BY LenProperties DEF Types
  <2>2. idx[u] + 1 \in (idx[u] + 1)..Len(write_set[u])
    <3>1. idx[u] < Len(write_set[u])
      BY <2>1 DEF Shape
    <3> QED
      BY <2>i, <3>1
  <2>3. r \in Held(u)
    BY <2>1, <2>2, WritesHeld
  <2> QED
    BY <1>0, <2>1, <2>3
<1>2. data[r] = accesses[t][m].read
  BY <1>1 DEF DataInv, Read
<1>o. \A u \in Threads : pc[u] \in Active /\ r \in Owns(u) => u = t
  BY OwnsHeld
<1>3. data[r] = After(B, order, Len(order))[r]
  BY <1>0, <1>o DEF HistInv, Stored, Active
<1>4. \A k \in ((i - 1) + 1)..Len(order) : ~(Counts(order[k]) /\ Writes(order[k], r))
  <2> SUFFICES ASSUME NEW k \in 1..Len(order), k >= i, Counts(order[k]), Writes(order[k], r)
               PROVE  FALSE
    BY <1>0
  <2>1. k # i
    BY DEF Live, Counts
  <2>2. i < k
    BY <1>0, <2>1
  <2>3. order[k].st = "decided" /\ r \in Owns(order[k].txn)
    BY <1>0, <2>2 DEF HistInv, Newer
  <2>4. order[k].txn \in Threads /\ pc[order[k].txn] \in WritePC
    BY <1>0, <2>3, EntryParts DEF HistInv, Entries
  <2> QED
    BY <1>0, <1>o, <2>3, <2>4 DEF Active
<1>5. After(B, order, Len(order))[r] = After(B, order, i - 1)[r]
  BY <1>0, <1>4, AfterTail
<1>6. ASSUME NEW j \in 1..(i - 1), Live(order[j]) PROVE ~Writes(order[j], r)
  <2>1. j \in 1..Len(order) /\ j # i
    BY <1>0
  <2>2. order[j].txn \in Threads /\ pc[order[j].txn] = "validate" /\ ~Ended(order[j])
    BY <1>0, <1>6, <2>1, EntryParts DEF Live, Ended
  <2>3. order[j].txn # t
    BY <1>0, <2>1, <2>2 DEF HistInv, Entries
  <2>4. r \notin Owns(order[j].txn)
    BY <1>o, <2>2, <2>3 DEF Active
  <2>5. order[j].writes = WritePairs(order[j].txn)
    BY <1>6, <2>1 DEF HistInv, Entries, Runs
  <2>6. PICK u \in Threads : u = order[j].txn
    BY <2>2
  <2>7. Types /\ Shape(u) /\ Covers(u) /\ pc[u] = "validate"
    BY <2>2, <2>6
  <2>8. (\E p \in WritePairs(u) : p[1] = r) <=> r \in Owns(u)
    BY <2>7, OwnsWrites
  <2> QED
    BY <2>4, <2>5, <2>6, <2>8 DEF Writes
<1>7. PICK p : p = <<r, accesses[t][m].read>>
  OBVIOUS
<1>8. p[1] = r /\ p[2] = accesses[t][m].read
  BY <1>7
<1>9. Good(order, B, i, p)
  BY <1>2, <1>3, <1>5, <1>6, <1>8 DEF Good
<1> QED
  BY <1>7, <1>9

\* Whoever runs owns rows that nobody else holds.
LEMMA OwnsApart ==
  ASSUME SiloInv, NEW t \in Threads, NEW u \in Threads, pc[t] \in Active,
         pc[u] \in Active \/ num_locks[u] = Len(write_set[u]),
         NEW r \in Owns(t), r \in Owns(u)
  PROVE  t = u
<1>1. r \in Held(t) \cap Rows
  BY OwnsHeld DEF SiloInv
<1>2. r \in Held(u)
  BY OwnsHeld DEF SiloInv
<1> QED
  BY <1>1, <1>2 DEF SiloInv, BitInv

\* The entries up to n determine what they leave in the database.
LEMMA AfterSame ==
  ASSUME NEW db, NEW h, NEW g, NEW n \in Nat, NEW r \in Rows, \A i \in 1..n : h[i] = g[i]
  PROVE  After(db, h, n)[r] = After(db, g, n)[r]
<1>1. \A i \in 1..n : /\ Counts(h[i]) /\ Writes(h[i], r) <=> Counts(g[i]) /\ Writes(g[i], r)
                      /\ h[i].writes = g[i].writes
  OBVIOUS
<1> QED
  BY <1>1, AfterAgree

\* The sets an entry is made of.
LEMMA PairsType ==
  ASSUME Types, NEW t \in Threads
  PROVE  ReadPairs(t) \in SUBSET (Rows \X Words) /\ WritePairs(t) \in SUBSET (Rows \X Words)
<1>1. accesses[t] \in Seq(Access) /\ DOMAIN accesses[t] = 1..Len(accesses[t])
  BY LenProperties DEF Types
<1>2. \A i \in DOMAIN accesses[t] : /\ accesses[t][i].row \in Rows /\ accesses[t][i].read \in Words
                                   /\ accesses[t][i].val \in Words
  BY <1>1, AccessOf
<1> QED
  BY <1>2 DEF ReadPairs, WritePairs

\* A transaction that has locked its write set comes last in the history.
LEMMA HistAppend ==
  ASSUME SiloInv, \A u \in Threads : Covers(u), HistInv(order, base), NEW B, B = base,
         NEW t \in Threads, Local(t), AllLocked(t), NEW e,
         e = [txn |-> t, st |-> "pending", reads |-> ReadPairs(t), writes |-> WritePairs(t)],
         NEW H \in Seq(Entry), Len(H) = Len(order) + 1, H[Len(order) + 1] = e,
         \A i \in 1..Len(order) : H[i] = order[i]
  PROVE  HistInv(H, B)'
<1> DEFINE L == Len(order)
           D == 1..L
<1>0. order \in Seq(Entry) /\ L \in Nat /\ B \in [Rows -> Words] /\ Types /\ Shape(t) /\ Covers(t)
  BY LenProperties DEF HistInv, HistType, SiloInv
<1>s. /\ pc[t] = "lock" /\ pc'[t] = "validate" /\ idx'[t] = idx[t] /\ idx[t] = 0
      /\ num_locks[t] = Len(write_set[t])
      /\ UNCHANGED <<data, tid, accesses, write_set>>
  BY <1>0 DEF AllLocked, Goto, Types, Shape, rowVars, validateVars
<1>p. e \in Entry /\ e.txn = t /\ e.st = "pending" /\ e.reads = ReadPairs(t) /\ e.writes = WritePairs(t)
  BY <1>0, PairsType DEF Entry
<1>h. /\ H \in Seq(Entry) /\ Len(H) = L + 1 /\ H[L + 1] = e
      /\ \A i \in D : H[i] = order[i]
  OBVIOUS
<1>c. ~Counts(e) /\ ~Ended(e)
  BY <1>p DEF Counts, Ended
<1>d. \A i \in 1..Len(H) : i \in D \/ (i = L + 1 /\ H[i] = e)
  BY <1>0, <1>h
<1> HIDE DEF L
<1>e. \A i \in D : /\ order[i].txn \in Threads
                   /\ order[i].st \in {"pending", "decided", "finished", "aborted"}
                   /\ \A q \in order[i].reads : q[1] \in Rows
  BY <1>0, EntryParts DEF L
<1>n. ASSUME NEW i \in D, ~Ended(order[i]) PROVE order[i].txn # t
  BY <1>e, <1>n, <1>s DEF Ended, HistInv, Entries, WritePC, L
<1>u. \A u \in Threads : u # t => /\ Owns(u)' = Owns(u) /\ pc'[u] = pc[u]
                                 /\ accesses'[u] = accesses[u] /\ idx'[u] = idx[u]
                                 /\ ReadPairs(u)' = ReadPairs(u) /\ WritePairs(u)' = WritePairs(u)
  BY OwnsElsewhere
<1>t. ReadPairs(t)' = ReadPairs(t) /\ WritePairs(t)' = WritePairs(t)
  BY <1>s DEF ReadPairs, WritePairs
<1>l. ASSUME NEW i \in D, Live(H[i])' PROVE Live(order[i]) /\ order[i].txn # t
  <2>1. H[i] = order[i] /\ order[i].st = "pending" /\ ~Ended(order[i])
    BY <1>h, <1>l DEF Live, Ended
  <2> QED
    BY <1>e, <1>l, <1>n, <1>u, <2>1 DEF Live
<1>r. ASSUME NEW i \in D, Runs(H[i])'
      PROVE  Runs(order[i]) /\ order[i].txn # t /\ pc[order[i].txn] \in Active
  <2>1. CASE Live(H[i])'
    BY <1>l, <2>1 DEF Runs, Live, Active
  <2>2. CASE H[i].st = "decided"
    <3>1. order[i].st = "decided" /\ ~Ended(order[i])
      BY <1>h, <2>2 DEF Ended
    <3> QED
      BY <1>n, <3>1 DEF Runs, Active, HistInv, Entries, L
  <2> QED
    BY <1>r, <2>1, <2>2 DEF Runs
<1>a. \A n \in Nat, r \in Rows : n <= L => After(B, H, n)[r] = After(B, order, n)[r]
  <2> SUFFICES ASSUME NEW n \in Nat, NEW r \in Rows, n <= L
               PROVE  After(B, H, n)[r] = After(B, order, n)[r]
    OBVIOUS
  <2>1. \A i \in 1..n : H[i] = order[i]
    BY <1>0, <1>h
  <2> QED
    BY <2>1, AfterSame
<1>b. \A r \in Rows : After(B, H, Len(H))[r] = After(B, order, L)[r]
  <2> SUFFICES ASSUME NEW r \in Rows PROVE After(B, H, Len(H))[r] = After(B, order, L)[r]
    OBVIOUS
  <2>1. \A i \in (L + 1)..(L + 1) : ~(Counts(H[i]) /\ Writes(H[i], r))
    BY <1>0, <1>c, <1>h
  <2>2. After(B, H, L + 1)[r] = After(B, H, L)[r]
    <3>1. L + 1 \in Nat /\ L <= L + 1
      BY <1>0
    <3> QED
      BY <1>0, <2>1, <3>1, AfterTail
  <2> QED
    BY <1>0, <1>a, <1>h, <2>2
<1>1. HistType(H, B)'
  BY <1>0, <1>h DEF HistType
<1>2. Entries(H)'
  <2>1. ASSUME NEW i \in 1..Len(H)
        PROVE  /\ H[i].st = "pending" => pc'[H[i].txn] \in {"validate", "abort"}
               /\ H[i].st = "decided" => pc'[H[i].txn] \in WritePC
               /\ Runs(H[i])' => H[i].reads = ReadPairs(H[i].txn)' /\ H[i].writes = WritePairs(H[i].txn)'
    <3>1. CASE i \in D
      <4>1. /\ order[i].st = "pending" => pc[order[i].txn] \in {"validate", "abort"}
            /\ order[i].st = "decided" => pc[order[i].txn] \in WritePC
            /\ Runs(order[i]) => /\ order[i].reads = ReadPairs(order[i].txn)
                                 /\ order[i].writes = WritePairs(order[i].txn)
        BY <3>1 DEF HistInv, Entries, L
      <4>2. order[i].st \in {"pending", "decided"} => order[i].txn # t
        BY <1>n, <3>1 DEF Ended
      <4> QED
        BY <1>e, <1>h, <1>r, <1>u, <3>1, <4>1, <4>2
    <3>2. CASE H[i] = e
      BY <1>p, <1>s, <1>t, <3>2
    <3> QED
      BY <1>d, <3>1, <3>2
  <2>2. ASSUME NEW i \in 1..Len(H), NEW j \in 1..Len(H),
               H[i].txn = H[j].txn, ~Ended(H[i]), ~Ended(H[j])
        PROVE  i = j
    <3>1. CASE i \in D /\ j \in D
      BY <1>h, <2>2, <3>1 DEF HistInv, Entries, L
    <3>2. CASE i \in D /\ ~(j \in D)
      BY <1>d, <1>h, <1>n, <1>p, <2>2, <3>2
    <3>3. CASE ~(i \in D) /\ j \in D
      BY <1>d, <1>h, <1>n, <1>p, <2>2, <3>3
    <3> QED
      BY <1>d, <3>1, <3>2, <3>3
  <2>3. ASSUME NEW u \in Threads, pc'[u] \in Active
        PROVE  \E i \in 1..Len(H) : H[i].txn = u /\ ~Ended(H[i])
    <3>1. CASE u = t
      <4>1. L + 1 \in 1..Len(H)
        BY <1>0, <1>h
      <4> QED
        BY <1>c, <1>h, <1>p, <3>1, <4>1
    <3>2. CASE u # t
      <4>1. PICK i \in D : order[i].txn = u /\ ~Ended(order[i])
        BY <1>u, <2>3, <3>2 DEF HistInv, Entries, L
      <4>2. i \in 1..Len(H)
        BY <1>0, <1>h
      <4> QED
        BY <1>h, <4>1, <4>2
    <3> QED
      BY <3>1, <3>2
  <2> QED
    BY <2>1, <2>2, <2>3 DEF Entries
<1>3. Latest(H)'
  <2> SUFFICES ASSUME NEW i \in 1..Len(H), NEW k \in 1..Len(H), i < k, Runs(H[i])',
                      NEW r \in Owns(H[i].txn)'
               PROVE  ~Writes(H[k], r)
    BY DEF Latest
  <2>1. i \in D
    BY <1>0, <1>d, <1>h
  <2>2. Runs(order[i]) /\ order[i].txn # t /\ pc[order[i].txn] \in Active /\ order[i].txn \in Threads
    BY <1>e, <1>r, <2>1
  <2>3. r \in Owns(order[i].txn)
    BY <1>h, <1>u, <2>1, <2>2
  <2>4. CASE k \in D
    BY <1>h, <2>1, <2>2, <2>3, <2>4 DEF HistInv, Latest, L
  <2>5. CASE H[k] = e
    <3>1. (\E q \in WritePairs(t) : q[1] = r) <=> r \in Owns(t)
      BY <1>0, <1>s, OwnsWrites
    <3>2. r \notin Owns(t)
      BY <1>s, <2>2, <2>3, OwnsApart
    <3> QED
      BY <1>p, <2>5, <3>1, <3>2 DEF Writes
  <2> QED
    BY <1>d, <2>4, <2>5
<1>g. ASSUME NEW i \in D, NEW p, p[1] \in Rows, Good(order, B, i, p)
      PROVE  Good(H, B, i, p)'
  <2>1. i - 1 \in Nat /\ i - 1 <= L /\ \A j \in 1..(i - 1) : j \in D
    BY <1>0
  <2>2. After(B, H, i - 1)[p[1]] = After(B, order, i - 1)[p[1]]
    BY <1>a, <1>g, <2>1
  <2>3. \A j \in 1..(i - 1) : Live(H[j])' => ~Writes(H[j], p[1])
    BY <1>g, <1>h, <1>l, <2>1 DEF Good
  <2>4. p[2] = After(B, order, i - 1)[p[1]]
    BY <1>g DEF Good
  <2> QED
    BY <2>2, <2>3, <2>4 DEF Good
<1>4. ReadsGood(H, B)'
  <2>1. ASSUME NEW i \in 1..Len(H), Counts(H[i]), NEW p \in H[i].reads
        PROVE  Good(H, B, i, p)'
    <3>1. i \in D /\ H[i] = order[i]
      BY <1>c, <1>d, <1>h, <2>1
    <3>2. Good(order, B, i, p) /\ p[1] \in Rows
      BY <1>e, <2>1, <3>1 DEF HistInv, ReadsGood, L
    <3> QED
      BY <1>g, <3>1, <3>2
  <2>2. ASSUME NEW i \in 1..Len(H), Live(H[i])', NEW m \in 1..Len(accesses'[H[i].txn]),
               accesses'[H[i].txn][m].type = "RD", m <= idx'[H[i].txn]
        PROVE  Good(H, B, i, <<accesses[H[i].txn][m].row, accesses[H[i].txn][m].read>>)'
    <3>1. CASE H[i] = e
      <4>1. Len(accesses[t]) \in Nat /\ m \in 1..Len(accesses[t]) /\ m <= 0
        BY <1>0, <1>p, <1>s, <2>2, <3>1, LenProperties DEF Types
      <4> QED
        BY <4>1
    <3>2. CASE i \in D
      <4>1. Live(order[i]) /\ order[i].txn # t /\ H[i] = order[i] /\ order[i].txn \in Threads
        BY <1>e, <1>h, <1>l, <2>2, <3>2
      <4>2. PICK u \in Threads : u = order[i].txn
        BY <4>1
      <4>3. /\ accesses'[u] = accesses[u] /\ idx'[u] = idx[u] /\ accesses[u] \in Seq(Access)
            /\ m \in 1..Len(accesses[u])
        BY <1>0, <1>u, <2>2, <4>1, <4>2 DEF Types
      <4>4. PICK p : p = <<accesses[u][m].row, accesses[u][m].read>>
        OBVIOUS
      <4>5. p[1] \in Rows
        BY <4>3, <4>4, AccessOf
      <4>6. Good(order, B, i, p)
        BY <2>2, <3>2, <4>1, <4>2, <4>3, <4>4 DEF HistInv, ReadsGood, L
      <4>7. Good(H, B, i, p)'
        BY <1>g, <3>2, <4>5, <4>6
      <4>8. p = <<accesses'[H[i].txn][m].row, accesses'[H[i].txn][m].read>>
        BY <4>1, <4>2, <4>3, <4>4
      <4> QED
        BY <4>7, <4>8 DEF Good
    <3> QED
      BY <1>d, <3>1, <3>2
  <2> QED
    BY <2>1, <2>2 DEF ReadsGood
<1>5. Newer(H)'
  <2> SUFFICES ASSUME NEW i \in 1..Len(H), NEW k \in 1..Len(H), i < k, Live(H[i])', Counts(H[k]),
                      NEW m \in 1..Len(accesses'[H[i].txn]),
                      Writes(H[k], accesses'[H[i].txn][m].row)
               PROVE  LET a == accesses'[H[i].txn][m] IN
                      a.tid < tid'[a.row] \/ (H[k].st = "decided" /\ a.row \in Owns(H[k].txn)')
    BY DEF Newer
  <2>1. k \in D /\ H[k] = order[k] /\ i \in D /\ H[i] = order[i]
    BY <1>0, <1>c, <1>d, <1>h
  <2>2. Live(order[i])
    BY <1>l, <2>1
  <2>3. order[k].st = "decided" => order[k].txn # t /\ order[k].txn \in Threads
    BY <1>e, <1>n, <2>1 DEF Ended
  <2>4. LET a == accesses[order[i].txn][m] IN
        a.tid < tid[a.row] \/ (order[k].st = "decided" /\ a.row \in Owns(order[k].txn))
    BY <1>s, <2>1, <2>2 DEF HistInv, Newer, L
  <2> QED
    BY <1>s, <1>u, <2>1, <2>3, <2>4
<1>6. Stored(H, B)'
  <2> SUFFICES ASSUME NEW r \in Rows
               PROVE  \/ data'[r] = After(B, H, Len(H))[r]
                      \/ \E u \in Threads : pc'[u] \in WritePC /\ r \in Owns(u)'
    BY DEF Stored
  <2>1. After(B, H, Len(H))[r] = After(B, order, L)[r]
    BY <1>b
  <2>2. CASE data[r] = After(B, order, L)[r]
    BY <1>s, <2>1, <2>2
  <2>3. CASE \E u \in Threads : pc[u] \in WritePC /\ r \in Owns(u)
    <3>1. PICK u \in Threads : pc[u] \in WritePC /\ r \in Owns(u)
      BY <2>3
    <3>2. u # t
      BY <1>s, <3>1 DEF WritePC
    <3> QED
      BY <1>u, <3>1, <3>2
  <2> QED
    BY <2>2, <2>3 DEF HistInv, Stored, L
<1> QED
  BY <1>1, <1>2, <1>3, <1>4, <1>5, <1>6 DEF HistInv

\* When there is no next row of the read set, all have been validated.
LEMMA AllReadsSeen ==
  ASSUME Types, NEW t \in Threads, ~\E i \in DOMAIN accesses[t] : NextRead(t, i),
         NEW m \in 1..Len(accesses[t]), accesses[t][m].type = "RD"
  PROVE  m <= idx[t]
<1> DEFINE s == accesses[t]
           T == {j \in 1..Len(s) : j > idx[t] /\ s[j].type = "RD"}
<1>1. DOMAIN s = 1..Len(s) /\ Len(s) \in Nat /\ idx[t] \in Nat
  BY LenProperties DEF Types
<1> SUFFICES ASSUME m > idx[t] PROVE FALSE
  BY <1>1
<1>2. m \in T /\ T \subseteq Nat
  BY <1>1
<1>3. PICK i \in T : \A j \in T : i <= j
  BY <1>2, LeastNat
<1>4. NextRead(t, i) /\ i \in DOMAIN s
  BY <1>1, <1>3 DEF NextRead
<1> QED
  BY <1>4

\* validate_silo decides to commit the n-th transaction of the history.
LEMMA HistDecide ==
  ASSUME SiloInv, \A u \in Threads : Covers(u), HistInv(order, base), NEW B, B = base,
         NEW t \in Threads, Local(t), ValidateWrites(t), pc'[t] = "write1",
         NEW H \in Seq(Entry), Len(H) = Len(order),
         NEW n \in 1..Len(order), order[n].txn = t, order[n].st = "pending",
         H[n].txn = t, H[n].st = "decided", H[n].reads = order[n].reads, H[n].writes = order[n].writes,
         \A i \in 1..Len(order) : i # n => H[i] = order[i]
  PROVE  HistInv(H, B)'
<1> DEFINE L == Len(order)
           D == 1..L
<1>0. order \in Seq(Entry) /\ L \in Nat /\ B \in [Rows -> Words] /\ Types /\ Shape(t) /\ Covers(t)
  BY LenProperties DEF HistInv, HistType, SiloInv
<1>s. /\ pc[t] = "validate" /\ idx'[t] = 0 /\ UNCHANGED <<data, tid, accesses, write_set>>
      /\ ~\E i \in DOMAIN accesses[t] : NextRead(t, i)
      /\ \A k \in 1..Len(write_set[t]) : tid[Acc(t, k).row] = Acc(t, k).tid
  <2>1. /\ DOMAIN write_set[t] = 1..Len(write_set[t]) /\ t \in DOMAIN idx
        /\ [pc EXCEPT ![t] = "abort"][t] = "abort"
    BY <1>0, LenProperties DEF Types
  <2> QED
    BY <2>1 DEF ValidateWrites, Goto, rowVars
<1> HIDE DEF L
<1>e. \A i \in D : /\ order[i].txn \in Threads
                   /\ order[i].st \in {"pending", "decided", "finished", "aborted"}
                   /\ \A q \in order[i].reads : q[1] \in Rows
  BY <1>0, EntryParts DEF L
<1>f. /\ \A i \in D : /\ H[i].txn = order[i].txn /\ H[i].reads = order[i].reads
                      /\ H[i].writes = order[i].writes
                      /\ Ended(H[i]) <=> Ended(order[i])
                      /\ i # n => H[i] = order[i]
      /\ Len(H) = L /\ n \in D /\ ~Ended(order[n])
  BY DEF Ended, L
<1>w. \A i \in D : \A r : Writes(H[i], r) <=> Writes(order[i], r)
  BY <1>f DEF Writes
<1>m. \A i \in D : i # n /\ ~Ended(order[i]) => order[i].txn # t
  BY <1>f DEF HistInv, Entries, L
<1>v. Live(order[n])
  BY <1>s DEF Live
<1>u. \A u \in Threads : u # t => /\ Owns(u)' = Owns(u) /\ pc'[u] = pc[u] /\ idx'[u] = idx[u]
  BY OwnsElsewhere
<1>o. \A u \in Threads : /\ Owns(u)' = Owns(u)
                         /\ ReadPairs(u)' = ReadPairs(u) /\ WritePairs(u)' = WritePairs(u)
                         /\ pc[u] \in WritePC => pc'[u] \in WritePC
  <2>1. Owns(t)' = Owns(t)
    <3>1. \A k : Acc(t, k)' = Acc(t, k)
      BY <1>s DEF Acc
    <3>2. (IF pc'[t] = "validate" THEN 1 ELSE Todo(t)') = 1 /\ (IF pc[t] = "validate" THEN 1 ELSE Todo(t)) = 1
      BY <1>s DEF Todo
    <3> QED
      BY <1>s, <3>1, <3>2 DEF Owns
  <2>2. \A u \in Threads : ReadPairs(u)' = ReadPairs(u) /\ WritePairs(u)' = WritePairs(u)
    BY <1>s DEF ReadPairs, WritePairs
  <2> QED
    BY <1>s, <1>u, <2>1, <2>2 DEF WritePC
<1>q. ASSUME NEW m \in 1..Len(accesses[t]), NEW r \in Rows, r = accesses[t][m].row
      PROVE  Good(order, B, n, <<r, accesses[t][m].read>>)
  <2>1. accesses[t][m].type \in {"RD", "WR"}
    <3>1. accesses[t] \in Seq(Access)
      BY <1>0 DEF Types
    <3> QED
      BY <3>1, AccessOf DEF Access
  <2>2. CASE accesses[t][m].type = "RD"
    <3>1. m <= idx[t]
      BY <1>0, <1>s, <2>2, AllReadsSeen
    <3> QED
      BY <1>q, <1>v, <2>2, <3>1 DEF HistInv, ReadsGood
  <2>3. CASE accesses[t][m].type = "WR"
    <3>1. PICK k \in 1..Len(write_set[t]) : write_set[t][k] = m
      BY <1>0, <1>s, <2>3 DEF Covers
    <3>2. tid[r] = accesses[t][m].tid /\ Acc(t, k).row = r
      BY <1>q, <1>s, <3>1 DEF Acc
    <3>3. r \in Owns(t)
      BY <1>s, <3>2 DEF Owns
    <3>4. r \in Held(t)
      BY <1>0, <1>s, <3>3, OwnsHeld DEF Active
    <3>5. \A u \in Threads : r \in Held(u) => u = t
      BY <3>4 DEF SiloInv, BitInv
    <3> QED
      BY <1>q, <1>v, <3>2, <3>5, GoodRead
  <2> QED
    BY <2>1, <2>2, <2>3
<1>x. \A r : Writes(order[n], r) <=> r \in Owns(t)
  <2>1. order[n].writes = WritePairs(t)
    BY <1>v DEF Runs, HistInv, Entries
  <2> SUFFICES ASSUME NEW r PROVE Writes(order[n], r) <=> r \in Owns(t)
    OBVIOUS
  <2>2. (\E q \in WritePairs(t) : q[1] = r) <=> r \in Owns(t)
    BY <1>0, <1>s, OwnsWrites
  <2> QED
    BY <2>1, <2>2 DEF Writes
<1>l. ASSUME NEW i \in D, Live(H[i])'
      PROVE  i # n /\ H[i] = order[i] /\ Live(order[i]) /\ order[i].txn # t
  <2>1. H[i].st = "pending" /\ pc'[H[i].txn] = "validate"
    BY <1>l DEF Live
  <2> QED
    BY <1>e, <1>f, <1>u, <2>1 DEF Live
<1>r. ASSUME NEW i \in D, Runs(H[i])' PROVE Runs(order[i])
  BY <1>f, <1>l, <1>r, <1>v DEF Runs
<1>1. HistType(H, B)'
  BY <1>0 DEF HistType
<1>2. Entries(H)'
  <2>1. ASSUME NEW i \in D
        PROVE  /\ H[i].st = "pending" => pc'[H[i].txn] \in {"validate", "abort"}
               /\ H[i].st = "decided" => pc'[H[i].txn] \in WritePC
    <3>1. CASE i = n
      BY <3>1 DEF WritePC
    <3>2. CASE i # n
      <4>1. /\ order[i].st = "pending" => pc[order[i].txn] \in {"validate", "abort"}
            /\ order[i].st = "decided" => pc[order[i].txn] \in WritePC
        BY DEF HistInv, Entries, L
      <4>2. order[i].st \in {"pending", "decided"} => order[i].txn # t
        BY <1>m, <3>2 DEF Ended
      <4> QED
        BY <1>e, <1>f, <1>u, <3>2, <4>1, <4>2
    <3> QED
      BY <3>1, <3>2
  <2>2. ASSUME NEW i \in D, Runs(H[i])'
        PROVE  H[i].reads = ReadPairs(H[i].txn)' /\ H[i].writes = WritePairs(H[i].txn)'
    <3>1. /\ order[i].reads = ReadPairs(order[i].txn)
          /\ order[i].writes = WritePairs(order[i].txn)
      BY <1>r, <2>2 DEF HistInv, Entries, L
    <3> QED
      BY <1>e, <1>f, <1>o, <3>1
  <2>3. \A i, j \in D : H[i].txn = H[j].txn /\ ~Ended(H[i]) /\ ~Ended(H[j]) => i = j
    BY <1>f DEF HistInv, Entries, L
  <2>4. ASSUME NEW u \in Threads, pc'[u] \in Active
        PROVE  \E i \in D : H[i].txn = u /\ ~Ended(H[i])
    <3>1. pc[u] \in Active
      BY <1>s, <1>u, <2>4 DEF Active
    <3>2. PICK i \in D : order[i].txn = u /\ ~Ended(order[i])
      BY <3>1 DEF HistInv, Entries, L
    <3> QED
      BY <1>f, <3>2
  <2> QED
    BY <1>f, <2>1, <2>2, <2>3, <2>4 DEF Entries
<1>3. Latest(H)'
  <2> SUFFICES ASSUME NEW i \in D, NEW k \in D, i < k, Runs(H[i])', NEW r \in Owns(H[i].txn)'
               PROVE  ~Writes(H[k], r)
    BY <1>f DEF Latest
  <2>1. Runs(order[i]) /\ r \in Owns(order[i].txn)
    BY <1>e, <1>f, <1>o, <1>r
  <2> QED
    BY <1>w, <2>1 DEF HistInv, Latest, L
<1>g. ASSUME NEW i \in D, NEW p, p[1] \in Rows, Good(order, B, i, p)
      PROVE  Good(H, B, i, p)'
  <2>1. i - 1 \in Nat /\ i - 1 <= L /\ \A j \in 1..(i - 1) : j \in D
    BY <1>0
  <2>2. \A j \in 1..(i - 1) : Live(order[j]) => ~Writes(order[j], p[1])
    BY <1>g DEF Good
  <2>3. n \in 1..(i - 1) => ~Writes(order[n], p[1])
    BY <1>v, <2>2
  <2>4. \A j \in 1..(i - 1) :
           /\ Counts(H[j]) /\ Writes(H[j], p[1]) <=> Counts(order[j]) /\ Writes(order[j], p[1])
           /\ Counts(H[j]) /\ Writes(H[j], p[1]) => H[j].writes = order[j].writes
    BY <1>f, <1>w, <2>1, <2>3
  <2>5. After(B, H, i - 1)[p[1]] = After(B, order, i - 1)[p[1]]
    BY <1>g, <2>1, <2>4, AfterAgree
  <2>6. \A j \in 1..(i - 1) : Live(H[j])' => ~Writes(H[j], p[1])
    BY <1>l, <2>1, <2>2
  <2>7. p[2] = After(B, order, i - 1)[p[1]]
    BY <1>g DEF Good
  <2> QED
    BY <2>5, <2>6, <2>7 DEF Good
<1>4. ReadsGood(H, B)'
  <2>1. ASSUME NEW i \in D, Counts(H[i]), NEW p \in H[i].reads
        PROVE  Good(H, B, i, p)'
    <3>1. p[1] \in Rows /\ p \in order[i].reads
      BY <1>e, <1>f, <2>1
    <3>2. CASE i # n
      <4>1. Good(order, B, i, p)
        BY <1>f, <2>1, <3>1, <3>2 DEF HistInv, ReadsGood, L
      <4> QED
        BY <1>g, <3>1, <4>1
    <3>3. CASE i = n
      <4>1. p \in ReadPairs(t)
        BY <1>v, <3>1, <3>3 DEF Runs, HistInv, Entries
      <4>2. DOMAIN accesses[t] = 1..Len(accesses[t])
        BY <1>0, LenProperties DEF Types
      <4>3. PICK m \in 1..Len(accesses[t]) : p = <<accesses[t][m].row, accesses[t][m].read>>
        BY <4>1, <4>2 DEF ReadPairs
      <4>4. PICK r \in Rows : r = accesses[t][m].row
        BY <3>1, <4>3
      <4>5. Good(order, B, n, <<r, accesses[t][m].read>>)
        BY <1>q, <4>4
      <4>6. Good(order, B, n, p)
        BY <4>3, <4>4, <4>5
      <4> QED
        BY <1>g, <3>1, <3>3, <4>6
    <3> QED
      BY <3>2, <3>3
  <2>2. ASSUME NEW i \in D, Live(H[i])', NEW m \in 1..Len(accesses'[H[i].txn]),
               accesses'[H[i].txn][m].type = "RD", m <= idx'[H[i].txn]
        PROVE  Good(H, B, i, <<accesses[H[i].txn][m].row, accesses[H[i].txn][m].read>>)'
    <3>1. Live(order[i]) /\ order[i].txn # t /\ H[i] = order[i] /\ order[i].txn \in Threads
      BY <1>e, <1>l, <2>2
    <3>2. PICK u \in Threads : u = order[i].txn
      BY <3>1
    <3>3. /\ accesses'[u] = accesses[u] /\ idx'[u] = idx[u] /\ accesses[u] \in Seq(Access)
          /\ m \in 1..Len(accesses[u])
      BY <1>0, <1>s, <1>u, <2>2, <3>1, <3>2 DEF Types
    <3>4. PICK p : p = <<accesses[u][m].row, accesses[u][m].read>>
      OBVIOUS
    <3>5. p[1] \in Rows
      BY <3>3, <3>4, AccessOf
    <3>6. Good(order, B, i, p)
      BY <2>2, <3>1, <3>2, <3>3, <3>4 DEF HistInv, ReadsGood, L
    <3>7. Good(H, B, i, p)'
      BY <1>g, <3>5, <3>6
    <3>8. p = <<accesses'[H[i].txn][m].row, accesses'[H[i].txn][m].read>>
      BY <3>1, <3>2, <3>3, <3>4
    <3> QED
      BY <3>7, <3>8 DEF Good
  <2> QED
    BY <1>f, <2>1, <2>2 DEF ReadsGood
<1>5. Newer(H)'
  <2> SUFFICES ASSUME NEW i \in D, NEW k \in D, i < k, Live(H[i])', Counts(H[k]),
                      NEW m \in 1..Len(accesses'[H[i].txn]),
                      Writes(H[k], accesses'[H[i].txn][m].row)
               PROVE  LET a == accesses'[H[i].txn][m] IN
                      a.tid < tid'[a.row] \/ (H[k].st = "decided" /\ a.row \in Owns(H[k].txn)')
    BY <1>f DEF Newer
  <2>1. H[i] = order[i] /\ Live(order[i])
    BY <1>l
  <2>2. CASE k = n
    <3>1. accesses'[H[i].txn][m].row \in Owns(t)
      BY <1>w, <1>x, <2>2
    <3> QED
      BY <1>o, <2>2, <3>1
  <2>3. CASE k # n
    <3>1. H[k] = order[k] /\ order[k].txn \in Threads
      BY <1>e, <1>f, <2>3
    <3>2. LET a == accesses[order[i].txn][m] IN
          a.tid < tid[a.row] \/ (order[k].st = "decided" /\ a.row \in Owns(order[k].txn))
      BY <1>s, <2>1, <3>1 DEF HistInv, Newer, L
    <3> QED
      BY <1>s, <1>o, <2>1, <3>1, <3>2
  <2> QED
    BY <2>2, <2>3
<1>6. Stored(H, B)'
  <2> SUFFICES ASSUME NEW r \in Rows
               PROVE  \/ data'[r] = After(B, H, Len(H))[r]
                      \/ \E u \in Threads : pc'[u] \in WritePC /\ r \in Owns(u)'
    BY DEF Stored
  <2>1. CASE r \in Owns(t)
    BY <1>o, <2>1 DEF WritePC
  <2>2. CASE r \notin Owns(t)
    <3>1. \A j \in 1..L :
           /\ Counts(H[j]) /\ Writes(H[j], r) <=> Counts(order[j]) /\ Writes(order[j], r)
           /\ Counts(H[j]) /\ Writes(H[j], r) => H[j].writes = order[j].writes
      BY <1>f, <1>w, <1>x, <2>2
    <3>2. After(B, H, Len(H))[r] = After(B, order, L)[r]
      BY <1>0, <1>f, <3>1, AfterAgree
    <3>3. CASE data[r] = After(B, order, L)[r]
      BY <1>s, <3>2, <3>3
    <3>4. CASE \E u \in Threads : pc[u] \in WritePC /\ r \in Owns(u)
      BY <1>o, <3>4
    <3> QED
      BY <3>3, <3>4 DEF HistInv, Stored, L
  <2> QED
    BY <2>1, <2>2
<1> QED
  BY <1>1, <1>2, <1>3, <1>4, <1>5, <1>6 DEF HistInv

-----------------------------------------------------------------------------
(***************************************************************************)
(* The steps                                                               *)
(***************************************************************************)

\* Where t is before validate_silo.
Early == {"idle", "exec", "load", "copy1", "copy2", "reload"}

\* StartValidate puts all writes into the write set, and there they stay.
LEMMA CoversStep ==
  ASSUME Types, NEW t \in Threads, Shape(t), Covers(t), Step(t), Local(t), NEW u \in Threads, Covers(u)
  PROVE  Covers(u)'
<1>1. CASE u # t
  BY <1>1 DEF Local, Covers
<1>y. /\ pc \in [Threads -> PC] /\ write_set \in [Threads -> Seq(Nat)]
      /\ accesses \in [Threads -> Seq(Access)] /\ Len(accesses[t]) \in Nat
  BY LenProperties DEF Types
<1>2. CASE StartValidate(t)
  <2> DEFINE W == {i \in DOMAIN accesses[t] : accesses[t][i].type = "WR"}
  <2>1. PICK ws \in SetToSeqs(W) : write_set' = [write_set EXCEPT ![t] = ws]
    BY <1>2 DEF StartValidate
  <2>2. W = {i \in 1..Len(accesses[t]) : accesses[t][i].type = "WR"}
    BY <1>y, LenProperties
  <2>3. IsFiniteSet(W) /\ W \in SUBSET Nat
    <3>1. W \subseteq 1..Len(accesses[t])
      BY <2>2
    <3> HIDE DEF W
    <3> QED
      BY <1>y, <3>1, PositionsFinite
  <2>4. \A i \in W : \E k \in 1..Len(ws) : ws[k] = i
    <3> HIDE DEF W
    <3> QED
      BY <2>3, SetToSeqsProperties
  <2>5. write_set'[t] = ws /\ accesses'[t] = accesses[t]
    BY <1>2, <1>y, <2>1 DEF StartValidate
  <2>6. Covers(t)'
    BY <2>2, <2>4, <2>5 DEF Covers
  <2> QED
    BY <1>1, <2>6
<1>3. CASE ~StartValidate(t)
  <2>1. pc'[t] \in Early \/ (/\ pc[t] \notin Early /\ accesses'[t] = accesses[t]
                             /\ write_set'[t] = write_set[t])
    BY <1>3, <1>y DEF Early, Step, NewQuery, RowBufferFull, GetRow, LoadWord, CopyWord, ReadDone, ReadAgain,
       PreAbort, TryLock, LockRow, LockFails, Unlock, Retry, AllLocked, ValidateRead,
       ValidateWrites, WriteWord, StoreTid, ReleaseRow, Commit, Abort, Cleanup, Goto, validateVars
  <2>2. Covers(t)'
    BY <2>1 DEF Covers, Early
  <2> QED
    BY <1>1, <2>2
<1> QED
  BY <1>2, <1>3

\* What Record leaves is good if what it is given is.
LEMMA HistRecord ==
  ASSUME Types', NEW H, NEW B, B = base, HistInv(H, B)', Record(H)
  PROVE  HistInv(order, base)'
<1>1. PICK n \in 0..Len(H) : /\ \A i \in 1..n : Ended(H[i])
                             /\ order' = SubSeq(H, n + 1, Len(H)) /\ base' = After(base, H, n)
  BY DEF Record
<1>2. PICK h : h = SubSeq(H, n + 1, Len(H))
  OBVIOUS
<1>3. PICK b : b = After(B, H, n)
  OBVIOUS
<1>4. HistInv(h, b)'
  BY <1>1, <1>2, <1>3, HistTrim
<1>5. order' = h /\ base' = b
  BY <1>1, <1>2, <1>3
<1> QED
  BY <1>4, <1>5

\* SetState changes the running entry of t only.
LEMMA SetStateParts ==
  ASSUME NEW t \in Threads, order \in Seq(Entry), NEW st \in {"pending", "decided", "finished", "aborted"},
         NEW H, H = SetState(t, st)
  PROVE  /\ H \in Seq(Entry) /\ Len(H) = Len(order)
         /\ \A i \in 1..Len(order) :
              /\ H[i].txn = order[i].txn /\ H[i].reads = order[i].reads /\ H[i].writes = order[i].writes
              /\ Mine(t, order[i]) => H[i].st = st
              /\ ~Mine(t, order[i]) => H[i] = order[i]
<1>1. DOMAIN order = 1..Len(order) /\ Len(order) \in Nat /\ \A i \in 1..Len(order) : order[i] \in Entry
  BY LenProperties, ElementOfSeq
<1>2. H = [i \in 1..Len(order) |-> IF Mine(t, order[i]) THEN [order[i] EXCEPT !.st = st] ELSE order[i]]
  BY <1>1 DEF SetState
<1>3. ASSUME NEW i \in 1..Len(order)
      PROVE  /\ H[i] \in Entry
             /\ H[i].txn = order[i].txn /\ H[i].reads = order[i].reads /\ H[i].writes = order[i].writes
             /\ Mine(t, order[i]) => H[i].st = st
             /\ ~Mine(t, order[i]) => H[i] = order[i]
  <2>1. order[i] \in Entry
    BY <1>1
  <2>2. H[i] = IF Mine(t, order[i]) THEN [order[i] EXCEPT !.st = st] ELSE order[i]
    BY <1>2
  <2>3. CASE Mine(t, order[i])
    <3>1. H[i] = [order[i] EXCEPT !.st = st]
      BY <2>2, <2>3
    <3> QED
      BY <2>1, <2>3, <3>1 DEF Entry
  <2>4. CASE ~Mine(t, order[i])
    BY <2>1, <2>2, <2>4
  <2> QED
    BY <2>3, <2>4
<1>4. H \in Seq(Entry) /\ Len(H) = Len(order)
  <2>1. H \in [1..Len(order) -> Entry]
    BY <1>2, <1>3
  <2> QED
    BY <1>1, <2>1
<1> QED
  BY <1>3, <1>4

\* A step before the validation, or of the release after an abort.
Quiet(t) ==
  /\ UNCHANGED <<data, tid, history>> /\ pc[t] \notin Active /\ pc'[t] \notin Active
  /\ pc[t] = "abort" => pc'[t] = "abort"

\* All other steps are of this kind,
LEMMA QuietStep ==
  ASSUME Types, NEW t \in Threads, Step(t), ~AllLocked(t), ~ValidateRead(t), ~ValidateWrites(t),
         ~WriteWord(t), ~StoreTid(t), ~ReleaseRow(t), ~Commit(t), ~Abort(t)
  PROVE  Quiet(t)
<1>1. pc \in [Threads -> PC] /\ config.no_wait
  BY DEF Types, Sound
<1> QED
  BY <1>1 DEF Quiet, Active, WritePC, Step, NewQuery, RowBufferFull, GetRow, LoadWord, CopyWord,
     ReadDone, ReadAgain, StartValidate, PreAbort, TryLock, LockRow, LockFails, Unlock, Retry, Goto, rowVars,
     history

\* and they change nothing that HistInv is about.
LEMMA HistQuiet ==
  ASSUME SiloInv, Types', HistInv(order, base), NEW t \in Threads, Local(t), Quiet(t)
  PROVE  HistInv(order, base)'
<1>0. Types /\ TidInv /\ order \in Seq(Entry) /\ tid \in [Rows -> Nat]
  BY DEF SiloInv, Types, HistInv, HistType
<1>1. PICK H \in Seq(Entry) : H = order
  BY <1>0
<1>2. PICK B : B = base
  OBVIOUS
<1>3. KeepsEntries(t, H)
  BY <1>1 DEF KeepsEntries
<1>4. /\ data' = data /\ tid' = tid /\ order' = order /\ base' = base /\ pc'[t] \notin Active
      /\ pc[t] \notin Active
      /\ pc[t] = "abort" => pc'[t] = "abort"
  BY DEF Quiet, history
<1>5. /\ pc'[t] # "validate" /\ pc[t] \notin WritePC /\ pc'[t] \notin WritePC /\ pc[t] # "validate"
      /\ pc[t] = "abort" => pc'[t] = "abort"
  BY <1>4 DEF Active
<1>6. \A r \in Rows : tid'[r] >= tid[r] /\ data'[r] = data[r]
  BY <1>0, <1>4
<1>7. HistInv(H, B)'
  BY <1>0, <1>1, <1>2, <1>3, <1>4, <1>5, <1>6, HistKept
<1> QED
  BY <1>1, <1>2, <1>4, <1>7

\* A row of the read set is validated: it has not changed since, and nobody holds it.
LEMMA HistValidateRead ==
  ASSUME SiloInv, Types', \A u \in Threads : Covers(u), HistInv(order, base),
         NEW t \in Threads, Local(t), ValidateRead(t)
  PROVE  HistInv(order, base)'
<1>0. /\ Types /\ TidInv /\ order \in Seq(Entry) /\ tid \in [Rows -> Nat] /\ Shape(t)
      /\ accesses[t] \in Seq(Access) /\ DOMAIN accesses[t] = 1..Len(accesses[t])
      /\ Len(accesses[t]) \in Nat /\ idx[t] \in Nat
  BY LenProperties DEF SiloInv, Types, HistInv, HistType
<1>1. PICK H \in Seq(Entry) : H = order
  BY <1>0
<1>2. PICK B : B = base
  OBVIOUS
<1>3. KeepsEntries(t, H)
  BY <1>1 DEF KeepsEntries
<1>4. /\ pc[t] = "validate"
      /\ UNCHANGED <<data, tid, order, base, accesses, write_set>>
  BY DEF ValidateRead, history, rowVars
<1>5. PICK i \in 1..Len(accesses[t]) :
        /\ NextRead(t, i)
        /\ \/ Valid(t, accesses[t][i]) /\ idx'[t] = i /\ pc' = pc
           \/ pc'[t] = "abort"
  <2>1. t \in DOMAIN pc /\ t \in DOMAIN idx
    BY <1>0 DEF Types
  <2> QED
    BY <1>0, <2>1 DEF ValidateRead, Goto
<1>6. \A r \in Rows : tid'[r] >= tid[r] /\ data'[r] = data[r]
  BY <1>0, <1>4
<1>7. pc[t] \notin WritePC
  BY <1>4 DEF WritePC
<1>8. CASE pc'[t] = "abort"
  <2>1. pc'[t] # "validate" /\ pc'[t] \notin WritePC /\ pc'[t] \notin Active
    BY <1>8 DEF WritePC, Active
  <2>2. HistInv(H, B)'
    BY <1>0, <1>1, <1>2, <1>3, <1>4, <1>6, <1>7, <1>8, <2>1, HistKept
  <2> QED
    BY <1>1, <1>2, <1>4, <2>2
<1>9. CASE Valid(t, accesses[t][i]) /\ idx'[t] = i /\ pc' = pc
  <2>1. pc'[t] = "validate" /\ pc'[t] \notin WritePC
    BY <1>4, <1>7, <1>9
  <2>2. accesses'[t] = accesses[t] /\ Owns(t)' \subseteq Owns(t)
    <3>1. \A k : Acc(t, k)' = Acc(t, k)
      BY <1>4 DEF Acc
    <3> QED
      BY <1>4, <2>1, <3>1 DEF Owns
  <2>3. ASSUME NEW j \in 1..Len(order), order[j].txn = t, order[j].st = "pending",
               NEW m \in 1..Len(accesses[t]), accesses[t][m].type = "RD", m <= idx'[t], ~(m <= idx[t])
        PROVE  Good(order, B, j, <<accesses[t][m].row, accesses[t][m].read>>)
    <3>1. m = i
      BY <1>0, <1>5, <1>9, <2>3 DEF NextRead
    <3>2. PICK r \in Rows : r = accesses[t][m].row
      BY <1>0, AccessOf
    <3>3. ~locked[r] /\ tid[r] = accesses[t][m].tid
      BY <1>9, <3>1, <3>2 DEF Valid
    <3>4. \A u \in Threads : r \in Held(u) => u = t
      BY <3>3 DEF SiloInv, BitInv
    <3>5. Live(order[j])
      BY <1>4, <2>3 DEF Live
    <3>6. Good(order, B, j, <<r, accesses[t][m].read>>)
      BY <1>2, <2>3, <3>2, <3>3, <3>4, <3>5, GoodRead
    <3> QED
      BY <3>2, <3>6
  <2>4. HistInv(H, B)'
    BY <1>0, <1>1, <1>2, <1>3, <1>4, <1>6, <1>7, <2>1, <2>2, <2>3, HistKept
  <2> QED
    BY <1>1, <1>2, <1>4, <2>4
<1> QED
  BY <1>5, <1>8, <1>9

\* Row_silo::write copies a word, or the row is released: what t has yet to store stays
\* the same.
LEMMA HistCopies ==
  ASSUME SiloInv, Types', HistInv(order, base), NEW t \in Threads, Local(t),
         WriteWord(t) \/ ReleaseRow(t)
  PROVE  HistInv(order, base)'
<1>0. /\ Types /\ TidInv /\ order \in Seq(Entry) /\ tid \in [Rows -> Nat] /\ Shape(t)
      /\ idx[t] \in Nat /\ Len(write_set[t]) \in Nat /\ t \in DOMAIN pc /\ t \in DOMAIN idx
      /\ data \in [Rows -> Words]
  BY LenProperties DEF SiloInv, Types, HistInv, HistType
<1>1. PICK H \in Seq(Entry) : H = order
  BY <1>0
<1>2. PICK B : B = base
  OBVIOUS
<1>3. KeepsEntries(t, H)
  BY <1>1 DEF KeepsEntries
<1>4. /\ UNCHANGED <<tid, order, base, accesses, write_set>>
      /\ pc[t] \in WritePC /\ pc'[t] \in WritePC
      /\ Todo(t)' = Todo(t)
  BY <1>0 DEF WriteWord, ReleaseRow, Goto, WritePC, Todo, history, validateVars
<1>5. pc[t] # "validate" /\ pc'[t] # "validate" /\ pc[t] # "abort"
  BY <1>4 DEF WritePC
<1>6. \A k : Acc(t, k)' = Acc(t, k)
  BY <1>4 DEF Acc
<1>7. Owns(t)' = Owns(t)
  BY <1>4, <1>5, <1>6 DEF Owns
<1>8. ASSUME NEW r \in Rows, r \notin Owns(t) PROVE data'[r] = data[r]
  <2>1. CASE ReleaseRow(t)
    BY <2>1 DEF ReleaseRow
  <2>2. CASE WriteWord(t)
    <3>1. idx[t] < Len(write_set[t]) /\ pc[t] \in {"write1", "write2"}
      BY <2>2 DEF WriteWord
    <3>2. idx[t] + 1 \in Todo(t)..Len(write_set[t])
      BY <1>0, <3>1 DEF Todo
    <3>3. r # Acc(t, idx[t] + 1).row
      BY <1>5, <1>8, <3>2 DEF Owns
    <3> QED
      BY <1>0, <2>2, <3>3 DEF WriteWord
  <2> QED
    BY <2>1, <2>2
<1>9. \A r \in Rows : tid'[r] >= tid[r]
  BY <1>0, <1>4
<1>10. HistInv(H, B)'
  BY <1>0, <1>1, <1>2, <1>3, <1>4, <1>5, <1>7, <1>8, <1>9, HistKept
<1> QED
  BY <1>1, <1>2, <1>4, <1>10

\* The new tid of a row is stored when its contents are what the history leaves there.
LEMMA HistStoreTid ==
  ASSUME SiloInv, Types', HistInv(order, base), NEW t \in Threads, Local(t), StoreTid(t)
  PROVE  HistInv(order, base)'
<1> DEFINE a == Acc(t, idx[t] + 1)
<1>0. /\ Types /\ TidInv /\ DataInv /\ order \in Seq(Entry) /\ tid \in [Rows -> Nat] /\ Shape(t)
      /\ idx[t] \in Nat /\ Len(write_set[t]) \in Nat /\ t \in DOMAIN pc /\ data \in [Rows -> Words]
      /\ Len(order) \in Nat /\ cur_tid[t] \in Nat
      /\ DOMAIN accesses[t] = 1..Len(accesses[t])
  BY LenProperties DEF SiloInv, Types, HistInv, HistType
<1>1. PICK H \in Seq(Entry) : H = order
  BY <1>0
<1>2. PICK B : B = base
  OBVIOUS
<1>3. KeepsEntries(t, H)
  BY <1>1 DEF KeepsEntries
<1>4. /\ UNCHANGED <<data, order, base, accesses, write_set, idx>>
      /\ pc[t] = "store" /\ pc'[t] = "release" /\ tid' = [tid EXCEPT ![a.row] = cur_tid[t]]
      /\ pc[t] \in WritePC /\ pc'[t] \in WritePC
  BY <1>0 DEF StoreTid, Goto, WritePC, history, validateVars
<1>5. idx[t] < Len(write_set[t]) /\ Todo(t) = idx[t] + 1 /\ Todo(t)' = idx[t] + 2
  BY <1>0, <1>4 DEF Shape, Todo
<1>6. /\ idx[t] + 1 \in 1..Len(write_set[t]) /\ idx[t] + 1 \in Todo(t)..Len(write_set[t])
      /\ \A k \in Todo(t)..Len(write_set[t]) : k = idx[t] + 1 \/ k \in (idx[t] + 2)..Len(write_set[t])
      /\ \A k \in (idx[t] + 2)..Len(write_set[t]) : k \in Todo(t)..Len(write_set[t])
  BY <1>0, <1>5
<1>7. /\ a.row \in Rows /\ a.val \in Words /\ a.type = "WR"
      /\ write_set[t][idx[t] + 1] \in 1..Len(accesses[t])
  BY <1>0, <1>6, AccType
<1>8. \A k : Acc(t, k)' = Acc(t, k)
  BY <1>4 DEF Acc
<1>9. Owns(t) = {Acc(t, k).row : k \in Todo(t)..Len(write_set[t])}
  BY <1>4 DEF Owns
<1>10. Owns(t)' = {Acc(t, k).row : k \in (idx[t] + 2)..Len(write_set[t])}
  BY <1>4, <1>5, <1>8 DEF Owns
<1>11. a.row \in Owns(t) /\ Owns(t)' \subseteq Owns(t) /\ \A r \in Owns(t) : r \in Owns(t)' \/ r = a.row
  BY <1>6, <1>9, <1>10
<1> HIDE DEF a
<1>12. tid'[a.row] > tid[a.row] /\ \A r \in Rows : tid'[r] >= tid[r]
  <2>1. tid[a.row] < cur_tid[t]
    BY <1>0, <1>4, <1>6 DEF TidInv, a
  <2>2. tid'[a.row] = cur_tid[t] /\ \A r \in Rows : r # a.row => tid'[r] = tid[r]
    BY <1>0, <1>4, <1>7
  <2>3. tid[a.row] \in Nat
    BY <1>0, <1>7
  <2>4. tid'[a.row] > tid[a.row]
    BY <1>0, <2>1, <2>2, <2>3
  <2>5. ASSUME NEW r \in Rows PROVE tid'[r] >= tid[r]
    <3>1. tid[r] \in Nat
      BY <1>0
    <3>2. CASE r = a.row
      BY <1>0, <2>1, <2>2, <3>1, <3>2
    <3>3. CASE r # a.row
      BY <2>2, <3>1, <3>3
    <3> QED
      BY <3>2, <3>3
  <2> QED
    BY <2>4, <2>5
<1>13. data[a.row] = a.val
  <2>1. data[a.row][1] = a.val[1] /\ data[a.row][2] = a.val[2]
    BY <1>0, <1>4 DEF DataInv, Written, a
  <2> QED
    BY <1>0, <1>7, <2>1, WordsEqual
<1>14. After(B, order, Len(order))[a.row] = a.val
  <2>1. PICK n \in 1..Len(order) : order[n].txn = t /\ ~Ended(order[n])
    BY <1>4 DEF HistInv, Entries, Active
  <2>2. order[n].st = "decided"
    <3>1. order[n].st \in {"pending", "decided", "finished", "aborted"}
      BY <1>0, EntryParts
    <3>2. order[n].st # "pending"
      BY <1>4, <2>1 DEF HistInv, Entries
    <3> QED
      BY <2>1, <3>1, <3>2 DEF Ended
  <2>3. Runs(order[n]) /\ order[n].writes = WritePairs(t) /\ Counts(order[n])
    BY <2>1, <2>2 DEF Runs, Counts, HistInv, Entries
  <2>4. <<a.row, a.val>> \in WritePairs(t)
    BY <1>0, <1>7 DEF WritePairs, a, Acc
  <2>5. ASSUME NEW p \in WritePairs(t), p[1] = a.row PROVE p[2] = a.val
    <3>1. PICK m \in 1..Len(accesses[t]) : p = <<accesses[t][m].row, accesses[t][m].val>>
      BY <1>0, <2>5 DEF WritePairs
    <3>2. accesses[t][m].row = accesses[t][write_set[t][idx[t] + 1]].row
      BY <2>5, <3>1 DEF a, Acc
    <3>3. m = write_set[t][idx[t] + 1]
      BY <1>0, <1>7, <3>2 DEF Shape
    <3> QED
      BY <3>1, <3>3 DEF a, Acc
  <2>6. Writes(order[n], a.row) /\ LeftBy(order[n], a.row) = a.val
    <3>1. PICK p \in order[n].writes : p[1] = a.row
      BY <2>3, <2>4
    <3>2. \A p2 \in order[n].writes : p2[1] = a.row => p2[2] = a.val
      BY <2>3, <2>5
    <3> QED
      BY <3>1, <3>2 DEF Writes, LeftBy
  <2>7. n \in Writers(order, Len(order), a.row)
    BY <2>3, <2>6 DEF Writers
  <2>8. \A j \in Writers(order, Len(order), a.row) : j <= n
    <3> SUFFICES ASSUME NEW j \in 1..Len(order), Writes(order[j], a.row), j > n PROVE FALSE
      BY <1>0 DEF Writers
    <3> QED
      BY <1>11, <2>1, <2>3 DEF HistInv, Latest
  <2> QED
    BY <1>0, <1>7, <2>6, <2>7, <2>8, AfterLast
<1>15. \A r \in Rows : r \in Owns(t) /\ pc[t] \in WritePC /\ ~(pc'[t] \in WritePC /\ r \in Owns(t)') =>
           tid'[r] > tid[r] /\ data'[r] = After(B, order, Len(order))[r]
  BY <1>4, <1>11, <1>12, <1>13, <1>14
<1>16. /\ \A r \in Rows : data'[r] = data[r]
       /\ pc[t] # "validate" /\ pc'[t] # "validate" /\ pc[t] # "abort"
  BY <1>4
<1>17. HistInv(H, B)'
  BY <1>0, <1>1, <1>2, <1>3, <1>4, <1>11, <1>12, <1>15, <1>16, HistKept
<1> QED
  BY <1>1, <1>2, <1>4, <1>17

\* A transaction ends: it has written all its rows, or it was never decided.
LEMMA HistEnds ==
  ASSUME SiloInv, Types', HistInv(order, base), NEW t \in Threads, Local(t), Commit(t) \/ Abort(t)
  PROVE  HistInv(order, base)'
<1>0. /\ Types /\ TidInv /\ order \in Seq(Entry) /\ tid \in [Rows -> Nat] /\ Shape(t)
      /\ idx[t] \in Nat /\ Len(write_set[t]) \in Nat /\ t \in DOMAIN pc
  BY LenProperties DEF SiloInv, Types, HistInv, HistType
<1>1. PICK st \in {"finished", "aborted"} :
        /\ pc[t] = (IF st = "finished" THEN "write1" ELSE "abort")
        /\ st = "finished" => idx[t] = Len(write_set[t])
        /\ Record(SetState(t, st))
  BY DEF Commit, Abort
<1>2. PICK B : B = base
  OBVIOUS
<1>3. PICK H : H = SetState(t, st)
  OBVIOUS
<1>4. /\ H \in Seq(Entry) /\ Len(H) = Len(order)
      /\ \A i \in 1..Len(order) :
           /\ H[i].txn = order[i].txn /\ H[i].reads = order[i].reads /\ H[i].writes = order[i].writes
           /\ Mine(t, order[i]) => H[i].st = st
           /\ ~Mine(t, order[i]) => H[i] = order[i]
  <2>1. st \in {"pending", "decided", "finished", "aborted"}
    OBVIOUS
  <2> QED
    BY <1>0, <1>3, <2>1, SetStateParts
<1>5. Record(H)
  BY <1>1, <1>3
<1>6. data' = data /\ tid' = tid /\ pc'[t] = "idle"
  BY <1>0 DEF Commit, Abort, Cleanup, Goto, rowVars
<1>7. pc'[t] \notin Active /\ pc'[t] \notin WritePC /\ pc'[t] # "validate"
  BY <1>6 DEF Active, WritePC
<1>8. \A i \in 1..Len(order) : Ended(H[i]) \/ ~Mine(t, order[i])
  BY <1>1, <1>4 DEF Ended
<1>9. ASSUME NEW i \in 1..Len(order) PROVE Counts(H[i]) <=> Counts(order[i])
  <2>1. CASE ~Mine(t, order[i])
    BY <1>4, <2>1
  <2>2. CASE Mine(t, order[i])
    <3>1. order[i].st \in {"pending", "decided", "finished", "aborted"} /\ order[i].txn = t
      BY <1>0, <2>2, EntryParts DEF Mine
    <3>2. order[i].st \in {"pending", "decided"}
      BY <2>2, <3>1 DEF Mine, Ended
    <3>3. /\ order[i].st = "pending" => pc[t] \in {"validate", "abort"}
          /\ order[i].st = "decided" => pc[t] \in WritePC
      BY <3>1 DEF HistInv, Entries
    <3>4. H[i].st = st
      BY <1>4, <2>2
    <3> QED
      BY <1>1, <3>2, <3>3, <3>4 DEF WritePC, Counts
  <2> QED
    BY <2>1, <2>2
<1>10. KeepsEntries(t, H)
  BY <1>4, <1>7, <1>8, <1>9 DEF KeepsEntries, Mine
<1>11. \A i \in 1..Len(order) : order[i].txn = t => Ended(H[i])
  BY <1>4, <1>8 DEF Mine
<1>12. pc[t] \in WritePC => Owns(t) = {}
  BY <1>0, <1>1 DEF Owns, Todo, WritePC
<1>13. \A r \in Rows : tid'[r] >= tid[r] /\ data'[r] = data[r]
  BY <1>0, <1>6
<1>14. HistInv(H, B)'
  BY <1>0, <1>2, <1>4, <1>7, <1>10, <1>11, <1>12, <1>13, HistKept
<1> QED
  BY <1>2, <1>5, <1>14, HistRecord

\* What validate_silo does last: it decides, or it does not.
LEMMA HistValidateWrites ==
  ASSUME SiloInv, Types', \A u \in Threads : Covers(u), HistInv(order, base),
         NEW t \in Threads, Local(t), ValidateWrites(t)
  PROVE  HistInv(order, base)'
<1>0. /\ Types /\ TidInv /\ order \in Seq(Entry) /\ tid \in [Rows -> Nat] /\ t \in DOMAIN pc
  BY DEF SiloInv, Types, HistInv, HistType
<1>1. /\ pc[t] = "validate" /\ data' = data /\ tid' = tid
      /\ \/ pc'[t] = "write1" /\ Record(SetState(t, "decided"))
         \/ pc'[t] = "abort" /\ order' = order /\ base' = base
  BY <1>0 DEF ValidateWrites, Goto, history, rowVars
<1>2. PICK B : B = base
  OBVIOUS
<1>3. CASE pc'[t] = "write1" /\ Record(SetState(t, "decided"))
  <2>1. PICK H : H = SetState(t, "decided")
    OBVIOUS
  <2>2. /\ H \in Seq(Entry) /\ Len(H) = Len(order)
        /\ \A i \in 1..Len(order) :
             /\ H[i].txn = order[i].txn /\ H[i].reads = order[i].reads /\ H[i].writes = order[i].writes
             /\ Mine(t, order[i]) => H[i].st = "decided"
             /\ ~Mine(t, order[i]) => H[i] = order[i]
    BY <1>0, <2>1, SetStateParts
  <2>3. PICK n \in 1..Len(order) : order[n].txn = t /\ ~Ended(order[n])
    BY <1>1 DEF HistInv, Entries, Active
  <2>4. order[n].st = "pending"
    <3>1. order[n].st \in {"pending", "decided", "finished", "aborted"}
      BY <1>0, EntryParts
    <3>2. order[n].st # "decided"
      BY <1>1, <2>3 DEF HistInv, Entries, WritePC
    <3> QED
      BY <2>3, <3>1, <3>2 DEF Ended
  <2>5. \A i \in 1..Len(order) : i # n => H[i] = order[i]
    <3>1. \A i \in 1..Len(order) : i # n => ~Mine(t, order[i])
      BY <2>3 DEF Mine, HistInv, Entries
    <3> QED
      BY <2>2, <3>1
  <2>6. H[n].st = "decided" /\ H[n].txn = t /\ H[n].reads = order[n].reads /\ H[n].writes = order[n].writes
    BY <2>2, <2>3 DEF Mine
  <2>7. HistInv(H, B)'
    BY <1>2, <1>3, <2>2, <2>3, <2>4, <2>5, <2>6, HistDecide
  <2>8. Record(H)
    BY <1>3, <2>1
  <2> QED
    BY <1>2, <2>7, <2>8, HistRecord
<1>4. CASE pc'[t] = "abort" /\ order' = order /\ base' = base
  <2>1. PICK H \in Seq(Entry) : H = order
    BY <1>0
  <2>2. KeepsEntries(t, H)
    BY <2>1 DEF KeepsEntries
  <2>3. /\ pc'[t] # "validate" /\ pc'[t] \notin WritePC /\ pc'[t] \notin Active /\ pc[t] \notin WritePC
    BY <1>1, <1>4 DEF WritePC, Active
  <2>4. \A r \in Rows : tid'[r] >= tid[r] /\ data'[r] = data[r]
    BY <1>0, <1>1
  <2>5. HistInv(H, B)'
    BY <1>0, <1>1, <1>2, <1>4, <2>1, <2>2, <2>3, <2>4, HistKept
  <2> QED
    BY <1>2, <1>4, <2>1, <2>5
<1> QED
  BY <1>1, <1>3, <1>4

\* AllLocked enters the transaction into the history.
LEMMA HistAllLocked ==
  ASSUME SiloInv, Types', \A u \in Threads : Covers(u), HistInv(order, base),
         NEW t \in Threads, Local(t), AllLocked(t)
  PROVE  HistInv(order, base)'
<1>0. Types /\ order \in Seq(Entry)
  BY DEF SiloInv, HistInv, HistType
<1>1. PICK e : e = [txn |-> t, st |-> "pending", reads |-> ReadPairs(t), writes |-> WritePairs(t)]
  OBVIOUS
<1>2. e \in Entry
  BY <1>0, <1>1, PairsType DEF Entry
<1>3. PICK H : H = Append(order, e)
  OBVIOUS
<1>4. /\ H \in Seq(Entry) /\ Len(H) = Len(order) + 1 /\ H[Len(order) + 1] = e
      /\ \A i \in 1..Len(order) : H[i] = order[i]
  BY <1>0, <1>2, <1>3, AppendProperties
<1>5. PICK B : B = base
  OBVIOUS
<1>6. HistInv(H, B)'
  BY <1>1, <1>4, <1>5, HistAppend
<1>7. Record(H)
  BY <1>1, <1>3 DEF AllLocked
<1> QED
  BY <1>5, <1>6, <1>7, HistRecord

\* The inductive invariant of the history.
SerialInv == SiloInv /\ (\A t \in Threads : Covers(t)) /\ HistInv(order, base)

\* Every step keeps it,
LEMMA SerialInvStep ==
  ASSUME SerialInv, [Next]_vars
  PROVE  SerialInv'
<1>0. SiloInv /\ SiloInv'
  BY SiloInvStep DEF SerialInv
<1>1. ASSUME NEW t \in Threads, Step(t) PROVE SerialInv'
  <2>1. Types /\ Types' /\ Shape(t) /\ Covers(t) /\ \A u \in Threads : Covers(u)
    BY <1>0 DEF SiloInv, SerialInv
  <2>2. Local(t)
    BY <1>1, <2>1, TypesStep
  <2>3. \A u \in Threads : Covers(u)'
    BY <1>1, <2>1, <2>2, CoversStep
  <2>4. HistInv(order, base)
    BY DEF SerialInv
  <2>5. HistInv(order, base)'
    <3>1. CASE AllLocked(t)
      BY <1>0, <2>1, <2>2, <2>4, <3>1, HistAllLocked
    <3>2. CASE ValidateRead(t)
      BY <1>0, <2>1, <2>2, <2>4, <3>2, HistValidateRead
    <3>3. CASE ValidateWrites(t)
      BY <1>0, <2>1, <2>2, <2>4, <3>3, HistValidateWrites
    <3>4. CASE WriteWord(t) \/ ReleaseRow(t)
      BY <1>0, <2>1, <2>2, <2>4, <3>4, HistCopies
    <3>5. CASE StoreTid(t)
      BY <1>0, <2>1, <2>2, <2>4, <3>5, HistStoreTid
    <3>6. CASE Commit(t) \/ Abort(t)
      BY <1>0, <2>1, <2>2, <2>4, <3>6, HistEnds
    <3>7. CASE /\ ~AllLocked(t) /\ ~ValidateRead(t) /\ ~ValidateWrites(t) /\ ~WriteWord(t)
               /\ ~ReleaseRow(t) /\ ~StoreTid(t) /\ ~Commit(t) /\ ~Abort(t)
      <4>1. Quiet(t)
        BY <1>1, <2>1, <3>7, QuietStep
      <4> QED
        BY <1>0, <2>1, <2>2, <2>4, <4>1, HistQuiet
    <3> QED
      BY <3>1, <3>2, <3>3, <3>4, <3>5, <3>6, <3>7
  <2> QED
    BY <1>0, <2>3, <2>5 DEF SerialInv
<1>2. CASE UNCHANGED vars
  <2> USE <1>2 DEF vars
  <2>1. \A t \in Threads : Covers(t)'
    BY DEF SerialInv, Covers
  <2>2. HistType(order, base)' /\ Entries(order)'
    <3>1. \A t : ReadPairs(t)' = ReadPairs(t) /\ WritePairs(t)' = WritePairs(t)
      BY DEF ReadPairs, WritePairs
    <3>2. HistType(order, base)'
      BY DEF SerialInv, HistInv, HistType
    <3>3. \A i : Runs(order[i])' <=> Runs(order[i])
      BY DEF Runs, Live
    <3> QED
      BY <3>1, <3>2, <3>3 DEF SerialInv, HistInv, Entries
  <2>3. \A t : Owns(t)' = Owns(t)
    BY DEF Owns, Todo, Acc
  <2>4. Latest(order)' /\ Newer(order)' /\ Stored(order, base)'
    BY <2>3 DEF SerialInv, HistInv, Latest, Newer, Stored, Runs, Live
  <2>5. ReadsGood(order, base)'
    BY DEF SerialInv, HistInv, ReadsGood, Good, Live
  <2> QED
    BY <1>0, <2>1, <2>2, <2>4, <2>5 DEF SerialInv, HistInv
<1> QED
  BY <1>1, <1>2 DEF Next, AllDone

\* and it holds of the empty history,
LEMMA SerialInvInit ==
  ASSUME \A c \in Configs : Sound(c), Init
  PROVE  SerialInv
<1>1. SiloInv
  BY SiloInvInit
<1>2. order = <<>> /\ Len(order) = 0 /\ order \in Seq(Entry)
  BY EmptySeq DEF Init
<1>3. base = data /\ base \in [Rows -> Words]
  BY <1>1 DEF Init, SiloInv, Types
<1>4. \A t \in Threads : pc[t] = "idle"
  BY DEF Init
<1>5. \A t \in Threads : Covers(t)
  BY <1>4 DEF Covers
<1>6. \A r \in Rows : After(base, order, Len(order))[r] = base[r]
  <2> SUFFICES ASSUME NEW r \in Rows PROVE After(base, order, Len(order))[r] = base[r]
    OBVIOUS
  <2>1. Writers(order, 0, r) = {}
    BY DEF Writers
  <2>2. 0 \in Nat
    OBVIOUS
  <2> QED
    BY <1>2, <2>1, <2>2, AfterNone
<1>7. HistInv(order, base)
  BY <1>2, <1>3, <1>4, <1>6
     DEF HistInv, HistType, Entries, Latest, ReadsGood, Newer, Stored, Active, WritePC
<1> QED
  BY <1>1, <1>5, <1>7 DEF SerialInv

\* so that it holds throughout.
LEMMA SerialInvCorrect ==
  ASSUME \A c \in Configs : Sound(c)
  PROVE  Spec => []SerialInv
<1>1. Init => SerialInv
  BY SerialInvInit
<1>2. SerialInv /\ [Next]_vars => SerialInv'
  BY SerialInvStep
<1> QED
  BY <1>1, <1>2, PTL DEF Spec

\* validate_silo lets only serializable transactions commit: what they have read is
\* what running them one by one, in the order in which they had locked their write
\* sets, gives them.
THEOREM SerializableCorrect ==
  ASSUME \A c \in Configs : Sound(c)
  PROVE  Spec => []Serializable
<1>1. SerialInv => Serializable
  <2> SUFFICES ASSUME SerialInv, NEW i \in DOMAIN order, Counts(order[i]), NEW p \in order[i].reads
               PROVE  p[2] = Replay(i - 1)[p[1]]
    BY DEF Serializable
  <2>1. i \in 1..Len(order)
    BY LenProperties DEF SerialInv, HistInv, HistType
  <2>2. Good(order, base, i, p)
    BY <2>1 DEF SerialInv, HistInv, ReadsGood
  <2> QED
    BY <2>2 DEF Good, Replay
<1> QED
  BY <1>1, SerialInvCorrect, PTL

\* Row_silo::write puts in place what this serial execution leaves in the rows, and
\* nothing else: no update is lost, nothing of an aborted transaction is seen, and no
\* row that is not locked is half written.
THEOREM DataIsReplayCorrect ==
  ASSUME \A c \in Configs : Sound(c)
  PROVE  Spec => []DataIsReplay
<1>1. SerialInv => DataIsReplay
  <2> SUFFICES ASSUME SerialInv, NEW r \in Rows, ~locked[r]
               PROVE  data[r] = Replay(Len(order))[r]
    BY DEF DataIsReplay
  <2>1. ASSUME NEW t \in Threads, pc[t] \in WritePC PROVE r \notin Owns(t)
    <3>1. Owns(t) \subseteq Held(t)
      BY <2>1, OwnsHeld DEF SerialInv, SiloInv, Active
    <3> QED
      BY <3>1 DEF SerialInv, SiloInv, BitInv
  <2> QED
    BY <2>1 DEF SerialInv, HistInv, Stored, Replay
<1> QED
  BY <1>1, SerialInvCorrect, PTL

\* What TypeOK says beyond Types and HistType.
Counters == config \in Configs /\ started \in 0..MaxTxns /\ spins \in [Threads -> 0..SpinRounds]

\* These are kept by every step, whatever the parameters.
LEMMA CountersStep ==
  ASSUME Counters, [Next]_vars
  PROVE  Counters'
<1> USE SiloAssumption
<1>1. ASSUME NEW t \in Threads, Step(t) PROVE Counters'
  <2>1. CASE NewQuery(t)
    BY <2>1 DEF Counters, NewQuery, validateVars
  <2>2. CASE Retry(t)
    <3>1. spins[t] \in 0..SpinRounds /\ 0 \in 0..SpinRounds
      BY DEF Counters
    <3>2. config.bounded /\ ~(config.bounded /\ spins[t] >= SpinRounds) => spins[t] + 1 \in 0..SpinRounds
      BY <3>1
    <3>3. /\ \E n \in 0..SpinRounds : spins' = [spins EXCEPT ![t] = n]
          /\ UNCHANGED <<config, started>>
      BY <2>2, <3>1, <3>2 DEF Retry
    <3> QED
      BY <3>3 DEF Counters
  <2>3. CASE Commit(t) \/ Abort(t)
    <3>1. spins' = [spins EXCEPT ![t] = 0] /\ UNCHANGED <<config, started>> /\ 0 \in 0..SpinRounds
      BY <2>3 DEF Commit, Abort, Cleanup
    <3> QED
      BY <3>1 DEF Counters
  <2>4. CASE ~NewQuery(t) /\ ~Retry(t) /\ ~Commit(t) /\ ~Abort(t)
    <3>1. UNCHANGED <<config, started, spins>>
      BY <1>1, <2>4 DEF Step, RowBufferFull, GetRow, LoadWord, CopyWord, ReadDone, ReadAgain,
         StartValidate, PreAbort, TryLock, LockRow, LockFails, Unlock, AllLocked, ValidateRead,
         ValidateWrites, WriteWord, StoreTid, ReleaseRow, validateVars
    <3> QED
      BY <3>1 DEF Counters
  <2> QED
    BY <2>1, <2>2, <2>3, <2>4
<1>2. CASE UNCHANGED vars
  BY <1>2 DEF vars, Counters
<1> QED
  BY <1>1, <1>2 DEF Next, AllDone

\* Every variable of the model stays within its type: in particular no thread backs
\* off more often than bounded_backoff_function allows.
THEOREM TypeCorrect ==
  ASSUME \A c \in Configs : Sound(c)
  PROVE  Spec => []TypeOK
<1>1. Init => Counters
  BY SiloAssumption DEF Init, Counters
<1>2. Counters /\ [Next]_vars => Counters'
  BY CountersStep
<1>3. SerialInv /\ Counters => TypeOK
  BY DEF SerialInv, SiloInv, Types, HistInv, HistType, Counters, TypeOK
<1> QED
  BY <1>1, <1>2, <1>3, SerialInvCorrect, PTL DEF Spec

=============================================================================
