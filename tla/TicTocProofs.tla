---------------------------- MODULE TicTocProofs ----------------------------
(***************************************************************************)
(* The lock bits, the timestamps, the copies and the versions of TicToc,   *)
(* and the order of its commit timestamps, for every number of threads,    *)
(* rows and transactions.                                                  *)
(***************************************************************************)
EXTENDS TicToc, SequenceLemmas

\* The parameters under which a row is released as often as it was locked: with
\* validation_lock = "waiting", and with bounded spinning but not pre_abort, this is
\* not so.
Sound(c) == c.no_wait /\ (c.bounded => c.pre_abort)

-----------------------------------------------------------------------------
(***************************************************************************)
(* The inductive invariant                                                 *)
(***************************************************************************)

\* The accesses are the requests made so far, the write set has the writes among
\* them, each once.
Sets(t) ==
  LET as == accesses[t]
      ws == write_set[t]
  IN
  /\ Len(as) <= Len(query[t])
  /\ \A i \in 1..Len(as) : as[i].row = query[t][i].row /\ as[i].type = query[t][i].type
  /\ \A k \in 1..Len(ws) : ws[k] \in 1..Len(as) /\ as[ws[k]].type = "WR"
  /\ \A j, k \in 1..Len(ws) : ws[j] = ws[k] => j = k
  /\ \A i \in 1..Len(as) : as[i].wts <= as[i].rts

Executing == {"exec", "copy", "reload"}
Writing == {"stamp", "write1", "write2", "release"}

\* Where validate_tictoc of t has come: idx and num_locks stay within the write set.
Place(t) ==
  /\ num_locks[t] <= Len(write_set[t])
  /\ pc[t] = "idle" => Len(accesses[t]) = 0 /\ Len(query[t]) = 0
  /\ pc[t] \in {"idle"} \cup Executing => Len(write_set[t]) = 0
  /\ pc[t] \in {"idle", "pre"} \cup Executing => num_locks[t] = 0
  /\ pc[t] \in {"copy", "reload"} => Len(accesses[t]) < Len(query[t])
  /\ pc[t] \notin {"idle"} \cup Executing =>
       \A i \in 1..Len(accesses[t]) : accesses[t][i].type = "WR" =>
         \E k \in 1..Len(write_set[t]) : write_set[t][k] = i
  /\ pc[t] \in {"idle", "lock", "cas"} \cup Executing => idx[t] = 0
  /\ pc[t] = "cas" => num_locks[t] < Len(write_set[t])
  /\ pc[t] = "renewcas" => ReadsLeft(t) # {} /\ RdAcc(t).rts < commit_wts[t]
  /\ pc[t] \in {"unlock", "abort", "stamp"} => idx[t] <= num_locks[t]
  /\ pc[t] \in {"write1", "write2", "release"} => idx[t] < num_locks[t]
  /\ pc[t] \in {"renew", "renewcas"} \cup Writing => num_locks[t] = Len(write_set[t])
  /\ pc[t] = "again" /\ config.pre_abort => num_locks[t] = 0
Shape(t) == Sets(t) /\ Place(t)

\* Holds in one formula.
First(t) ==
  IF pc[t] \in {"renew", "renewcas"} THEN 1
  ELSE IF pc[t] = "again" THEN num_locks[t] + 1 ELSE idx[t] + 1
Held(t) == {Acc(t, k).row : k \in First(t)..num_locks[t]}

\* The inductive form of LockBit; a word that is going to be exchanged was unlocked
\* when it was loaded.
BitInv ==
  /\ \A r \in Rows :
       /\ word[r].lock <=> \E t \in Threads : r \in Held(t)
       /\ \A t, u \in Threads : r \in Held(t) /\ r \in Held(u) => t = u
  /\ \A t \in Threads : pc[t] \in {"copy", "reload", "cas", "renewcas"} => ~v[t].lock

\* The first row of the write set that does not have its new word yet.
Todo(t) == IF pc[t] \in {"write1", "write2", "release"} THEN idx[t] + 2
           ELSE IF pc[t] = "stamp" THEN idx[t] + 1 ELSE 1

\* A wts only grows: what was read is not newer than the row, and what is going to
\* be stored comes after the lease of the row.
WtsInv ==
  \A t \in Threads :
    /\ \A i \in 1..Len(accesses[t]) : accesses[t][i].wts <= word[accesses[t][i].row].wts
    /\ pc[t] \in {"copy", "reload"} => v[t].wts <= word[Req(t).row].wts
    /\ pc[t] = "renewcas" => v[t].wts = RdAcc(t).wts
    /\ pc[t] \in {"renew", "renewcas"} \cup Writing =>
         \A k \in Todo(t)..Len(write_set[t]) : rts(word[Acc(t, k).row]) < commit_wts[t]
    /\ pc[t] \in {"write1", "write2", "release"} =>
         word[Acc(t, idx[t] + 1).row].wts = commit_wts[t]

\* write_data has stored the new word of row r and not yet all of its contents.
Overwrites(t, r) == pc[t] \in {"write1", "write2"} /\ Acc(t, idx[t] + 1).row = r
Dirty(r) == \E t \in Threads : Overwrites(t, r)

\* As long as a row has the wts it was read under, nobody is overwriting it, and it
\* has the contents that were read.
Read(t) ==
  \A i \in 1..Len(accesses[t]) :
    /\ \A r \in Rows : accesses[t][i].row = r /\ word[r].wts = accesses[t][i].wts
                         => ~Dirty(r) /\ data[r] = accesses[t][i].data
    /\ accesses[t][i].data[1] = accesses[t][i].data[2]
Copied(t) ==
  \A r \in Rows :
    pc[t] \in {"copy", "reload"} /\ Req(t).row = r /\ word[r].wts = v[t].wts
      => ~Dirty(r) /\ (pc[t] = "reload" => data[r] = copy[t])
Written(t) ==
  LET r == Acc(t, idx[t] + 1).row IN
  /\ pc[t] \in {"write2", "release"} => data[r][1] = txn[t]
  /\ pc[t] = "release" => data[r][2] = txn[t]
DataInv ==
  /\ \A t \in Threads : Read(t) /\ Copied(t) /\ Written(t)
  /\ \A r \in Rows : ~Dirty(r) => data[r][1] = data[r][2]

\* t has committed and has not yet finished writing row r.
Pending(t, r) ==
  /\ pc[t] \in Writing
  /\ \E k \in (IF pc[t] = "release" THEN idx[t] + 2 ELSE idx[t] + 1)..Len(write_set[t]) :
       Acc(t, k).row = r

\* Of those that have committed a write of r, the one with the largest timestamp, s,
\* is x; if there is none, x is the loader.
Newest(r, x, s) ==
  \/ x = 0 /\ s = 0 /\ \A j \in 1..Len(hist) : r \notin hist[j].writes
  \/ \E i \in 1..Len(hist) :
       /\ r \in hist[i].writes /\ hist[i].txn = x /\ hist[i].ts = s
       /\ \A j \in 1..Len(hist) : j # i /\ r \in hist[j].writes => hist[j].ts < s

\* A row has the newest version, or the transaction that wrote it is writing it.
VersionInv ==
  \A r \in Rows :
    /\ (\A t \in Threads : ~Pending(t, r)) =>
         \E s \in 0..word[r].wts : Newest(r, data[r][1], s)
    /\ \A t \in Threads : Pending(t, r) => Newest(r, txn[t], commit_wts[t])

TicTocInv ==
  /\ TypeOK /\ (\A t \in Threads : Shape(t))
  /\ BitInv /\ WtsInv /\ DataInv /\ VersionInv

-----------------------------------------------------------------------------
(***************************************************************************)
(* Accesses, the read set and the write set                                *)
(***************************************************************************)

\* An access of a sequence of accesses.
LEMMA AccessOf ==
  ASSUME NEW s \in Seq(Access), NEW i \in 1..Len(s)
  PROVE  /\ s[i] \in Access /\ s[i].row \in Rows /\ s[i].wts \in Nat /\ s[i].rts \in Nat
         /\ s[i].data \in Words /\ s[i].type \in {"RD", "WR"}
<1>1. s[i] \in Access
  BY ElementOfSeq
<1> QED
  BY <1>1 DEF Access

\* The data of a transaction in their simplest types.
LEMMA Locals ==
  ASSUME TypeOK, NEW t \in Threads
  PROVE  /\ accesses[t] \in Seq(Access) /\ Len(accesses[t]) \in Nat
         /\ DOMAIN accesses[t] = 1..Len(accesses[t])
         /\ write_set[t] \in Seq(Nat) /\ Len(write_set[t]) \in Nat
         /\ DOMAIN write_set[t] = 1..Len(write_set[t])
         /\ query[t] \in Seq(Request) /\ Len(query[t]) \in Nat
         /\ \A i, j \in 1..Len(query[t]) : query[t][i].row = query[t][j].row => i = j
         /\ idx[t] \in Nat /\ num_locks[t] \in Nat /\ commit_wts[t] \in Nat /\ pc[t] \in PC
         /\ v[t] \in Word /\ copy[t] \in Words /\ txn[t] \in Txn
<1>1. /\ accesses[t] \in Seq(Access) /\ write_set[t] \in Seq(Nat) /\ query[t] \in Queries \cup {<<>>}
      /\ idx[t] \in Nat /\ num_locks[t] \in Nat /\ commit_wts[t] \in Nat /\ pc[t] \in PC
      /\ v[t] \in Word /\ copy[t] \in Words /\ txn[t] \in Txn
  BY DEF TypeOK
<1>2. /\ query[t] \in Seq(Request)
      /\ \A i, j \in 1..Len(query[t]) : query[t][i].row = query[t][j].row => i = j
  <2>1. CASE query[t] \in Queries
    BY <2>1, TicTocAssumption
  <2>2. CASE query[t] = <<>>
    BY <2>2, EmptySeq
  <2> QED
    BY <1>1, <2>1, <2>2
<1> QED
  BY <1>1, <1>2, LenProperties

\* The request that is being served, and the row of it.
LEMMA ReqType ==
  ASSUME TypeOK, NEW t \in Threads, Len(accesses[t]) < Len(query[t])
  PROVE  Req(t) \in Request /\ Req(t).row \in Rows /\ Req(t).type \in {"RD", "WR"}
<1>1. Len(accesses[t]) + 1 \in 1..Len(query[t]) /\ query[t] \in Seq(Request)
  BY Locals
<1>2. Req(t) \in Request
  BY <1>1, ElementOfSeq DEF Req
<1> QED
  BY <1>2 DEF Request

\* A transaction accesses no row twice.
LEMMA RowsDiffer ==
  ASSUME TypeOK, NEW t \in Threads, Sets(t),
         NEW i \in 1..Len(accesses[t]), NEW j \in 1..Len(accesses[t]),
         accesses[t][i].row = accesses[t][j].row
  PROVE  i = j
<1>1. i \in 1..Len(query[t]) /\ j \in 1..Len(query[t]) /\ query[t][i].row = query[t][j].row
  BY Locals DEF Sets
<1> QED
  BY <1>1, Locals

\* The row a step of validate_tictoc works on is in accesses.
LEMMA AccType ==
  ASSUME TypeOK, NEW t \in Threads, Sets(t), NEW k \in 1..Len(write_set[t])
  PROVE  /\ Acc(t, k) \in Access /\ Acc(t, k).row \in Rows /\ Acc(t, k).wts \in Nat
         /\ Acc(t, k).data \in Words /\ Acc(t, k).type = "WR"
         /\ write_set[t][k] \in 1..Len(accesses[t])
         /\ \A j \in 1..Len(write_set[t]) : Acc(t, j).row = Acc(t, k).row => j = k
<1>1. write_set[t][k] \in 1..Len(accesses[t]) /\ Acc(t, k).type = "WR"
  BY DEF Sets, Acc
<1>2. accesses[t] \in Seq(Access)
  BY Locals
<1>3. ASSUME NEW j \in 1..Len(write_set[t]), Acc(t, j).row = Acc(t, k).row
      PROVE  j = k
  <2>1. write_set[t][j] \in 1..Len(accesses[t])
    BY DEF Sets
  <2>2. write_set[t][j] = write_set[t][k]
    BY <1>1, <1>3, <2>1, RowsDiffer DEF Acc
  <2> QED
    BY <2>2 DEF Sets
<1> QED
  BY <1>1, <1>2, <1>3, AccessOf DEF Acc

\* The next read is the first of those left.
LEMMA NextReadLeft ==
  ASSUME TypeOK, NEW t \in Threads, Sets(t), ReadsLeft(t) # {}
  PROVE  /\ NextRead(t) \in ReadsLeft(t) /\ \A j \in ReadsLeft(t) : NextRead(t) <= j
         /\ NextRead(t) \in 1..Len(accesses[t]) /\ NextRead(t) \in Nat
         /\ RdAcc(t) \in Access /\ RdAcc(t).row \in Rows
         /\ RdAcc(t).wts \in Nat /\ RdAcc(t).rts \in Nat /\ RdAcc(t).wts <= RdAcc(t).rts
<1>1. ReadsLeft(t) \subseteq 1..Len(accesses[t]) /\ ReadsLeft(t) \subseteq Nat
  BY Locals DEF ReadsLeft, OfType
<1>2. \E i \in ReadsLeft(t) : \A j \in ReadsLeft(t) : i <= j
  BY <1>1, LeastNat
<1>3. NextRead(t) \in ReadsLeft(t) /\ \A j \in ReadsLeft(t) : NextRead(t) <= j
  BY <1>2 DEF NextRead
<1>4. NextRead(t) \in 1..Len(accesses[t]) /\ NextRead(t) \in Nat
  BY <1>1, <1>3
<1> QED
  BY <1>3, <1>4, Locals, AccessOf DEF RdAcc, Sets

\* The word try_renew stores is a word; it never moves the version back, and without
\* a rebase not at all; its lease ends at the commit timestamp.
LEMMA NewWordType ==
  ASSUME NEW t \in Threads, NEW a \in Access, commit_wts[t] \in Nat, a.wts <= commit_wts[t]
  PROVE  /\ NewWord(t, a) \in Word
         /\ a.wts <= NewWord(t, a).wts /\ ~NewWord(t, a).lock
         /\ ~rebase(t, a) => NewWord(t, a).wts = a.wts
         /\ rts(NewWord(t, a)) = commit_wts[t]
<1> DEFINE d == commit_wts[t] - a.wts
           m == d % RTS_SIZE
<1>1. a.wts \in Nat
  BY DEF Access
<1>2. d \in Nat /\ RTS_SIZE \in Nat \ {0}
  BY <1>1, TicTocAssumption
<1>3. m \in 0..(RTS_SIZE - 1) /\ m <= d /\ (d < RTS_SIZE => m = d)
  BY <1>2
<1>4. NewWord(t, a) = [wts |-> a.wts + (d - m), delta |-> m, lock |-> FALSE]
  BY DEF NewWord
<1>5. rebase(t, a) <=> d >= RTS_SIZE
  BY DEF rebase
<1>d. d = commit_wts[t] - a.wts
  OBVIOUS
<1> HIDE DEF d, m
<1>6. a.wts + (d - m) \in Nat /\ a.wts <= a.wts + (d - m) /\ (d < RTS_SIZE => a.wts + (d - m) = a.wts)
  BY <1>1, <1>2, <1>3
<1>7. ~rebase(t, a) => d < RTS_SIZE
  BY <1>2, <1>5
<1>8. a.wts + (d - m) + m = commit_wts[t]
  BY <1>1, <1>2, <1>3, <1>d
<1> QED
  BY <1>3, <1>4, <1>6, <1>7, <1>8 DEF Word, rts

\* The timestamps of a transaction are numbers, and the final one lies after the
\* leases of all rows it writes.
LEMMA FirstTimestampType ==
  ASSUME TypeOK, NEW t \in Threads
  PROVE  /\ FirstTimestamp(t) \in Nat
         /\ \A i \in 1..Len(accesses[t]) :
              accesses[t][i].type = "RD" => accesses[t][i].wts <= FirstTimestamp(t)
<1> DEFINE R == OfType(t, "RD")
           W == OfType(t, "WR")
           f == [i \in R |-> accesses[t][i].wts]
           g == [i \in W |-> accesses[t][i].rts + 1]
           A == {f[i] : i \in R}
           B == {g[i] : i \in W}
           S == {0} \cup A \cup B
<1>1. R \subseteq 1..Len(accesses[t]) /\ W \subseteq 1..Len(accesses[t])
  BY Locals DEF OfType
<1>2. IsFiniteSet(R) /\ IsFiniteSet(W)
  <2>1. IsFiniteSet(1..Len(accesses[t]))
    BY Locals, FS_Interval
  <2> HIDE DEF R, W
  <2> QED
    BY <1>1, <2>1, FS_Subset
<1>3. IsFiniteSet(A) /\ IsFiniteSet(B)
  BY <1>2, RangeFinite
<1>4. \A i \in 1..Len(accesses[t]) : accesses[t][i].wts \in Nat /\ accesses[t][i].rts \in Nat
  BY Locals, AccessOf
<1>5. A \subseteq Nat /\ B \subseteq Nat
  BY <1>1, <1>4
<1>6. FirstTimestamp(t) = Max(S)
  <2>1. A = {accesses[t][i].wts : i \in R} /\ B = {accesses[t][i].rts + 1 : i \in W}
    OBVIOUS
  <2> HIDE DEF A, B
  <2> QED
    BY <2>1 DEF FirstTimestamp
<1>a. \A i \in 1..Len(accesses[t]) : accesses[t][i].type = "RD" => accesses[t][i].wts \in A
  BY Locals DEF OfType
<1> HIDE DEF A, B
<1>7. IsFiniteSet(S)
  BY <1>3, FS_Singleton, FS_Union
<1>8. S \subseteq Nat /\ S # {} /\ A \subseteq S
  BY <1>5
<1> HIDE DEF S
<1>9. Max(S) \in Nat /\ \A x \in S : x <= Max(S)
  BY <1>7, <1>8, MaxProperties
<1> QED
  BY <1>6, <1>8, <1>9, <1>a

LEMMA FinalTimestampAfter ==
  ASSUME TypeOK, NEW t \in Threads, Sets(t)
  PROVE  /\ FinalTimestamp(t) \in Nat /\ commit_wts[t] <= FinalTimestamp(t)
         /\ \A k \in 1..Len(write_set[t]) : rts(word[Acc(t, k).row]) < FinalTimestamp(t)
<1> DEFINE D == 1..Len(write_set[t])
           f == [k \in D |-> rts(word[Acc(t, k).row]) + 1]
           A == {f[k] : k \in D}
           S == {commit_wts[t]} \cup A
<1>1. \A k \in D : rts(word[Acc(t, k).row]) \in Nat
  <2> SUFFICES ASSUME NEW k \in D PROVE rts(word[Acc(t, k).row]) \in Nat
    OBVIOUS
  <2>1. word[Acc(t, k).row] \in Word
    BY AccType DEF TypeOK
  <2>2. \A n \in 0..(RTS_SIZE - 1) : n \in Nat
    BY TicTocAssumption
  <2> QED
    BY <2>1, <2>2 DEF rts, Word
<1>2. IsFiniteSet(D)
  BY Locals, FS_Interval
<1>3. IsFiniteSet(A)
  BY <1>2, RangeFinite
<1>4. A \subseteq Nat /\ \A k \in D : f[k] \in A
  <2>1. \A k \in D : f[k] \in Nat
    BY <1>1
  <2> HIDE DEF f
  <2> QED
    BY <2>1
<1>5. FinalTimestamp(t) = Max(S)
  <2>1. A = {rts(word[Acc(t, k).row]) + 1 : k \in DOMAIN write_set[t]}
    BY Locals
  <2> HIDE DEF A
  <2> QED
    BY <2>1 DEF FinalTimestamp
<1>a. \A k \in D : f[k] = rts(word[Acc(t, k).row]) + 1
  OBVIOUS
<1> HIDE DEF A, f, D
<1>7. IsFiniteSet(S)
  BY <1>3, FS_Singleton, FS_Union
<1>8. S \subseteq Nat /\ S # {} /\ commit_wts[t] \in S /\ \A k \in D : f[k] \in S
  BY <1>4, Locals
<1> HIDE DEF S
<1>9. Max(S) \in Nat /\ \A x \in S : x <= Max(S)
  BY <1>7, <1>8, MaxProperties
<1>10. ASSUME NEW k \in D PROVE rts(word[Acc(t, k).row]) < Max(S)
  <2>1. f[k] <= Max(S) /\ f[k] = rts(word[Acc(t, k).row]) + 1
    BY <1>8, <1>9, <1>a
  <2> QED
    BY <2>1, <1>1, <1>9
<1> QED
  BY <1>5, <1>8, <1>9, <1>10 DEF D

\* The write set is a sequence of the writes among the accesses, each once.
LEMMA WriteSetOf ==
  ASSUME TypeOK, NEW t \in Threads, NEW ws \in SetToSeqs(OfType(t, "WR"))
  PROVE  /\ ws \in Seq(Nat) /\ Len(ws) \in Nat
         /\ \A k \in 1..Len(ws) : ws[k] \in 1..Len(accesses[t]) /\ accesses[t][ws[k]].type = "WR"
         /\ \A j, k \in 1..Len(ws) : ws[j] = ws[k] => j = k
         /\ \A i \in 1..Len(accesses[t]) : accesses[t][i].type = "WR" =>
              \E k \in 1..Len(ws) : ws[k] = i
<1> DEFINE W == OfType(t, "WR")
<1>1. Len(accesses[t]) \in Nat /\ W = {i \in 1..Len(accesses[t]) : accesses[t][i].type = "WR"}
  BY Locals DEF OfType
<1>2. IsFiniteSet(W) /\ W \in SUBSET Nat
  <2>1. W \subseteq 1..Len(accesses[t])
    BY <1>1
  <2> HIDE DEF W
  <2> QED
    BY <1>1, <2>1, PositionsFinite
<1>3. ws \in SetToSeqs(W)
  OBVIOUS
<1> HIDE DEF W
<1>4. /\ ws \in Seq(Nat) /\ Len(ws) \in Nat
      /\ \A k \in 1..Len(ws) : ws[k] \in W
      /\ \A j, k \in 1..Len(ws) : ws[j] = ws[k] => j = k
      /\ \A p \in W : \E k \in 1..Len(ws) : ws[k] = p
  BY <1>2, <1>3, SetToSeqsProperties
<1> QED
  BY <1>1, <1>4

-----------------------------------------------------------------------------
(***************************************************************************)
(* Types                                                                   *)
(***************************************************************************)

\* A step of t leaves what other transactions keep for themselves alone.
Local(t) ==
  \A u \in Threads : u # t =>
    /\ pc'[u] = pc[u] /\ txn'[u] = txn[u] /\ query'[u] = query[u] /\ v'[u] = v[u]
    /\ copy'[u] = copy[u] /\ accesses'[u] = accesses[u] /\ write_set'[u] = write_set[u]
    /\ commit_wts'[u] = commit_wts[u] /\ num_locks'[u] = num_locks[u]
    /\ idx'[u] = idx[u] /\ spins'[u] = spins[u]

\* The words that Unlock, LockRow and the like store are words.
LEMMA BitOfWord ==
  ASSUME word \in [Rows -> Word], NEW r, NEW b \in BOOLEAN
  PROVE  [word EXCEPT ![r].lock = b] \in [Rows -> Word]
<1>1. \A w \in Word : [w EXCEPT !.lock = b] \in Word
  BY DEF Word
<1>2. \A q \in Rows : word[q] \in Word
  OBVIOUS
<1>3. [word EXCEPT ![r].lock = b] = [q \in Rows |-> IF q = r THEN [word[q] EXCEPT !.lock = b] ELSE word[q]]
  OBVIOUS
<1> QED
  BY <1>1, <1>2, <1>3

LEMMA TypeStep ==
  ASSUME TypeOK, NEW t \in Threads, Shape(t), Step(t)
  PROVE  TypeOK' /\ Local(t)
<1> USE TicTocAssumption DEF Goto, rowVars, queryVars, accessVars, validateVars
<1>t. \A n \in Nat : n + 1 \in Nat
  OBVIOUS
<1>n. 0 \in Nat /\ NoCopy \in Words /\ NoWord \in Word /\ 0 \in Txn
  BY DEF NoCopy, Words, NoWord, Word, Txn
<1>p. \A s \in PC : [pc EXCEPT ![t] = s] \in [Threads -> PC]
  BY DEF TypeOK
<1>e. <<>> \in Seq(Access) /\ <<>> \in Seq(Nat)
  BY EmptySeq
<1>w. word \in [Rows -> Word] /\ \A r \in Rows : word[r] \in Word
  BY DEF TypeOK
<1>y. Sets(t) /\ Place(t)
  BY DEF Shape
<1>1. ASSUME NEW q \in Queries, NewQuery(t, q)
      PROVE  TypeOK' /\ Local(t)
  <2>1. started + 1 \in Txn
    BY <1>1 DEF NewQuery, TypeOK, Txn
  <2> QED
    BY <1>1, <1>p, <2>1, SMTT(30) DEF NewQuery, TypeOK, Local, PC
<1>2. CASE LoadWord(t)
  <2>1. word[Req(t).row] \in Word
    BY <1>2, <1>w, ReqType DEF LoadWord
  <2> QED
    BY <1>2, <1>p, <2>1, ZenonT(30) DEF LoadWord, TypeOK, Local, PC
<1>3. CASE CopyRow(t)
  <2>1. data[Req(t).row] \in Words
    BY <1>3, <1>y, ReqType DEF CopyRow, Place, TypeOK
  <2> QED
    BY <1>3, <1>p, <2>1, ZenonT(30) DEF CopyRow, TypeOK, Local, PC
<1>4. CASE ReloadWord(t)
  <2> DEFINE a == [row |-> Req(t).row, type |-> Req(t).type,
                   wts |-> v[t].wts, rts |-> rts(v[t]), data |-> copy[t]]
  <2>1. Req(t).row \in Rows /\ Req(t).type \in {"RD", "WR"}
    BY <1>4, <1>y, ReqType DEF ReloadWord, Place
  <2>2. v[t] \in Word /\ copy[t] \in Words
    BY Locals
  <2>3. v[t].wts \in Nat /\ rts(v[t]) \in Nat
    BY <2>2 DEF rts, Word
  <2>4. a \in Access
    BY <2>1, <2>2, <2>3 DEF Access
  <2>5. \/ accesses' = [accesses EXCEPT ![t] = Append(@, a)]
        \/ accesses' = accesses
    BY <1>4 DEF ReloadWord
  <2> HIDE DEF a
  <2>6. Append(accesses[t], a) \in Seq(Access)
    BY <2>4, Locals, AppendProperties
  <2>7. accesses' \in [Threads -> Seq(Access)] /\ \A u \in Threads : u # t => accesses'[u] = accesses[u]
    BY <2>5, <2>6 DEF TypeOK
  <2> QED
    BY <1>4, <1>p, <1>n, <2>7, ZenonT(30) DEF ReloadWord, TypeOK, Local, PC
<1>5. CASE StartValidate(t)
  <2>1. PICK ws \in SetToSeqs(OfType(t, "WR")) : write_set' = [write_set EXCEPT ![t] = ws]
    BY <1>5 DEF StartValidate
  <2>3. ws \in Seq(Nat)
    BY WriteSetOf
  <2>4. pc' \in [Threads -> PC] /\ \A u \in Threads : u # t => pc'[u] = pc[u]
    BY <1>5 DEF StartValidate, PC, TypeOK
  <2>5. FirstTimestamp(t) \in Nat
    BY FirstTimestampType
  <2> QED
    BY <1>5, <2>1, <2>3, <2>4, <2>5, ZenonT(30) DEF StartValidate, TypeOK, Local
<1>6. CASE PreAbort(t)
  <2>1. /\ idx' \in [Threads -> Nat] /\ pc' \in [Threads -> PC]
        /\ \A u \in Threads : u # t => idx'[u] = idx[u] /\ pc'[u] = pc[u]
    <3>1. \/ idx' = [idx EXCEPT ![t] = 0] /\ pc' = [pc EXCEPT ![t] = "abort"]
          \/ idx' = [idx EXCEPT ![t] = @ + 1] /\ pc' = pc
      BY <1>6 DEF PreAbort
    <3>2. idx \in [Threads -> Nat] /\ pc \in [Threads -> PC]
      BY DEF TypeOK
    <3> QED
      BY <3>1, <3>2 DEF PC
  <2> QED
    BY <1>6, <2>1, ZenonT(30) DEF PreAbort, TypeOK, Local
<1>7. CASE PreDone(t)
  BY <1>7, <1>p, <1>n, ZenonT(30) DEF PreDone, TypeOK, Local, PC
<1>8. CASE TryLock(t)
  <2>1. num_locks[t] + 1 \in 1..Len(write_set[t])
    BY <1>8, Locals DEF TryLock
  <2>2. word[Acc(t, num_locks[t] + 1).row] \in Word
    BY <2>1, <1>w, <1>y, AccType
  <2> QED
    BY <1>8, <1>p, <2>2, ZenonT(30) DEF TryLock, TypeOK, Local, PC
<1>9. CASE LockRow(t)
  <2>1. word' \in [Rows -> Word]
    BY <1>9, <1>w, BitOfWord DEF LockRow
  <2>2. pc' \in [Threads -> PC] /\ \A u \in Threads : u # t => pc'[u] = pc[u]
    BY <1>9 DEF LockRow, PC, TypeOK
  <2>3. num_locks' \in [Threads -> Nat] /\ \A u \in Threads : u # t => num_locks'[u] = num_locks[u]
    BY <1>9 DEF LockRow, TypeOK
  <2> QED
    BY <1>9, <1>n, <2>1, <2>2, <2>3, ZenonT(30) DEF LockRow, TypeOK, Local
<1>10. CASE LockFails(t)
  <2>1. pc' \in [Threads -> PC] /\ \A u \in Threads : u # t => pc'[u] = pc[u]
    BY <1>10 DEF LockFails, PC, TypeOK
  <2>2. num_locks' \in [Threads -> Nat] /\ \A u \in Threads : u # t => num_locks'[u] = num_locks[u]
    <3>1. num_locks' = num_locks \/ num_locks' = [num_locks EXCEPT ![t] = @ + 1]
      BY <1>10 DEF LockFails
    <3>2. num_locks \in [Threads -> Nat]
      BY DEF TypeOK
    <3> QED
      BY <3>1, <3>2, <1>t
  <2> QED
    BY <1>10, <1>n, <2>1, <2>2, ZenonT(30) DEF LockFails, TypeOK, Local
<1>11. CASE Unlock(t)
  <2>1. word' \in [Rows -> Word]
    BY <1>11, <1>w, BitOfWord DEF Unlock
  <2> QED
    BY <1>11, <1>t, <2>1, ZenonT(30) DEF Unlock, TypeOK, Local
<1>12. CASE Unlocked(t)
  <2>1. num_locks' \in [Threads -> Nat] /\ \A u \in Threads : u # t => num_locks'[u] = num_locks[u]
    BY <1>12 DEF Unlocked, TypeOK
  <2> QED
    BY <1>12, <1>p, <1>n, <2>1, ZenonT(30) DEF Unlocked, TypeOK, Local, PC
<1>13. CASE Retry(t)
  <2>1. num_locks' \in [Threads -> Nat] /\ \A u \in Threads : u # t => num_locks'[u] = num_locks[u]
    BY <1>13 DEF Retry, TypeOK
  <2>2. spins' \in [Threads -> 0..SpinRounds] /\ \A u \in Threads : u # t => spins'[u] = spins[u]
    BY <1>13 DEF Retry, TypeOK
  <2>3. pc' \in [Threads -> PC] /\ \A u \in Threads : u # t => pc'[u] = pc[u]
    BY <1>13 DEF Retry, PC, TypeOK
  <2> QED
    BY <1>13, <1>n, <2>1, <2>2, <2>3, ZenonT(30) DEF Retry, TypeOK, Local
<1>14. CASE AllLocked(t)
  <2>1. FinalTimestamp(t) \in Nat
    BY <1>y, FinalTimestampAfter
  <2> QED
    BY <1>14, <1>p, <2>1, ZenonT(30) DEF AllLocked, TypeOK, Local, PC
<1>15. CASE LeaseSuffices(t)
  <2>1. NextRead(t) \in Nat
    BY <1>15, <1>y, NextReadLeft DEF LeaseSuffices
  <2> QED
    BY <1>15, <1>p, <2>1, ZenonT(30) DEF LeaseSuffices, Renewed, TypeOK, Local, PC
<1>m. ASSUME ReadsLeft(t) # {}, NEW w \in Word,
             \/ Renewed(t) /\ (v' = v \/ v' = [v EXCEPT ![t] = NoWord])
             \/ NotRenewed(t) /\ (v' = v \/ v' = [v EXCEPT ![t] = NoWord])
             \/ pc' = [pc EXCEPT ![t] = "renewcas"] /\ idx' = idx /\ v' = [v EXCEPT ![t] = w]
             \/ pc' = pc /\ idx' = idx /\ v' = [v EXCEPT ![t] = w]
      PROVE  /\ idx' \in [Threads -> Nat] /\ pc' \in [Threads -> PC] /\ v' \in [Threads -> Word]
             /\ \A u \in Threads : u # t => idx'[u] = idx[u] /\ pc'[u] = pc[u] /\ v'[u] = v[u]
  <2>1. NextRead(t) \in Nat
    BY <1>m, <1>y, NextReadLeft
  <2>2. v \in [Threads -> Word] /\ idx \in [Threads -> Nat] /\ pc \in [Threads -> PC]
    BY DEF TypeOK
  <2>3. v' \in [Threads -> Word] /\ \A u \in Threads : u # t => v'[u] = v[u]
    BY <1>m, <2>2, <1>n
  <2>4. idx' \in [Threads -> Nat] /\ \A u \in Threads : u # t => idx'[u] = idx[u]
    BY <1>m, <2>1, <2>2 DEF Renewed, NotRenewed
  <2>5. pc' \in [Threads -> PC] /\ \A u \in Threads : u # t => pc'[u] = pc[u]
    BY <1>m, <2>2, <1>p DEF Renewed, NotRenewed, PC
  <2> QED
    BY <2>3, <2>4, <2>5
<1>16. CASE TryRenew(t)
  <2>1. ReadsLeft(t) # {} /\ word[RdAcc(t).row] \in Word
    BY <1>16, <1>y, <1>w, NextReadLeft DEF TryRenew
  <2>2. \/ Renewed(t) /\ v' = v
        \/ NotRenewed(t) /\ v' = v
        \/ pc' = [pc EXCEPT ![t] = "renewcas"] /\ idx' = idx /\ v' = [v EXCEPT ![t] = word[RdAcc(t).row]]
    BY <1>16 DEF TryRenew
  <2>3. /\ idx' \in [Threads -> Nat] /\ pc' \in [Threads -> PC] /\ v' \in [Threads -> Word]
        /\ \A u \in Threads : u # t => idx'[u] = idx[u] /\ pc'[u] = pc[u] /\ v'[u] = v[u]
    BY <2>1, <2>2, <1>m
  <2> QED
    BY <1>16, <2>3, ZenonT(30) DEF TryRenew, TypeOK, Local
<1>17. CASE RenewCas(t)
  <2>1. /\ ReadsLeft(t) # {} /\ word[RdAcc(t).row] \in Word /\ RdAcc(t) \in Access
        /\ RdAcc(t).wts <= commit_wts[t] /\ commit_wts[t] \in Nat
    <3>1. ReadsLeft(t) # {} /\ RdAcc(t).rts < commit_wts[t]
      BY <1>17, <1>y DEF RenewCas, Place
    <3>2. /\ word[RdAcc(t).row] \in Word /\ RdAcc(t) \in Access /\ RdAcc(t).wts \in Nat
          /\ RdAcc(t).rts \in Nat /\ RdAcc(t).wts <= RdAcc(t).rts
      BY <3>1, <1>w, <1>y, NextReadLeft
    <3>3. commit_wts[t] \in Nat
      BY Locals
    <3> QED
      BY <3>1, <3>2, <3>3
  <2>2. \/ Renewed(t) /\ v' = [v EXCEPT ![t] = NoWord]
        \/ NotRenewed(t) /\ v' = [v EXCEPT ![t] = NoWord]
        \/ pc' = pc /\ idx' = idx /\ v' = [v EXCEPT ![t] = word[RdAcc(t).row]]
    BY <1>17 DEF RenewCas
  <2>3. /\ idx' \in [Threads -> Nat] /\ pc' \in [Threads -> PC] /\ v' \in [Threads -> Word]
        /\ \A u \in Threads : u # t => idx'[u] = idx[u] /\ pc'[u] = pc[u] /\ v'[u] = v[u]
    BY <2>1, <2>2, <1>m
  <2>4. word' \in [Rows -> Word]
    <3>1. NewWord(t, RdAcc(t)) \in Word
      BY <2>1, NewWordType
    <3>2. word' = word \/ word' = [word EXCEPT ![RdAcc(t).row] = NewWord(t, RdAcc(t))]
      BY <1>17 DEF RenewCas
    <3> QED
      BY <3>1, <3>2, <1>w
  <2> QED
    BY <1>17, <2>3, <2>4, ZenonT(30) DEF RenewCas, TypeOK, Local
<1>18. CASE Decide(t)
  <2> DEFINE e == [txn |-> txn[t], ts |-> commit_wts[t],
                   reads |-> {<<accesses[t][i].row, accesses[t][i].data[1]>> : i \in DOMAIN accesses[t]},
                   writes |-> {accesses[t][i].row : i \in OfType(t, "WR")}]
  <2>1. \A i \in DOMAIN accesses[t] : accesses[t][i].row \in Rows /\ accesses[t][i].data[1] \in Txn
    <3> SUFFICES ASSUME NEW i \in DOMAIN accesses[t]
                 PROVE  accesses[t][i].row \in Rows /\ accesses[t][i].data[1] \in Txn
      OBVIOUS
    <3>1. accesses[t] \in Seq(Access) /\ i \in 1..Len(accesses[t])
      BY Locals
    <3>2. accesses[t][i].row \in Rows /\ accesses[t][i].data \in Words
      BY <3>1, AccessOf
    <3> QED
      BY <3>2 DEF Words
  <2>2. e \in Entry
    BY <2>1, Locals DEF Entry, OfType
  <2>3. hist' = Append(hist, e)
    BY <1>18 DEF Decide
  <2> HIDE DEF e
  <2>4. hist' \in Seq(Entry)
    BY <2>2, <2>3, AppendProperties DEF TypeOK
  <2> QED
    BY <1>18, <1>p, <1>n, <2>4, ZenonT(30) DEF Decide, TypeOK, Local, PC
<1>19. CASE StampRow(t)
  <2> DEFINE r == Acc(t, idx[t] + 1).row
  <2>1. r \in Rows
    <3>1. idx[t] + 1 \in 1..Len(write_set[t])
      BY <1>19, Locals DEF StampRow
    <3> QED
      BY <3>1, <1>y, AccType
  <2>2. word[r].lock \in BOOLEAN /\ commit_wts[t] \in Nat
    BY <2>1, <1>w, Locals DEF Word
  <2>3. [wts |-> commit_wts[t], delta |-> 0, lock |-> word[r].lock] \in Word
    BY <2>2 DEF Word
  <2>4. word' \in [Rows -> Word]
    BY <1>19, <1>w, <2>1, <2>3 DEF StampRow
  <2> QED
    BY <1>19, <1>p, <2>4, ZenonT(30) DEF StampRow, TypeOK, Local, PC
<1>20. CASE WriteWord(t)
  <2> DEFINE r == Acc(t, idx[t] + 1).row
  <2>1. data \in [Rows -> Words] /\ txn[t] \in Txn
    BY Locals DEF TypeOK
  <2>2. \A q \in Rows : /\ [data[q] EXCEPT ![1] = txn[t]] \in Words
                        /\ [data[q] EXCEPT ![2] = txn[t]] \in Words
    BY <2>1 DEF Words
  <2>3. data' \in [Rows -> Words]
    BY <1>20, <2>1, <2>2 DEF WriteWord
  <2>4. pc' \in [Threads -> PC] /\ \A u \in Threads : u # t => pc'[u] = pc[u]
    BY <1>20 DEF WriteWord, PC, TypeOK
  <2> QED
    BY <1>20, <2>3, <2>4, ZenonT(30) DEF WriteWord, TypeOK, Local
<1>21. CASE ReleaseRow(t)
  <2>1. word' \in [Rows -> Word]
    BY <1>21, <1>w, BitOfWord DEF ReleaseRow
  <2>2. pc' \in [Threads -> PC] /\ \A u \in Threads : u # t => pc'[u] = pc[u]
    BY <1>21, <1>p DEF ReleaseRow, PC, TypeOK
  <2>3. idx' \in [Threads -> Nat] /\ \A u \in Threads : u # t => idx'[u] = idx[u]
    BY <1>21, <1>t DEF ReleaseRow, TypeOK
  <2> QED
    BY <1>21, <2>1, <2>2, <2>3, ZenonT(30) DEF ReleaseRow, TypeOK, Local
<1>22. CASE Cleanup(t)
  <2>1. 0 \in 0..SpinRounds
    OBVIOUS
  <2>2. <<>> \in Queries \cup {<<>>}
    OBVIOUS
  <2> QED
    BY <1>22, <1>e, <1>n, <1>p, <2>1, <2>2, ZenonT(30) DEF Cleanup, TypeOK, Local, PC
<1> QED
  BY <1>1, <1>2, <1>3, <1>4, <1>5, <1>6, <1>7, <1>8, <1>9, <1>10, <1>11, <1>12, <1>13, <1>14,
     <1>15, <1>16, <1>17, <1>18, <1>19, <1>20, <1>21, <1>22 DEF Step

-----------------------------------------------------------------------------
(***************************************************************************)
(* Shape                                                                   *)
(***************************************************************************)

\* A step of t keeps Shape of the others.
LEMMA ShapeElsewhere ==
  ASSUME NEW t \in Threads, NEW u \in Threads, u # t, Local(t), config' = config, Shape(u)
  PROVE  Shape(u)'
<1>1. /\ pc'[u] = pc[u] /\ query'[u] = query[u] /\ accesses'[u] = accesses[u]
      /\ write_set'[u] = write_set[u] /\ num_locks'[u] = num_locks[u] /\ idx'[u] = idx[u]
      /\ commit_wts'[u] = commit_wts[u]
  BY DEF Local
<1>2. ReadsLeft(u)' = ReadsLeft(u)
  BY <1>1 DEF ReadsLeft, OfType
<1>3. RdAcc(u)' = RdAcc(u)
  BY <1>1, <1>2 DEF RdAcc, NextRead
<1>4. Sets(u)'
  BY <1>1 DEF Shape, Sets
<1>5. Place(u)'
  BY <1>1, <1>2, <1>3 DEF Shape, Place
<1> QED
  BY <1>4, <1>5 DEF Shape

\* config is a parameter.
LEMMA ConfigStep ==
  ASSUME NEW t \in Threads, Step(t)
  PROVE  config' = config
BY DEF Step, NewQuery, LoadWord, CopyRow, ReloadWord, StartValidate, PreAbort, PreDone,
   TryLock, LockRow, LockFails, Unlock, Unlocked, Retry, AllLocked, LeaseSuffices, TryRenew,
   RenewCas, Decide, StampRow, WriteWord, ReleaseRow, Cleanup, queryVars

\* What ReloadWord adds to accesses when the word has not changed.
LEMMA ReloadAdds ==
  ASSUME TypeOK, NEW t \in Threads, Shape(t), ReloadWord(t), accesses'[t] # accesses[t]
  PROVE  LET n == Len(accesses[t]) IN
         /\ n \in Nat /\ n < Len(query[t]) /\ Len(accesses'[t]) = n + 1
         /\ \A i \in 1..n : accesses'[t][i] = accesses[t][i]
         /\ accesses'[t][n + 1].row = Req(t).row /\ accesses'[t][n + 1].type = Req(t).type
         /\ accesses'[t][n + 1].wts = v[t].wts /\ accesses'[t][n + 1].rts = rts(v[t])
         /\ accesses'[t][n + 1].data = copy[t]
         /\ word[Req(t).row].wts = v[t].wts
<1> DEFINE n == Len(accesses[t])
           a == [row |-> Req(t).row, type |-> Req(t).type,
                 wts |-> v[t].wts, rts |-> rts(v[t]), data |-> copy[t]]
<1>1. accesses[t] \in Seq(Access) /\ n \in Nat /\ accesses \in [Threads -> Seq(Access)]
  BY Locals DEF TypeOK
<1>2. accesses'[t] = Append(accesses[t], a) /\ word[Req(t).row].wts = v[t].wts
  BY <1>1, ReloadWord(t) DEF ReloadWord, SameWord
<1>3. /\ a.row = Req(t).row /\ a.type = Req(t).type /\ a.wts = v[t].wts
      /\ a.rts = rts(v[t]) /\ a.data = copy[t]
  OBVIOUS
<1> HIDE DEF a
<1>4. /\ Len(accesses'[t]) = n + 1 /\ accesses'[t][n + 1] = a
      /\ \A i \in 1..n : accesses'[t][i] = accesses[t][i]
  BY <1>1, <1>2
<1>5. n < Len(query[t])
  BY DEF ReloadWord, Shape, Place
<1> QED
  BY <1>1, <1>2, <1>3, <1>4, <1>5

LEMMA SetsStep ==
  ASSUME TypeOK, NEW t \in Threads, Shape(t), Step(t)
  PROVE  Sets(t)'
<1>y. /\ accesses \in [Threads -> Seq(Access)] /\ write_set \in [Threads -> Seq(Nat)]
      /\ query \in [Threads -> Queries \cup {<<>>}] /\ Sets(t) /\ Place(t)
  BY DEF TypeOK, Shape
<1>1. ASSUME NEW q \in Queries, NewQuery(t, q)
      PROVE  Sets(t)'
  <2>1. /\ accesses'[t] = accesses[t] /\ write_set'[t] = write_set[t] /\ query'[t] = q
        /\ Len(accesses[t]) = 0 /\ Len(write_set[t]) = 0
    BY <1>1, <1>y DEF NewQuery, Place, accessVars, validateVars
  <2>2. Len(q) \in Nat
    BY TicTocAssumption, LenProperties
  <2> QED
    BY <2>1, <2>2 DEF Sets
<1>2. CASE ReloadWord(t)
  <2>1. write_set'[t] = write_set[t] /\ Len(write_set[t]) = 0 /\ query'[t] = query[t]
    BY <1>2, <1>y DEF ReloadWord, Place, Executing, validateVars, queryVars
  <2>2. CASE accesses'[t] = accesses[t]
    BY <2>1, <2>2, <1>y DEF Sets
  <2>3. CASE accesses'[t] # accesses[t]
    <3> DEFINE n == Len(accesses[t])
    <3>1. /\ n \in Nat /\ n < Len(query[t]) /\ Len(accesses'[t]) = n + 1
          /\ \A i \in 1..n : accesses'[t][i] = accesses[t][i]
          /\ accesses'[t][n + 1].row = Req(t).row /\ accesses'[t][n + 1].type = Req(t).type
          /\ accesses'[t][n + 1].wts = v[t].wts /\ accesses'[t][n + 1].rts = rts(v[t])
      BY <1>2, <2>3, ReloadAdds
    <3>2. v[t].wts <= rts(v[t])
      <4>1. v[t].wts \in Nat /\ v[t].delta \in 0..(RTS_SIZE - 1) /\ RTS_SIZE \in Nat
        BY Locals, TicTocAssumption DEF Word
      <4> QED
        BY <4>1 DEF rts
    <3>3. Len(query[t]) \in Nat
      BY Locals
    <3>4. \A i \in 1..(n + 1) : i \in 1..n \/ i = n + 1
      BY <3>1
    <3>5. /\ accesses'[t][n + 1].row = query[t][n + 1].row
          /\ accesses'[t][n + 1].type = query[t][n + 1].type
          /\ accesses'[t][n + 1].wts <= accesses'[t][n + 1].rts
      BY <3>1, <3>2 DEF Req
    <3>6. \A i \in 1..n : /\ accesses'[t][i].row = query[t][i].row
                          /\ accesses'[t][i].type = query[t][i].type
                          /\ accesses'[t][i].wts <= accesses'[t][i].rts
      BY <3>1, <1>y DEF Sets
    <3>7. Len(accesses'[t]) <= Len(query[t])
      BY <3>1, <3>3
    <3> HIDE DEF n
    <3> QED
      BY <2>1, <3>1, <3>4, <3>5, <3>6, <3>7 DEF Sets
  <2> QED
    BY <2>2, <2>3
<1>3. CASE StartValidate(t)
  <2>1. PICK ws \in SetToSeqs(OfType(t, "WR")) : write_set' = [write_set EXCEPT ![t] = ws]
    BY <1>3 DEF StartValidate
  <2>2. /\ \A k \in 1..Len(ws) : ws[k] \in 1..Len(accesses[t]) /\ accesses[t][ws[k]].type = "WR"
        /\ \A j, k \in 1..Len(ws) : ws[j] = ws[k] => j = k
    BY WriteSetOf
  <2>3. accesses'[t] = accesses[t] /\ query'[t] = query[t] /\ write_set'[t] = ws
    BY <1>3, <1>y, <2>1 DEF StartValidate, accessVars, queryVars
  <2> QED
    BY <1>y, <2>2, <2>3 DEF Sets
<1>4. CASE Cleanup(t)
  <2>1. accesses'[t] = <<>> /\ write_set'[t] = <<>> /\ query'[t] = <<>> /\ Len(<<>>) = 0
    BY <1>4, <1>y, EmptySeq DEF Cleanup
  <2> QED
    BY <2>1 DEF Sets
<1>5. CASE /\ ~(\E q \in Queries : NewQuery(t, q)) /\ ~ReloadWord(t) /\ ~StartValidate(t)
           /\ ~Cleanup(t)
  <2>1. accesses'[t] = accesses[t] /\ write_set'[t] = write_set[t] /\ query'[t] = query[t]
    BY <1>5, ZenonT(30) DEF Step, LoadWord, CopyRow, PreAbort, PreDone,
       TryLock, LockRow, LockFails, Unlock, Unlocked, Retry, AllLocked, LeaseSuffices, TryRenew,
       RenewCas, Decide, StampRow, WriteWord, ReleaseRow, queryVars, accessVars, validateVars
  <2> QED
    BY <2>1, <1>y DEF Sets
<1> QED
  BY <1>1, <1>2, <1>3, <1>4, <1>5

LEMMA PlaceStep ==
  ASSUME TypeOK, NEW t \in Threads, Shape(t), Step(t), Sets(t)'
  PROVE  Place(t)'
<1> USE DEF Goto, rowVars, queryVars, accessVars, validateVars, Executing, Writing
<1>y. /\ pc \in [Threads -> PC] /\ idx \in [Threads -> Nat] /\ num_locks \in [Threads -> Nat]
      /\ write_set \in [Threads -> Seq(Nat)] /\ accesses \in [Threads -> Seq(Access)]
      /\ commit_wts \in [Threads -> Nat] /\ query \in [Threads -> Queries \cup {<<>>}]
  BY DEF TypeOK
<1>l. /\ Len(write_set[t]) \in Nat /\ Len(accesses[t]) \in Nat /\ Len(query[t]) \in Nat
      /\ num_locks[t] \in Nat /\ idx[t] \in Nat /\ commit_wts[t] \in Nat
  BY Locals
<1>p. Place(t)
  BY DEF Shape
\* Every write is in the write set, as long as both stay as they are.
<1> DEFINE All == \A i \in 1..Len(accesses[t]) : accesses[t][i].type = "WR" =>
                    \E k \in 1..Len(write_set[t]) : write_set[t][k] = i
<1>a. /\ pc[t] \notin {"idle"} \cup Executing => All
      /\ accesses'[t] = accesses[t] /\ write_set'[t] = write_set[t] => (All' <=> All)
  BY <1>p DEF Place
\* Place without its parts about the read set.
<1> DEFINE Here(s, n, i) ==
      /\ n \in Nat /\ i \in Nat
      /\ n <= Len(write_set[t])
      /\ s = "pre" => n = 0
      /\ s \in {"lock", "cas"} => i = 0
      /\ s = "cas" => n < Len(write_set[t])
      /\ s \in {"unlock", "abort", "stamp"} => i <= n
      /\ s \in {"write1", "write2", "release"} => i < n
      /\ s \in {"renew", "renewcas"} \cup Writing => n = Len(write_set[t])
      /\ s = "again" /\ config.pre_abort => n = 0
<1>h. ASSUME accesses'[t] = accesses[t], write_set'[t] = write_set[t], config' = config, query'[t] = query[t],
             pc[t] \notin {"idle"} \cup Executing, pc'[t] \in PC \ ({"idle"} \cup Executing),
             Here(pc'[t], num_locks'[t], idx'[t]),
             pc'[t] = "renewcas" => ReadsLeft(t)' # {} /\ RdAcc(t)'.rts < commit_wts'[t]
      PROVE  Place(t)'
  BY <1>h, <1>a DEF Place, PC
<1>g. Here(pc[t], num_locks[t], idx[t])
  BY <1>p, <1>l DEF Place
<1>c. config' = config
  BY ConfigStep
<1>1. ASSUME NEW q \in Queries, NewQuery(t, q)
      PROVE  Place(t)'
  BY <1>1, <1>y, <1>l, <1>p DEF NewQuery, Place
<1>2. CASE LoadWord(t) \/ CopyRow(t)
  <2>1. /\ pc[t] \in Executing /\ pc'[t] \in {"copy", "reload"} /\ Len(accesses[t]) < Len(query[t])
        /\ UNCHANGED <<query, accesses, write_set, num_locks, idx>>
    BY <1>2, <1>y, <1>p DEF LoadWord, CopyRow, Place
  <2> QED
    BY <2>1, <1>l, <1>p DEF Place
<1>3. CASE ReloadWord(t)
  <2>1. /\ pc[t] = "reload" /\ pc'[t] = "exec" /\ UNCHANGED <<write_set, num_locks, idx>>
    BY <1>3, <1>y DEF ReloadWord
  <2> QED
    BY <2>1, <1>l, <1>p DEF Place
<1>4. CASE StartValidate(t)
  <2>1. PICK ws \in SetToSeqs(OfType(t, "WR")) : write_set' = [write_set EXCEPT ![t] = ws]
    BY <1>4 DEF StartValidate
  <2>4. /\ Len(ws) \in Nat
        /\ \A i \in 1..Len(accesses[t]) : accesses[t][i].type = "WR" =>
             \E k \in 1..Len(ws) : ws[k] = i
    BY WriteSetOf
  <2>5. /\ pc[t] = "exec" /\ pc'[t] \in {"pre", "lock"} /\ write_set'[t] = ws
        /\ UNCHANGED <<accesses, num_locks, idx>>
    BY <1>4, <1>y, <2>1 DEF StartValidate
  <2>6. num_locks[t] = 0 /\ idx[t] = 0
    BY <2>5, <1>p DEF Place
  <2>7. All'
    BY <2>4, <2>5
  <2> QED
    BY <2>4, <2>5, <2>6, <2>7 DEF Place
<1>5. CASE PreAbort(t) \/ PreDone(t)
  <2>1. /\ pc[t] \in {"pre", "again"} /\ UNCHANGED <<query, accesses, write_set, num_locks>>
        /\ \/ pc'[t] = "abort" /\ idx'[t] = 0
           \/ pc'[t] = pc[t] /\ idx'[t] = idx[t] + 1
           \/ pc'[t] = "lock" /\ idx'[t] = 0
    BY <1>5, <1>y DEF PreAbort, PreDone
  <2>2. Here(pc'[t], num_locks'[t], idx'[t])
    BY <2>1, <1>g, <1>l
  <2> HIDE DEF Here
  <2> QED
    BY <2>1, <2>2, <1>h, <1>c DEF PC
<1>6. CASE TryLock(t) \/ LockRow(t) \/ LockFails(t)
  <2>1. /\ pc[t] \in {"lock", "cas"} /\ num_locks[t] < Len(write_set[t])
        /\ UNCHANGED <<query, accesses, write_set, idx>>
        /\ \/ pc'[t] = "cas" /\ num_locks'[t] = num_locks[t]
           \/ pc'[t] \in {"abort", "lock"} /\ num_locks'[t] = num_locks[t] + 1
           \/ pc'[t] = "unlock" /\ num_locks'[t] = num_locks[t]
    <3>1. CASE TryLock(t)
      BY <3>1, <1>y DEF TryLock
    <3>2. CASE LockRow(t)
      BY <3>2, <1>y, <1>p DEF LockRow, Place
    <3>3. CASE LockFails(t)
      BY <3>3, <1>y, <1>p DEF LockFails, Place
    <3> QED
      BY <1>6, <3>1, <3>2, <3>3
  <2>2. Here(pc'[t], num_locks'[t], idx'[t])
    BY <2>1, <1>g, <1>l
  <2> HIDE DEF Here
  <2> QED
    BY <2>1, <2>2, <1>h, <1>c DEF PC
<1>7. CASE Unlock(t) \/ Unlocked(t) \/ Retry(t)
  <2>1. /\ pc[t] \in {"unlock", "abort", "again"} /\ UNCHANGED <<query, accesses, write_set>>
        /\ \/ /\ pc[t] \in {"unlock", "abort"} /\ idx[t] < num_locks[t]
              /\ pc'[t] = pc[t] /\ idx'[t] = idx[t] + 1 /\ num_locks'[t] = num_locks[t]
           \/ /\ pc'[t] = "again" /\ idx'[t] = 0
              /\ num_locks'[t] = IF config.pre_abort THEN 0 ELSE num_locks[t]
           \/ /\ pc'[t] \in {"abort", "lock"} /\ idx'[t] = 0
              /\ num_locks'[t] = 0 \/ num_locks'[t] = num_locks[t]
    <3>1. CASE Unlock(t)
      BY <3>1, <1>y DEF Unlock
    <3>2. CASE Unlocked(t)
      BY <3>2, <1>y DEF Unlocked
    <3>3. CASE Retry(t)
      BY <3>3, <1>y DEF Retry
    <3> QED
      BY <1>7, <3>1, <3>2, <3>3
  <2>2. Here(pc'[t], num_locks'[t], idx'[t])
    BY <2>1, <1>g, <1>l
  <2> HIDE DEF Here
  <2> QED
    BY <2>1, <2>2, <1>h, <1>c DEF PC
<1>8. CASE AllLocked(t) \/ LeaseSuffices(t)
  <2>1. /\ pc[t] \in {"lock", "renew"} /\ UNCHANGED <<query, accesses, write_set, num_locks>>
        /\ pc'[t] = "renew" /\ num_locks[t] = Len(write_set[t]) /\ idx'[t] \in Nat
    <3>1. CASE AllLocked(t)
      BY <3>1, <1>y DEF AllLocked
    <3>2. CASE LeaseSuffices(t)
      <4>1. NextRead(t) \in Nat
        BY <3>2, NextReadLeft DEF LeaseSuffices, Shape
      <4> QED
        BY <3>2, <4>1, <1>y, <1>p DEF LeaseSuffices, Renewed, Place
    <3> QED
      BY <1>8, <3>1, <3>2
  <2>2. Here(pc'[t], num_locks'[t], idx'[t])
    BY <2>1, <1>g, <1>l
  <2> HIDE DEF Here
  <2> QED
    BY <2>1, <2>2, <1>h, <1>c DEF PC
<1>9. CASE TryRenew(t) \/ RenewCas(t)
  <2>1. /\ pc[t] \in {"renew", "renewcas"} /\ UNCHANGED <<query, accesses, write_set, num_locks, commit_wts>>
        /\ ReadsLeft(t) # {} /\ RdAcc(t).rts < commit_wts[t]
        /\ \/ Renewed(t)
           \/ NotRenewed(t)
           \/ pc'[t] = "renewcas" /\ idx' = idx
    <3>1. CASE TryRenew(t)
      BY <3>1, <1>y DEF TryRenew
    <3>2. CASE RenewCas(t)
      BY <3>2, <1>y, <1>p DEF RenewCas, Place
    <3> QED
      BY <1>9, <3>1, <3>2
  <2>2. num_locks[t] = Len(write_set[t])
    BY <2>1, <1>p DEF Place
  <2>3. CASE Renewed(t)
    <3>1. pc'[t] = "renew" /\ idx'[t] \in Nat
      BY <2>1, <2>3, <1>y, NextReadLeft DEF Renewed, Shape
    <3>2. Here(pc'[t], num_locks'[t], idx'[t])
      BY <2>1, <2>2, <3>1, <1>l
    <3> HIDE DEF Here
    <3> QED
      BY <2>1, <3>1, <3>2, <1>h, <1>c DEF PC
  <2>4. CASE NotRenewed(t)
    <3>1. pc'[t] = "abort" /\ idx'[t] = 0
      BY <2>4, <1>y DEF NotRenewed
    <3>2. Here(pc'[t], num_locks'[t], idx'[t])
      BY <2>1, <2>2, <3>1, <1>l
    <3> HIDE DEF Here
    <3> QED
      BY <2>1, <3>1, <3>2, <1>h, <1>c DEF PC
  <2>5. CASE pc'[t] = "renewcas" /\ idx' = idx
    <3>1. Here(pc'[t], num_locks'[t], idx'[t])
      BY <2>1, <2>2, <2>5, <1>l
    <3>2. ReadsLeft(t)' = ReadsLeft(t)
      BY <2>1, <2>5 DEF ReadsLeft, OfType
    <3>3. RdAcc(t)' = RdAcc(t)
      BY <2>1, <3>2 DEF RdAcc, NextRead
    <3> HIDE DEF Here
    <3> QED
      BY <2>1, <2>5, <3>1, <3>2, <3>3, <1>h, <1>c DEF PC
  <2> QED
    BY <2>1, <2>3, <2>4, <2>5
<1>10. CASE Decide(t) \/ StampRow(t) \/ WriteWord(t) \/ ReleaseRow(t)
  <2>1. /\ UNCHANGED <<query, accesses, write_set, num_locks>>
        /\ \/ pc[t] = "renew" /\ pc'[t] = "stamp" /\ idx'[t] = 0
           \/ pc[t] = "stamp" /\ pc'[t] = "write1" /\ idx'[t] = idx[t] /\ idx[t] < Len(write_set[t])
           \/ pc[t] = "write1" /\ pc'[t] = "write2" /\ idx'[t] = idx[t]
           \/ pc[t] = "write2" /\ pc'[t] = "release" /\ idx'[t] = idx[t]
           \/ pc[t] = "release" /\ pc'[t] = "stamp" /\ idx'[t] = idx[t] + 1
    <3>1. CASE Decide(t)
      BY <3>1, <1>y DEF Decide
    <3>2. CASE StampRow(t)
      BY <3>2, <1>y DEF StampRow
    <3>3. CASE WriteWord(t)
      BY <3>3, <1>y DEF WriteWord
    <3>4. CASE ReleaseRow(t)
      BY <3>4, <1>y DEF ReleaseRow
    <3> QED
      BY <1>10, <3>1, <3>2, <3>3, <3>4
  <2>2. Here(pc'[t], num_locks'[t], idx'[t])
    BY <2>1, <1>g, <1>l
  <2> HIDE DEF Here
  <2> QED
    BY <2>1, <2>2, <1>h, <1>c DEF PC
<1>11. CASE Cleanup(t)
  <2>1. /\ pc'[t] = "idle" /\ accesses'[t] = <<>> /\ write_set'[t] = <<>> /\ query'[t] = <<>>
        /\ num_locks'[t] = 0 /\ idx'[t] = 0 /\ Len(<<>>) = 0
    BY <1>11, <1>y, EmptySeq DEF Cleanup
  <2> QED
    BY <2>1 DEF Place
<1> QED
  BY <1>1, <1>2, <1>3, <1>4, <1>5, <1>6, <1>7, <1>8, <1>9, <1>10, <1>11 DEF Step

-----------------------------------------------------------------------------
(***************************************************************************)
(* The lock bits                                                           *)
(***************************************************************************)
LEMMA HoldsIsHeld ==
  ASSUME TypeOK, NEW t \in Threads, Shape(t)
  PROVE  Holds(t) = Held(t)
<1> USE DEF Executing, Writing
<1>1. pc[t] \in PC /\ idx[t] \in Nat /\ num_locks[t] \in Nat /\ Place(t)
  BY Locals DEF Shape
<1>2. CASE pc[t] \in {"lock", "cas", "renew", "renewcas"}
  BY <1>1, <1>2 DEF Holds, Held, First, Place
<1>3. CASE pc[t] \in {"unlock", "abort"}
  BY <1>1, <1>3 DEF Holds, Held, First, Place
<1>4. CASE pc[t] \in Writing
  BY <1>1, <1>4 DEF Holds, Held, First, Place
<1>5. CASE pc[t] \in {"idle", "pre", "again"} \cup Executing
  <2>1. Holds(t) = {}
    BY <1>5 DEF Holds
  <2>2. First(t) > num_locks[t]
    BY <1>1, <1>5 DEF First, Place
  <2>3. First(t)..num_locks[t] = {}
    BY <1>1, <2>2 DEF First
  <2> QED
    BY <2>1, <2>3 DEF Held
<1> QED
  BY <1>1, <1>2, <1>3, <1>4, <1>5 DEF PC

\* What a step of t may do to the lock bits: nothing, set one that is not set, or
\* clear one that t holds.
Keeps(t) == (\A q \in Rows : word'[q].lock = word[q].lock) /\ Held(t)' = Held(t)
Acquires(t, r) ==
  /\ ~word[r].lock /\ word'[r].lock
  /\ \A q \in Rows : q # r => word'[q].lock = word[q].lock
  /\ Held(t)' = Held(t) \cup {r}
Releases(t, r) ==
  /\ r \in Held(t) /\ ~word'[r].lock
  /\ \A q \in Rows : q # r => word'[q].lock = word[q].lock
  /\ Held(t)' = Held(t) \ {r}

LEMMA HeldElsewhere ==
  ASSUME NEW t \in Threads, NEW u \in Threads, u # t, Local(t)
  PROVE  Held(u)' = Held(u) /\ \A k : Acc(u, k)' = Acc(u, k)
<1>1. /\ pc'[u] = pc[u] /\ idx'[u] = idx[u] /\ num_locks'[u] = num_locks[u]
      /\ accesses'[u] = accesses[u] /\ write_set'[u] = write_set[u]
  BY DEF Local
<1>2. First(u)' = First(u)
  BY <1>1 DEF First
<1>3. \A k : Acc(u, k)' = Acc(u, k)
  BY <1>1 DEF Acc
<1> QED
  BY <1>1, <1>2, <1>3 DEF Held

LEMMA HeldStep ==
  ASSUME TypeOK, NEW t \in Threads, Shape(t), BitInv, Step(t), Sound(config)
  PROVE  Keeps(t) \/ \E r \in Rows : Acquires(t, r) \/ Releases(t, r)
<1> USE DEF Goto, rowVars, queryVars, accessVars, validateVars, Executing, Writing
<1>y. /\ pc \in [Threads -> PC] /\ idx \in [Threads -> Nat] /\ num_locks \in [Threads -> Nat]
      /\ word \in [Rows -> Word]
  BY DEF TypeOK
<1>l. Len(write_set[t]) \in Nat /\ num_locks[t] \in Nat /\ idx[t] \in Nat /\ Sets(t) /\ Place(t)
  BY Locals DEF Shape
<1>e. First(t) > num_locks[t] => Held(t) = {}
  BY <1>l DEF Held, First
<1>f. num_locks'[t] = 0 /\ idx'[t] \in Nat => Held(t)' = {}
  <2> SUFFICES ASSUME num_locks'[t] = 0, idx'[t] \in Nat PROVE Held(t)' = {}
    OBVIOUS
  <2>1. First(t)' > 0 /\ First(t)' \in Nat
    BY DEF First
  <2> QED
    BY <2>1 DEF Held
<1>a. accesses' = accesses /\ write_set' = write_set => \A k : Acc(t, k)' = Acc(t, k)
  BY DEF Acc
<1>z. num_locks[t] = 0 => Held(t) = {}
  BY <1>e, <1>l DEF First
\* Before validation, and between two attempts, nothing is held.
<1>1. CASE \/ (\E q \in Queries : NewQuery(t, q)) \/ LoadWord(t) \/ CopyRow(t) \/ ReloadWord(t)
           \/ StartValidate(t) \/ PreAbort(t) \/ PreDone(t)
  <2>1. UNCHANGED <<word, num_locks>>
    BY <1>1 DEF NewQuery, LoadWord, CopyRow, ReloadWord, StartValidate, PreAbort, PreDone
  <2>2. /\ pc[t] \in {"idle", "pre"} \cup Executing \/ (pc[t] = "again" /\ config.pre_abort)
        /\ idx'[t] \in Nat
    BY <1>1, <1>y DEF NewQuery, LoadWord, CopyRow, ReloadWord, StartValidate, PreAbort, PreDone
  <2>3. num_locks[t] = 0
    BY <2>2, <1>l DEF Place
  <2> QED
    BY <2>1, <2>2, <2>3, <1>z, <1>f DEF Keeps
<1>2. CASE LockRow(t)
  <2> DEFINE n == num_locks[t]
             a == Acc(t, n + 1)
  <2>1. /\ pc[t] = "cas" /\ (pc'[t] = "abort" \/ pc'[t] = "lock") /\ word[a.row] = v[t]
        /\ word' = [word EXCEPT ![a.row].lock = TRUE]
        /\ UNCHANGED <<accesses, write_set, idx>> /\ num_locks'[t] = n + 1
    BY <1>2, <1>y DEF LockRow
  <2>2. idx[t] = 0 /\ n \in Nat /\ n + 1 \in 1..Len(write_set[t])
    BY <2>1, <1>l DEF Place
  <2>3. First(t) = 1 /\ First(t)' = 1
    BY <2>1, <2>2 DEF First
  <2>4. Held(t)' = {Acc(t, k).row : k \in 1..(n + 1)}
    BY <2>1, <2>3, <1>a DEF Held
  <2>5. Held(t) = {Acc(t, k).row : k \in 1..n}
    BY <2>3 DEF Held
  <2>6. \A k : k \in 1..(n + 1) <=> k \in 1..n \/ k = n + 1
    BY <2>2
  <2>7. Held(t)' = Held(t) \cup {a.row}
    BY <2>4, <2>5, <2>6
  <2>8. a.row \in Rows
    BY <2>2, <1>l, AccType
  <2>9. ~word[a.row].lock
    BY <2>1 DEF BitInv
  <2>10. word'[a.row].lock /\ \A q \in Rows : q # a.row => word'[q].lock = word[q].lock
    BY <2>1, <2>8, <1>y DEF Word
  <2> QED
    BY <2>7, <2>8, <2>9, <2>10 DEF Acquires
<1>3. CASE Unlock(t) \/ ReleaseRow(t)
  <2> DEFINE n == num_locks[t]
             a == Acc(t, idx[t] + 1)
  <2>1. /\ pc[t] \in {"unlock", "abort", "release"} /\ pc'[t] \in {"unlock", "abort", "stamp"}
        /\ idx[t] < n /\ word' = [word EXCEPT ![a.row].lock = FALSE]
        /\ UNCHANGED <<accesses, write_set, num_locks>> /\ idx'[t] = idx[t] + 1
    BY <1>3, <1>y, <1>l DEF Unlock, ReleaseRow, Place
  <2>2. idx[t] \in Nat /\ n \in Nat /\ n <= Len(write_set[t])
    BY <1>l DEF Place
  <2>3. First(t) = idx[t] + 1 /\ First(t)' = idx[t] + 2
    BY <2>1, <2>2 DEF First
  <2>4. Held(t)' = {Acc(t, k).row : k \in (idx[t] + 2)..n}
    BY <2>1, <2>3, <1>a DEF Held
  <2>5. Held(t) = {Acc(t, k).row : k \in (idx[t] + 1)..n}
    BY <2>3 DEF Held
  <2>6. \A k : k \in (idx[t] + 1)..n <=> k \in (idx[t] + 2)..n \/ k = idx[t] + 1
    BY <2>1, <2>2
  <2>7. idx[t] + 1 \in 1..Len(write_set[t])
    BY <2>1, <2>2, <1>l
  <2>8. a.row \in Rows /\ \A j \in 1..Len(write_set[t]) : Acc(t, j).row = a.row => j = idx[t] + 1
    BY <2>7, <1>l, AccType
  <2>9. ASSUME NEW k \in (idx[t] + 2)..n PROVE Acc(t, k).row # a.row
    <3>1. k \in 1..Len(write_set[t]) /\ k # idx[t] + 1
      BY <2>2, <1>l
    <3> QED
      BY <2>8, <3>1
  <2>10. a.row \in Held(t) /\ Held(t)' = Held(t) \ {a.row}
    BY <2>4, <2>5, <2>6, <2>9
  <2>11. ~word'[a.row].lock /\ \A q \in Rows : q # a.row => word'[q].lock = word[q].lock
    BY <2>1, <2>8, <1>y DEF Word
  <2> QED
    BY <2>8, <2>10, <2>11 DEF Releases
\* An attempt or a transaction ends once everything is released.
<1>4. CASE Unlocked(t) \/ Retry(t) \/ Cleanup(t)
  <2>1. word' = word
    BY <1>4 DEF Unlocked, Retry, Cleanup
  <2>2. Held(t) = {}
    <3>1. CASE Unlocked(t)
      BY <3>1, <1>e, <1>l DEF Unlocked, First
    <3>2. CASE Retry(t)
      BY <3>2, <1>e, <1>l DEF Retry, First
    <3>3. CASE Cleanup(t)
      BY <3>3, <1>e, <1>l DEF Cleanup, First, Place
    <3> QED
      BY <1>4, <3>1, <3>2, <3>3
  <2>3. Held(t)' = {}
    <3>1. CASE Unlocked(t)
      <4>1. pc'[t] = "again" /\ num_locks'[t] \in Nat
        BY <3>1, <1>y, <1>l DEF Unlocked
      <4>2. First(t)' = num_locks'[t] + 1
        BY <4>1 DEF First
      <4> QED
        BY <4>1, <4>2 DEF Held
    <3>2. CASE Retry(t)
      <4>1. config.bounded => config.pre_abort
        BY DEF Sound
      <4>2. num_locks'[t] = 0 /\ idx'[t] = 0
        BY <3>2, <4>1, <1>y, <1>l DEF Retry, Place
      <4> QED
        BY <4>2, <1>f
    <3>3. CASE Cleanup(t)
      BY <3>3, <1>y, <1>f DEF Cleanup
    <3> QED
      BY <1>4, <3>1, <3>2, <3>3
  <2> QED
    BY <2>1, <2>2, <2>3 DEF Keeps
\* try_renew exchanges a word that was unlocked, and write_data keeps the bit.
<1>5. CASE RenewCas(t) \/ StampRow(t)
  <2>1. UNCHANGED <<accesses, write_set, num_locks>>
    BY <1>5 DEF RenewCas, StampRow
  <2>2. First(t)' = First(t)
    <3>1. CASE RenewCas(t)
      <4>1. First(t) = 1
        BY <3>1 DEF RenewCas, First
      <4>2. First(t)' = 1
        <5>1. pc'[t] \in {"renew", "renewcas"} \/ (pc'[t] = "abort" /\ idx'[t] = 0)
          BY <3>1, <1>y DEF RenewCas, Renewed, NotRenewed
        <5> QED
          BY <5>1 DEF First
      <4> QED
        BY <4>1, <4>2
    <3>2. CASE StampRow(t)
      <4>1. pc[t] = "stamp" /\ pc'[t] = "write1" /\ idx' = idx
        BY <3>2, <1>y DEF StampRow
      <4> QED
        BY <4>1 DEF First
    <3> QED
      BY <1>5, <3>1, <3>2
  <2>3. Held(t)' = Held(t)
    BY <2>1, <2>2, <1>a DEF Held
  <2>4. \A q \in Rows : word'[q].lock = word[q].lock
    <3>1. CASE RenewCas(t)
      <4> DEFINE r == RdAcc(t).row
      <4>1. \/ word' = word
            \/ word[r] = v[t] /\ word' = [word EXCEPT ![r] = NewWord(t, RdAcc(t))] /\ pc[t] = "renewcas"
        BY <3>1 DEF RenewCas
      <4>2. NewWord(t, RdAcc(t)).lock = FALSE
        BY DEF NewWord
      <4>3. pc[t] = "renewcas" => ~v[t].lock
        BY DEF BitInv
      <4>4. v[t].lock \in BOOLEAN
        BY Locals DEF Word
      <4> QED
        BY <4>1, <4>2, <4>3, <4>4, <1>y
    <3>2. CASE StampRow(t)
      BY <3>2, <1>y DEF StampRow
    <3> QED
      BY <1>5, <3>1, <3>2
  <2> QED
    BY <2>3, <2>4 DEF Keeps
\* The other steps of validation.
<1>6. CASE \/ TryLock(t) \/ LockFails(t) \/ AllLocked(t) \/ LeaseSuffices(t) \/ TryRenew(t)
           \/ Decide(t) \/ WriteWord(t)
  <2>1. UNCHANGED <<word, accesses, write_set, num_locks>>
    <3>1. config.no_wait
      BY DEF Sound
    <3> QED
      BY <1>6, <3>1 DEF TryLock, LockFails, AllLocked, LeaseSuffices, TryRenew, Decide, WriteWord
  <2>2. First(t)' = First(t)
    <3>1. CASE TryLock(t) \/ LockFails(t) \/ AllLocked(t)
      <4>1. config.no_wait
        BY DEF Sound
      <4>2. pc[t] \in {"lock", "cas"} /\ pc'[t] \in {"cas", "unlock", "renew"} /\ idx' = idx
        BY <3>1, <4>1, <1>y DEF TryLock, LockFails, AllLocked
      <4>3. idx[t] = 0
        BY <4>2, <1>l DEF Place
      <4> QED
        BY <4>2, <4>3 DEF First
    <3>2. CASE LeaseSuffices(t) \/ TryRenew(t) \/ Decide(t)
      <4>1. /\ pc[t] = "renew"
            /\ pc'[t] \in {"renew", "renewcas"} \/ (pc'[t] \in {"abort", "stamp"} /\ idx'[t] = 0)
        BY <3>2, <1>y DEF LeaseSuffices, TryRenew, Decide, Renewed, NotRenewed
      <4> QED
        BY <4>1 DEF First
    <3>3. CASE WriteWord(t)
      BY <3>3, <1>y DEF WriteWord, First
    <3> QED
      BY <1>6, <3>1, <3>2, <3>3
  <2>3. Held(t)' = Held(t)
    BY <2>1, <2>2, <1>a DEF Held
  <2> QED
    BY <2>1, <2>3 DEF Keeps
<1> QED
  BY <1>1, <1>2, <1>3, <1>4, <1>5, <1>6 DEF Step

LEMMA BitInvStep ==
  ASSUME TypeOK, NEW t \in Threads, Shape(t), BitInv, Step(t), Sound(config), Local(t)
  PROVE  BitInv'
<1>1. \A u \in Threads : u # t => Held(u)' = Held(u)
  BY HeldElsewhere
<1>2. Keeps(t) \/ \E r \in Rows : Acquires(t, r) \/ Releases(t, r)
  BY HeldStep
<1> DEFINE Bits == \A r \in Rows :
                     /\ word[r].lock <=> \E u \in Threads : r \in Held(u)
                     /\ \A x, u \in Threads : r \in Held(x) /\ r \in Held(u) => x = u
<1>b. Bits
  BY DEF BitInv
<1>3. ASSUME Keeps(t) PROVE Bits'
  BY <1>1, <1>3, <1>b DEF Keeps
<1>4. ASSUME NEW r \in Rows, Acquires(t, r)
      PROVE  Bits'
  <2>1. \A u \in Threads : r \notin Held(u)
    BY <1>4, <1>b DEF Acquires
  <2> QED
    BY <1>1, <1>4, <1>b, <2>1 DEF Acquires
<1>5. ASSUME NEW r \in Rows, Releases(t, r)
      PROVE  Bits'
  <2>1. \A u \in Threads : r \in Held(u) => u = t
    BY <1>5, <1>b DEF Releases
  <2> QED
    BY <1>1, <1>5, <1>b, <2>1 DEF Releases
<1>6. Bits'
  BY <1>2, <1>3, <1>4, <1>5
<1>7. ASSUME NEW u \in Threads, pc'[u] \in {"copy", "reload", "cas", "renewcas"}
      PROVE  ~v'[u].lock
  <2>1. CASE u # t
    BY <2>1, <1>7 DEF Local, BitInv
  <2>2. CASE u = t
    <3>y. pc \in [Threads -> PC] /\ v \in [Threads -> Word]
      BY DEF TypeOK
    <3>1. LoadWord(t) \/ CopyRow(t) \/ TryLock(t) \/ TryRenew(t) \/ RenewCas(t)
      BY <2>2, <1>7, <3>y, ZenonT(30) DEF Step, NewQuery, ReloadWord, StartValidate, PreAbort, PreDone,
         LockRow, LockFails, Unlock, Unlocked, Retry, AllLocked, LeaseSuffices, Renewed,
         Decide, StampRow, WriteWord, ReleaseRow, Cleanup, Goto
    <3>2. CASE LoadWord(t)
      BY <2>2, <3>2, <3>y DEF LoadWord
    <3>3. CASE CopyRow(t)
      BY <2>2, <3>3, <3>y DEF CopyRow, BitInv
    <3>4. CASE TryLock(t)
      BY <2>2, <3>4, <3>y DEF TryLock
    <3>5. CASE TryRenew(t)
      BY <2>2, <3>5, <3>y, <1>7 DEF TryRenew, Renewed, NotRenewed, Goto
    <3>6. CASE RenewCas(t)
      BY <2>2, <3>6, <3>y, <1>7 DEF RenewCas, Renewed, NotRenewed, Goto
    <3> QED
      BY <3>1, <3>2, <3>3, <3>4, <3>5, <3>6
  <2> QED
    BY <2>1, <2>2
<1> QED
  BY <1>6, <1>7 DEF BitInv

-----------------------------------------------------------------------------
(***************************************************************************)
(* The timestamps                                                          *)
(***************************************************************************)
LEMMA Times ==
  ASSUME NEW w \in Word
  PROVE  w.wts \in Nat /\ w.delta \in Nat /\ w.lock \in BOOLEAN /\ rts(w) \in Nat /\ w.wts <= rts(w)
<1>1. RTS_SIZE \in Nat
  BY TicTocAssumption
<1>2. w.wts \in Nat /\ w.delta \in Nat /\ w.lock \in BOOLEAN
  BY <1>1 DEF Word
<1> QED
  BY <1>2 DEF rts

\* What t is writing it holds.
LEMMA WritesHeld ==
  ASSUME TypeOK, NEW t \in Threads, Shape(t), pc[t] \in {"renew", "renewcas"} \cup Writing,
         NEW k \in Todo(t)..Len(write_set[t])
  PROVE  k \in 1..Len(write_set[t]) /\ Acc(t, k).row \in Held(t) /\ Acc(t, k).row \in Rows
<1>1. idx[t] \in Nat /\ Len(write_set[t]) \in Nat /\ num_locks[t] = Len(write_set[t])
  BY Locals DEF Shape, Place
<1>2. k \in First(t)..num_locks[t] /\ k \in 1..Len(write_set[t])
  BY <1>1 DEF Todo, First, Writing
<1> QED
  BY <1>2, AccType DEF Held, Shape

\* The row that write_data of t works on.
LEMMA RowInHand ==
  ASSUME TypeOK, NEW t \in Threads, Shape(t),
         \/ pc[t] \in {"write1", "write2", "release"}
         \/ pc[t] = "stamp" /\ idx[t] < Len(write_set[t])
  PROVE  /\ idx[t] + 1 \in 1..Len(write_set[t])
         /\ Acc(t, idx[t] + 1).row \in Held(t) /\ Acc(t, idx[t] + 1).row \in Rows
         /\ \A k \in 1..Len(write_set[t]) : k # idx[t] + 1 => Acc(t, k).row # Acc(t, idx[t] + 1).row
<1>1. idx[t] \in Nat /\ Len(write_set[t]) \in Nat /\ num_locks[t] = Len(write_set[t])
  BY Locals DEF Shape, Place, Writing
<1>2. idx[t] < num_locks[t]
  BY <1>1 DEF Shape, Place
<1>3. idx[t] + 1 \in First(t)..num_locks[t] /\ idx[t] + 1 \in 1..Len(write_set[t])
  BY <1>1, <1>2 DEF First
<1> QED
  BY <1>3, AccType DEF Held, Shape

\* Words change by renewals, of unlocked rows, and by write_data, of rows that are
\* held, and their wts grows.
LEMMA WordStep ==
  ASSUME TypeOK, NEW t \in Threads, Shape(t), BitInv, WtsInv, Step(t)
  PROVE  \/ \A q \in Rows : word'[q].wts = word[q].wts /\ word'[q].delta = word[q].delta
         \/ /\ RenewCas(t)
            /\ \E r \in Rows : /\ ~word[r].lock /\ word[r].wts <= word'[r].wts
                               /\ \A q \in Rows : q # r => word'[q] = word[q]
         \/ /\ StampRow(t)
            /\ \E r \in Rows : /\ r = Acc(t, idx[t] + 1).row /\ r \in Held(t)
                               /\ rts(word[r]) < commit_wts[t] /\ word'[r].wts = commit_wts[t]
                               /\ \A q \in Rows : q # r => word'[q] = word[q]
<1>w. word \in [Rows -> Word] /\ \A q \in Rows : word[q] \in Word
  BY DEF TypeOK
<1>1. CASE RenewCas(t)
  <2> DEFINE a == RdAcc(t)
  <2>1. /\ pc[t] = "renewcas"
        /\ \/ word' = word
           \/ word[a.row] = v[t] /\ word' = [word EXCEPT ![a.row] = NewWord(t, a)]
    BY <1>1 DEF RenewCas
  <2>2. ReadsLeft(t) # {} /\ a.rts < commit_wts[t]
    BY <2>1 DEF Shape, Place
  <2>3. /\ a \in Access /\ a.row \in Rows /\ a.wts \in Nat /\ a.rts \in Nat /\ a.wts <= a.rts
        /\ commit_wts[t] \in Nat
    BY <2>2, NextReadLeft, Locals DEF Shape
  <2>4. a.wts <= NewWord(t, a).wts
    BY <2>2, <2>3, NewWordType
  <2>5. v[t].wts = a.wts /\ ~v[t].lock
    BY <2>1 DEF WtsInv, BitInv
  <2>6. CASE word' = word
    BY <2>6
  <2>7. CASE word[a.row] = v[t] /\ word' = [word EXCEPT ![a.row] = NewWord(t, a)]
    <3>1. ~word[a.row].lock /\ word[a.row].wts = a.wts
      BY <2>5, <2>7
    <3>2. word'[a.row] = NewWord(t, a) /\ \A q \in Rows : q # a.row => word'[q] = word[q]
      BY <2>3, <2>7, <1>w
    <3> QED
      BY <1>1, <2>3, <2>4, <3>1, <3>2
  <2> QED
    BY <2>1, <2>6, <2>7
<1>2. CASE StampRow(t)
  <2> DEFINE r == Acc(t, idx[t] + 1).row
  <2>1. pc[t] = "stamp" /\ idx[t] < Len(write_set[t])
    BY <1>2 DEF StampRow
  <2>2. r \in Held(t) /\ r \in Rows
    BY <2>1, RowInHand
  <2>3. idx[t] + 1 \in Todo(t)..Len(write_set[t])
    BY <2>1, Locals DEF Todo
  <2>4. rts(word[r]) < commit_wts[t]
    BY <2>1, <2>3 DEF WtsInv, Writing
  <2>5. word'[r].wts = commit_wts[t] /\ \A q \in Rows : q # r => word'[q] = word[q]
    BY <1>2, <2>2, <1>w DEF StampRow
  <2> QED
    BY <1>2, <2>2, <2>4, <2>5
<1>3. CASE LockRow(t) \/ Unlock(t) \/ ReleaseRow(t)
  <2>1. \E r, b : word' = [word EXCEPT ![r].lock = b]
    BY <1>3 DEF LockRow, Unlock, ReleaseRow
  <2>2. PICK r, b : word' = [word EXCEPT ![r].lock = b]
    BY <2>1
  <2>3. \A q \in Rows : word'[q] = word[q] \/ word'[q] = [word[q] EXCEPT !.lock = b]
    BY <2>2, <1>w
  <2> QED
    BY <2>3, <1>w DEF Word
<1>4. CASE ~RenewCas(t) /\ ~StampRow(t) /\ ~LockRow(t) /\ ~Unlock(t) /\ ~ReleaseRow(t)
  <2>1. word' = word
    BY <1>4 DEF Step, NewQuery, LoadWord, CopyRow, ReloadWord, StartValidate, PreAbort, PreDone,
       TryLock, LockFails, Unlocked, Retry, AllLocked, LeaseSuffices, TryRenew,
       Decide, WriteWord, Cleanup, rowVars
  <2> QED
    BY <2>1
<1> QED
  BY <1>1, <1>2, <1>3, <1>4

\* What a step does to accesses: it adds what has been read, it clears them, or it
\* leaves them alone.
LEMMA AccessesStep ==
  ASSUME TypeOK, NEW t \in Threads, Step(t)
  PROVE  \/ accesses'[t] = accesses[t]
         \/ accesses'[t] = <<>> /\ pc'[t] = "idle"
         \/ ReloadWord(t) /\ accesses'[t] # accesses[t]
<1>1. accesses \in [Threads -> Seq(Access)] /\ pc \in [Threads -> PC]
  BY DEF TypeOK
<1> QED
  BY <1>1 DEF Step, NewQuery, LoadWord, CopyRow, StartValidate, PreAbort, PreDone,
     TryLock, LockRow, LockFails, Unlock, Unlocked, Retry, AllLocked, LeaseSuffices, TryRenew,
     RenewCas, Decide, StampRow, WriteWord, ReleaseRow, Cleanup, Goto, accessVars

LEMMA WtsInvStep ==
  ASSUME TypeOK, TypeOK', NEW t \in Threads, \A u \in Threads : Shape(u), BitInv, WtsInv, Step(t), Local(t)
  PROVE  WtsInv'
<1>w. /\ word \in [Rows -> Word] /\ \A q \in Rows : word[q] \in Word /\ word'[q] \in Word
      /\ pc \in [Threads -> PC] /\ v \in [Threads -> Word] /\ idx \in [Threads -> Nat]
      /\ commit_wts \in [Threads -> Nat]
  BY DEF TypeOK
<1>n. \A q \in Rows : word[q].wts \in Nat /\ word'[q].wts \in Nat
  BY <1>w, Times
<1>t. Shape(t) /\ Sets(t) /\ Place(t)
  BY DEF Shape
<1>s. \/ \A q \in Rows : word'[q].wts = word[q].wts /\ word'[q].delta = word[q].delta
      \/ /\ RenewCas(t)
         /\ \E r \in Rows : /\ ~word[r].lock /\ word[r].wts <= word'[r].wts
                            /\ \A q \in Rows : q # r => word'[q] = word[q]
      \/ /\ StampRow(t)
         /\ \E r \in Rows : /\ r = Acc(t, idx[t] + 1).row /\ r \in Held(t)
                            /\ rts(word[r]) < commit_wts[t] /\ word'[r].wts = commit_wts[t]
                            /\ \A q \in Rows : q # r => word'[q] = word[q]
  BY <1>t, WordStep
<1>g. \A q \in Rows : word[q].wts <= word'[q].wts
  <2>1. CASE \A q \in Rows : word'[q].wts = word[q].wts /\ word'[q].delta = word[q].delta
    BY <2>1, <1>n
  <2>2. CASE \E r \in Rows : /\ ~word[r].lock /\ word[r].wts <= word'[r].wts
                             /\ \A q \in Rows : q # r => word'[q] = word[q]
    BY <2>2, <1>n
  <2>3. ASSUME NEW r \in Rows, rts(word[r]) < commit_wts[t], word'[r].wts = commit_wts[t],
               \A q \in Rows : q # r => word'[q] = word[q]
        PROVE  \A q \in Rows : word[q].wts <= word'[q].wts
    <3>1. /\ word[r].wts <= rts(word[r]) /\ word[r].wts \in Nat /\ rts(word[r]) \in Nat
          /\ commit_wts[t] \in Nat
      BY <1>w, Times
    <3>2. word[r].wts <= word'[r].wts
      BY <2>3, <3>1
    <3> QED
      BY <2>3, <3>2, <1>n
  <2> QED
    BY <1>s, <2>1, <2>2, <2>3
\* A row that another transaction holds keeps its timestamps.
<1>h. ASSUME NEW u \in Threads, NEW q \in Rows, q \in Held(u), u # t \/ ~StampRow(t)
      PROVE  word'[q].wts = word[q].wts /\ rts(word'[q]) = rts(word[q])
  <2>1. word[q].lock /\ (u # t => q \notin Held(t))
    BY <1>h DEF BitInv
  <2> QED
    BY <2>1, <1>s, <1>h DEF rts
<1>1. ASSUME NEW u \in Threads, NEW i \in 1..Len(accesses'[u])
      PROVE  accesses'[u][i].wts <= word'[accesses'[u][i].row].wts
  <2>1. ASSUME i \in 1..Len(accesses[u]), accesses'[u][i] = accesses[u][i]
        PROVE  accesses'[u][i].wts <= word'[accesses'[u][i].row].wts
    <3> DEFINE r == accesses[u][i].row
    <3>1. r \in Rows /\ accesses[u][i].wts \in Nat
      BY <2>1, Locals, AccessOf
    <3>2. accesses[u][i].wts <= word[r].wts
      BY <2>1 DEF WtsInv
    <3> QED
      BY <2>1, <3>1, <3>2, <1>g, <1>n
  <2>2. CASE accesses'[u] = accesses[u]
    BY <2>1, <2>2
  <2>3. CASE u = t /\ accesses'[t] = <<>>
    BY <2>3
  <2>4. CASE u = t /\ ReloadWord(t) /\ accesses'[t] # accesses[t]
    <3> DEFINE n == Len(accesses[t])
    <3>1. /\ n \in Nat /\ n < Len(query[t]) /\ Len(accesses'[t]) = n + 1
          /\ \A j \in 1..n : accesses'[t][j] = accesses[t][j]
          /\ accesses'[t][n + 1].row = Req(t).row /\ accesses'[t][n + 1].wts = v[t].wts
          /\ word[Req(t).row].wts = v[t].wts
      BY <2>4, <1>t, ReloadAdds
    <3>2. CASE i \in 1..n
      BY <2>1, <2>4, <3>1, <3>2
    <3>3. CASE i = n + 1
      <4>1. Req(t).row \in Rows
        BY <3>1, ReqType
      <4> QED
        BY <2>4, <3>1, <3>3, <4>1, <1>g, <1>n
    <3> QED
      BY <2>4, <3>1, <3>2, <3>3
  <2> QED
    BY <2>2, <2>3, <2>4, AccessesStep DEF Local
<1>2. ASSUME NEW u \in Threads, pc'[u] \in {"copy", "reload"}
      PROVE  v'[u].wts <= word'[Req(u)'.row].wts
  <2>1. CASE u # t
    <3>1. pc[u] = pc'[u] /\ v'[u] = v[u] /\ query'[u] = query[u] /\ accesses'[u] = accesses[u]
      BY <2>1 DEF Local
    <3>2. Req(u)' = Req(u)
      BY <3>1 DEF Req
    <3>3. Req(u).row \in Rows
      BY <3>1, <1>2, ReqType DEF Shape, Place
    <3>4. v[u].wts <= word[Req(u).row].wts /\ v[u].wts \in Nat
      BY <3>1, <1>2, Locals, Times DEF WtsInv
    <3> QED
      BY <3>1, <3>2, <3>3, <3>4, <1>g, <1>n
  <2>2. CASE u = t
    <3>1. LoadWord(t) \/ CopyRow(t)
      BY <2>2, <1>2, <1>w, ZenonT(30) DEF Step, NewQuery, ReloadWord, StartValidate, PreAbort, PreDone,
         LockRow, LockFails, Unlock, Unlocked, Retry, AllLocked, LeaseSuffices, Renewed, NotRenewed,
         Decide, StampRow, WriteWord, ReleaseRow, Cleanup, Goto, TryLock, TryRenew, RenewCas
    <3>2. Req(t)' = Req(t) /\ word' = word /\ Len(accesses[t]) < Len(query[t])
      BY <3>1, <1>t DEF LoadWord, CopyRow, Req, queryVars, rowVars, Place
    <3>3. Req(t).row \in Rows
      BY <3>2, ReqType
    <3>4. CASE LoadWord(t)
      BY <2>2, <3>2, <3>3, <3>4, <1>w, <1>n DEF LoadWord
    <3>5. CASE CopyRow(t)
      BY <2>2, <3>2, <3>3, <3>5, <1>w DEF CopyRow, WtsInv
    <3> QED
      BY <3>1, <3>4, <3>5
  <2> QED
    BY <2>1, <2>2
<1>3. ASSUME NEW u \in Threads, pc'[u] = "renewcas"
      PROVE  v'[u].wts = RdAcc(u)'.wts
  <2>1. CASE u # t
    <3>1. pc[u] = pc'[u] /\ v'[u] = v[u] /\ idx'[u] = idx[u] /\ accesses'[u] = accesses[u]
      BY <2>1 DEF Local
    <3>2. RdAcc(u)' = RdAcc(u)
      BY <3>1 DEF RdAcc, NextRead, ReadsLeft, OfType
    <3> QED
      BY <3>1, <3>2, <1>3 DEF WtsInv
  <2>2. CASE u = t
    <3> DEFINE a == RdAcc(t)
               w == word[a.row]
    <3>1. TryRenew(t) \/ RenewCas(t)
      BY <2>2, <1>3, <1>w, ZenonT(30) DEF Step, NewQuery, ReloadWord, StartValidate, PreAbort, PreDone,
         LockRow, LockFails, Unlock, Unlocked, Retry, AllLocked, LeaseSuffices, Renewed,
         Decide, StampRow, WriteWord, ReleaseRow, Cleanup, Goto, TryLock, LoadWord, CopyRow
    <3>2. /\ idx' = idx /\ accesses' = accesses /\ v'[t] = w
          /\ \/ w.wts = a.wts
             \/ ~rebase(t, a) /\ NewWord(t, a).wts = w.wts /\ pc[t] = "renewcas"
      BY <2>2, <3>1, <1>3, <1>w DEF TryRenew, RenewCas, Renewed, NotRenewed, Goto
    <3>3. RdAcc(t)' = RdAcc(t)
      BY <3>2 DEF RdAcc, NextRead, ReadsLeft, OfType
    <3>4. ASSUME ~rebase(t, a), pc[t] = "renewcas" PROVE NewWord(t, a).wts = a.wts
      <4>1. ReadsLeft(t) # {} /\ a.rts < commit_wts[t]
        BY <3>4, <1>t DEF Place
      <4>2. /\ a \in Access /\ a.wts \in Nat /\ a.rts \in Nat /\ a.wts <= a.rts
            /\ commit_wts[t] \in Nat
        BY <4>1, <1>t, <1>w, NextReadLeft
      <4> QED
        BY <3>4, <4>1, <4>2, NewWordType
    <3> QED
      BY <2>2, <3>2, <3>3, <3>4
  <2> QED
    BY <2>1, <2>2
<1>4. ASSUME NEW u \in Threads, pc'[u] \in {"renew", "renewcas"} \cup Writing,
             NEW k \in Todo(u)'..Len(write_set'[u])
      PROVE  rts(word'[Acc(u, k)'.row]) < commit_wts'[u]
  <2>1. ASSUME pc[u] \in {"renew", "renewcas"} \cup Writing, k \in Todo(u)..Len(write_set[u]),
               Acc(u, k)' = Acc(u, k), commit_wts'[u] = commit_wts[u], u # t \/ ~StampRow(t)
        PROVE  rts(word'[Acc(u, k)'.row]) < commit_wts'[u]
    <3>1. Acc(u, k).row \in Held(u) /\ Acc(u, k).row \in Rows
      BY <2>1, WritesHeld
    <3>2. rts(word'[Acc(u, k).row]) = rts(word[Acc(u, k).row])
      BY <2>1, <3>1, <1>h
    <3>3. rts(word[Acc(u, k).row]) < commit_wts[u]
      BY <2>1 DEF WtsInv
    <3> QED
      BY <2>1, <3>2, <3>3
  <2>2. CASE u # t
    <3>1. /\ pc[u] = pc'[u] /\ idx[u] = idx'[u] /\ write_set[u] = write_set'[u]
          /\ accesses'[u] = accesses[u] /\ commit_wts'[u] = commit_wts[u]
      BY <2>2 DEF Local
    <3>2. Todo(u)' = Todo(u) /\ Acc(u, k)' = Acc(u, k)
      BY <3>1 DEF Todo, Acc
    <3> QED
      BY <2>1, <2>2, <3>1, <3>2, <1>4
  <2>3. CASE u = t
    <3> USE DEF Goto, rowVars, queryVars, accessVars, validateVars
    <3>y. idx[t] \in Nat /\ Len(write_set[t]) \in Nat
      BY Locals
    <3>1. \/ AllLocked(t) \/ LeaseSuffices(t) \/ TryRenew(t) \/ RenewCas(t) \/ Decide(t)
          \/ StampRow(t) \/ WriteWord(t) \/ ReleaseRow(t)
      BY <2>3, <1>4, <1>w, ZenonT(30) DEF Step, NewQuery, ReloadWord, StartValidate, PreAbort, PreDone,
         LockRow, LockFails, Unlock, Unlocked, Retry, Writing,
         Cleanup, Goto, TryLock, LoadWord, CopyRow
    <3>2. CASE AllLocked(t)
      <4>1. /\ pc'[t] = "renew" /\ commit_wts'[t] = FinalTimestamp(t)
            /\ UNCHANGED <<word, accesses, write_set>>
        BY <3>2, <1>w DEF AllLocked
      <4>2. k \in 1..Len(write_set[t]) /\ Acc(t, k)' = Acc(t, k)
        BY <2>3, <4>1 DEF Todo, Acc
      <4>3. rts(word[Acc(t, k).row]) < FinalTimestamp(t)
        BY <4>2, <1>t, FinalTimestampAfter
      <4> QED
        BY <2>3, <4>1, <4>2, <4>3
    <3>3. CASE LeaseSuffices(t) \/ TryRenew(t) \/ RenewCas(t) \/ Decide(t)
      <4>1. /\ pc[t] \in {"renew", "renewcas"} /\ pc'[t] \in {"renew", "renewcas", "stamp", "abort"}
            /\ UNCHANGED <<accesses, write_set, commit_wts>>
            /\ pc'[t] = "stamp" => idx'[t] = 0
            /\ ~StampRow(t)
        BY <3>3, <1>w DEF LeaseSuffices, TryRenew, RenewCas, Decide, Renewed, NotRenewed, StampRow
      <4>2. pc'[t] # "abort"
        BY <2>3, <1>4 DEF Writing
      <4>3. Todo(t) = 1 /\ Todo(t)' = 1 /\ Acc(t, k)' = Acc(t, k)
        BY <4>1, <4>2 DEF Todo, Acc
      <4> QED
        BY <2>1, <2>3, <4>1, <4>3, <1>4
    <3>4. CASE StampRow(t)
      <4> DEFINE r == Acc(t, idx[t] + 1).row
      <4>1. /\ pc[t] = "stamp" /\ pc'[t] = "write1" /\ idx[t] < Len(write_set[t])
            /\ UNCHANGED <<accesses, write_set, idx, commit_wts>>
            /\ word' = [word EXCEPT ![r] = [wts |-> commit_wts[t], delta |-> 0, lock |-> @.lock]]
        BY <3>4, <1>w DEF StampRow
      <4>2. Todo(t)' = idx[t] + 2 /\ Todo(t) = idx[t] + 1 /\ Acc(t, k)' = Acc(t, k)
        BY <4>1 DEF Todo, Acc
      <4>3. k \in Todo(t)..Len(write_set[t]) /\ k \in 1..Len(write_set[t]) /\ k # idx[t] + 1
        BY <2>3, <4>1, <4>2, <3>y
      <4>4. Acc(t, k).row # r /\ Acc(t, k).row \in Rows
        BY <4>1, <4>3, <1>t, RowInHand, AccType
      <4>5. word'[Acc(t, k).row] = word[Acc(t, k).row]
        BY <4>1, <4>4, <1>w
      <4>6. rts(word[Acc(t, k).row]) < commit_wts[t]
        BY <4>1, <4>3 DEF WtsInv, Writing
      <4> QED
        BY <2>3, <4>1, <4>2, <4>5, <4>6
    <3>5. CASE WriteWord(t) \/ ReleaseRow(t)
      <4>1. /\ UNCHANGED <<accesses, write_set, commit_wts>> /\ ~StampRow(t)
            /\ \/ pc[t] \in {"write1", "write2"} /\ pc'[t] \in {"write2", "release"} /\ idx'[t] = idx[t]
               \/ pc[t] = "release" /\ pc'[t] = "stamp" /\ idx'[t] = idx[t] + 1
        BY <3>5, <1>w DEF WriteWord, ReleaseRow, StampRow
      <4>2. Todo(t)' = Todo(t) /\ Acc(t, k)' = Acc(t, k) /\ pc[t] \in Writing
        BY <4>1, <3>y DEF Todo, Acc, Writing
      <4> QED
        BY <2>1, <2>3, <4>1, <4>2, <1>4
    <3> QED
      BY <3>1, <3>2, <3>3, <3>4, <3>5
  <2> QED
    BY <2>2, <2>3
<1>5. ASSUME NEW u \in Threads, pc'[u] \in {"write1", "write2", "release"}
      PROVE  word'[Acc(u, idx[u] + 1)'.row].wts = commit_wts'[u]
  <2>1. ASSUME pc[u] \in {"write1", "write2", "release"}, Acc(u, idx[u] + 1)' = Acc(u, idx[u] + 1),
               commit_wts'[u] = commit_wts[u], u # t \/ ~StampRow(t)
        PROVE  word'[Acc(u, idx[u] + 1)'.row].wts = commit_wts'[u]
    <3>1. Acc(u, idx[u] + 1).row \in Held(u) /\ Acc(u, idx[u] + 1).row \in Rows
      BY <2>1, RowInHand
    <3>2. word'[Acc(u, idx[u] + 1).row].wts = word[Acc(u, idx[u] + 1).row].wts
      BY <2>1, <3>1, <1>h
    <3>3. word[Acc(u, idx[u] + 1).row].wts = commit_wts[u]
      BY <2>1 DEF WtsInv
    <3> QED
      BY <2>1, <3>2, <3>3
  <2>2. CASE u # t
    <3>1. /\ pc[u] = pc'[u] /\ idx[u] = idx'[u] /\ write_set[u] = write_set'[u]
          /\ accesses'[u] = accesses[u] /\ commit_wts'[u] = commit_wts[u]
      BY <2>2 DEF Local
    <3>2. Acc(u, idx[u] + 1)' = Acc(u, idx[u] + 1)
      BY <3>1 DEF Acc
    <3> QED
      BY <2>1, <2>2, <3>1, <3>2, <1>5
  <2>3. CASE u = t
    <3> USE DEF Goto, rowVars, queryVars, accessVars, validateVars
    <3>1. StampRow(t) \/ WriteWord(t)
      BY <2>3, <1>5, <1>w, ZenonT(30) DEF Step, NewQuery, ReloadWord, StartValidate, PreAbort, PreDone,
         LockRow, LockFails, Unlock, Unlocked, Retry, AllLocked, LeaseSuffices, TryRenew, RenewCas,
         Renewed, NotRenewed, Decide, ReleaseRow, Cleanup, Goto, TryLock, LoadWord, CopyRow
    <3>2. CASE StampRow(t)
      <4> DEFINE r == Acc(t, idx[t] + 1).row
      <4>1. /\ pc[t] = "stamp" /\ idx[t] < Len(write_set[t])
            /\ UNCHANGED <<accesses, write_set, idx, commit_wts>>
            /\ word' = [word EXCEPT ![r] = [wts |-> commit_wts[t], delta |-> 0, lock |-> @.lock]]
        BY <3>2, <1>w DEF StampRow
      <4>2. r \in Rows
        BY <4>1, <1>t, RowInHand
      <4>3. word'[r].wts = commit_wts[t]
        BY <4>1, <4>2, <1>w
      <4>4. Acc(t, idx[t] + 1)' = Acc(t, idx[t] + 1)
        BY <4>1 DEF Acc
      <4> QED
        BY <2>3, <4>1, <4>3, <4>4
    <3>3. CASE WriteWord(t)
      <4>1. /\ pc[t] \in {"write1", "write2"} /\ UNCHANGED <<accesses, write_set, idx, commit_wts>>
            /\ ~StampRow(t)
        BY <3>3 DEF WriteWord, StampRow
      <4>2. Acc(t, idx[t] + 1)' = Acc(t, idx[t] + 1)
        BY <4>1 DEF Acc
      <4> QED
        BY <2>1, <2>3, <4>1, <4>2
    <3> QED
      BY <3>1, <3>2, <3>3
  <2> QED
    BY <2>2, <2>3
<1> QED
  BY <1>1, <1>2, <1>3, <1>4, <1>5 DEF WtsInv

-----------------------------------------------------------------------------
(***************************************************************************)
(* The copies                                                              *)
(***************************************************************************)

\* A row that is not locked is not being overwritten.
LEMMA UnlockedIsClean ==
  ASSUME TypeOK, \A t \in Threads : Shape(t), BitInv, NEW r \in Rows, ~word[r].lock
  PROVE  ~Dirty(r)
<1> SUFFICES ASSUME NEW t \in Threads, Overwrites(t, r) PROVE FALSE
  BY DEF Dirty
<1>1. pc[t] \in {"write1", "write2"} /\ Acc(t, idx[t] + 1).row = r /\ Shape(t)
  BY DEF Overwrites
<1>2. r \in Held(t)
  BY <1>1, RowInHand
<1> QED
  BY <1>2 DEF BitInv

\* Which rows are being overwritten by others does not change.
LEMMA OverwritesElsewhere ==
  ASSUME NEW t \in Threads, NEW u \in Threads, u # t, Local(t), NEW r
  PROVE  Overwrites(u, r)' <=> Overwrites(u, r)
<1>1. /\ pc'[u] = pc[u] /\ idx'[u] = idx[u]
      /\ accesses'[u] = accesses[u] /\ write_set'[u] = write_set[u]
  BY DEF Local
<1>2. Acc(u, idx[u] + 1)' = Acc(u, idx[u] + 1)
  BY <1>1 DEF Acc
<1> QED
  BY <1>1, <1>2 DEF Overwrites

\* The steps other than StampRow and WriteWord touch no row and begin or end no write.
LEMMA QuietRows ==
  ASSUME TypeOK, NEW t \in Threads, Step(t), Local(t), ~StampRow(t), ~WriteWord(t)
  PROVE  /\ UNCHANGED data /\ pc[t] \notin {"write1", "write2"} /\ pc'[t] \notin {"write1", "write2"}
         /\ \A r : Dirty(r)' <=> Dirty(r)
<1>1. pc \in [Threads -> PC]
  BY DEF TypeOK
<1>2. UNCHANGED data
  BY DEF Step, NewQuery, LoadWord, CopyRow, ReloadWord, StartValidate, PreAbort, PreDone,
     TryLock, LockRow, LockFails, Unlock, Unlocked, Retry, AllLocked, LeaseSuffices, TryRenew,
     RenewCas, Decide, ReleaseRow, Cleanup, rowVars
<1>3. pc[t] \notin {"write1", "write2"}
  BY DEF Step, NewQuery, LoadWord, CopyRow, ReloadWord, StartValidate, PreAbort, PreDone,
     TryLock, LockRow, LockFails, Unlock, Unlocked, Retry, AllLocked, LeaseSuffices, TryRenew,
     RenewCas, Decide, ReleaseRow, Cleanup
<1>4. pc'[t] \notin {"write1", "write2"}
  BY <1>1, <1>3, ZenonT(30) DEF Step, NewQuery, LoadWord, CopyRow, ReloadWord, StartValidate, PreAbort, PreDone,
     TryLock, LockRow, LockFails, Unlock, Unlocked, Retry, AllLocked, LeaseSuffices, TryRenew,
     RenewCas, Decide, ReleaseRow, Cleanup, Goto, Renewed, NotRenewed
<1>5. ASSUME NEW r PROVE Dirty(r)' <=> Dirty(r)
  <2>1. ~Overwrites(t, r) /\ ~Overwrites(t, r)'
    BY <1>3, <1>4 DEF Overwrites
  <2>2. \A u \in Threads : u # t => (Overwrites(u, r)' <=> Overwrites(u, r))
    BY OverwritesElsewhere
  <2> QED
    BY <2>1, <2>2 DEF Dirty
<1> QED
  BY <1>2, <1>3, <1>4, <1>5

\* StampRow and WriteWord: the row they work on, and the rows they leave alone.
LEMMA BusyRows ==
  ASSUME TypeOK, NEW t \in Threads, Shape(t), StampRow(t) \/ WriteWord(t), Local(t)
  PROVE  LET q == Acc(t, idx[t] + 1).row IN
         /\ q \in Rows /\ q \in Held(t)
         /\ Acc(t, idx[t] + 1)' = Acc(t, idx[t] + 1)
         /\ UNCHANGED <<txn, accesses>>
         /\ \A r \in Rows : r # q => data'[r] = data[r] /\ (Dirty(r)' <=> Dirty(r))
<1> DEFINE q == Acc(t, idx[t] + 1).row
<1>1. /\ pc[t] \in {"write1", "write2"} \/ (pc[t] = "stamp" /\ idx[t] < Len(write_set[t]))
      /\ UNCHANGED <<txn, accesses, write_set, idx>>
  BY DEF StampRow, WriteWord, accessVars, validateVars, queryVars
<1>2. q \in Rows /\ q \in Held(t)
  BY <1>1, RowInHand
<1>3. Acc(t, idx[t] + 1)' = Acc(t, idx[t] + 1)
  BY <1>1 DEF Acc
<1>4. \A r \in Rows : r # q => data'[r] = data[r]
  BY DEF StampRow, WriteWord, TypeOK
<1>5. ASSUME NEW r \in Rows, r # q PROVE Dirty(r)' <=> Dirty(r)
  <2>1. ~Overwrites(t, r) /\ ~Overwrites(t, r)'
    BY <1>3, <1>5 DEF Overwrites
  <2>2. \A u \in Threads : u # t => (Overwrites(u, r)' <=> Overwrites(u, r))
    BY OverwritesElsewhere
  <2> QED
    BY <2>1, <2>2 DEF Dirty
<1> QED
  BY <1>1, <1>2, <1>3, <1>4, <1>5

\* A row that still has after a step a wts x it was clean under has not been touched.
LEMMA RowStep ==
  ASSUME TypeOK, TypeOK', NEW t \in Threads, Shape(t), BitInv, WtsInv, Step(t), Local(t),
         NEW r \in Rows, NEW x \in Nat, x <= word[r].wts, word'[r].wts = x,
         word[r].wts = x => ~Dirty(r)
  PROVE  word[r].wts = x /\ ~Dirty(r)' /\ data'[r] = data[r]
<1>w. word[r] \in Word /\ word[r].wts \in Nat /\ rts(word[r]) \in Nat /\ word[r].wts <= rts(word[r])
  BY Times DEF TypeOK
<1>1. CASE ~StampRow(t) /\ ~WriteWord(t)
  <2>1. word[r].wts <= word'[r].wts
    <3>1. \/ \A q \in Rows : word'[q].wts = word[q].wts /\ word'[q].delta = word[q].delta
          \/ \E z \in Rows : /\ ~word[z].lock /\ word[z].wts <= word'[z].wts
                             /\ \A q \in Rows : q # z => word'[q] = word[q]
      BY <1>1, WordStep
    <3> QED
      BY <3>1, <1>w
  <2>2. word[r].wts = x
    BY <2>1, <1>w
  <2> QED
    BY <2>2, <1>1, QuietRows
<1> DEFINE q == Acc(t, idx[t] + 1).row
<1>2. CASE WriteWord(t)
  <2>1. word' = word
    BY <1>2 DEF WriteWord
  <2>2. Overwrites(t, q)
    BY <1>2 DEF WriteWord, Overwrites
  <2>3. r # q
    BY <2>1, <2>2 DEF Dirty
  <2> QED
    BY <1>2, <2>1, <2>3, BusyRows
<1>3. CASE StampRow(t)
  <2>1. CASE r # q
    <3>1. word'[r] = word[r]
      BY <1>3, <2>1 DEF StampRow, TypeOK
    <3> QED
      BY <1>3, <2>1, <3>1, BusyRows
  <2>2. CASE r = q
    <3>1. pc[t] = "stamp" /\ idx[t] < Len(write_set[t]) /\ word'[r].wts = commit_wts[t]
      BY <1>3, <2>2 DEF StampRow, TypeOK
    <3>2. idx[t] + 1 \in Todo(t)..Len(write_set[t]) /\ commit_wts[t] \in Nat
      BY <3>1, Locals DEF Todo
    <3>3. rts(word[r]) < commit_wts[t]
      BY <2>2, <3>1, <3>2 DEF WtsInv, Writing
    <3> QED
      BY <3>1, <3>2, <3>3, <1>w
  <2> QED
    BY <2>1, <2>2
<1> QED
  BY <1>1, <1>2, <1>3

LEMMA DataInvStep ==
  ASSUME TypeOK, TypeOK', NEW t \in Threads, \A u \in Threads : Shape(u),
         BitInv, WtsInv, DataInv, Step(t), Local(t)
  PROVE  DataInv'
<1>w. /\ word \in [Rows -> Word] /\ pc \in [Threads -> PC] /\ v \in [Threads -> Word]
      /\ data \in [Rows -> Words] /\ copy \in [Threads -> Words] /\ txn \in [Threads -> Txn]
  BY DEF TypeOK
<1>t. Shape(t)
  OBVIOUS
\* What Read and Copied say of a row survives the step.
<1>s. ASSUME NEW r \in Rows, NEW x \in Nat, x <= word[r].wts, word[r].wts = x => ~Dirty(r), word'[r].wts = x
      PROVE  word[r].wts = x /\ ~Dirty(r)' /\ data'[r] = data[r]
  BY <1>s, <1>t, RowStep
<1>1. ASSUME NEW u \in Threads PROVE Read(u)'
  <2> DEFINE Good(i) ==
        /\ \A r \in Rows : accesses[u][i].row = r /\ word[r].wts = accesses[u][i].wts
                             => ~Dirty(r) /\ data[r] = accesses[u][i].data
        /\ accesses[u][i].data[1] = accesses[u][i].data[2]
  <2>1. ASSUME NEW i \in 1..Len(accesses[u]), accesses'[u][i] = accesses[u][i]
        PROVE  Good(i)'
    <3> DEFINE a == accesses[u][i]
    <3>1. a.row \in Rows /\ a.wts \in Nat /\ a.wts <= word[a.row].wts /\ Good(i)
      <4>1. a.row \in Rows /\ a.wts \in Nat
        BY <2>1, Locals, AccessOf
      <4>2. a.wts <= word[a.row].wts
        BY <2>1 DEF WtsInv
      <4>3. Good(i)
        BY <2>1 DEF DataInv, Read
      <4> QED
        BY <4>1, <4>2, <4>3
    <3>2. ASSUME NEW r \in Rows, a.row = r, word'[r].wts = a.wts
          PROVE  ~Dirty(r)' /\ data'[r] = a.data
      <4>1. word[r].wts = a.wts /\ ~Dirty(r)' /\ data'[r] = data[r]
        BY <3>1, <3>2, <1>s
      <4> QED
        BY <3>1, <3>2, <4>1
    <3> QED
      BY <2>1, <3>1, <3>2
  <2>2. CASE accesses'[u] = accesses[u]
    <3>1. \A i \in 1..Len(accesses'[u]) : Good(i)'
      BY <2>1, <2>2
    <3> QED
      BY <3>1 DEF Read
  <2>3. CASE u = t /\ accesses'[t] = <<>>
    BY <2>3 DEF Read
  <2>4. CASE u = t /\ ReloadWord(t) /\ accesses'[t] # accesses[t]
    <3> DEFINE n == Len(accesses[t])
    <3>1. /\ n \in Nat /\ n < Len(query[t]) /\ Len(accesses'[t]) = n + 1
          /\ \A j \in 1..n : accesses'[t][j] = accesses[t][j]
          /\ accesses'[t][n + 1].row = Req(t).row /\ accesses'[t][n + 1].wts = v[t].wts
          /\ accesses'[t][n + 1].data = copy[t]
          /\ word[Req(t).row].wts = v[t].wts
      BY <2>4, <1>t, ReloadAdds
    <3>2. Req(t).row \in Rows
      BY <3>1, ReqType
    <3>3. pc[t] = "reload" /\ word' = word /\ data' = data /\ ~StampRow(t) /\ ~WriteWord(t)
      BY <2>4 DEF ReloadWord, StampRow, WriteWord, rowVars
    <3>4. ~Dirty(Req(t).row) /\ data[Req(t).row] = copy[t] /\ copy[t][1] = copy[t][2]
      BY <3>1, <3>2, <3>3 DEF DataInv, Copied
    <3>5. \A r : Dirty(r)' <=> Dirty(r)
      BY <3>3, QuietRows
    <3>6. ASSUME NEW i \in 1..Len(accesses'[u]) PROVE Good(i)'
      <4>1. CASE i \in 1..n
        BY <2>1, <2>4, <3>1, <4>1
      <4>2. CASE i = n + 1
        <5> DEFINE a == accesses'[u][i]
        <5>1. a.row = Req(t).row /\ a.data = copy[t]
          BY <2>4, <3>1, <4>2
        <5>2. ASSUME NEW r \in Rows, a.row = r
              PROVE  ~Dirty(r)' /\ data'[r] = a.data
          BY <3>3, <3>4, <3>5, <5>1, <5>2
        <5>3. a.data[1] = a.data[2]
          BY <3>4, <5>1
        <5> QED
          BY <5>2, <5>3
      <4>3. i \in 1..n \/ i = n + 1
        BY <2>4, <3>1
      <4> QED
        BY <4>1, <4>2, <4>3
    <3> QED
      BY <3>6 DEF Read
  <2> QED
    BY <2>2, <2>3, <2>4, AccessesStep DEF Local
<1>2. ASSUME NEW u \in Threads PROVE Copied(u)'
  <2> SUFFICES ASSUME NEW r \in Rows, pc'[u] \in {"copy", "reload"}, Req(u)'.row = r, word'[r].wts = v'[u].wts
               PROVE  ~Dirty(r)' /\ (pc'[u] = "reload" => data'[r] = copy'[u])
    BY DEF Copied
  <2>1. CASE u # t
    <3>1. /\ pc[u] = pc'[u] /\ v'[u] = v[u] /\ query'[u] = query[u] /\ accesses'[u] = accesses[u]
          /\ copy'[u] = copy[u]
      BY <2>1 DEF Local
    <3>2. Req(u)' = Req(u)
      BY <3>1 DEF Req
    <3>3. v[u].wts \in Nat /\ v[u].wts <= word[r].wts
      BY <3>1, <3>2, <1>w, Times DEF WtsInv
    <3>4. word[r].wts = v[u].wts => ~Dirty(r) /\ (pc[u] = "reload" => data[r] = copy[u])
      BY <3>1, <3>2 DEF DataInv, Copied
    <3>5. word[r].wts = v[u].wts /\ ~Dirty(r)' /\ data'[r] = data[r]
      BY <3>1, <3>3, <3>4, <1>s
    <3> QED
      BY <3>1, <3>4, <3>5
  <2>2. CASE u = t
    <3>1. LoadWord(t) \/ CopyRow(t)
      BY <2>2, <1>w, ZenonT(30) DEF Step, NewQuery, ReloadWord, StartValidate, PreAbort, PreDone,
         LockRow, LockFails, Unlock, Unlocked, Retry, AllLocked, LeaseSuffices, Renewed, NotRenewed,
         Decide, StampRow, WriteWord, ReleaseRow, Cleanup, Goto, TryLock, TryRenew, RenewCas
    <3>2. /\ Req(t)' = Req(t) /\ word' = word /\ data' = data /\ ~StampRow(t) /\ ~WriteWord(t)
      BY <3>1 DEF LoadWord, CopyRow, Req, queryVars, rowVars, StampRow, WriteWord
    <3>3. \A q : Dirty(q)' <=> Dirty(q)
      BY <3>2, QuietRows
    <3>4. CASE LoadWord(t)
      <4>1. ~word[r].lock /\ pc'[t] = "copy"
        BY <2>2, <3>2, <3>4, <1>w DEF LoadWord, Goto
      <4>2. ~Dirty(r)
        BY <4>1, UnlockedIsClean
      <4> QED
        BY <2>2, <3>3, <4>1, <4>2
    <3>5. CASE CopyRow(t)
      <4>1. pc[t] = "copy" /\ v' = v /\ copy'[t] = data[r]
        BY <2>2, <3>2, <3>5, <1>w DEF CopyRow
      <4>2. ~Dirty(r)
        BY <2>2, <3>2, <4>1 DEF DataInv, Copied
      <4> QED
        BY <2>2, <3>2, <3>3, <4>1, <4>2
    <3> QED
      BY <3>1, <3>4, <3>5
  <2> QED
    BY <2>1, <2>2
<1>3. ASSUME NEW u \in Threads PROVE Written(u)'
  <2> DEFINE r == Acc(u, idx[u] + 1).row
  <2>1. CASE u # t
    <3>1. /\ pc[u] = pc'[u] /\ idx[u] = idx'[u] /\ write_set[u] = write_set'[u]
          /\ accesses'[u] = accesses[u] /\ txn'[u] = txn[u]
      BY <2>1 DEF Local
    <3>2. Acc(u, idx[u] + 1)' = Acc(u, idx[u] + 1)
      BY <3>1 DEF Acc
    <3>3. ASSUME pc[u] \in {"write2", "release"} PROVE data'[r] = data[r]
      <4>1. r \in Held(u) /\ r \in Rows
        BY <3>3, RowInHand
      <4>2. r \notin Held(t)
        BY <2>1, <4>1 DEF BitInv
      <4>3. CASE StampRow(t) \/ WriteWord(t)
        BY <4>1, <4>2, <4>3, BusyRows
      <4>4. CASE ~StampRow(t) /\ ~WriteWord(t)
        BY <4>4, QuietRows
      <4> QED
        BY <4>3, <4>4
    <3>4. Written(u)
      BY DEF DataInv
    <3> QED
      BY <3>1, <3>2, <3>3, <3>4 DEF Written
  <2>2. CASE u = t /\ WriteWord(t)
    <3> DEFINE q == Acc(t, idx[t] + 1).row
    <3>1. q \in Rows /\ Acc(t, idx[t] + 1)' = Acc(t, idx[t] + 1) /\ txn' = txn
      BY <2>2, <1>t, BusyRows
    <3>2. data[q] \in Words /\ txn[t] \in Txn
      BY <3>1, <1>w
    <3>3. CASE pc[t] = "write1"
      <4>1. data' = [data EXCEPT ![q][1] = txn[t]] /\ pc'[t] = "write2"
        BY <2>2, <3>3, <1>w DEF WriteWord, Goto
      <4>2. data'[q][1] = txn[t]
        BY <3>1, <3>2, <4>1, <1>w DEF Words
      <4> QED
        BY <2>2, <3>1, <4>1, <4>2 DEF Written
    <3>4. CASE pc[t] = "write2"
      <4>1. data' = [data EXCEPT ![q][2] = txn[t]] /\ pc'[t] = "release"
        BY <2>2, <3>4, <1>w DEF WriteWord, Goto
      <4>2. data[q][1] = txn[t]
        BY <3>4 DEF DataInv, Written
      <4>3. data'[q][1] = txn[t] /\ data'[q][2] = txn[t]
        BY <3>1, <3>2, <4>1, <4>2, <1>w DEF Words
      <4> QED
        BY <2>2, <3>1, <4>1, <4>3 DEF Written
    <3> QED
      BY <2>2, <3>3, <3>4 DEF WriteWord
  <2>3. CASE u = t /\ ~WriteWord(t)
    <3>1. pc'[t] \notin {"write2", "release"}
      <4>1. CASE StampRow(t)
        BY <4>1, <1>w DEF StampRow, Goto
      <4>2. CASE ~StampRow(t)
        BY <2>3, <4>2, <1>w, ZenonT(30) DEF Step, NewQuery, LoadWord, CopyRow, ReloadWord, StartValidate,
           PreAbort, PreDone, TryLock, LockRow, LockFails, Unlock, Unlocked, Retry, AllLocked,
           LeaseSuffices, TryRenew, RenewCas, Decide, ReleaseRow, Cleanup, Goto, Renewed, NotRenewed
      <4> QED
        BY <4>1, <4>2
    <3> QED
      BY <2>3, <3>1 DEF Written
  <2> QED
    BY <2>1, <2>2, <2>3
<1>4. ASSUME NEW r \in Rows, ~Dirty(r)' PROVE data'[r][1] = data'[r][2]
  <2> DEFINE q == Acc(t, idx[t] + 1).row
  <2>1. CASE ~StampRow(t) /\ ~WriteWord(t)
    BY <1>4, <2>1, QuietRows DEF DataInv
  <2>2. CASE (StampRow(t) \/ WriteWord(t)) /\ r # q
    BY <1>4, <1>t, <2>2, BusyRows DEF DataInv
  <2>3. CASE StampRow(t) /\ r = q
    <3>1. pc'[t] = "write1"
      BY <2>3, <1>w DEF StampRow, Goto
    <3>2. Overwrites(t, r)'
      BY <1>t, <2>3, <3>1, BusyRows DEF Overwrites
    <3> QED
      BY <1>4, <3>2 DEF Dirty
  <2>4. CASE WriteWord(t) /\ r = q
    <3>1. CASE pc'[t] \in {"write1", "write2"}
      <4>1. Overwrites(t, r)'
        BY <1>t, <2>4, <3>1, BusyRows DEF Overwrites
      <4> QED
        BY <1>4, <4>1 DEF Dirty
    <3>2. CASE pc'[t] \notin {"write1", "write2"}
      <4>1. pc'[t] = "release" /\ Acc(t, idx[t] + 1)' = Acc(t, idx[t] + 1)
        BY <1>t, <2>4, <3>2, <1>w, BusyRows DEF WriteWord, Goto
      <4>2. Written(t)'
        BY <1>3
      <4> QED
        BY <2>4, <4>1, <4>2 DEF Written
    <3> QED
      BY <3>1, <3>2
  <2> QED
    BY <2>1, <2>2, <2>3, <2>4
<1> QED
  BY <1>1, <1>2, <1>3, <1>4 DEF DataInv

-----------------------------------------------------------------------------
(***************************************************************************)
(* The versions                                                            *)
(***************************************************************************)

\* What t has not finished writing it holds.
LEMMA PendingHeld ==
  ASSUME TypeOK, NEW t \in Threads, Shape(t), NEW r, Pending(t, r)
  PROVE  r \in Held(t)
<1>1. /\ idx[t] \in Nat /\ Len(write_set[t]) \in Nat /\ num_locks[t] = Len(write_set[t])
      /\ pc[t] \in Writing
  BY Locals DEF Shape, Place, Pending
<1>2. PICK k \in (idx[t] + 1)..Len(write_set[t]) : Acc(t, k).row = r
  BY <1>1 DEF Pending
<1>3. First(t) = idx[t] + 1
  BY <1>1 DEF First, Writing
<1> QED
  BY <1>1, <1>2, <1>3 DEF Held

LEMMA PendingElsewhere ==
  ASSUME NEW t \in Threads, NEW u \in Threads, u # t, Local(t), NEW r
  PROVE  Pending(u, r)' <=> Pending(u, r)
<1>1. pc'[u] = pc[u] /\ idx'[u] = idx[u] /\ write_set'[u] = write_set[u]
  BY DEF Local
<1>2. \A k : Acc(u, k)' = Acc(u, k)
  BY HeldElsewhere
<1> QED
  BY <1>1, <1>2 DEF Pending

\* A step other than Decide leaves the rows that are pending as they are, up to the
\* one WriteWord completes.
LEMMA PendingStep ==
  ASSUME TypeOK, NEW t \in Threads, Shape(t), Step(t), ~Decide(t), NEW r
  PROVE  /\ hist' = hist
         /\ Pending(t, r)' => Pending(t, r) /\ txn'[t] = txn[t] /\ commit_wts'[t] = commit_wts[t]
         /\ Pending(t, r) /\ ~Pending(t, r)' =>
              WriteWord(t) /\ pc[t] = "write2" /\ Acc(t, idx[t] + 1).row = r
<1>w. /\ pc \in [Threads -> PC] /\ idx \in [Threads -> Nat] /\ idx[t] \in Nat
      /\ Len(write_set[t]) \in Nat
  BY Locals DEF TypeOK
<1>1. hist' = hist
  BY DEF Step, NewQuery, LoadWord, CopyRow, ReloadWord, StartValidate, PreAbort, PreDone,
     TryLock, LockRow, LockFails, Unlock, Unlocked, Retry, AllLocked, LeaseSuffices, TryRenew,
     RenewCas, StampRow, WriteWord, ReleaseRow, Cleanup
<1>2. CASE StampRow(t) \/ WriteWord(t) \/ ReleaseRow(t)
  <2>1. UNCHANGED <<accesses, write_set, txn, commit_wts>>
    BY <1>2 DEF StampRow, WriteWord, ReleaseRow, accessVars, validateVars, queryVars
  <2>2. \A k : Acc(t, k)' = Acc(t, k)
    BY <2>1 DEF Acc
  <2>3. CASE StampRow(t)
    <3>1. pc[t] = "stamp" /\ pc'[t] = "write1" /\ idx'[t] = idx[t]
      BY <2>3, <1>w DEF StampRow, Goto, validateVars
    <3>2. Pending(t, r)' <=> Pending(t, r)
      BY <2>1, <2>2, <3>1 DEF Pending, Writing
    <3> QED
      BY <1>1, <2>1, <3>2
  <2>4. CASE ReleaseRow(t)
    <3>1. pc[t] = "release" /\ pc'[t] = "stamp" /\ idx'[t] = idx[t] + 1
      BY <2>4, <1>w DEF ReleaseRow, Goto
    <3>2. idx[t] + 2 = (idx[t] + 1) + 1
      BY <1>w
    <3>3. Pending(t, r)' <=> Pending(t, r)
      BY <2>1, <2>2, <3>1, <3>2 DEF Pending, Writing
    <3> QED
      BY <1>1, <2>1, <3>3
  <2>5. CASE WriteWord(t) /\ pc[t] = "write1"
    <3>1. pc'[t] = "write2" /\ idx'[t] = idx[t]
      BY <2>5, <1>w DEF WriteWord, Goto, validateVars
    <3>2. Pending(t, r)' <=> Pending(t, r)
      BY <2>1, <2>2, <2>5, <3>1 DEF Pending, Writing
    <3> QED
      BY <1>1, <2>1, <3>2
  <2>6. CASE WriteWord(t) /\ pc[t] = "write2"
    <3>1. pc'[t] = "release" /\ idx'[t] = idx[t]
      BY <2>6, <1>w DEF WriteWord, Goto, validateVars
    <3>2. Pending(t, r)' <=> \E k \in (idx[t] + 2)..Len(write_set[t]) : Acc(t, k).row = r
      BY <2>1, <2>2, <3>1 DEF Pending, Writing
    <3>3. Pending(t, r) <=> \E k \in (idx[t] + 1)..Len(write_set[t]) : Acc(t, k).row = r
      BY <2>6 DEF Pending, Writing
    <3>4. \A k \in (idx[t] + 1)..Len(write_set[t]) :
            k \in (idx[t] + 2)..Len(write_set[t]) \/ k = idx[t] + 1
      BY <1>w
    <3>5. \A k \in (idx[t] + 2)..Len(write_set[t]) : k \in (idx[t] + 1)..Len(write_set[t])
      BY <1>w
    <3> QED
      BY <1>1, <2>1, <2>6, <3>2, <3>3, <3>4, <3>5
  <2> QED
    BY <1>2, <2>3, <2>4, <2>5, <2>6 DEF WriteWord
<1>3. CASE ~StampRow(t) /\ ~WriteWord(t) /\ ~ReleaseRow(t)
  <2>1. ~Pending(t, r)'
    <3>1. pc'[t] \notin Writing
      BY <1>3, <1>w, ZenonT(30) DEF Step, NewQuery, LoadWord, CopyRow, ReloadWord, StartValidate,
         PreAbort, PreDone, TryLock, LockRow, LockFails, Unlock, Unlocked, Retry, AllLocked,
         LeaseSuffices, TryRenew, RenewCas, Cleanup, Goto, Renewed, NotRenewed, Writing
    <3> QED
      BY <3>1 DEF Pending
  <2>2. ~Pending(t, r)
    <3>1. pc[t] \notin Writing \/ (pc[t] = "stamp" /\ idx[t] = Len(write_set[t]))
      BY <1>3 DEF Step, NewQuery, LoadWord, CopyRow, ReloadWord, StartValidate,
         PreAbort, PreDone, TryLock, LockRow, LockFails, Unlock, Unlocked, Retry, AllLocked,
         LeaseSuffices, TryRenew, RenewCas, Cleanup, Writing
    <3>2. (idx[t] + 1)..idx[t] = {}
      BY <1>w
    <3> QED
      BY <3>1, <3>2 DEF Pending
  <2> QED
    BY <1>1, <2>1, <2>2
<1> QED
  BY <1>2, <1>3

\* The wts of a row never decreases.
LEMMA WtsGrows ==
  ASSUME TypeOK, NEW t \in Threads, Shape(t), BitInv, WtsInv, Step(t), NEW r \in Rows
  PROVE  word[r].wts <= word'[r].wts
<1>1. word[r] \in Word /\ commit_wts[t] \in Nat
  BY DEF TypeOK
<1>2. word[r].wts \in Nat /\ rts(word[r]) \in Nat /\ word[r].wts <= rts(word[r])
  BY <1>1, Times
<1>3. \/ word'[r].wts = word[r].wts \/ word[r].wts <= word'[r].wts \/ word'[r] = word[r]
      \/ rts(word[r]) < commit_wts[t] /\ word'[r].wts = commit_wts[t]
  BY WordStep
<1> QED
  BY <1>1, <1>2, <1>3

\* What Decide records and what is pending afterwards are the rows of the write set.
LEMMA DecideWrites ==
  ASSUME TypeOK, NEW t \in Threads, Shape(t), Decide(t)
  PROVE  \A r \in Rows :
           /\ (r \in {accesses[t][i].row : i \in OfType(t, "WR")}) <=> Pending(t, r)'
           /\ Pending(t, r)' => \E k \in 1..Len(write_set[t]) : Acc(t, k).row = r
<1> DEFINE W == {accesses[t][i].row : i \in OfType(t, "WR")}
<1>w. pc \in [Threads -> PC] /\ idx \in [Threads -> Nat]
  BY DEF TypeOK
<1>1. /\ pc[t] = "renew" /\ pc'[t] = "stamp" /\ idx'[t] = 0
      /\ UNCHANGED <<accesses, write_set>>
  BY <1>w DEF Decide, Goto, accessVars
<1>2. \A k : Acc(t, k)' = Acc(t, k)
  BY <1>1 DEF Acc
<1>3. ASSUME NEW r PROVE Pending(t, r)' <=> \E k \in 1..Len(write_set[t]) : Acc(t, k).row = r
  BY <1>1, <1>2 DEF Pending, Writing
<1>4. ASSUME NEW r, r \in W PROVE \E k \in 1..Len(write_set[t]) : Acc(t, k).row = r
  <2>1. PICK i \in 1..Len(accesses[t]) : accesses[t][i].type = "WR" /\ accesses[t][i].row = r
    BY <1>4, Locals DEF OfType
  <2>2. PICK k \in 1..Len(write_set[t]) : write_set[t][k] = i
    BY <2>1, <1>1 DEF Shape, Place, Executing
  <2> QED
    BY <2>1, <2>2 DEF Acc
<1>5. ASSUME NEW k \in 1..Len(write_set[t]) PROVE Acc(t, k).row \in W
  BY AccType, Locals DEF Shape, OfType, Acc
<1> QED
  BY <1>3, <1>4, <1>5

\* With the history unchanged, so is the newest version.
LEMMA NewestStays ==
  ASSUME hist' = hist, NEW r, NEW x, NEW s
  PROVE  Newest(r, x, s)' <=> Newest(r, x, s)
BY DEF Newest

\* A new entry that writes r, later than the newest, is the newest, and one that
\* does not write r makes no difference.
LEMMA NewestAppend ==
  ASSUME hist \in Seq(Entry), NEW e \in Entry, hist' = Append(hist, e), NEW r
  PROVE  /\ \A x, s : r \notin e.writes /\ Newest(r, x, s) => Newest(r, x, s)'
         /\ \A x \in Nat, y \in Txn, s, ts \in Nat :
              r \in e.writes /\ e.txn = y /\ e.ts = ts /\ Newest(r, x, s) /\ s < ts => Newest(r, y, ts)'
<1> DEFINE n == Len(hist)
<1>1. /\ n \in Nat /\ Len(hist') = n + 1 /\ hist'[n + 1] = e
      /\ \A i \in 1..n : hist'[i] = hist[i]
  OBVIOUS
<1>2. \A i \in 1..(n + 1) : i \in 1..n \/ i = n + 1
  BY <1>1
<1>3. \A i \in 1..n : i \in 1..(n + 1) /\ i # n + 1
  BY <1>1
<1>4. ASSUME NEW x, NEW s, r \notin e.writes, Newest(r, x, s)
      PROVE  Newest(r, x, s)'
  <2>1. CASE x = 0 /\ s = 0 /\ \A j \in 1..n : r \notin hist[j].writes
    <3>1. ASSUME NEW j \in 1..Len(hist') PROVE r \notin hist'[j].writes
      BY <1>1, <1>2, <1>4, <2>1
    <3> QED
      BY <2>1, <3>1 DEF Newest
  <2>2. ASSUME NEW i \in 1..n, r \in hist[i].writes /\ hist[i].txn = x /\ hist[i].ts = s,
               \A j \in 1..n : j # i /\ r \in hist[j].writes => hist[j].ts < s
        PROVE  Newest(r, x, s)'
    <3>1. i \in 1..Len(hist') /\ hist'[i] = hist[i]
      BY <1>1, <1>3
    <3>2. ASSUME NEW j \in 1..Len(hist'), j # i, r \in hist'[j].writes PROVE hist'[j].ts < s
      BY <1>1, <1>2, <1>4, <2>2, <3>2
    <3> QED
      BY <2>2, <3>1, <3>2 DEF Newest
  <2> QED
    BY <1>4, <2>1, <2>2 DEF Newest
<1>5. ASSUME NEW x \in Nat, NEW y \in Txn, NEW s \in Nat, NEW ts \in Nat,
             r \in e.writes, e.txn = y, e.ts = ts, Newest(r, x, s), s < ts
      PROVE  Newest(r, y, ts)'
  <2>1. ASSUME NEW j \in 1..n, r \in hist[j].writes PROVE hist[j].ts < ts
    <3>1. hist[j].ts \in Nat
      <4>1. hist[j] \in Entry
        BY ElementOfSeq
      <4> QED
        BY <4>1 DEF Entry
    <3>2. hist[j].ts <= s
      BY <1>5, <2>1, <3>1 DEF Newest
    <3> QED
      BY <1>5, <3>1, <3>2
  <2>2. ASSUME NEW i, i = n + 1
        PROVE  /\ i \in 1..Len(hist') /\ r \in hist'[i].writes /\ hist'[i].txn = y /\ hist'[i].ts = ts
               /\ \A j \in 1..Len(hist') : j # i /\ r \in hist'[j].writes => hist'[j].ts < ts
    BY <1>1, <1>2, <1>5, <2>1, <2>2
  <2>3. \E i \in 1..Len(hist') :
          /\ r \in hist'[i].writes /\ hist'[i].txn = y /\ hist'[i].ts = ts
          /\ \A j \in 1..Len(hist') : j # i /\ r \in hist'[j].writes => hist'[j].ts < ts
    BY <2>2
  <2> QED
    BY <2>3 DEF Newest
<1> QED
  BY <1>4, <1>5

LEMMA VersionInvStep ==
  ASSUME TypeOK, TypeOK', NEW t \in Threads, \A u \in Threads : Shape(u), BitInv, WtsInv, DataInv,
         VersionInv, Step(t), Local(t)
  PROVE  VersionInv'
<1>w. /\ data \in [Rows -> Words] /\ txn \in [Threads -> Txn] /\ commit_wts \in [Threads -> Nat]
      /\ \A r \in Rows : word[r] \in Word /\ word'[r] \in Word
      /\ \A r \in Rows : word[r].wts \in Nat /\ word'[r].wts \in Nat
  BY Times DEF TypeOK
<1>t. Shape(t)
  OBVIOUS
<1>u. ASSUME NEW u \in Threads, u # t
      PROVE  /\ txn'[u] = txn[u] /\ commit_wts'[u] = commit_wts[u]
             /\ \A r : Pending(u, r)' <=> Pending(u, r)
  BY <1>u, PendingElsewhere DEF Local
<1>1. CASE ~Decide(t)
  <2>h. hist' = hist
    BY <1>1, <1>t, PendingStep
  <2>s. \A u \in Threads, r \in Rows : Pending(u, r)' =>
          Pending(u, r) /\ txn'[u] = txn[u] /\ commit_wts'[u] = commit_wts[u]
    BY <1>1, <1>t, <1>u, PendingStep
  <2> SUFFICES ASSUME NEW r \in Rows
               PROVE  /\ (\A u \in Threads : ~Pending(u, r)') =>
                           \E s \in 0..word'[r].wts : Newest(r, data[r][1], s)'
                      /\ \A u \in Threads : Pending(u, r)' => Newest(r, txn[u], commit_wts[u])'
    BY DEF VersionInv
  <2>1. ASSUME NEW u \in Threads, Pending(u, r)' PROVE Newest(r, txn[u], commit_wts[u])'
    <3>1. Newest(r, txn[u], commit_wts[u])
      BY <2>1, <2>s DEF VersionInv
    <3> QED
      BY <2>1, <2>s, <2>h, <3>1 DEF Newest
  <2>2. CASE \E u \in Threads : Pending(u, r) /\ ~Pending(u, r)'
    <3>1. WriteWord(t) /\ pc[t] = "write2" /\ Acc(t, idx[t] + 1).row = r /\ Pending(t, r)
      BY <2>2, <1>1, <1>t, <1>u, PendingStep
    <3>2. data[r][1] = txn[t]
      BY <3>1 DEF DataInv, Written
    <3>3. word[r].wts = commit_wts[t] /\ word' = word
      BY <3>1 DEF WtsInv, WriteWord
    <3>4. data' = [data EXCEPT ![r][2] = txn[t]]
      BY <3>1 DEF WriteWord
    <3>5. data'[r][1] = txn[t]
      BY <3>2, <3>4, <1>w DEF Words
    <3>6. Newest(r, txn[t], commit_wts[t])
      BY <3>1 DEF VersionInv
    <3>7. commit_wts[t] \in 0..word'[r].wts
      BY <3>3, <1>w
    <3>8. Newest(r, data'[r][1], commit_wts[t])
      BY <3>5, <3>6
    <3> QED
      BY <2>1, <3>7, <3>8, <2>h DEF Newest
  <2>3. CASE \E u \in Threads : Pending(u, r)'
    BY <2>1, <2>3
  <2>4. CASE \A u \in Threads : ~Pending(u, r)
    <3>1. PICK s \in 0..word[r].wts : Newest(r, data[r][1], s)
      BY <2>4 DEF VersionInv
    <3>2. data'[r] = data[r]
      <4>1. CASE WriteWord(t)
        <5> DEFINE q == Acc(t, idx[t] + 1).row
        <5>1. pc[t] \in {"write1", "write2"}
          BY <4>1 DEF WriteWord
        <5>2. idx[t] + 1 \in 1..Len(write_set[t]) /\ idx[t] \in Nat /\ Len(write_set[t]) \in Nat
          BY <5>1, <1>t, RowInHand, Locals
        <5>3. idx[t] + 1 \in (idx[t] + 1)..Len(write_set[t])
          BY <5>2
        <5>4. Pending(t, q)
          BY <5>1, <5>3 DEF Pending, Writing
        <5> QED
          BY <4>1, <5>4, <2>4, <1>t, BusyRows
      <4>2. CASE StampRow(t)
        BY <4>2 DEF StampRow
      <4> QED
        BY <4>1, <4>2, QuietRows
    <3>3. s \in 0..word'[r].wts
      BY <1>t, <1>w, WtsGrows
    <3>4. Newest(r, data'[r][1], s)
      BY <3>1, <3>2
    <3> QED
      BY <2>1, <3>3, <3>4, <2>h DEF Newest
  <2> QED
    BY <2>2, <2>3, <2>4
<1>2. CASE Decide(t)
  <2> DEFINE W == {accesses[t][i].row : i \in OfType(t, "WR")}
             e == [txn |-> txn[t], ts |-> commit_wts[t],
                   reads |-> {<<accesses[t][i].row, accesses[t][i].data[1]>> : i \in DOMAIN accesses[t]},
                   writes |-> W]
  <2>1. /\ hist' = Append(hist, e) /\ word' = word /\ data' = data /\ txn' = txn
        /\ commit_wts' = commit_wts /\ pc[t] = "renew"
    BY <1>2 DEF Decide, rowVars, queryVars
  <2>2. e \in Entry /\ e.txn = txn[t] /\ e.ts = commit_wts[t] /\ e.writes = W /\ hist \in Seq(Entry)
    <3>1. hist \in Seq(Entry) /\ hist' \in Seq(Entry)
      BY DEF TypeOK
    <3>2. Len(hist) + 1 \in 1..Len(hist') /\ hist'[Len(hist) + 1] = e
      BY <2>1, <3>1
    <3>3. hist'[Len(hist) + 1] \in Entry
      BY <3>1, <3>2, ElementOfSeq
    <3> QED
      BY <3>1, <3>2, <3>3
  <2> HIDE DEF e, W
  <2>3. \A r \in Rows : /\ r \in W <=> Pending(t, r)'
                        /\ Pending(t, r)' => \E k \in 1..Len(write_set[t]) : Acc(t, k).row = r
    BY <1>2, <1>t, DecideWrites DEF W
  <2>4. \A r : ~Pending(t, r)
    BY <2>1 DEF Pending, Writing
  <2> SUFFICES ASSUME NEW r \in Rows
               PROVE  /\ (\A u \in Threads : ~Pending(u, r)') =>
                           \E s \in 0..word'[r].wts : Newest(r, data[r][1], s)'
                      /\ \A u \in Threads : Pending(u, r)' => Newest(r, txn[u], commit_wts[u])'
    BY DEF VersionInv
  <2>5. CASE r \notin W
    <3>1. \A x, s : Newest(r, x, s) => Newest(r, x, s)'
      BY <2>1, <2>2, <2>5, NewestAppend
    <3>2. \A u \in Threads : Pending(u, r)' <=> Pending(u, r)
      BY <1>u, <2>3, <2>4, <2>5
    <3>3. ASSUME NEW u \in Threads, Pending(u, r)' PROVE Newest(r, txn[u], commit_wts[u])'
      <4>1. PICK x, s : x = txn[u] /\ s = commit_wts[u] /\ Newest(r, x, s)
        BY <3>2, <3>3 DEF VersionInv
      <4>2. Newest(r, x, s)'
        BY <3>1, <4>1
      <4>3. txn'[u] = x /\ commit_wts'[u] = s
        BY <2>1, <4>1
      <4> QED
        BY <4>2, <4>3 DEF Newest
    <3>4. ASSUME \A u \in Threads : ~Pending(u, r)'
          PROVE  \E s \in 0..word'[r].wts : Newest(r, data[r][1], s)'
      <4>1. PICK x, s : x = data[r][1] /\ s \in 0..word[r].wts /\ Newest(r, x, s)
        BY <3>2, <3>4 DEF VersionInv
      <4>2. Newest(r, x, s)'
        BY <3>1, <4>1
      <4>3. data'[r][1] = x /\ s \in 0..word'[r].wts
        BY <2>1, <4>1
      <4> QED
        BY <4>2, <4>3 DEF Newest
    <3> QED
      BY <3>3, <3>4
  <2>6. CASE r \in W
    <3>1. PICK k \in 1..Len(write_set[t]) : Acc(t, k).row = r
      BY <2>3, <2>6
    <3>2. k \in Todo(t)..Len(write_set[t])
      BY <2>1, <3>1 DEF Todo
    <3>3. r \in Held(t) /\ rts(word[r]) < commit_wts[t]
      BY <2>1, <1>t, <3>1, <3>2, WritesHeld DEF WtsInv
    <3>4. ASSUME NEW u \in Threads, u # t PROVE ~Pending(u, r)
      <4>1. r \notin Held(u)
        BY <3>3, <3>4 DEF BitInv
      <4> QED
        BY <4>1, PendingHeld
    <3>5. PICK s \in 0..word[r].wts : Newest(r, data[r][1], s)
      BY <2>4, <3>4 DEF VersionInv
    <3>6. s \in Nat /\ s < commit_wts[t] /\ commit_wts[t] \in Nat
      BY <3>3, <1>w, Times
    <3>7. data[r][1] \in Nat /\ txn[t] \in Txn
      BY <1>w DEF Words, Txn
    <3>8. \A x \in Nat, y \in Txn, z, ts \in Nat :
            r \in e.writes /\ e.txn = y /\ e.ts = ts /\ Newest(r, x, z) /\ z < ts => Newest(r, y, ts)'
      BY <2>1, <2>2, NewestAppend
    <3>9. \A y \in Txn, ts \in Nat : y = txn[t] /\ ts = commit_wts[t] => Newest(r, y, ts)'
      BY <2>2, <2>6, <3>5, <3>6, <3>7, <3>8
    <3>10. Newest(r, txn[t], commit_wts[t])'
      <4>1. PICK y \in Txn, ts \in Nat : y = txn[t] /\ ts = commit_wts[t] /\ Newest(r, y, ts)'
        BY <3>6, <3>7, <3>9
      <4> QED
        BY <2>1, <4>1 DEF Newest
    <3>11. Pending(t, r)' /\ \A u \in Threads : u # t => ~Pending(u, r)'
      BY <1>u, <2>3, <2>6, <3>4
    <3> QED
      BY <3>10, <3>11
  <2> QED
    BY <2>5, <2>6
<1> QED
  BY <1>1, <1>2

-----------------------------------------------------------------------------
(***************************************************************************)
(* The invariants                                                          *)
(***************************************************************************)
LEMMA InitInv ==
  ASSUME Init
  PROVE  TicTocInv
<1>w. /\ word \in [Rows -> [wts: Nat, delta: 0..(RTS_SIZE - 1), lock: {FALSE}]]
      /\ \A r \in Rows : word[r] \in [wts: Nat, delta: 0..(RTS_SIZE - 1), lock: {FALSE}]
  BY TicTocAssumption DEF Init
<1>r. \A r \in Rows : word[r] \in Word /\ ~word[r].lock /\ word[r].wts \in Nat
  BY <1>w DEF Word
<1>e. <<>> \in Seq(Access) /\ <<>> \in Seq(Nat) /\ <<>> \in Seq(Entry) /\ Len(<<>>) = 0
  BY EmptySeq
<1>n. 0 \in Nat /\ NoCopy \in Words /\ NoWord \in Word /\ 0 \in Txn /\ 0 \in 0..SpinRounds /\ "idle" \in PC
  BY TicTocAssumption DEF NoCopy, Words, NoWord, Word, Txn, PC
<1>1. TypeOK
  <2>1. word \in [Rows -> Word]
    BY <1>w, <1>r
  <2> QED
    BY <1>e, <1>n, <2>1 DEF Init, TypeOK
<1>2. ASSUME NEW t \in Threads
      PROVE  /\ pc[t] = "idle" /\ idx[t] = 0 /\ num_locks[t] = 0 /\ Len(query[t]) = 0
             /\ Len(accesses[t]) = 0 /\ Len(write_set[t]) = 0
  BY <1>e DEF Init
<1>m. \A i : i \notin 1..0
  OBVIOUS
<1>3. ASSUME NEW t \in Threads PROVE Shape(t)
  BY <1>2, <1>m DEF Shape, Sets, Place, Executing, Writing
<1>4. ASSUME NEW t \in Threads, NEW r PROVE r \notin Held(t) /\ ~Pending(t, r) /\ ~Overwrites(t, r)
  BY <1>2, <1>m DEF Held, First, Pending, Overwrites, Writing
<1>5. BitInv
  BY <1>2, <1>4, <1>r DEF BitInv
<1>6. WtsInv
  BY <1>2, <1>m DEF WtsInv, Writing
<1>7. DataInv
  <2>1. \A r \in Rows : data[r][1] = data[r][2]
    BY DEF Init, NoCopy
  <2> QED
    BY <1>2, <1>m, <2>1 DEF DataInv, Read, Copied, Written
<1>8. VersionInv
  <2>1. ASSUME NEW r \in Rows PROVE Newest(r, data[r][1], 0) /\ 0 \in 0..word[r].wts
    <3>1. data[r][1] = 0
      BY DEF Init, NoCopy
    <3>2. \A j \in 1..Len(hist) : FALSE
      BY <1>e, <1>m DEF Init
    <3> QED
      BY <1>r, <3>1, <3>2 DEF Newest
  <2> QED
    BY <1>4, <2>1 DEF VersionInv
<1> QED
  BY <1>1, <1>3, <1>5, <1>6, <1>7, <1>8 DEF TicTocInv

\* A step that changes nothing.
LEMMA Stutter ==
  ASSUME UNCHANGED vars, NEW t \in Threads
  PROVE  /\ ReadsLeft(t)' = ReadsLeft(t) /\ RdAcc(t)' = RdAcc(t)
         /\ Sets(t)' = Sets(t) /\ Place(t)' = Place(t)
<1>1. ReadsLeft(t)' = ReadsLeft(t)
  BY DEF vars, ReadsLeft, OfType
<1>2. RdAcc(t)' = RdAcc(t)
  BY <1>1 DEF vars, RdAcc, NextRead
<1>3. Sets(t)' = Sets(t)
  BY DEF vars, Sets
<1>4. Place(t)' = Place(t)
  BY <1>1, <1>2 DEF vars, Place
<1> QED
  BY <1>1, <1>2, <1>3, <1>4

\* Types and places need no assumption on the parameters.
LEMMA ShapeStep ==
  ASSUME TypeOK, \A t \in Threads : Shape(t), [Next]_vars
  PROVE  TypeOK' /\ \A t \in Threads : Shape(t)'
<1>1. CASE UNCHANGED vars
  <2>1. TypeOK'
    BY <1>1 DEF vars, TypeOK
  <2> QED
    BY <1>1, <2>1, Stutter DEF Shape
<1>2. ASSUME NEW t \in Threads, Step(t)
      PROVE  TypeOK' /\ \A u \in Threads : Shape(u)'
  <2>1. TypeOK' /\ Local(t)
    BY <1>2, TypeStep
  <2>2. Sets(t)'
    BY <1>2, SetsStep DEF Shape
  <2>3. Place(t)'
    BY <1>2, <2>1, <2>2, PlaceStep
  <2>4. ASSUME NEW u \in Threads, u # t PROVE Shape(u)'
    BY <1>2, <2>1, <2>4, ConfigStep, ShapeElsewhere
  <2> QED
    BY <2>1, <2>2, <2>3, <2>4 DEF Shape
<1> QED
  BY <1>1, <1>2 DEF Next, AllDone

LEMMA InvStep ==
  ASSUME TicTocInv, [Next]_vars, Sound(config)
  PROVE  TicTocInv'
<1> USE DEF TicTocInv
<1>1. TypeOK' /\ \A t \in Threads : Shape(t)'
  BY ShapeStep
<1>2. CASE UNCHANGED vars
  <2>1. BitInv'
    BY <1>2 DEF vars, BitInv, Held, First, Acc
  <2>2. WtsInv'
    <3>1. \A t \in Threads : RdAcc(t)' = RdAcc(t)
      BY <1>2, Stutter
    <3> QED
      BY <1>2, <3>1 DEF vars, WtsInv, Req, Todo, Acc
  <2>3. DataInv'
    <3>1. \A r : Dirty(r)' = Dirty(r)
      BY <1>2 DEF vars, Dirty, Overwrites, Acc
    <3>2. ASSUME NEW t \in Threads PROVE Read(t)' /\ Copied(t)' /\ Written(t)'
      <4>1. Read(t)'
        BY <1>2, <3>1 DEF vars, DataInv, Read
      <4>2. Copied(t)'
        BY <1>2, <3>1 DEF vars, DataInv, Copied, Req
      <4>3. Written(t)'
        BY <1>2 DEF vars, DataInv, Written, Acc
      <4> QED
        BY <4>1, <4>2, <4>3
    <3> QED
      BY <1>2, <3>1, <3>2 DEF vars, DataInv
  <2>4. VersionInv'
    BY <1>2 DEF vars, VersionInv, Newest, Pending, Acc
  <2> QED
    BY <1>1, <2>1, <2>2, <2>3, <2>4
<1>3. ASSUME NEW t \in Threads, Step(t)
      PROVE  BitInv' /\ WtsInv' /\ DataInv' /\ VersionInv'
  <2>1. Local(t) /\ Shape(t)
    BY <1>3, TypeStep
  <2>2. BitInv'
    BY <1>3, <2>1, BitInvStep
  <2>3. WtsInv'
    BY <1>1, <1>3, <2>1, WtsInvStep
  <2>4. DataInv'
    BY <1>1, <1>3, <2>1, DataInvStep
  <2>5. VersionInv'
    BY <1>1, <1>3, <2>1, VersionInvStep
  <2> QED
    BY <2>2, <2>3, <2>4, <2>5
<1> QED
  BY <1>1, <1>2, <1>3 DEF Next, AllDone

LEMMA InvCorrect ==
  ASSUME \A c \in Configs : Sound(c)
  PROVE  Spec => []TicTocInv
<1>1. Init => TicTocInv
  BY InitInv
<1>2. TicTocInv /\ [Next]_vars => TicTocInv'
  BY InvStep DEF TicTocInv, TypeOK
<1> QED
  BY <1>1, <1>2, PTL DEF Spec

\* Every variable of validate_tictoc and Row_tictoc::access keeps its type, whatever
\* the parameters: in particular the lease of a word always fits into its RTS_LEN bits.
THEOREM TypeCorrect == Spec => []TypeOK
<1> DEFINE I == TypeOK /\ \A t \in Threads : Shape(t)
<1>1. Init => I
  BY InitInv DEF TicTocInv
<1>2. I /\ [Next]_vars => I'
  BY ShapeStep
<1> QED
  BY <1>1, <1>2, PTL DEF Spec

\* With "no-wait" locking, and pre_abort where spinning is bounded, validate_tictoc
\* unlocks what it has locked, once, and nothing else, and try_renew never touches a
\* lock bit: LockBit, for any number of threads, rows and transactions.
THEOREM LockBitCorrect ==
  ASSUME \A c \in Configs : Sound(c)
  PROVE  Spec => []LockBit
<1>1. TicTocInv => LockBit
  <2> SUFFICES ASSUME TicTocInv PROVE LockBit
    OBVIOUS
  <2>1. \A t \in Threads : Holds(t) = Held(t)
    BY HoldsIsHeld DEF TicTocInv
  <2> QED
    BY <2>1 DEF TicTocInv, BitInv, LockBit
<1> QED
  BY <1>1, InvCorrect, PTL

\* Row_tictoc::access hands out no torn copy, although write_data publishes the new
\* timestamps before the contents and copying takes no lock.
THEOREM NoTornReadCorrect ==
  ASSUME \A c \in Configs : Sound(c)
  PROVE  Spec => []NoTornRead
<1>1. TicTocInv => NoTornRead
  <2> SUFFICES ASSUME TicTocInv, NEW t \in Threads, NEW i \in DOMAIN accesses[t]
               PROVE  accesses[t][i].data[1] = accesses[t][i].data[2]
    BY DEF NoTornRead
  <2> QED
    BY Locals DEF TicTocInv, DataInv, Read
<1> QED
  BY <1>1, InvCorrect, PTL

\* The wts of a row names its version: comparing it, as validate_tictoc and try_renew
\* do, compares the contents, rebases included.
THEOREM WtsNamesVersionCorrect ==
  ASSUME \A c \in Configs : Sound(c)
  PROVE  Spec => []WtsNamesVersion
<1>1. TicTocInv => WtsNamesVersion
  <2> SUFFICES ASSUME TicTocInv, NEW t \in Threads, NEW i \in DOMAIN accesses[t],
                      ~word[accesses[t][i].row].lock,
                      word[accesses[t][i].row].wts = accesses[t][i].wts
               PROVE  data[accesses[t][i].row] = accesses[t][i].data
    BY DEF WtsNamesVersion
  <2>1. i \in 1..Len(accesses[t]) /\ accesses[t][i].row \in Rows
    BY Locals, AccessOf DEF TicTocInv
  <2> QED
    BY <2>1 DEF TicTocInv, DataInv, Read
<1> QED
  BY <1>1, InvCorrect, PTL

\* No update is lost and none comes back: an unlocked row holds, whole, the version
\* of the committed transaction with the latest timestamp among those that wrote it.
THEOREM RowIsLatestCorrect ==
  ASSUME \A c \in Configs : Sound(c)
  PROVE  Spec => []RowIsLatest
<1>1. TicTocInv => RowIsLatest
  <2> SUFFICES ASSUME TicTocInv, NEW r \in Rows, ~word[r].lock
               PROVE  LET W == {i \in DOMAIN hist : r \in hist[i].writes}
                          last == CHOOSE i \in W : \A k \in W \ {i} : Before(k, i)
                      IN  IF W = {} THEN data[r] = NoCopy
                          ELSE /\ data[r] = <<hist[last].txn, hist[last].txn>>
                               /\ word[r].wts >= hist[last].ts
    BY DEF RowIsLatest
  <2> DEFINE W == {i \in DOMAIN hist : r \in hist[i].writes}
             last == CHOOSE i \in W : \A k \in W \ {i} : Before(k, i)
  <2> USE DEF TicTocInv
  <2>w. /\ data[r] \in Words /\ word[r].wts \in Nat /\ hist \in Seq(Entry) /\ Len(hist) \in Nat
        /\ DOMAIN hist = 1..Len(hist)
    <3>1. data[r] \in Words /\ word[r] \in Word /\ hist \in Seq(Entry)
      BY DEF TypeOK
    <3> QED
      BY <3>1, Times
  <2>1. data[r][1] = data[r][2]
    BY UnlockedIsClean DEF DataInv
  <2>2. \A t \in Threads : ~Pending(t, r)
    BY PendingHeld DEF BitInv
  <2>3. PICK s \in 0..word[r].wts : Newest(r, data[r][1], s)
    BY <2>2 DEF VersionInv
  <2>4. data[r] = <<data[r][1], data[r][1]>>
    BY <2>1, <2>w DEF Words
  <2>5. CASE W = {}
    <3>1. data[r][1] = 0
      BY <2>3, <2>5, <2>w DEF Newest
    <3> QED
      BY <2>4, <2>5, <3>1 DEF NoCopy
  <2>6. CASE W # {}
    <3>1. PICK i \in 1..Len(hist) :
            /\ r \in hist[i].writes /\ hist[i].txn = data[r][1] /\ hist[i].ts = s
            /\ \A j \in 1..Len(hist) : j # i /\ r \in hist[j].writes => hist[j].ts < s
      BY <2>3, <2>6, <2>w DEF Newest
    <3>2. i \in W /\ \A k \in W \ {i} : Before(k, i)
      BY <3>1, <2>w DEF Before
    <3>3. last \in W /\ \A k \in W \ {last} : Before(k, last)
      BY <3>2
    <3>4. \A k \in W : hist[k].ts \in Nat
      <4>1. \A k \in 1..Len(hist) : hist[k] \in Entry
        BY <2>w, ElementOfSeq
      <4> QED
        BY <4>1, <2>w DEF Entry
    <3> HIDE DEF last
    <3>5. last = i
      <4> SUFFICES ASSUME last # i PROVE FALSE
        OBVIOUS
      <4>1. Before(i, last) /\ Before(last, i)
        BY <3>2, <3>3
      <4>2. last \in Nat /\ i \in Nat
        BY <2>w, <3>1, <3>3
      <4> QED
        BY <3>2, <3>3, <3>4, <4>1, <4>2 DEF Before
    <3> QED
      <4>1. data[r] = <<hist[last].txn, hist[last].txn>>
        BY <2>4, <3>1, <3>5
      <4>2. word[r].wts >= hist[last].ts
        BY <2>w, <3>1, <3>5
      <4> QED
        BY <2>6, <4>1, <4>2 DEF last
  <2> QED
    BY <2>5, <2>6
<1> QED
  BY <1>1, InvCorrect, PTL

-----------------------------------------------------------------------------
(***************************************************************************)
(* The leases and the order of the commit timestamps                       *)
(***************************************************************************)

\* The lease of row r reaches n, or a transaction that has committed a write of r, at
\* n or later, is about to replace it.
Covered(r, n) ==
  \/ n <= rts(word[r])
  \/ \E u \in Threads : Pending(u, r) /\ n <= commit_wts[u]

\* The version of r that x wrote was there at m, and nobody wrote another one from
\* then on until n.
Stands(r, x, m, n) ==
  \/ x = 0 /\ \A k \in 1..Len(hist) : r \in hist[k].writes => n < hist[k].ts
  \/ \E i \in 1..Len(hist) :
       /\ r \in hist[i].writes /\ hist[i].txn = x /\ hist[i].ts <= m
       /\ \A k \in 1..Len(hist) :
            k # i /\ r \in hist[k].writes => hist[k].ts < hist[i].ts \/ n < hist[k].ts
Leased(a, m, n) == Covered(a.row, n) /\ Stands(a.row, a.data[1], m, n)

\* A row that is not being overwritten has the version of its wts until its rts.
RowInv ==
  \A r \in Rows : ~Dirty(r) => Stands(r, data[r][1], word[r].wts, rts(word[r]))

\* What was read is valid for the lease it was read under.
AccessInv(t) ==
  /\ \A i \in 1..Len(accesses[t]) : Leased(accesses[t][i], accesses[t][i].wts, accesses[t][i].rts)
  /\ pc[t] \in {"copy", "reload"} => Covered(Req(t).row, rts(v[t]))

\* The commit timestamp lies after all versions that were read, ...
CommitInv(t) ==
  pc[t] \notin {"idle"} \cup Executing =>
    \A i \in 1..Len(accesses[t]) : accesses[t][i].type = "RD" => accesses[t][i].wts <= commit_wts[t]

\* ... the rows that are locked have the versions that were read, ...
LockedInv(t) ==
  pc[t] \in {"lock", "cas", "renew", "renewcas"} =>
    \A k \in 1..num_locks[t] : word[Acc(t, k).row].wts = Acc(t, k).wts

\* ... and what the loop over the read set has passed is valid at the commit timestamp.
RenewedInv(t) ==
  pc[t] \in {"renew", "renewcas"} =>
    \A i \in 1..Len(accesses[t]) : accesses[t][i].type = "RD" /\ i <= idx[t] =>
      Leased(accesses[t][i], commit_wts[t], commit_wts[t])

\* Transaction j, apart from its own write, reads the version of r that x wrote when
\* transactions run in the order of their timestamps.
ReadStands(j, r, x) ==
  \/ x = 0 /\ \A k \in 1..Len(hist) : k # j /\ r \in hist[k].writes => hist[j].ts < hist[k].ts
  \/ \E i \in 1..Len(hist) :
       /\ i < j /\ r \in hist[i].writes /\ hist[i].txn = x /\ hist[i].ts <= hist[j].ts
       /\ \A k \in 1..Len(hist) : k # i /\ k # j /\ r \in hist[k].writes =>
            hist[k].ts < hist[i].ts \/ hist[j].ts < hist[k].ts
HistInv ==
  \A j \in 1..Len(hist) : \A p \in hist[j].reads :
    Covered(p[1], hist[j].ts) /\ ReadStands(j, p[1], p[2])

LeaseInv ==
  /\ RowInv /\ HistInv
  /\ \A t \in Threads : AccessInv(t) /\ CommitInv(t) /\ LockedInv(t) /\ RenewedInv(t)

\* No step shortens a lease.
LeasesGrow == \A r \in Rows : rts(word[r]) <= rts(word'[r])

\* Timestamps of entries are numbers.
LEMMA EntryOf ==
  ASSUME hist \in Seq(Entry), NEW k \in 1..Len(hist)
  PROVE  /\ hist[k] \in Entry /\ hist[k].ts \in Nat /\ hist[k].txn \in Txn
         /\ hist[k].writes \subseteq Rows /\ hist[k].reads \subseteq Rows \X Txn
<1>1. hist[k] \in Entry
  BY ElementOfSeq
<1> QED
  BY <1>1 DEF Entry

\* The newest version stands from its timestamp on.
LEMMA NewestStands ==
  ASSUME hist \in Seq(Entry), NEW r, NEW x, NEW s \in Nat, NEW m \in Nat, NEW n \in Nat,
         Newest(r, x, s), s <= m
  PROVE  Stands(r, x, m, n)
<1>1. \A k \in 1..Len(hist) : hist[k].ts \in Nat
  BY EntryOf
<1>2. CASE x = 0 /\ s = 0 /\ \A j \in 1..Len(hist) : r \notin hist[j].writes
  BY <1>2 DEF Stands
<1>3. ASSUME NEW i \in 1..Len(hist), r \in hist[i].writes /\ hist[i].txn = x /\ hist[i].ts = s,
             \A j \in 1..Len(hist) : j # i /\ r \in hist[j].writes => hist[j].ts < s
      PROVE  Stands(r, x, m, n)
  BY <1>1, <1>3 DEF Stands
<1> QED
  BY <1>2, <1>3 DEF Newest

\* It also stands for a shorter time.
LEMMA StandsWithin ==
  ASSUME hist \in Seq(Entry), NEW r, NEW x, NEW m \in Nat, NEW n \in Nat, NEW mm \in Nat, NEW nn \in Nat,
         Stands(r, x, m, n), m <= mm, nn <= n
  PROVE  Stands(r, x, mm, nn)
<1>1. \A k \in 1..Len(hist) : hist[k].ts \in Nat
  BY EntryOf
<1>2. CASE x = 0 /\ \A k \in 1..Len(hist) : r \in hist[k].writes => n < hist[k].ts
  BY <1>1, <1>2 DEF Stands
<1>3. ASSUME NEW i \in 1..Len(hist), r \in hist[i].writes /\ hist[i].txn = x /\ hist[i].ts <= m,
             \A k \in 1..Len(hist) :
               k # i /\ r \in hist[k].writes => hist[k].ts < hist[i].ts \/ n < hist[k].ts
      PROVE  Stands(r, x, mm, nn)
  <2>1. hist[i].ts <= mm
    BY <1>1, <1>3
  <2>2. ASSUME NEW k \in 1..Len(hist), k # i, r \in hist[k].writes
        PROVE  hist[k].ts < hist[i].ts \/ nn < hist[k].ts
    BY <1>1, <1>3, <2>2
  <2> QED
    BY <1>3, <2>1, <2>2 DEF Stands
<1> QED
  BY <1>2, <1>3 DEF Stands

\* A history with one more entry.
LEMMA Appended ==
  ASSUME hist \in Seq(Entry), NEW e \in Entry, hist' = Append(hist, e)
  PROVE  /\ Len(hist) \in Nat /\ Len(hist') = Len(hist) + 1 /\ hist'[Len(hist) + 1] = e
         /\ \A i \in 1..Len(hist) : i \in 1..Len(hist') /\ i # Len(hist) + 1 /\ hist'[i] = hist[i]
         /\ \A i \in 1..Len(hist') : i \in 1..Len(hist) \/ i = Len(hist) + 1
<1> DEFINE n == Len(hist)
<1>1. /\ n \in Nat /\ Len(hist') = n + 1 /\ hist'[n + 1] = e
      /\ \A i \in 1..n : hist'[i] = hist[i]
  OBVIOUS
<1>2. \A i \in 1..(n + 1) : i \in 1..n \/ i = n + 1
  BY <1>1
<1>3. \A i \in 1..n : i \in 1..(n + 1) /\ i # n + 1
  BY <1>1
<1> QED
  BY <1>1, <1>2, <1>3

\* A new write of r comes after the time a version has to stand, or the version stands
\* no longer.
LEMMA StandsAppend ==
  ASSUME hist \in Seq(Entry), NEW e \in Entry, hist' = Append(hist, e),
         NEW r, NEW x, NEW m, NEW n, Stands(r, x, m, n), r \in e.writes => n < e.ts
  PROVE  Stands(r, x, m, n)'
<1>a. /\ Len(hist) \in Nat /\ Len(hist') = Len(hist) + 1 /\ hist'[Len(hist) + 1] = e
      /\ \A i \in 1..Len(hist) : i \in 1..Len(hist') /\ i # Len(hist) + 1 /\ hist'[i] = hist[i]
      /\ \A i \in 1..Len(hist') : i \in 1..Len(hist) \/ i = Len(hist) + 1
  BY Appended
<1>1. CASE x = 0 /\ \A k \in 1..Len(hist) : r \in hist[k].writes => n < hist[k].ts
  <2>1. ASSUME NEW k \in 1..Len(hist'), r \in hist'[k].writes PROVE n < hist'[k].ts
    BY <1>1, <1>a, <2>1
  <2> QED
    BY <1>1, <2>1 DEF Stands
<1>2. ASSUME NEW i \in 1..Len(hist), r \in hist[i].writes /\ hist[i].txn = x /\ hist[i].ts <= m,
             \A k \in 1..Len(hist) :
               k # i /\ r \in hist[k].writes => hist[k].ts < hist[i].ts \/ n < hist[k].ts
      PROVE  Stands(r, x, m, n)'
  <2>1. i \in 1..Len(hist') /\ hist'[i] = hist[i]
    BY <1>a
  <2>2. ASSUME NEW k \in 1..Len(hist'), k # i, r \in hist'[k].writes
        PROVE  hist'[k].ts < hist'[i].ts \/ n < hist'[k].ts
    BY <1>2, <1>a, <2>1, <2>2
  <2> QED
    BY <1>2, <2>1, <2>2 DEF Stands
<1> QED
  BY <1>1, <1>2 DEF Stands

\* What a transaction that commits has read.
LEMMA ReadStandsNew ==
  ASSUME hist \in Seq(Entry), NEW e \in Entry, hist' = Append(hist, e),
         NEW j, j = Len(hist) + 1, NEW r, NEW x, Stands(r, x, e.ts, e.ts)
  PROVE  ReadStands(j, r, x)'
<1>a. /\ Len(hist) \in Nat /\ Len(hist') = Len(hist) + 1 /\ hist'[Len(hist) + 1] = e
      /\ \A i \in 1..Len(hist) : i \in 1..Len(hist') /\ i # Len(hist) + 1 /\ hist'[i] = hist[i]
      /\ \A i \in 1..Len(hist') : i \in 1..Len(hist) \/ i = Len(hist) + 1
  BY Appended
<1>c. \A i \in 1..Len(hist) : i < j
  BY <1>a
<1>1. CASE x = 0 /\ \A k \in 1..Len(hist) : r \in hist[k].writes => e.ts < hist[k].ts
  <2>1. ASSUME NEW k \in 1..Len(hist'), k # j, r \in hist'[k].writes PROVE hist'[j].ts < hist'[k].ts
    BY <1>1, <1>a, <2>1
  <2> QED
    BY <1>1, <2>1 DEF ReadStands
<1>2. ASSUME NEW i \in 1..Len(hist), r \in hist[i].writes /\ hist[i].txn = x /\ hist[i].ts <= e.ts,
             \A k \in 1..Len(hist) :
               k # i /\ r \in hist[k].writes => hist[k].ts < hist[i].ts \/ e.ts < hist[k].ts
      PROVE  ReadStands(j, r, x)'
  <2>1. i \in 1..Len(hist') /\ hist'[i] = hist[i] /\ hist'[j] = e /\ i < j
    BY <1>a, <1>c
  <2>2. ASSUME NEW k \in 1..Len(hist'), k # i, k # j, r \in hist'[k].writes
        PROVE  hist'[k].ts < hist'[i].ts \/ hist'[j].ts < hist'[k].ts
    BY <1>2, <1>a, <2>1, <2>2
  <2> QED
    BY <1>2, <2>1, <2>2 DEF ReadStands
<1> QED
  BY <1>1, <1>2 DEF Stands, ReadStands

\* What those before it have read.
LEMMA ReadStandsOld ==
  ASSUME hist \in Seq(Entry), NEW e \in Entry, hist' = Append(hist, e),
         NEW j \in 1..Len(hist), NEW r, NEW x, ReadStands(j, r, x),
         r \in e.writes => hist[j].ts < e.ts
  PROVE  ReadStands(j, r, x)'
<1>a. /\ Len(hist) \in Nat /\ Len(hist') = Len(hist) + 1 /\ hist'[Len(hist) + 1] = e
      /\ \A i \in 1..Len(hist) : i \in 1..Len(hist') /\ i # Len(hist) + 1 /\ hist'[i] = hist[i]
      /\ \A i \in 1..Len(hist') : i \in 1..Len(hist) \/ i = Len(hist) + 1
  BY Appended
<1>1. CASE x = 0 /\ \A k \in 1..Len(hist) : k # j /\ r \in hist[k].writes => hist[j].ts < hist[k].ts
  <2>1. ASSUME NEW k \in 1..Len(hist'), k # j, r \in hist'[k].writes PROVE hist'[j].ts < hist'[k].ts
    BY <1>1, <1>a, <2>1
  <2> QED
    BY <1>1, <2>1 DEF ReadStands
<1>2. ASSUME NEW i \in 1..Len(hist), i < j, r \in hist[i].writes /\ hist[i].txn = x /\ hist[i].ts <= hist[j].ts,
             \A k \in 1..Len(hist) : k # i /\ k # j /\ r \in hist[k].writes =>
               hist[k].ts < hist[i].ts \/ hist[j].ts < hist[k].ts
      PROVE  ReadStands(j, r, x)'
  <2>1. i \in 1..Len(hist') /\ hist'[i] = hist[i] /\ hist'[j] = hist[j]
    BY <1>a
  <2>2. ASSUME NEW k \in 1..Len(hist'), k # i, k # j, r \in hist'[k].writes
        PROVE  hist'[k].ts < hist'[i].ts \/ hist'[j].ts < hist'[k].ts
    BY <1>2, <1>a, <2>1, <2>2
  <2> QED
    BY <1>2, <2>1, <2>2 DEF ReadStands
<1> QED
  BY <1>1, <1>2 DEF ReadStands

\* Decide adds one entry, and nothing else does.
LEMMA DecideAppends ==
  ASSUME TypeOK, TypeOK', NEW t \in Threads, Decide(t)
  PROVE  \E e \in Entry :
           /\ hist' = Append(hist, e) /\ e.ts = commit_wts[t]
           /\ e.reads = {<<accesses[t][i].row, accesses[t][i].data[1]>> : i \in DOMAIN accesses[t]}
           /\ e.writes = {accesses[t][i].row : i \in OfType(t, "WR")}
<1> DEFINE R == {<<accesses[t][i].row, accesses[t][i].data[1]>> : i \in DOMAIN accesses[t]}
           W == {accesses[t][i].row : i \in OfType(t, "WR")}
           e == [txn |-> txn[t], ts |-> commit_wts[t], reads |-> R, writes |-> W]
<1>1. hist' = Append(hist, e)
  BY DEF Decide
<1> HIDE DEF R, W
<1>2. hist \in Seq(Entry) /\ hist' \in Seq(Entry)
  BY DEF TypeOK
<1>3. Len(hist) + 1 \in 1..Len(hist') /\ hist'[Len(hist) + 1] = e
  BY <1>1, <1>2
<1>4. e \in Entry
  BY <1>2, <1>3, ElementOfSeq
<1> QED
  BY <1>1, <1>4 DEF R, W

\* The rows of a transaction that is about to commit are nobody else's, and its
\* timestamp lies after their leases.
LEMMA WritesFresh ==
  ASSUME TicTocInv, NEW t \in Threads, pc[t] = "renew",
         NEW r \in {accesses[t][i].row : i \in OfType(t, "WR")}
  PROVE  /\ r \in Rows /\ rts(word[r]) < commit_wts[t]
         /\ \A u \in Threads : ~Pending(u, r)
<1>s. Shape(t) /\ TypeOK /\ BitInv /\ WtsInv /\ Len(write_set[t]) \in Nat
  BY Locals DEF TicTocInv
<1>1. PICK i \in 1..Len(accesses[t]) : accesses[t][i].type = "WR" /\ accesses[t][i].row = r
  BY Locals, <1>s DEF OfType
<1>2. PICK k \in 1..Len(write_set[t]) : write_set[t][k] = i
  BY <1>1, <1>s DEF Shape, Place, Executing
<1>3. Acc(t, k).row = r
  BY <1>1, <1>2 DEF Acc
<1>4. k \in Todo(t)..Len(write_set[t])
  BY DEF Todo
<1>5. r \in Held(t) /\ r \in Rows /\ rts(word[r]) < commit_wts[t]
  BY <1>3, <1>4, <1>s, WritesHeld DEF WtsInv
<1>6. ASSUME NEW u \in Threads PROVE ~Pending(u, r)
  <2>1. CASE u = t
    BY <2>1 DEF Pending, Writing
  <2>2. CASE u # t
    <3>1. r \notin Held(u)
      BY <1>5, <1>s, <2>2 DEF BitInv
    <3> QED
      BY <3>1, PendingHeld DEF TicTocInv
  <2> QED
    BY <2>1, <2>2
<1> QED
  BY <1>5, <1>6

\* A lease that is not shortened covers what it has covered.
LEMMA CoveredStays ==
  ASSUME TicTocInv, TicTocInv', NEW t \in Threads, Step(t), Local(t), LeasesGrow,
         NEW r \in Rows, NEW n \in Nat, Covered(r, n)
  PROVE  Covered(r, n)'
<1>s. Shape(t) /\ TypeOK /\ WtsInv
  BY DEF TicTocInv
<1>w. /\ word[r] \in Word /\ word'[r] \in Word
      /\ rts(word[r]) \in Nat /\ rts(word'[r]) \in Nat
      /\ word'[r].wts \in Nat /\ word'[r].wts <= rts(word'[r])
  <2>1. word[r] \in Word /\ word'[r] \in Word
    BY DEF TicTocInv, TypeOK
  <2> QED
    BY <2>1, Times
<1>1. CASE n <= rts(word[r])
  <2>1. rts(word[r]) <= rts(word'[r])
    BY DEF LeasesGrow
  <2>2. n <= rts(word'[r])
    BY <1>1, <1>w, <2>1
  <2> QED
    BY <2>2 DEF Covered, rts
<1>2. ASSUME NEW u \in Threads, Pending(u, r), n <= commit_wts[u] PROVE Covered(r, n)'
  <2>1. CASE u # t
    <3>1. Pending(u, r)' /\ commit_wts'[u] = commit_wts[u]
      BY <1>2, <2>1, PendingElsewhere DEF Local
    <3> QED
      BY <1>2, <3>1 DEF Covered
  <2>2. CASE u = t
    <3>1. ~Decide(t)
      BY <1>2, <2>2 DEF Pending, Writing, Decide
    <3>2. CASE Pending(t, r)'
      <4>1. commit_wts'[t] = commit_wts[t]
        BY <1>s, <3>1, <3>2, PendingStep
      <4> QED
        BY <1>2, <2>2, <3>2, <4>1 DEF Covered
    <3>3. CASE ~Pending(t, r)'
      <4>1. WriteWord(t) /\ pc[t] = "write2" /\ Acc(t, idx[t] + 1).row = r
        BY <1>2, <2>2, <1>s, <3>1, <3>3, PendingStep
      <4>2. word[r].wts = commit_wts[t] /\ word' = word
        BY <1>s, <4>1 DEF WtsInv, WriteWord
      <4>3. n <= rts(word'[r])
        BY <1>2, <2>2, <1>w, <4>2
      <4> QED
        BY <4>3 DEF Covered, rts
    <3> QED
      BY <3>2, <3>3
  <2> QED
    BY <2>1, <2>2
<1> QED
  BY <1>1, <1>2 DEF Covered

\* What is covered by a lease stands: whoever writes the row does so later.
LEMMA StandsStays ==
  ASSUME TicTocInv, TicTocInv', NEW t \in Threads, Step(t),
         NEW r \in Rows, NEW x, NEW m, NEW n \in Nat, Covered(r, n), Stands(r, x, m, n)
  PROVE  Stands(r, x, m, n)'
<1>s. Shape(t) /\ TypeOK /\ TypeOK' /\ hist \in Seq(Entry) /\ commit_wts[t] \in Nat /\ rts(word[r]) \in Nat
  <2>1. word[r] \in Word
    BY DEF TicTocInv, TypeOK
  <2> QED
    BY <2>1, Times DEF TicTocInv, TypeOK
<1>1. CASE ~Decide(t)
  <2>1. hist' = hist
    BY <1>1, <1>s, PendingStep
  <2> QED
    BY <2>1 DEF Stands
<1>2. CASE Decide(t)
  <2>1. PICK e \in Entry : /\ hist' = Append(hist, e) /\ e.ts = commit_wts[t]
                           /\ e.writes = {accesses[t][i].row : i \in OfType(t, "WR")}
    BY <1>2, <1>s, DecideAppends
  <2>2. pc[t] = "renew"
    BY <1>2 DEF Decide
  <2>3. ASSUME r \in e.writes PROVE n < e.ts
    <3>1. rts(word[r]) < commit_wts[t] /\ \A u \in Threads : ~Pending(u, r)
      BY <2>1, <2>2, <2>3, WritesFresh
    <3>2. n <= rts(word[r])
      BY <3>1 DEF Covered
    <3> QED
      BY <1>s, <2>1, <3>1, <3>2
  <2> QED
    BY <1>s, <2>1, <2>3, StandsAppend
<1> QED
  BY <1>1, <1>2

\* A read that is valid for a time stays so.
LEMMA LeasedStays ==
  ASSUME TicTocInv, TicTocInv', NEW t \in Threads, Step(t), Local(t), LeasesGrow,
         NEW a \in Access, NEW m, NEW n \in Nat, Leased(a, m, n)
  PROVE  Leased(a, m, n)'
<1>1. a.row \in Rows
  BY DEF Access
<1> QED
  BY <1>1, CoveredStays, StandsStays DEF Leased

\* A row nobody else is about to write has the newest version.
LEMMA RowStands ==
  ASSUME TypeOK, VersionInv, NEW r \in Rows, \A u \in Threads : ~Pending(u, r),
         NEW m \in Nat, NEW n \in Nat, word[r].wts <= m
  PROVE  Stands(r, data[r][1], m, n)
<1>1. PICK s \in 0..word[r].wts : Newest(r, data[r][1], s)
  BY DEF VersionInv
<1>2. word[r] \in Word /\ word[r].wts \in Nat /\ hist \in Seq(Entry)
  <2>1. word[r] \in Word
    BY DEF TypeOK
  <2> QED
    BY <2>1, Times DEF TypeOK
<1>3. s \in Nat /\ s <= m
  BY <1>1, <1>2
<1> QED
  BY <1>1, <1>2, <1>3, NewestStands

\* Somebody who holds a row keeps its timestamps as they are.
LEMMA HeldKept ==
  ASSUME TypeOK, BitInv, WtsInv, NEW t \in Threads, Shape(t), Step(t),
         NEW u \in Threads, NEW r \in Rows, r \in Held(u)
  PROVE  \/ word'[r].wts = word[r].wts /\ word'[r].delta = word[r].delta
         \/ u = t /\ StampRow(t) /\ r = Acc(t, idx[t] + 1).row
<1>1. word[r].lock
  BY DEF BitInv
<1>2. \A z \in Threads : r \in Held(z) => z = u
  BY DEF BitInv
<1>3. \/ \A q \in Rows : word'[q].wts = word[q].wts /\ word'[q].delta = word[q].delta
      \/ \E x \in Rows : /\ ~word[x].lock
                         /\ \A q \in Rows : q # x => word'[q] = word[q]
      \/ /\ StampRow(t)
         /\ \E x \in Rows : /\ x = Acc(t, idx[t] + 1).row /\ x \in Held(t)
                            /\ \A q \in Rows : q # x => word'[q] = word[q]
  BY WordStep
<1> QED
  BY <1>1, <1>2, <1>3

\* A row is written after the end of its lease, and only an unlocked row, which has
\* the newest version, gets a longer one.
LEMMA RowInvStep ==
  ASSUME TicTocInv, TicTocInv', NEW t \in Threads, Step(t), Local(t), RowInv
  PROVE  RowInv'
<1>s. /\ Shape(t) /\ TypeOK /\ TypeOK' /\ BitInv /\ WtsInv /\ VersionInv'
      /\ \A u \in Threads : Shape(u)
  BY DEF TicTocInv
<1> SUFFICES ASSUME NEW r \in Rows, ~Dirty(r)'
             PROVE  Stands(r, data[r][1], word[r].wts, rts(word[r]))'
  BY DEF RowInv
<1>w. /\ word[r] \in Word /\ word'[r] \in Word
      /\ rts(word[r]) \in Nat /\ rts(word'[r]) \in Nat
      /\ word[r].wts \in Nat /\ word'[r].wts \in Nat /\ word'[r].wts <= rts(word'[r])
  <2>1. word[r] \in Word /\ word'[r] \in Word
    BY <1>s DEF TypeOK
  <2> QED
    BY <2>1, Times
<1>1. CASE \A u \in Threads : ~Pending(u, r)'
  <2>1. ASSUME NEW m \in Nat, NEW n \in Nat, word'[r].wts <= m
        PROVE  Stands(r, data[r][1], m, n)'
    <3>1. PICK s \in 0..word'[r].wts : Newest(r, data[r][1], s)'
      BY <1>1, <1>s DEF VersionInv
    <3>2. PICK x : x = data'[r][1] /\ Newest(r, x, s)'
      BY <3>1 DEF Newest
    <3>3. s \in Nat /\ s <= m
      BY <1>w, <2>1
    <3>4. hist' \in Seq(Entry)
      BY <1>s DEF TypeOK
    <3>5. \A k \in 1..Len(hist') : hist'[k].ts \in Nat
      <4>1. \A k \in 1..Len(hist') : hist'[k] \in Entry
        BY <3>4, ElementOfSeq
      <4> QED
        BY <4>1 DEF Entry
    <3>6. CASE x = 0 /\ s = 0 /\ \A j \in 1..Len(hist') : r \notin hist'[j].writes
      BY <3>2, <3>6 DEF Stands
    <3>7. ASSUME NEW i \in 1..Len(hist'), r \in hist'[i].writes /\ hist'[i].txn = x /\ hist'[i].ts = s,
                 \A j \in 1..Len(hist') : j # i /\ r \in hist'[j].writes => hist'[j].ts < s
          PROVE  Stands(r, x, m, n)'
      BY <3>3, <3>5, <3>7 DEF Stands
    <3>8. Stands(r, x, m, n)'
      BY <3>2, <3>6, <3>7 DEF Newest, Stands
    <3> QED
      BY <3>2, <3>8 DEF Stands
  <2>2. PICK m \in Nat, n \in Nat : m = word'[r].wts /\ n = rts(word[r])'
    BY <1>w DEF rts
  <2>3. Stands(r, data[r][1], m, n)' /\ word'[r].wts <= m
    BY <2>1, <2>2
  <2> QED
    BY <2>2, <2>3 DEF Stands
<1>2. ASSUME NEW u \in Threads, Pending(u, r)'
      PROVE  Stands(r, data[r][1], word[r].wts, rts(word[r]))'
  <2>1. r \in Held(u)
    <3>1. CASE u # t
      <4>1. Pending(u, r)
        BY <1>2, <3>1, PendingElsewhere
      <4> QED
        BY <4>1, <1>s, PendingHeld
    <3>2. CASE u = t /\ ~Decide(t)
      <4>1. Pending(t, r)
        BY <1>2, <1>s, <3>2, PendingStep
      <4> QED
        BY <4>1, <3>2, <1>s, PendingHeld
    <3>3. CASE u = t /\ Decide(t)
      <4>1. PICK k \in 1..Len(write_set[t]) : Acc(t, k).row = r
        BY <1>2, <1>s, <3>3, DecideWrites
      <4>2. pc[t] = "renew"
        BY <3>3 DEF Decide
      <4>3. k \in Todo(t)..Len(write_set[t])
        BY <4>2 DEF Todo
      <4> QED
        BY <1>s, <3>3, <4>1, <4>2, <4>3, WritesHeld
    <3> QED
      BY <3>1, <3>2, <3>3
  <2>2. ~(u = t /\ StampRow(t) /\ r = Acc(t, idx[t] + 1).row)
    <3> SUFFICES ASSUME StampRow(t), r = Acc(t, idx[t] + 1).row PROVE FALSE
      OBVIOUS
    <3>1. Acc(t, idx[t] + 1)' = Acc(t, idx[t] + 1)
      BY <1>s, BusyRows
    <3>2. pc'[t] = "write1"
      BY <1>s DEF StampRow, Goto, TypeOK
    <3> QED
      BY <3>1, <3>2 DEF Dirty, Overwrites
  <2>3. word'[r].wts = word[r].wts /\ rts(word'[r]) = rts(word[r])
    BY <1>s, <2>1, <2>2, HeldKept DEF rts
  <2>4. ~Dirty(r) /\ data'[r] = data[r]
    <3>1. CASE ~StampRow(t) /\ ~WriteWord(t)
      BY <3>1, <1>s, QuietRows
    <3>2. CASE (StampRow(t) \/ WriteWord(t)) /\ r # Acc(t, idx[t] + 1).row
      BY <3>2, <1>s, BusyRows
    <3>3. CASE StampRow(t) /\ r = Acc(t, idx[t] + 1).row
      <4>1. Acc(t, idx[t] + 1)' = Acc(t, idx[t] + 1)
        BY <3>3, <1>s, BusyRows
      <4>2. pc'[t] = "write1"
        BY <3>3, <1>s DEF StampRow, Goto, TypeOK
      <4> QED
        BY <3>3, <4>1, <4>2 DEF Dirty, Overwrites
    <3>4. CASE WriteWord(t) /\ r = Acc(t, idx[t] + 1).row
      <4>1. Acc(t, idx[t] + 1)' = Acc(t, idx[t] + 1)
        BY <3>4, <1>s, BusyRows
      <4>2. pc'[t] = "release"
        <5>1. pc'[t] \notin {"write1", "write2"}
          BY <3>4, <4>1 DEF Dirty, Overwrites
        <5> QED
          BY <3>4, <5>1, <1>s DEF WriteWord, Goto, TypeOK
      <4>3. idx' = idx /\ write_set' = write_set /\ accesses' = accesses
        BY <3>4 DEF WriteWord, validateVars, accessVars
      <4>4. pc[t] = "write2"
        BY <3>4, <4>2, <1>s DEF WriteWord, Goto, TypeOK
      <4>5. r \in Held(t) /\ idx[t] + 1 \in 1..Len(write_set[t]) /\ idx[t] \in Nat /\ Len(write_set[t]) \in Nat
            /\ \A k \in 1..Len(write_set[t]) : k # idx[t] + 1 => Acc(t, k).row # r
        BY <3>4, <4>4, <1>s, RowInHand, Locals
      <4>6. u = t
        BY <2>1, <4>5, <1>s DEF BitInv
      <4>7. ~Pending(t, r)'
        <5>1. \A k \in (idx[t] + 2)..Len(write_set[t]) : k \in 1..Len(write_set[t]) /\ k # idx[t] + 1
          BY <4>5
        <5>2. \A k \in (idx[t] + 2)..Len(write_set[t]) : Acc(t, k).row # r
          BY <5>1, <4>5
        <5>3. \A k : Acc(t, k)' = Acc(t, k)
          BY <4>3 DEF Acc
        <5> QED
          BY <4>2, <4>3, <5>2, <5>3 DEF Pending
      <4> QED
        BY <1>2, <4>6, <4>7
    <3> QED
      BY <3>1, <3>2, <3>3, <3>4
  <2>5. PICK x \in Txn, m \in Nat, n \in Nat : x = data[r][1] /\ m = word[r].wts /\ n = rts(word[r]) /\ Stands(r, x, m, n)
    BY <1>w, <1>s, <2>4 DEF RowInv, TypeOK, Words
  <2>6. Covered(r, n)
    BY <2>5, <1>w DEF Covered
  <2>7. Stands(r, x, m, n)'
    BY <2>5, <2>6, StandsStays
  <2>8. data'[r][1] = x /\ word'[r].wts = m /\ rts(word[r])' = n
    BY <2>3, <2>4, <2>5 DEF rts
  <2> QED
    BY <2>7, <2>8 DEF Stands
<1> QED
  BY <1>1, <1>2

\* access records the lease of the version it has copied.
LEMMA AccessInvStep ==
  ASSUME TicTocInv, TicTocInv', NEW t \in Threads, Step(t), Local(t), LeasesGrow, RowInv,
         NEW u \in Threads, AccessInv(u)
  PROVE  AccessInv(u)'
<1>s. /\ Shape(u) /\ Shape(t) /\ TypeOK /\ TypeOK' /\ BitInv /\ WtsInv /\ DataInv
      /\ \A z \in Threads : Shape(z)
  BY DEF TicTocInv
<1>a. \A i \in 1..Len(accesses[u]) : accesses[u][i] \in Access /\ accesses[u][i].wts \in Nat /\ accesses[u][i].rts \in Nat
  BY <1>s, Locals, AccessOf
<1>o. ASSUME NEW i \in 1..Len(accesses[u]), NEW a, a = accesses[u][i]
      PROVE  Leased(a, a.wts, a.rts)'
  <2>1. a \in Access /\ a.wts \in Nat /\ a.rts \in Nat /\ Leased(a, a.wts, a.rts)
    BY <1>a, <1>o DEF AccessInv
  <2>2. PICK m, n \in Nat : m = a.wts /\ n = a.rts
    BY <2>1
  <2> QED
    BY <2>1, LeasedStays
<1>1. ASSUME NEW i \in 1..Len(accesses'[u]) 
      PROVE  Leased(accesses[u][i], accesses[u][i].wts, accesses[u][i].rts)'
  <2>1. CASE accesses'[u] = accesses[u]
    <3>1. PICK a : a = accesses[u][i] /\ Leased(a, a.wts, a.rts)'
      BY <1>1, <2>1, <1>o
    <3>2. accesses'[u][i] = a
      BY <2>1, <3>1
    <3> QED
      BY <3>1, <3>2 DEF Leased, Covered, Stands
  <2>2. CASE u = t /\ accesses'[t] = <<>>
    BY <1>1, <2>2, EmptySeq
  <2>3. CASE u = t /\ ReloadWord(t) /\ accesses'[t] # accesses[t]
    <3> DEFINE k == Len(accesses[t])
               r == Req(t).row
    <3>1. /\ k \in Nat /\ k < Len(query[t]) /\ Len(accesses'[t]) = k + 1
          /\ \A j \in 1..k : accesses'[t][j] = accesses[t][j]
          /\ accesses'[t][k + 1].row = r
          /\ accesses'[t][k + 1].wts = v[t].wts /\ accesses'[t][k + 1].rts = rts(v[t])
          /\ accesses'[t][k + 1].data = copy[t]
          /\ word[r].wts = v[t].wts
      BY <1>s, <2>3, ReloadAdds
    <3>2. CASE i \in 1..k
      <4>1. PICK a : a = accesses[u][i] /\ Leased(a, a.wts, a.rts)'
        BY <2>3, <3>2, <1>o
      <4>2. accesses'[u][i] = a
        BY <2>3, <3>1, <3>2, <4>1
      <4> QED
        BY <4>1, <4>2 DEF Leased, Covered, Stands
    <3>3. CASE i = k + 1
      <4>1. pc[t] = "reload" /\ SameWord(t, word[r]) /\ hist' = hist /\ word' = word
        BY <2>3 DEF ReloadWord, rowVars
      <4>2. r \in Rows /\ ~word[r].lock
        BY <1>s, <3>1, <4>1, ReqType DEF SameWord, BitInv
      <4>3. ~Dirty(r) /\ data[r] = copy[t]
        BY <1>s, <3>1, <4>1, <4>2 DEF DataInv, Copied
      <4>4. \A z \in Threads : ~Pending(z, r)
        <5> SUFFICES ASSUME NEW z \in Threads, Pending(z, r) PROVE FALSE
          OBVIOUS
        <5>1. r \in Held(z)
          BY <1>s, PendingHeld
        <5> QED
          BY <1>s, <4>2, <5>1 DEF BitInv
      <4>5. Covered(r, rts(v[t]))
        BY <2>3, <4>1 DEF AccessInv
      <4>6. rts(v[t]) <= rts(word[r])
        BY <4>4, <4>5 DEF Covered
      <4>7. /\ v[t] \in Word /\ word[r] \in Word /\ hist \in Seq(Entry)
        BY <1>s, <4>2 DEF TypeOK
      <4>8. rts(v[t]) \in Nat /\ rts(word[r]) \in Nat /\ v[t].wts \in Nat
        BY <4>7, Times
      <4>9. Stands(r, data[r][1], word[r].wts, rts(word[r]))
        BY <4>2, <4>3 DEF RowInv
      <4>10. PICK rr \in Rows, x \in Txn, m \in Nat, n \in Nat : rr = r /\ x = copy[t][1] /\ m = v[t].wts /\ n = rts(v[t])
        BY <1>s, <4>2, <4>8 DEF TypeOK, Words
      <4>11. Stands(rr, x, m, n)
        BY <3>1, <4>3, <4>6, <4>7, <4>8, <4>9, <4>10, StandsWithin
      <4>12. Covered(rr, n)
        BY <4>6, <4>10 DEF Covered
      <4>13. Covered(rr, n)' /\ Stands(rr, x, m, n)'
        BY <4>2, <4>10, <4>11, <4>12, CoveredStays, StandsStays
      <4>14. /\ accesses'[u][i].row = rr /\ accesses'[u][i].data[1] = x
             /\ accesses'[u][i].wts = m /\ accesses'[u][i].rts = n
        BY <2>3, <3>1, <3>3, <4>10
      <4> QED
        BY <4>13, <4>14 DEF Leased, Covered, Stands
    <3> QED
      BY <1>1, <2>3, <3>1, <3>2, <3>3
  <2> QED
    BY <1>s, <2>1, <2>2, <2>3, AccessesStep DEF Local
<1>2. ASSUME pc'[u] \in {"copy", "reload"} PROVE Covered(Req(u).row, rts(v[u]))'
  <2>1. CASE /\ pc[u] \in {"copy", "reload"} /\ v'[u] = v[u]
             /\ accesses'[u] = accesses[u] /\ query'[u] = query[u]
    <3>1. Req(u).row \in Rows
      BY <1>s, <2>1, ReqType DEF Shape, Place
    <3>2. v[u] \in Word /\ rts(v[u]) \in Nat
      <4>1. v[u] \in Word
        BY <1>s, Locals
      <4> QED
        BY <4>1, Times
    <3>3. PICK r \in Rows, n \in Nat : r = Req(u).row /\ n = rts(v[u]) /\ Covered(r, n)
      BY <2>1, <3>1, <3>2 DEF AccessInv
    <3>4. Covered(r, n)'
      BY <3>3, CoveredStays
    <3>5. Req(u)' = Req(u) /\ rts(v[u])' = n
      BY <2>1, <3>3 DEF Req, rts
    <3> QED
      BY <3>3, <3>4, <3>5 DEF Covered
  <2>2. CASE u = t /\ LoadWord(t)
    <3>1. /\ Len(accesses[t]) < Len(query[t]) /\ v'[t] = word[Req(t).row] /\ word' = word
          /\ accesses' = accesses /\ query' = query
      BY <1>s, <2>2 DEF LoadWord, rowVars, queryVars, TypeOK
    <3>2. Req(t)' = Req(t)
      BY <3>1 DEF Req
    <3>3. Req(t).row \in Rows /\ word[Req(t).row] \in Word
      BY <1>s, <3>1, ReqType DEF TypeOK
    <3>4. PICK n \in Nat : n = rts(word[Req(t).row])
      BY <3>3, Times
    <3>5. rts(v[t])' = n /\ rts(word[Req(t).row])' = n
      BY <3>1, <3>2, <3>4 DEF rts
    <3> QED
      BY <2>2, <3>5 DEF Covered
  <2>3. CASE u # t
    BY <1>2, <2>1, <2>3 DEF Local
  <2>4. CASE u = t /\ CopyRow(t)
    <3>1. pc[t] = "copy" /\ v' = v /\ accesses' = accesses /\ query' = query
      BY <2>4 DEF CopyRow, queryVars
    <3> QED
      BY <2>1, <2>4, <3>1
  <2>5. CASE u = t /\ ~LoadWord(t) /\ ~CopyRow(t)
    <3>1. pc'[t] \notin {"copy", "reload"}
      BY <1>s, <2>5 DEF TypeOK, Step, NewQuery, ReloadWord, StartValidate, PreAbort, PreDone,
         TryLock, LockRow, LockFails, Unlock, Unlocked, Retry, AllLocked, LeaseSuffices, TryRenew,
         RenewCas, Decide, StampRow, WriteWord, ReleaseRow, Cleanup, Goto, Renewed, NotRenewed
    <3> QED
      BY <1>2, <2>5, <3>1
  <2> QED
    BY <2>2, <2>3, <2>4, <2>5
<1> QED
  BY <1>1, <1>2 DEF AccessInv

\* The commit timestamp is chosen after the versions read, and only grows.
LEMMA CommitInvStep ==
  ASSUME TicTocInv, NEW t \in Threads, Step(t), Local(t),
         NEW u \in Threads, CommitInv(u)
  PROVE  CommitInv(u)'
<1>s. Shape(t) /\ TypeOK /\ commit_wts \in [Threads -> Nat] /\ pc \in [Threads -> PC]
  BY DEF TicTocInv, TypeOK
<1>1. CASE u # t
  BY <1>1 DEF CommitInv, Local
<1>2. CASE u = t
  <2> DEFINE P(n) == \A i \in 1..Len(accesses[t]) :
                       accesses[t][i].type = "RD" => accesses[t][i].wts <= n
  <2>1. CASE StartValidate(t)
    <3>1. P(FirstTimestamp(t)) /\ accesses' = accesses /\ commit_wts'[t] = FirstTimestamp(t)
      BY <1>s, <2>1, FirstTimestampType DEF StartValidate, accessVars
    <3> QED
      BY <1>2, <3>1 DEF CommitInv
  <2>2. CASE AllLocked(t)
    <3>1. pc[t] = "lock" /\ accesses' = accesses /\ commit_wts'[t] = FinalTimestamp(t)
      BY <1>s, <2>2 DEF AllLocked, accessVars
    <3>2. P(commit_wts[t])
      BY <1>2, <3>1 DEF CommitInv, Executing
    <3>3. FinalTimestamp(t) \in Nat /\ commit_wts[t] <= FinalTimestamp(t) /\ commit_wts[t] \in Nat
      BY <1>s, FinalTimestampAfter DEF Shape
    <3>4. \A i \in 1..Len(accesses[t]) : accesses[t][i].wts \in Nat
      BY <1>s, Locals, AccessOf
    <3>5. P(FinalTimestamp(t))
      BY <3>2, <3>3, <3>4
    <3> QED
      BY <1>2, <3>1, <3>5 DEF CommitInv
  <2>3. CASE pc'[t] \in {"idle"} \cup Executing
    BY <1>2, <2>3 DEF CommitInv
  <2>4. CASE ~StartValidate(t) /\ ~AllLocked(t) /\ pc'[t] \notin {"idle"} \cup Executing
    <3>1. pc[t] \notin {"idle"} \cup Executing /\ accesses' = accesses /\ commit_wts' = commit_wts
      BY <2>4, <1>s DEF Step, NewQuery, LoadWord, CopyRow, ReloadWord, PreAbort, PreDone,
         TryLock, LockRow, LockFails, Unlock, Unlocked, Retry, LeaseSuffices, TryRenew,
         RenewCas, Decide, StampRow, WriteWord, ReleaseRow, Cleanup, Goto, accessVars, validateVars,
         Executing
    <3> QED
      BY <1>2, <3>1 DEF CommitInv
  <2> QED
    BY <2>1, <2>2, <2>3, <2>4
<1> QED
  BY <1>1, <1>2

\* A row is locked with the version that was read, or the transaction aborts.
LEMMA LockedInvStep ==
  ASSUME TicTocInv, NEW t \in Threads, Step(t), Local(t), Sound(config),
         NEW u \in Threads, LockedInv(u)
  PROVE  LockedInv(u)'
<1>s. /\ Shape(t) /\ Shape(u) /\ TypeOK /\ num_locks \in [Threads -> Nat] /\ pc \in [Threads -> PC]
      /\ BitInv /\ WtsInv /\ word \in [Rows -> Word]
  BY DEF TicTocInv, TypeOK
<1>l. num_locks[u] \in Nat /\ idx[u] \in Nat /\ Len(write_set[u]) \in Nat /\ num_locks[u] <= Len(write_set[u])
  BY <1>s, Locals DEF Shape, Place
\* The rows counted in num_locks are held, and their words stay.
<1>h. ASSUME pc[u] \in {"lock", "cas", "renew", "renewcas"}, NEW k \in 1..num_locks[u],
             ~(u = t /\ StampRow(t))
      PROVE  word'[Acc(u, k).row].wts = Acc(u, k).wts
  <2>1. word[Acc(u, k).row].wts = Acc(u, k).wts
    BY <1>h DEF LockedInv
  <2>2. k \in First(u)..num_locks[u] /\ k \in 1..Len(write_set[u])
    BY <1>h, <1>s, <1>l DEF First, Shape, Place, Executing
  <2>3. Acc(u, k).row \in Held(u) /\ Acc(u, k).row \in Rows
    BY <1>s, <2>2, AccType DEF Held, Shape
  <2> QED
    BY <1>h, <1>s, <2>1, <2>3, HeldKept
<1>1. CASE u # t
  <2>1. \A k : Acc(u, k)' = Acc(u, k)
    BY <1>1, HeldElsewhere
  <2>2. pc'[u] = pc[u] /\ num_locks'[u] = num_locks[u]
    BY <1>1 DEF Local
  <2> QED
    BY <1>1, <1>h, <2>1, <2>2 DEF LockedInv
<1>2. CASE u = t
  <2>1. CASE pc'[t] \notin {"lock", "cas", "renew", "renewcas"}
    BY <1>2, <2>1 DEF LockedInv
  <2>2. CASE num_locks'[t] = 0
    BY <1>2, <2>2 DEF LockedInv
  <2>3. CASE LockRow(t) /\ pc'[t] = "lock"
    <3> DEFINE a == Acc(t, num_locks[t] + 1)
    <3>1. /\ pc[t] = "cas" /\ num_locks'[t] = num_locks[t] + 1 /\ word[a.row].wts = a.wts
          /\ word' = [word EXCEPT ![a.row].lock = TRUE] /\ accesses' = accesses /\ write_set' = write_set
      BY <1>s, <2>3 DEF LockRow, Goto
    <3>2. num_locks[t] + 1 \in 1..Len(write_set[t])
      BY <1>2, <1>l, <1>s, <3>1 DEF Shape, Place
    <3>3. a.row \in Rows
      BY <1>s, <3>2, AccType DEF Shape
    <3>4. word'[a.row].wts = a.wts
      BY <1>s, <3>1, <3>3 DEF Word
    <3>5. \A k : Acc(t, k)' = Acc(t, k)
      BY <3>1 DEF Acc
    <3>6. \A k \in 1..num_locks[t] : word'[Acc(t, k).row].wts = Acc(t, k).wts
      BY <1>2, <1>h, <3>1, <2>3 DEF LockRow, StampRow
    <3>7. \A k \in 1..num_locks'[t] : k \in 1..num_locks[t] \/ k = num_locks[t] + 1
      BY <1>2, <1>l, <3>1
    <3> QED
      BY <1>2, <3>4, <3>5, <3>6, <3>7 DEF LockedInv
  <2>4. CASE /\ pc[t] \in {"lock", "cas", "renew", "renewcas"} /\ num_locks'[t] = num_locks[t]
             /\ accesses' = accesses /\ write_set' = write_set
    <3>1. \A k : Acc(t, k)' = Acc(t, k)
      BY <2>4 DEF Acc
    <3>2. ~StampRow(t)
      BY <2>4 DEF StampRow
    <3> QED
      BY <1>2, <1>h, <2>4, <3>1, <3>2 DEF LockedInv
  <2>5. ASSUME pc'[t] \in {"lock", "cas", "renew", "renewcas"}, num_locks'[t] # 0,
               ~(LockRow(t) /\ pc'[t] = "lock")
        PROVE  /\ pc[t] \in {"lock", "cas", "renew", "renewcas"} /\ num_locks'[t] = num_locks[t]
               /\ accesses' = accesses /\ write_set' = write_set
    <3>1. config.no_wait /\ (config.bounded => config.pre_abort)
      BY DEF Sound
    <3>2. pc[t] \in {"idle", "pre"} \cup Executing => num_locks[t] = 0
      BY <1>s DEF Shape, Place
    <3> QED
      BY <1>s, <2>5, <3>1, <3>2 DEF Step, NewQuery, LoadWord, CopyRow, ReloadWord, StartValidate, PreAbort, PreDone,
         TryLock, LockRow, LockFails, Unlock, Unlocked, Retry, AllLocked, LeaseSuffices, TryRenew,
         RenewCas, Decide, StampRow, WriteWord, ReleaseRow, Cleanup, Goto, accessVars, validateVars,
         Executing, Renewed, NotRenewed
  <2> QED
    BY <2>1, <2>2, <2>3, <2>4, <2>5
<1> QED
  BY <1>1, <1>2

\* A row that has the wts it was read under has the version that was read.
LEMMA StillValid ==
  ASSUME TicTocInv, RowInv, NEW t \in Threads, NEW i \in 1..Len(accesses[t]),
         NEW m \in Nat, NEW n \in Nat, accesses[t][i].wts <= m,
         word[accesses[t][i].row].wts = accesses[t][i].wts, n <= rts(word[accesses[t][i].row])
  PROVE  Leased(accesses[t][i], m, n)
<1> DEFINE a == accesses[t][i]
<1>1. TypeOK /\ DataInv /\ hist \in Seq(Entry)
  BY DEF TicTocInv, TypeOK
<1>2. a.row \in Rows /\ a.wts \in Nat
  BY <1>1, Locals, AccessOf
<1>3. word[a.row] \in Word
  BY <1>1, <1>2 DEF TypeOK
<1>4. rts(word[a.row]) \in Nat
  BY <1>3, Times
<1>5. ~Dirty(a.row) /\ data[a.row] = a.data
  BY <1>1, <1>2 DEF DataInv, Read
<1>6. Stands(a.row, a.data[1], a.wts, rts(word[a.row]))
  BY <1>2, <1>5 DEF RowInv
<1>7. Stands(a.row, a.data[1], m, n)
  BY <1>1, <1>2, <1>4, <1>6, StandsWithin
<1> QED
  BY <1>7 DEF Leased, Covered

\* The loop over the read set goes on.
LEMMA RenewedAdds ==
  ASSUME TicTocInv, TicTocInv', NEW t \in Threads, Step(t), Local(t), LeasesGrow, RenewedInv(t),
         pc[t] \in {"renew", "renewcas"}, ReadsLeft(t) # {},
         idx'[t] = NextRead(t), accesses' = accesses, commit_wts' = commit_wts,
         NEW a \in Access, NEW n \in Nat, a = RdAcc(t), n = commit_wts[t], Leased(a, n, n)'
  PROVE  RenewedInv(t)'
<1>s. Shape(t) /\ TypeOK /\ Sets(t) /\ idx[t] \in Nat /\ DOMAIN accesses[t] = 1..Len(accesses[t])
  BY Locals DEF TicTocInv, Shape
<1>1. /\ NextRead(t) \in 1..Len(accesses[t]) /\ NextRead(t) \in Nat
      /\ \A j \in ReadsLeft(t) : NextRead(t) <= j
  BY <1>s, NextReadLeft
<1> SUFFICES ASSUME NEW i \in 1..Len(accesses[t]), accesses[t][i].type = "RD", i <= NextRead(t)
             PROVE  \E b : b = accesses[t][i] /\ Leased(b, n, n)'
  <2>1. ASSUME NEW i \in 1..Len(accesses'[t]), accesses'[t][i].type = "RD", i <= idx'[t]
        PROVE  Leased(accesses[t][i], commit_wts[t], commit_wts[t])'
    <3>1. PICK b : b = accesses[t][i] /\ Leased(b, n, n)'
      BY <2>1
    <3>2. accesses'[t][i] = b /\ commit_wts'[t] = n
      BY <3>1
    <3> QED
      BY <3>1, <3>2 DEF Leased, Covered, Stands
  <2> QED
    BY <2>1 DEF RenewedInv
<1>2. CASE i <= idx[t]
  <2>1. PICK b : b = accesses[t][i]
    OBVIOUS
  <2>2. b \in Access /\ Leased(b, n, n)
    BY <1>2, <1>s, <2>1, Locals, AccessOf DEF RenewedInv
  <2> QED
    BY <2>1, <2>2, LeasedStays
<1>3. CASE ~(i <= idx[t])
  <2>1. i \in ReadsLeft(t)
    BY <1>3, <1>s DEF ReadsLeft, OfType
  <2>2. i = NextRead(t)
    BY <1>1, <2>1
  <2> QED
    BY <2>2 DEF RdAcc
<1> QED
  BY <1>2, <1>3

\* What a lease covers it covers for a shorter time.
LEMMA CoveredWithin ==
  ASSUME TypeOK, NEW r \in Rows, NEW n \in Nat, NEW nn \in Nat, nn <= n, Covered(r, n)
  PROVE  Covered(r, nn)
<1>1. word[r] \in Word /\ commit_wts \in [Threads -> Nat]
  BY DEF TypeOK
<1>2. rts(word[r]) \in Nat
  BY <1>1, Times
<1>3. CASE n <= rts(word[r])
  BY <1>2, <1>3 DEF Covered
<1>4. ASSUME NEW u \in Threads, Pending(u, r), n <= commit_wts[u] PROVE Covered(r, nn)
  <2>1. nn <= commit_wts[u]
    BY <1>1, <1>4
  <2> QED
    BY <1>4, <2>1 DEF Covered
<1> QED
  BY <1>3, <1>4 DEF Covered

\* A read the loop passes has a lease up to the commit timestamp: it had it when it was
\* read, it has it by now, or the exchange gives it.
LEMMA RenewedInvStep ==
  ASSUME TicTocInv, TicTocInv', NEW t \in Threads, Step(t), Local(t), LeasesGrow, RowInv,
         NEW u \in Threads, AccessInv(u), CommitInv(u), RenewedInv(u)
  PROVE  RenewedInv(u)'
<1>s. /\ Shape(t) /\ Shape(u) /\ TypeOK /\ pc \in [Threads -> PC] /\ idx \in [Threads -> Nat]
      /\ BitInv /\ WtsInv /\ word \in [Rows -> Word] /\ VersionInv /\ DataInv
      /\ v \in [Threads -> Word] /\ hist \in Seq(Entry) /\ \A z \in Threads : Shape(z)
  BY DEF TicTocInv, TypeOK
<1>1. CASE u # t
  <2>1. pc'[u] = pc[u] /\ accesses'[u] = accesses[u] /\ idx'[u] = idx[u] /\ commit_wts'[u] = commit_wts[u]
    BY <1>1 DEF Local
  <2> SUFFICES ASSUME pc[u] \in {"renew", "renewcas"}, NEW i \in 1..Len(accesses[u]),
                      accesses[u][i].type = "RD", i <= idx[u]
               PROVE  Leased(accesses[u][i], commit_wts[u], commit_wts[u])'
    BY <2>1 DEF RenewedInv
  <2>2. PICK a, n : a = accesses[u][i] /\ n = commit_wts[u]
    OBVIOUS
  <2>3. a \in Access /\ n \in Nat /\ Leased(a, n, n)
    BY <1>s, <2>2, Locals, AccessOf DEF RenewedInv
  <2>4. Leased(a, n, n)'
    BY <2>3, LeasedStays
  <2> QED
    BY <2>1, <2>2, <2>4 DEF Leased, Covered, Stands
<1>2. CASE u = t
  <2> DEFINE a == RdAcc(t)
             w == word[a.row]
             n == commit_wts[t]
  <2>1. CASE pc'[t] \notin {"renew", "renewcas"}
    BY <1>2, <2>1 DEF RenewedInv
  <2>2. CASE AllLocked(t)
    <3>1. idx'[t] = 0
      BY <1>s, <2>2 DEF AllLocked, Shape, Place
    <3> QED
      BY <1>2, <3>1 DEF RenewedInv
  \* The loop goes on with a read that is valid at the commit timestamp.
  <2>p. ASSUME pc[t] \in {"renew", "renewcas"}, ReadsLeft(t) # {}
        PROVE  /\ a \in Access /\ a.row \in Rows /\ a.wts \in Nat /\ a.rts \in Nat /\ a.wts <= n /\ n \in Nat
               /\ NextRead(t) \in 1..Len(accesses[t]) /\ a = accesses[t][NextRead(t)]
               /\ w \in Word /\ w.wts \in Nat /\ w.delta \in Nat /\ rts(w) = w.wts + w.delta
    <3>1. /\ NextRead(t) \in ReadsLeft(t) /\ NextRead(t) \in 1..Len(accesses[t])
          /\ a \in Access /\ a.row \in Rows /\ a.wts \in Nat /\ a.rts \in Nat
      BY <1>s, <2>p, NextReadLeft DEF Shape
    <3>2. a.type = "RD" /\ a = accesses[t][NextRead(t)] /\ n \in Nat
      BY <1>s, <3>1, Locals DEF ReadsLeft, OfType, RdAcc
    <3>3. a.wts <= n
      BY <1>2, <2>p, <3>1, <3>2 DEF CommitInv, Executing
    <3>4. w \in Word
      BY <1>s, <3>1
    <3>5. w.wts \in Nat /\ w.delta \in Nat
      BY <3>4, Times
    <3> QED
      BY <3>1, <3>2, <3>3, <3>4, <3>5 DEF rts
  <2>a. ASSUME pc[t] \in {"renew", "renewcas"}, ReadsLeft(t) # {}, Renewed(t),
               accesses' = accesses, commit_wts' = commit_wts, Leased(a, n, n)
        PROVE  RenewedInv(t)'
    <3>1. PICK b, m : b = a /\ m = n
      OBVIOUS
    <3>2. b \in Access /\ m \in Nat /\ Leased(b, m, m)
      BY <2>a, <2>p, <3>1
    <3>3. Leased(b, m, m)'
      BY <3>2, LeasedStays
    <3>4. idx'[t] = NextRead(t)
      BY <1>s, <2>a DEF Renewed
    <3> QED
      BY <1>2, <2>a, <3>1, <3>2, <3>3, <3>4, RenewedAdds
  <2>b. ASSUME pc[t] \in {"renew", "renewcas"}, ReadsLeft(t) # {}, w.wts = a.wts, n <= rts(w)
        PROVE  Leased(a, n, n)
    BY <2>b, <2>p, StillValid
  <2>3. CASE LeaseSuffices(t)
    <3>1. /\ pc[t] = "renew" /\ ReadsLeft(t) # {} /\ n <= a.rts /\ Renewed(t)
          /\ accesses' = accesses /\ commit_wts' = commit_wts
      BY <2>3, <2>p DEF LeaseSuffices, accessVars
    <3>2. Leased(a, a.wts, a.rts)
      BY <1>2, <2>p, <3>1 DEF AccessInv
    <3>3. Leased(a, n, n)
      BY <1>s, <2>p, <3>1, <3>2, CoveredWithin, StandsWithin DEF Leased
    <3> QED
      BY <1>2, <2>a, <3>1, <3>3
  <2>4. CASE TryRenew(t) /\ Renewed(t)
    <3>1. /\ pc[t] = "renew" /\ ReadsLeft(t) # {} /\ accesses' = accesses /\ commit_wts' = commit_wts
      BY <2>4 DEF TryRenew
    <3>2. w.wts = a.wts /\ w.delta >= n - a.wts
      <4>1. pc'[t] = "renew"
        BY <1>s, <2>4 DEF Renewed, Goto
      <4> QED
        BY <1>s, <2>4, <4>1 DEF TryRenew, NotRenewed, Goto
    <3>3. n <= rts(w)
      BY <2>p, <3>1, <3>2
    <3> QED
      BY <1>2, <2>a, <2>b, <2>4, <3>1, <3>2, <3>3
  <2>5. CASE RenewCas(t) /\ Renewed(t)
    <3>1. /\ pc[t] = "renewcas" /\ ReadsLeft(t) # {} /\ accesses' = accesses /\ commit_wts' = commit_wts
          /\ pc'[t] = "renew"
      BY <1>s, <2>5 DEF RenewCas, Shape, Place, Renewed, Goto
    <3>2. CASE w = v[t] /\ word' = [word EXCEPT ![a.row] = NewWord(t, a)]
      <4>1. w.wts = a.wts /\ ~w.lock
        BY <1>s, <3>1, <3>2 DEF WtsInv, BitInv
      <4>2. \A z \in Threads : ~Pending(z, a.row)
        <5> SUFFICES ASSUME NEW z \in Threads, Pending(z, a.row) PROVE FALSE
          OBVIOUS
        <5>1. a.row \in Held(z)
          BY <1>s, PendingHeld
        <5> QED
          BY <1>s, <2>p, <3>1, <4>1, <5>1 DEF BitInv
      <4>3. data[a.row] = a.data
        BY <1>s, <2>p, <3>1, <4>1 DEF DataInv, Read
      <4>4. Stands(a.row, a.data[1], n, n)
        BY <1>s, <2>p, <3>1, <4>1, <4>2, <4>3, RowStands
      <4>5. hist' = hist
        BY <2>5 DEF RenewCas
      <4>6. word'[a.row] = NewWord(t, a) /\ rts(NewWord(t, a)) = n
        BY <1>s, <2>p, <3>1, <3>2, NewWordType
      <4>7. PICK b \in Access, m \in Nat : b = a /\ m = n
        BY <2>p, <3>1
      <4>8. rts(word[b.row])' = m
        BY <4>6, <4>7 DEF rts
      <4>9. Stands(b.row, b.data[1], m, m)'
        BY <4>4, <4>5, <4>7 DEF Stands
      <4>10. Leased(b, m, m)'
        BY <4>7, <4>8, <4>9 DEF Leased, Covered
      <4>11. idx'[t] = NextRead(t)
        BY <1>s, <2>5 DEF Renewed
      <4> QED
        BY <1>2, <3>1, <4>7, <4>10, <4>11, RenewedAdds
    <3>3. CASE ~rebase(t, a) /\ NewWord(t, a).wts = w.wts /\ n < w.delta
      <4>1. w.wts = a.wts
        BY <2>p, <3>1, <3>3, NewWordType
      <4>2. n <= rts(w)
        BY <2>p, <3>1, <3>3
      <4> QED
        BY <1>2, <2>a, <2>b, <2>5, <3>1, <4>1, <4>2
    <3> QED
      BY <1>s, <2>5, <3>1, <3>2, <3>3 DEF RenewCas, NotRenewed, Goto
  <2>6. CASE /\ pc[t] \in {"renew", "renewcas"} /\ pc'[t] \in {"renew", "renewcas"} /\ idx' = idx
             /\ accesses' = accesses /\ commit_wts' = commit_wts
    <3> SUFFICES ASSUME NEW i \in 1..Len(accesses[t]), accesses[t][i].type = "RD", i <= idx[t]
                 PROVE  Leased(accesses[t][i], commit_wts[t], commit_wts[t])'
      BY <1>2, <2>6 DEF RenewedInv
    <3>1. PICK b, m : b = accesses[t][i] /\ m = commit_wts[t]
      OBVIOUS
    <3>2. b \in Access /\ m \in Nat /\ Leased(b, m, m)
      BY <1>2, <1>s, <2>6, <3>1, Locals, AccessOf DEF RenewedInv
    <3>3. Leased(b, m, m)'
      BY <3>2, LeasedStays
    <3> QED
      BY <2>6, <3>1, <3>3 DEF Leased, Covered, Stands
  <2>7. \/ pc'[t] \notin {"renew", "renewcas"} \/ AllLocked(t) \/ LeaseSuffices(t)
        \/ (TryRenew(t) /\ Renewed(t)) \/ (RenewCas(t) /\ Renewed(t))
        \/ /\ pc[t] \in {"renew", "renewcas"} /\ pc'[t] \in {"renew", "renewcas"} /\ idx' = idx
           /\ accesses' = accesses /\ commit_wts' = commit_wts
    BY <1>s DEF Step, NewQuery, LoadWord, CopyRow, ReloadWord, StartValidate, PreAbort, PreDone,
       TryLock, LockRow, LockFails, Unlock, Unlocked, Retry, TryRenew,
       RenewCas, Decide, StampRow, WriteWord, ReleaseRow, Cleanup, Goto, NotRenewed
  <2> QED
    BY <1>2, <2>1, <2>2, <2>3, <2>4, <2>5, <2>6, <2>7
<1> QED
  BY <1>1, <1>2

\* Decide records reads that are valid at its timestamp, and writes that come after
\* the leases of all who have read the rows.
LEMMA HistInvStep ==
  ASSUME TicTocInv, TicTocInv', NEW t \in Threads, Step(t), Local(t), LeasesGrow, RowInv, HistInv,
         CommitInv(t), LockedInv(t), RenewedInv(t)
  PROVE  HistInv'
<1>s. /\ Shape(t) /\ TypeOK /\ TypeOK' /\ hist \in Seq(Entry) /\ VersionInv /\ DataInv
      /\ word \in [Rows -> Word] /\ WtsInv
  BY DEF TicTocInv, TypeOK
<1>c. ASSUME NEW j \in 1..Len(hist), NEW p \in hist[j].reads
      PROVE  /\ p[1] \in Rows /\ hist[j].ts \in Nat
             /\ Covered(p[1], hist[j].ts) /\ ReadStands(j, p[1], p[2])
  <2>1. hist[j].ts \in Nat /\ p \in Rows \X Txn
    BY <1>s, EntryOf
  <2> QED
    BY <2>1 DEF HistInv
<1>1. CASE ~Decide(t)
  <2>1. hist' = hist
    BY <1>1, <1>s, PendingStep
  <2> SUFFICES ASSUME NEW j \in 1..Len(hist), NEW p \in hist[j].reads
               PROVE  Covered(p[1], hist[j].ts)' /\ ReadStands(j, p[1], p[2])'
    BY <2>1 DEF HistInv
  <2>2. PICK r \in Rows, n \in Nat : r = p[1] /\ n = hist[j].ts /\ Covered(r, n)
    BY <1>c
  <2>3. Covered(r, n)'
    BY <2>2, CoveredStays
  <2>4. ReadStands(j, p[1], p[2])'
    BY <1>c, <2>1 DEF ReadStands
  <2> QED
    BY <2>1, <2>2, <2>3, <2>4 DEF Covered
<1>2. CASE Decide(t)
  <2>1. PICK e \in Entry :
           /\ hist' = Append(hist, e) /\ e.ts = commit_wts[t]
           /\ e.reads = {<<accesses[t][i].row, accesses[t][i].data[1]>> : i \in DOMAIN accesses[t]}
           /\ e.writes = {accesses[t][i].row : i \in OfType(t, "WR")}
    BY <1>2, <1>s, DecideAppends
  <2>2. /\ pc[t] = "renew" /\ ReadsLeft(t) = {} /\ commit_wts' = commit_wts /\ word' = word
    BY <1>2 DEF Decide, rowVars
  <2>a. /\ Len(hist) \in Nat /\ Len(hist') = Len(hist) + 1 /\ hist'[Len(hist) + 1] = e
        /\ \A i \in 1..Len(hist) : i \in 1..Len(hist') /\ i # Len(hist) + 1 /\ hist'[i] = hist[i]
        /\ \A i \in 1..Len(hist') : i \in 1..Len(hist) \/ i = Len(hist) + 1
    BY <1>s, <2>1, Appended
  <2>n. commit_wts[t] \in Nat /\ DOMAIN accesses[t] = 1..Len(accesses[t]) /\ idx[t] \in Nat /\ Len(write_set[t]) \in Nat
    BY <1>s, Locals
  <2>3. ASSUME NEW j \in 1..Len(hist), NEW p \in hist[j].reads
        PROVE  Covered(p[1], hist[j].ts)' /\ ReadStands(j, p[1], p[2])'
    <3>1. PICK r \in Rows, n \in Nat : r = p[1] /\ n = hist[j].ts /\ Covered(r, n)
      BY <1>c
    <3>2. Covered(r, n)'
      BY <3>1, CoveredStays
    <3>3. ASSUME r \in e.writes PROVE hist[j].ts < e.ts
      <4>1. rts(word[r]) < commit_wts[t] /\ \A u \in Threads : ~Pending(u, r)
        BY <2>1, <2>2, <3>3, WritesFresh
      <4>2. word[r] \in Word
        BY <1>s
      <4>3. n <= rts(word[r]) /\ rts(word[r]) \in Nat
        BY <3>1, <4>1, <4>2, Times DEF Covered
      <4> QED
        BY <2>1, <2>n, <3>1, <4>1, <4>3
    <3>4. ReadStands(j, p[1], p[2])'
      BY <1>c, <1>s, <2>1, <3>1, <3>3, ReadStandsOld
    <3>5. hist'[j] = hist[j]
      BY <2>a
    <3> QED
      BY <3>1, <3>2, <3>4, <3>5 DEF Covered
  <2>4. ASSUME NEW j, j = Len(hist) + 1, NEW p \in e.reads
        PROVE  Covered(p[1], hist[j].ts)' /\ ReadStands(j, p[1], p[2])'
    <3>1. PICK i \in 1..Len(accesses[t]) : p = <<accesses[t][i].row, accesses[t][i].data[1]>>
      BY <2>1, <2>4, <2>n
    <3> DEFINE a == accesses[t][i]
    <3>2. a \in Access /\ a.row \in Rows /\ a.wts \in Nat /\ a.type \in {"RD", "WR"} /\ a.rts \in Nat
      BY <1>s, Locals, AccessOf
    <3>3. PICK r \in Rows, n \in Nat : r = a.row /\ n = commit_wts[t]
      BY <3>2, <2>n
    <3>4. Stands(r, p[2], n, n) /\ Covered(r, n)'
      <4>1. CASE a.type = "RD"
        <5>1. i <= idx[t]
          BY <4>1, <2>2, <2>n DEF ReadsLeft, OfType
        <5>2. Leased(a, n, n)
          BY <4>1, <5>1, <2>2, <3>3 DEF RenewedInv
        <5> QED
          BY <3>1, <3>3, <5>2, CoveredStays DEF Leased
      <4>2. CASE a.type = "WR"
        <5>1. r \in {accesses[t][q].row : q \in OfType(t, "WR")}
          BY <4>2, <2>n, <3>3 DEF OfType
        <5>2. rts(word[r]) < commit_wts[t] /\ \A u \in Threads : ~Pending(u, r)
          BY <5>1, <2>2, WritesFresh
        <5>3. PICK k \in 1..Len(write_set[t]) : write_set[t][k] = i
          BY <4>2, <1>s, <2>2 DEF Shape, Place, Executing
        <5>4. k \in 1..num_locks[t]
          BY <5>3, <1>s, <2>2 DEF Shape, Place
        <5>5. word[r].wts = a.wts
          BY <5>3, <5>4, <2>2, <3>3 DEF LockedInv, Acc
        <5>6. data[r] = a.data
          BY <1>s, <3>3, <5>5 DEF DataInv, Read
        <5>7. word[r] \in Word
          BY <1>s
        <5>8. word[r].wts <= n
          BY <5>2, <5>7, <3>3, Times
        <5>9. Stands(r, p[2], n, n)
          BY <1>s, <5>2, <5>6, <5>8, <3>1, <3>3, RowStands
        <5>10. Pending(t, r)'
          BY <1>2, <1>s, <5>1, DecideWrites
        <5>11. commit_wts'[t] = n
          BY <2>2, <3>3
        <5> QED
          BY <5>9, <5>10, <5>11 DEF Covered
      <4> QED
        BY <3>2, <4>1, <4>2
    <3>5. ReadStands(j, r, p[2])'
      BY <1>s, <2>1, <2>4, <3>3, <3>4, ReadStandsNew
    <3>6. p[1] = r /\ hist'[j].ts = n
      BY <2>1, <2>4, <2>a, <3>1, <3>3
    <3> QED
      BY <3>4, <3>5, <3>6 DEF Covered
  <2>5. ASSUME NEW j \in 1..Len(hist'), NEW p \in hist'[j].reads
        PROVE  Covered(p[1], hist[j].ts)' /\ ReadStands(j, p[1], p[2])'
    <3>1. CASE j \in 1..Len(hist)
      BY <2>3, <2>5, <2>a, <3>1
    <3>2. CASE j = Len(hist) + 1
      BY <2>4, <2>5, <2>a, <3>2
    <3> QED
      BY <2>5, <2>a, <3>1, <3>2
  <2> QED
    BY <2>5 DEF HistInv
<1> QED
  BY <1>1, <1>2

\* Nothing has been read.
LEMMA LeaseInit ==
  ASSUME Init
  PROVE  LeaseInv
<1>1. /\ hist = <<>> /\ Len(hist) = 0 /\ data = [r \in Rows |-> NoCopy]
      /\ \A t \in Threads : pc[t] = "idle" /\ accesses[t] = <<>> /\ Len(accesses[t]) = 0
  BY EmptySeq DEF Init
<1>2. RowInv
  BY <1>1 DEF RowInv, Stands, NoCopy
<1>3. HistInv
  BY <1>1 DEF HistInv
<1>4. ASSUME NEW t \in Threads
      PROVE  AccessInv(t) /\ CommitInv(t) /\ LockedInv(t) /\ RenewedInv(t)
  BY <1>1 DEF AccessInv, CommitInv, LockedInv, RenewedInv
<1> QED
  BY <1>2, <1>3, <1>4 DEF LeaseInv

\* Every step that shortens no lease keeps the invariant.
LEMMA LeaseStep ==
  ASSUME TicTocInv, TicTocInv', LeaseInv, [Next]_vars, [LeasesGrow]_vars, Sound(config)
  PROVE  LeaseInv'
<1>1. CASE UNCHANGED vars
  <2>1. RowInv'
    BY <1>1 DEF LeaseInv, vars, RowInv, Dirty, Overwrites, Acc, Stands, rts
  <2>2. \A r, n : Covered(r, n) => Covered(r, n)'
    BY <1>1 DEF vars, Covered, Pending, Acc, rts
  <2>3. HistInv'
    <3> SUFFICES ASSUME NEW j \in 1..Len(hist), NEW p \in hist[j].reads
                 PROVE  Covered(p[1], hist[j].ts)' /\ ReadStands(j, p[1], p[2])'
      BY <1>1 DEF vars, HistInv
    <3>1. PICK n : n = hist[j].ts /\ Covered(p[1], n) /\ ReadStands(j, p[1], p[2])
      BY DEF LeaseInv, HistInv
    <3>2. Covered(p[1], n)' /\ hist' = hist
      BY <1>1, <2>2, <3>1 DEF vars
    <3> QED
      BY <3>1, <3>2 DEF Covered, ReadStands
  <2>4. ASSUME NEW a, NEW m, NEW n, Leased(a, m, n) PROVE Leased(a, m, n)'
    BY <1>1, <2>2, <2>4 DEF vars, Leased, Stands
  <2>5. ASSUME NEW t \in Threads
        PROVE  AccessInv(t)' /\ CommitInv(t)' /\ LockedInv(t)' /\ RenewedInv(t)'
    <3>1. /\ accesses' = accesses /\ pc' = pc /\ v' = v /\ commit_wts' = commit_wts
          /\ idx' = idx /\ query' = query /\ write_set' = write_set /\ word' = word /\ num_locks' = num_locks
      BY <1>1 DEF vars
    <3>2. ASSUME NEW i \in 1..Len(accesses[t])
          PROVE  Leased(accesses[t][i], accesses[t][i].wts, accesses[t][i].rts)'
      <4>1. PICK a : a = accesses[t][i] /\ Leased(a, a.wts, a.rts)
        BY DEF LeaseInv, AccessInv
      <4>2. Leased(a, a.wts, a.rts)'
        BY <2>4, <4>1
      <4> QED
        BY <3>1, <4>1, <4>2 DEF Leased, Covered, Stands
    <3>3. ASSUME pc[t] \in {"copy", "reload"} PROVE Covered(Req(t).row, rts(v[t]))'
      <4>1. PICK r, n : r = Req(t).row /\ n = rts(v[t]) /\ Covered(r, n)
        BY <3>3 DEF LeaseInv, AccessInv
      <4>2. Covered(r, n)' /\ Req(t)' = Req(t) /\ rts(v[t])' = n
        BY <2>2, <3>1, <4>1 DEF Req, rts
      <4> QED
        BY <4>1, <4>2 DEF Covered
    <3>4. AccessInv(t)'
      BY <3>1, <3>2, <3>3 DEF AccessInv
    <3>5. ASSUME pc[t] \in {"renew", "renewcas"}, NEW i \in 1..Len(accesses[t]),
                 accesses[t][i].type = "RD" /\ i <= idx[t]
          PROVE  Leased(accesses[t][i], commit_wts[t], commit_wts[t])'
      <4>1. PICK a, n : a = accesses[t][i] /\ n = commit_wts[t] /\ Leased(a, n, n)
        BY <3>5 DEF LeaseInv, RenewedInv
      <4>2. Leased(a, n, n)'
        BY <2>4, <4>1
      <4> QED
        BY <3>1, <4>1, <4>2 DEF Leased, Covered, Stands
    <3>6. RenewedInv(t)'
      BY <3>1, <3>5 DEF RenewedInv
    <3>7. CommitInv(t)' /\ LockedInv(t)'
      BY <3>1 DEF LeaseInv, CommitInv, LockedInv, Acc
    <3> QED
      BY <3>4, <3>6, <3>7
  <2> QED
    BY <2>1, <2>3, <2>5 DEF LeaseInv
<1>2. ASSUME NEW t \in Threads, Step(t), ~UNCHANGED vars
      PROVE  LeaseInv'
  <2>1. LeasesGrow
    BY <1>2
  <2>2. Local(t)
    BY <1>2, TypeStep DEF TicTocInv
  <2>3. RowInv'
    BY <1>2, <2>2, RowInvStep DEF LeaseInv
  <2>4. HistInv'
    BY <1>2, <2>1, <2>2, HistInvStep DEF LeaseInv
  <2>5. ASSUME NEW u \in Threads
        PROVE  AccessInv(u)' /\ CommitInv(u)' /\ LockedInv(u)' /\ RenewedInv(u)'
    BY <1>2, <2>1, <2>2, AccessInvStep, CommitInvStep, LockedInvStep, RenewedInvStep DEF LeaseInv
  <2> QED
    BY <2>3, <2>4, <2>5 DEF LeaseInv
<1> QED
  BY <1>1, <1>2 DEF Next, AllDone

\* The invariant says what has been read in terms of the order of commit timestamps.
LEMMA LeaseInvOrders ==
  ASSUME TypeOK, LeaseInv
  PROVE  TimestampOrder
<1> SUFFICES ASSUME NEW j \in DOMAIN hist, NEW p \in hist[j].reads
             PROVE  p[2] = LastWriter(Before, DOMAIN hist, j, p[1])
  BY DEF TimestampOrder
<1>1. hist \in Seq(Entry) /\ DOMAIN hist = 1..Len(hist) /\ Len(hist) \in Nat
  BY DEF TypeOK
<1>2. \A k \in 1..Len(hist) : hist[k].ts \in Nat
  BY <1>1, EntryOf
<1> DEFINE r == p[1]
           W == {i \in DOMAIN hist : Before(i, j) /\ r \in hist[i].writes}
           c == CHOOSE i \in W : \A k \in W \ {i} : Before(k, i)
<1>3. LastWriter(Before, DOMAIN hist, j, p[1]) = IF W = {} THEN 0 ELSE hist[c].txn
  BY DEF LastWriter
<1>4. ReadStands(j, r, p[2])
  BY <1>1 DEF LeaseInv, HistInv
<1>5. CASE p[2] = 0 /\ \A k \in 1..Len(hist) : k # j /\ r \in hist[k].writes => hist[j].ts < hist[k].ts
  <2>1. W = {}
    BY <1>1, <1>2, <1>5 DEF Before
  <2> QED
    BY <1>3, <1>5, <2>1
<1>6. ASSUME NEW i \in 1..Len(hist), i < j, r \in hist[i].writes /\ hist[i].txn = p[2] /\ hist[i].ts <= hist[j].ts,
             \A k \in 1..Len(hist) : k # i /\ k # j /\ r \in hist[k].writes =>
               hist[k].ts < hist[i].ts \/ hist[j].ts < hist[k].ts
      PROVE  p[2] = LastWriter(Before, DOMAIN hist, j, p[1])
  <2>1. i \in W
    BY <1>1, <1>2, <1>6 DEF Before
  <2>2. ASSUME NEW k \in W \ {i} PROVE hist[k].ts < hist[i].ts
    BY <1>1, <1>2, <1>6 DEF Before
  <2>3. \A k \in W \ {i} : Before(k, i)
    BY <2>2 DEF Before
  <2>4. c \in W /\ \A k \in W \ {c} : Before(k, c)
    BY <2>1, <2>3
  <2>5. c = i
    <3> SUFFICES ASSUME c # i PROVE FALSE
      OBVIOUS
    <3> HIDE DEF c
    <3>1. Before(i, c) /\ hist[c].ts < hist[i].ts /\ c \in 1..Len(hist)
      BY <2>1, <2>2, <2>4, <1>1
    <3> QED
      BY <1>2, <3>1 DEF Before
  <2> QED
    BY <1>3, <1>6, <2>1, <2>5
<1> QED
  BY <1>4, <1>5, <1>6 DEF ReadStands

\* The exchange loop of try_renew is about to replace the word of r, which it has
\* found with a lease that ends after its own commit timestamp, by its own v2.
StaleRenewal(t, r) ==
  /\ pc[t] = "renewcas" /\ RdAcc(t).row = r
  /\ word[r] = v[t] /\ commit_wts[t] < rts(v[t])

\* A step that shortens the lease of a row is such an exchange.
LEMMA ShorteningStep ==
  ASSUME TicTocInv, [Next]_vars, NEW r \in Rows, rts(word'[r]) < rts(word[r])
  PROVE  \E t \in Threads : StaleRenewal(t, r)
<1>w. word \in [Rows -> Word] /\ word[r] \in Word /\ rts(word[r]) \in Nat
  <2>1. word \in [Rows -> Word] /\ word[r] \in Word
    BY DEF TicTocInv, TypeOK
  <2> QED
    BY <2>1, Times
<1>1. word' # word
  BY <1>w
<1>2. PICK t \in Threads : Step(t)
  BY <1>1 DEF Next, AllDone, vars
<1>s. Shape(t) /\ TypeOK /\ BitInv /\ WtsInv
  BY DEF TicTocInv
<1>3. \/ \A q \in Rows : word'[q].wts = word[q].wts /\ word'[q].delta = word[q].delta
      \/ RenewCas(t)
      \/ /\ StampRow(t)
         /\ \E x \in Rows : /\ rts(word[x]) < commit_wts[t] /\ word'[x].wts = commit_wts[t]
                            /\ \A q \in Rows : q # x => word'[q] = word[q]
  BY <1>2, <1>s, WordStep
<1>4. CASE \A q \in Rows : word'[q].wts = word[q].wts /\ word'[q].delta = word[q].delta
  BY <1>4, <1>w DEF rts
<1>5. ASSUME NEW x \in Rows, rts(word[x]) < commit_wts[t], word'[x].wts = commit_wts[t],
             \A q \in Rows : q # x => word'[q] = word[q]
      PROVE  FALSE
  <2>1. r = x
    BY <1>5, <1>w DEF rts
  <2>2. word'[r] \in Word /\ commit_wts[t] \in Nat
    <3>1. TypeOK'
      BY <1>2, <1>s, TypeStep
    <3> QED
      BY <3>1, <1>s DEF TypeOK
  <2>3. word'[r].wts <= rts(word'[r]) /\ rts(word'[r]) \in Nat
    BY <2>2, Times
  <2> QED
    BY <1>5, <1>w, <2>1, <2>2, <2>3
<1>6. CASE RenewCas(t)
  <2> DEFINE a == RdAcc(t)
  <2>1. pc[t] = "renewcas" /\ word[a.row] = v[t] /\ word' = [word EXCEPT ![a.row] = NewWord(t, a)]
    BY <1>1, <1>6 DEF RenewCas
  <2>2. ReadsLeft(t) # {} /\ a.rts < commit_wts[t]
    BY <1>s, <2>1 DEF Shape, Place
  <2>3. /\ a \in Access /\ a.row \in Rows /\ a.wts \in Nat /\ a.rts \in Nat /\ a.wts <= a.rts
        /\ commit_wts[t] \in Nat
    BY <1>s, <2>2, NextReadLeft, Locals DEF Shape
  <2>4. rts(NewWord(t, a)) = commit_wts[t]
    BY <2>2, <2>3, NewWordType
  <2>5. r = a.row
    BY <1>w, <2>1, <2>3
  <2>6. word'[r] = NewWord(t, a)
    BY <1>w, <2>1, <2>5
  <2> QED
    BY <2>1, <2>4, <2>5, <2>6 DEF StaleRenewal
<1> QED
  BY <1>3, <1>4, <1>5, <1>6

\* The lease of a row, wts + delta, only ever grows, except by the exchange loop of
\* try_renew: it goes on with the v2 it has when it finds that somebody else has
\* extended the lease further, because it compares rts with delta and not with
\* wts + delta.  Locking, write_data and a rebase never shorten a lease.
THEOREM OnlyStaleRenewalsShorten ==
  ASSUME \A c \in Configs : Sound(c)
  PROVE  Spec => [][\A r \in Rows : rts(word'[r]) < rts(word[r]) =>
                      \E t \in Threads : StaleRenewal(t, r)]_vars
<1>1. TicTocInv /\ [Next]_vars =>
        [\A r \in Rows : rts(word'[r]) < rts(word[r]) => \E t \in Threads : StaleRenewal(t, r)]_vars
  BY ShorteningStep
<1> QED
  BY <1>1, InvCorrect, PTL DEF Spec

\* As long as no lease is shortened, transactions read what their commit timestamps
\* entitle them to.
LEMMA OrderIfLeasesGrow ==
  ASSUME \A c \in Configs : Sound(c)
  PROVE  Spec /\ [][LeasesGrow]_vars => []TimestampOrder
<1>1. Init => LeaseInv
  BY LeaseInit
<1>2. TicTocInv /\ TicTocInv' /\ LeaseInv /\ [Next]_vars /\ [LeasesGrow]_vars => LeaseInv'
  BY LeaseStep DEF TicTocInv, TypeOK
<1>3. TicTocInv /\ LeaseInv => TimestampOrder
  BY LeaseInvOrders DEF TicTocInv
<1> QED
  BY <1>1, <1>2, <1>3, InvCorrect, PTL DEF Spec

\* validate_tictoc orders the transactions by their commit timestamps, and what they
\* have read is what that order says, unless try_renew comes to shorten a lease: for
\* any number of threads, rows and transactions, the stale exchange is the only way
\* to lose TimestampOrder, and with it Serializable.
THEOREM TimestampOrderCorrect ==
  ASSUME \A c \in Configs : Sound(c)
  PROVE  Spec /\ [](\A t \in Threads, r \in Rows : ~StaleRenewal(t, r)) =>
           [](TimestampOrder /\ Serializable)
<1>1. (/\ TicTocInv /\ TicTocInv' /\ [Next]_vars
       /\ \A t \in Threads, r \in Rows : ~StaleRenewal(t, r)) => [LeasesGrow]_vars
  <2> SUFFICES ASSUME TicTocInv, TicTocInv', [Next]_vars, NEW r \in Rows,
                      \A t \in Threads, q \in Rows : ~StaleRenewal(t, q)
               PROVE  rts(word[r]) <= rts(word'[r])
    BY DEF LeasesGrow
  <2>1. word[r] \in Word /\ word'[r] \in Word
    BY DEF TicTocInv, TypeOK
  <2>2. rts(word[r]) \in Nat /\ rts(word'[r]) \in Nat
    BY <2>1, Times
  <2>3. ~(rts(word'[r]) < rts(word[r]))
    BY ShorteningStep
  <2> QED
    BY <2>2, <2>3
<1>2. TimestampOrder => Serializable
  BY DEF Serializable
<1> QED
  BY <1>1, <1>2, InvCorrect, OrderIfLeasesGrow, PTL DEF Spec

\* With transactions that write every row they access (YCSB with a write_perc of 1)
\* there is nothing to renew, and TimestampOrder holds without any condition.
THEOREM UpdatesInTimestampOrder ==
  ASSUME \A c \in Configs : Sound(c),
         \A q \in Queries : \A i \in 1..Len(q) : q[i].type = "WR"
  PROVE  Spec => [](TimestampOrder /\ Serializable)
<1>1. TicTocInv => \A t \in Threads, r \in Rows : ~StaleRenewal(t, r)
  <2> SUFFICES ASSUME TicTocInv, NEW t \in Threads, pc[t] = "renewcas" PROVE FALSE
    BY DEF StaleRenewal
  <2>1. Shape(t) /\ TypeOK
    BY DEF TicTocInv
  <2>2. ReadsLeft(t) # {}
    BY <2>1 DEF Shape, Place
  <2>3. PICK i \in 1..Len(accesses[t]) : accesses[t][i].type = "RD"
    BY <2>1, <2>2, Locals DEF ReadsLeft, OfType
  <2>4. i \in 1..Len(query[t]) /\ query[t][i].type = "RD"
    BY <2>1, <2>3, Locals DEF Shape, Sets
  <2>5. query[t] \in Queries
    <3>1. query[t] # <<>>
      BY <2>4, EmptySeq
    <3> QED
      BY <2>1, <3>1 DEF TypeOK
  <2> QED
    BY <2>4, <2>5
<1> QED
  BY <1>1, InvCorrect, TimestampOrderCorrect, PTL

=============================================================================
