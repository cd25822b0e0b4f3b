---------------------------- MODULE PlockProofs -----------------------------
(***************************************************************************)
(* That the partition locks of Plock are sound, for every number of        *)
(* threads, partitions and transactions: PlockTypeOK, BooksBalance,        *)
(* WaitForOlder and OwnsWhatItUses are invariants.                         *)
(***************************************************************************)
EXTENDS Plock, SequenceLemmas, FiniteSetTheorems

-----------------------------------------------------------------------------
(***************************************************************************)
(* The inductive invariant                                                 *)
(***************************************************************************)

\* How far a thread has come fits to what it is doing.
Counters ==
  \A t \in Threads :
    /\ released[t] <= asked[t] /\ asked[t] <= Len(parts[t])
    /\ pc[t] = "idle" => released[t] = asked[t]
    /\ pc[t] \in {"lock", "run"} => released[t] = 0
    /\ pc[t] = "run" => asked[t] = Len(parts[t])

\* Threads that are in a transaction have different timestamps.
Stamps ==
  \A t \in Threads :
    /\ ts[t] <= timestamp
    /\ pc[t] # "idle" => ts[t] > 0
    /\ \A u \in Threads : t # u /\ ts[t] = ts[u] => ts[t] = 0

\* A transaction is known exactly where it has asked for a lock and not released it.
Table ==
  \A t \in Threads : \A p \in Parts : (owner[p] = t \/ p \in Queued(t)) <=> p \in Held(t)

Counts == \A t \in Threads : ready_part[t] = Cardinality(Queued(t))

\* A transaction that runs or has run owns what it holds.
Owns ==
  \A t \in Threads : pc[t] \in {"run", "unlock"} => \A p \in Held(t) : owner[p] = t

IInv == PlockTypeOK /\ Counters /\ Stamps /\ Table /\ WaitForOlder /\ Counts /\ Owns

-----------------------------------------------------------------------------
(***************************************************************************)
(* Queues                                                                  *)
(***************************************************************************)

\* InsertAt adds exactly t to the waiters, as the insertion in PartMan::lock does.
LEMMA InsertWaits ==
  ASSUME NEW w \in Seq(Threads), NEW p \in 1..(Len(w) + 1), NEW t \in Threads, NEW u
  PROVE  Waits(InsertAt(w, p, t), u) <=> Waits(w, u) \/ u = t
<1> DEFINE v == InsertAt(w, p, t)
<1>1. Len(v) = Len(w) + 1
  BY InsertAtLen
<1>2. v[p] = t
  BY InsertAtNew
<1>3. \A k \in 1..Len(w) : v[IF k < p THEN k ELSE k + 1] = w[k]
  BY InsertAtOld
<1>4. \A n \in 1..(Len(w) + 1) : n # p => \E k \in 1..Len(w) : v[n] = w[k]
  BY InsertAtOther
<1>5. \A k \in 1..Len(w) : (IF k < p THEN k ELSE k + 1) \in 1..(Len(w) + 1)
  BY LenProperties
<1> HIDE DEF v
<1>6. ASSUME Waits(w, u) PROVE Waits(v, u)
  BY <1>1, <1>3, <1>5, <1>6 DEF Waits
<1>7. ASSUME u = t PROVE Waits(v, u)
  BY <1>1, <1>2, <1>7 DEF Waits
<1>8. ASSUME Waits(v, u) PROVE Waits(w, u) \/ u = t
  BY <1>1, <1>2, <1>4, <1>8 DEF Waits
<1> QED
  BY <1>6, <1>7, <1>8 DEF v

\* RemoveAt takes exactly one transaction off, if no one is there twice.
LEMMA RemoveWaits ==
  ASSUME NEW w \in Seq(Threads), NEW k \in 1..Len(w), NEW u,
         \A m, n \in 1..Len(w) : w[m] = w[n] => m = n
  PROVE  Waits(RemoveAt(w, k), u) <=> Waits(w, u) /\ u # w[k]
<1> DEFINE v == RemoveAt(w, k)
<1>1. /\ Len(v) = Len(w) - 1
      /\ \A n \in 1..(Len(w) - 1) : v[n] = IF n < k THEN w[n] ELSE w[n + 1]
  BY RemoveAtProperties
<1> HIDE DEF v
<1>2. Len(w) \in Nat
  BY LenProperties
<1>3. ASSUME Waits(v, u) PROVE Waits(w, u) /\ u # w[k]
  <2>1. PICK n \in 1..(Len(w) - 1) : v[n] = u
    BY <1>1, <1>3 DEF Waits
  <2>2. CASE n < k
    BY <1>1, <1>2, <2>1, <2>2 DEF Waits
  <2>3. CASE n >= k
    <3>1. u = w[n + 1] /\ n + 1 \in 1..Len(w) /\ n + 1 # k
      BY <1>1, <1>2, <2>1, <2>3
    <3> QED
      BY <3>1 DEF Waits
  <2> QED
    BY <1>2, <2>2, <2>3
<1>4. ASSUME Waits(w, u), u # w[k] PROVE Waits(v, u)
  <2>1. PICK n \in 1..Len(w) : w[n] = u
    BY <1>4 DEF Waits
  <2>2. CASE n < k
    BY <1>1, <1>2, <2>1, <2>2 DEF Waits
  <2>3. CASE n > k
    <3>1. n - 1 \in 1..(Len(w) - 1) /\ ~(n - 1 < k) /\ (n - 1) + 1 = n
      BY <1>2, <2>3
    <3>2. v[n - 1] = u
      BY <1>1, <2>1, <3>1
    <3> QED
      BY <1>1, <3>1, <3>2 DEF Waits
  <2> QED
    BY <1>2, <1>4, <2>1, <2>2, <2>3
<1> QED
  BY <1>3, <1>4 DEF v

\* So does the hand-over to the first waiter.
LEMMA TailWaits ==
  ASSUME NEW w \in Seq(Threads), w # <<>>, NEW u,
         \A m, n \in 1..Len(w) : w[m] = w[n] => m = n
  PROVE  Waits(SubSeq(w, 2, Len(w)), u) <=> Waits(w, u) /\ u # w[1]
<1>1. Len(w) \in Nat /\ Len(w) >= 1
  BY EmptySeq, LenProperties
<1> DEFINE v == SubSeq(w, 2, Len(w))
<1>3. Len(v) = Len(w) - 1 /\ \A n \in 1..(Len(w) - 1) : v[n] = w[1 + n]
  <2>1. 1 \in 0..Len(w)
    BY <1>1
  <2>2. /\ Len(SubSeq(w, 1 + 1, Len(w))) = Len(w) - 1
        /\ \A i \in 1..(Len(w) - 1) : SubSeq(w, 1 + 1, Len(w))[i] = w[1 + i]
    BY <2>1, DropProperties
  <2>3. 1 + 1 = 2
    OBVIOUS
  <2> QED
    BY <2>2, <2>3
<1> HIDE DEF v
<1>4. ASSUME Waits(v, u) PROVE Waits(w, u) /\ u # w[1]
  <2>1. PICK n \in 1..(Len(w) - 1) : v[n] = u
    BY <1>3, <1>4 DEF Waits
  <2>2. u = w[1 + n] /\ 1 + n \in 1..Len(w) /\ 1 + n # 1 /\ 1 \in 1..Len(w)
    BY <1>1, <1>3, <2>1
  <2> QED
    BY <2>2 DEF Waits
<1>5. ASSUME Waits(w, u), u # w[1] PROVE Waits(v, u)
  <2>1. PICK n \in 1..Len(w) : w[n] = u
    BY <1>5 DEF Waits
  <2>2. n - 1 \in 1..(Len(w) - 1) /\ 1 + (n - 1) = n
    BY <1>1, <1>5, <2>1
  <2>3. v[n - 1] = u
    BY <1>3, <2>1, <2>2
  <2> QED
    BY <1>3, <2>2, <2>3 DEF Waits
<1> QED
  BY <1>4, <1>5 DEF v

-----------------------------------------------------------------------------
(***************************************************************************)
(* Consequences of the invariant                                           *)
(***************************************************************************)

\* Nobody is in a queue twice, nor in the queue of a partition he owns.
LEMMA QueueFacts ==
  ASSUME IInv, NEW p \in Parts
  PROVE  /\ waiters[p] \in Seq(Threads)
         /\ \A m, n \in 1..Len(waiters[p]) : waiters[p][m] = waiters[p][n] => m = n
         /\ owner[p] = NoTxn => waiters[p] = <<>>
         /\ \A t \in Threads : owner[p] = t => p \notin Queued(t)
<1>1. waiters[p] \in Seq(Threads) /\ owner[p] \in Threads \cup {NoTxn}
  BY DEF IInv, PlockTypeOK
<1>2. \A k \in 1..Len(waiters[p]) : waiters[p][k] \in Threads
  BY <1>1, ElementOfSeq
<1>3. \A t \in Threads : ts[t] \in Nat
  BY DEF IInv, PlockTypeOK
<1>4. Len(waiters[p]) \in Nat
  BY <1>1, LenProperties
<1>5. \A m, n \in 1..Len(waiters[p]) : waiters[p][m] = waiters[p][n] => m = n
  <2> SUFFICES ASSUME NEW m \in 1..Len(waiters[p]), NEW n \in 1..Len(waiters[p]),
                      waiters[p][m] = waiters[p][n], m # n
               PROVE  FALSE
    OBVIOUS
  <2>1. m < n \/ n < m
    BY <1>4
  <2>2. ts[waiters[p][m]] < ts[waiters[p][n]] \/ ts[waiters[p][n]] < ts[waiters[p][m]]
    BY <2>1 DEF IInv, WaitForOlder, Ordered
  <2>3. ts[waiters[p][m]] \in Nat
    BY <1>2, <1>3
  <2> QED
    BY <2>2, <2>3
<1>6. ASSUME owner[p] = NoTxn PROVE waiters[p] = <<>>
  <2>1. ~(1 \in 1..Len(waiters[p]))
    BY <1>6 DEF IInv, WaitForOlder
  <2>2. Len(waiters[p]) = 0
    BY <1>4, <2>1
  <2> QED
    BY <1>1, <2>2, EmptySeq
<1>7. ASSUME NEW t \in Threads, owner[p] = t, p \in Queued(t) PROVE FALSE
  <2>1. PICK k \in 1..Len(waiters[p]) : waiters[p][k] = t
    BY <1>7 DEF Queued, Waits
  <2>2. ts[t] < ts[t]
    BY <1>7, <2>1 DEF IInv, WaitForOlder
  <2> QED
    BY <1>3, <2>2
<1> QED
  BY <1>1, <1>5, <1>6, <1>7

\* The set of partitions a transaction waits for is finite.
LEMMA QueuedFinite ==
  ASSUME NEW t
  PROVE  IsFiniteSet(Queued(t)) /\ Cardinality(Queued(t)) \in Nat
<1>1. Queued(t) \subseteq Parts
  BY DEF Queued
<1>2. IsFiniteSet(Parts)
  BY PlockAssumption
<1>3. IsFiniteSet(Queued(t))
  BY <1>1, <1>2, FS_Subset
<1> QED
  BY <1>3, FS_CardinalityType

\* The partitions of a query are different partitions.
LEMMA PartsFacts ==
  ASSUME IInv, NEW t \in Threads
  PROVE  /\ parts[t] \in Seq(Parts)
         /\ \A k, n \in 1..Len(parts[t]) : parts[t][k] = parts[t][n] => k = n
         /\ \A k \in 1..Len(parts[t]) : parts[t][k] \in Parts
         /\ Len(parts[t]) \in Nat /\ asked[t] \in Nat /\ released[t] \in Nat
         /\ released[t] <= asked[t] /\ asked[t] <= Len(parts[t])
<1>1. parts[t] \in PartLists \cup {<<>>} /\ asked[t] \in Nat /\ released[t] \in Nat
  BY DEF IInv, PlockTypeOK
<1>2. /\ parts[t] \in Seq(Parts)
      /\ \A k, n \in 1..Len(parts[t]) : parts[t][k] = parts[t][n] => k = n
  <2>1. CASE parts[t] \in PartLists
    BY PlockAssumption, <2>1
  <2>2. CASE parts[t] = <<>>
    BY <2>2
  <2> QED
    BY <1>1, <2>1, <2>2
<1>3. \A k \in 1..Len(parts[t]) : parts[t][k] \in Parts
  BY <1>2, ElementOfSeq
<1>4. Len(parts[t]) \in Nat
  BY <1>2, LenProperties
<1>5. released[t] <= asked[t] /\ asked[t] <= Len(parts[t])
  BY DEF IInv, Counters
<1> QED
  BY <1>1, <1>2, <1>3, <1>4, <1>5

\* Plock::lock asks for one more partition.
LEMMA HeldAsks ==
  ASSUME IInv, NEW t \in Threads, AsksPart(t),
         asked' = [asked EXCEPT ![t] = @ + 1], UNCHANGED <<parts, released>>
  PROVE  /\ Wanted(t) \in Parts
         /\ Wanted(t) \notin Held(t)
         /\ Held(t)' = Held(t) \cup {Wanted(t)}
         /\ \A u \in Threads : u # t => Held(u)' = Held(u)
<1> DEFINE a == asked[t]  l == parts[t]
<1>1. /\ Len(l) \in Nat /\ a \in Nat /\ released[t] = 0
      /\ \A k, n \in 1..Len(l) : l[k] = l[n] => k = n
      /\ \A k \in 1..Len(l) : l[k] \in Parts
  BY PartsFacts DEF IInv, Counters, AsksPart
<1>2. a < Len(l)
  BY DEF AsksPart
<1>3. Wanted(t) = l[a + 1] /\ Held(t) = {l[k] : k \in 1..a}
  BY <1>1 DEF Wanted, Held
<1>4. asked'[t] = a + 1 /\ \A u \in Threads : u # t => asked'[u] = asked[u]
  BY DEF IInv, PlockTypeOK
<1>5. Held(t)' = {l[k] : k \in 1..(a + 1)}
  BY <1>1, <1>4 DEF Held
<1>6. \A u \in Threads : u # t => Held(u)' = Held(u)
  BY <1>4 DEF Held
<1> HIDE DEF a, l
<1>7. l[a + 1] \in Parts /\ l[a + 1] \notin {l[k] : k \in 1..a}
  BY <1>1, <1>2
<1>8. {l[k] : k \in 1..(a + 1)} = {l[k] : k \in 1..a} \cup {l[a + 1]}
  BY <1>1
<1> QED
  BY <1>3, <1>5, <1>6, <1>7, <1>8

\* PartMan::unlock is called for one more partition.
LEMMA HeldReleases ==
  ASSUME IInv, NEW t \in Threads, Releases(t),
         released' = [released EXCEPT ![t] = @ + 1], UNCHANGED <<parts, asked>>
  PROVE  /\ Left(t) \in Parts
         /\ Left(t) \in Held(t)
         /\ Held(t)' = Held(t) \ {Left(t)}
         /\ \A u \in Threads : u # t => Held(u)' = Held(u)
<1> DEFINE a == asked[t]  b == released[t]  l == parts[t]
<1>1. /\ Len(l) \in Nat /\ a \in Nat /\ b \in Nat /\ a <= Len(l)
      /\ \A k, n \in 1..Len(l) : l[k] = l[n] => k = n
      /\ \A k \in 1..Len(l) : l[k] \in Parts
  BY PartsFacts
<1>2. b < a
  BY DEF Releases
<1>3. Left(t) = l[b + 1] /\ Held(t) = {l[k] : k \in (b + 1)..a}
  BY DEF Left, Held
<1>4. released'[t] = b + 1 /\ \A u \in Threads : u # t => released'[u] = released[u]
  BY DEF IInv, PlockTypeOK
<1>5. Held(t)' = {l[k] : k \in (b + 1 + 1)..a}
  BY <1>4 DEF Held
<1>6. \A u \in Threads : u # t => Held(u)' = Held(u)
  BY <1>4 DEF Held
<1> HIDE DEF a, b, l
<1>7. l[b + 1] \in Parts /\ l[b + 1] \in {l[k] : k \in (b + 1)..a}
  BY <1>1, <1>2
<1>8. {l[k] : k \in (b + 1 + 1)..a} = {l[k] : k \in (b + 1)..a} \ {l[b + 1]}
  <2>1. ASSUME NEW k \in (b + 1 + 1)..a PROVE l[k] \in {l[n] : n \in (b + 1)..a} \ {l[b + 1]}
    BY <1>1, <1>2
  <2>2. ASSUME NEW k \in (b + 1)..a, l[k] # l[b + 1] PROVE l[k] \in {l[n] : n \in (b + 1 + 1)..a}
    <3>1. k # b + 1
      BY <2>2
    <3>2. k \in (b + 1 + 1)..a
      BY <1>1, <3>1
    <3> QED
      BY <3>2
  <2> QED
    BY <2>1, <2>2
<1> QED
  BY <1>3, <1>5, <1>6, <1>7, <1>8

-----------------------------------------------------------------------------
(***************************************************************************)
(* The steps that leave the lock table alone                               *)
(***************************************************************************)

\* What does not depend on where the threads are.
LEMMA TableKept ==
  ASSUME IInv, UNCHANGED <<tableVars, queryVars, asked, released>>
  PROVE  /\ Table' /\ WaitForOlder' /\ Counts'
         /\ \A u \in Threads : Held(u)' = Held(u)
<1>1. UNCHANGED <<owner, waiters, ready_part, ts, timestamp, parts, asked, released>>
  BY DEF tableVars, queryVars
<1>2. Table'
  BY <1>1 DEF IInv, Table, Queued, Held, Waits
<1>3. WaitForOlder'
  BY <1>1 DEF IInv, WaitForOlder, Ordered
<1>4. Counts'
  BY <1>1 DEF IInv, Counts, Queued, Waits
<1>5. \A u \in Threads : Held(u)' = Held(u)
  BY <1>1 DEF Held
<1> QED
  BY <1>2, <1>3, <1>4, <1>5

\* The end of run_txn.
LEMMA RunTxnStep ==
  ASSUME IInv, NEW t \in Threads, RunTxn(t)
  PROVE  IInv'
<1>1. UNCHANGED <<owner, waiters, ready_part, ts, timestamp, parts, asked, released>>
  BY DEF RunTxn, tableVars, queryVars
<1>2. pc[t] = "run" /\ pc' = [pc EXCEPT ![t] = "unlock"]
  BY DEF RunTxn, Goto
<1>3. Table' /\ WaitForOlder' /\ Counts' /\ \A u \in Threads : Held(u)' = Held(u)
  BY TableKept DEF RunTxn
<1>4. PlockTypeOK'
  BY <1>1, <1>2 DEF IInv, PlockTypeOK
<1>5. Counters'
  BY <1>1, <1>2 DEF IInv, PlockTypeOK, Counters
<1>6. Stamps'
  BY <1>1, <1>2 DEF IInv, PlockTypeOK, Stamps
<1>7. Owns'
  BY <1>1, <1>2, <1>3 DEF IInv, PlockTypeOK, Owns
<1> QED
  BY <1>3, <1>4, <1>5, <1>6, <1>7 DEF IInv

\* A refusal.
LEMMA LockRefusedStep ==
  ASSUME IInv, NEW t \in Threads, LockRefused(t)
  PROVE  IInv'
<1>1. UNCHANGED <<owner, waiters, ready_part, ts, timestamp, parts, asked, released>>
  BY DEF LockRefused, tableVars, queryVars
<1>2. pc[t] = "lock" /\ pc' = [pc EXCEPT ![t] = "undo"]
  BY DEF LockRefused, AsksPart, Goto
<1>3. Table' /\ WaitForOlder' /\ Counts' /\ \A u \in Threads : Held(u)' = Held(u)
  BY TableKept DEF LockRefused
<1>4. PlockTypeOK'
  BY <1>1, <1>2 DEF IInv, PlockTypeOK
<1>5. Counters'
  BY <1>1, <1>2 DEF IInv, PlockTypeOK, Counters
<1>6. Stamps'
  BY <1>1, <1>2 DEF IInv, PlockTypeOK, Stamps
<1>7. Owns'
  BY <1>1, <1>2, <1>3 DEF IInv, PlockTypeOK, Owns
<1> QED
  BY <1>3, <1>4, <1>5, <1>6, <1>7 DEF IInv

\* ready_part is seen to be 0: the transaction is in no queue, so it owns all it holds.
LEMMA LockEndsStep ==
  ASSUME IInv, NEW t \in Threads, LockEnds(t)
  PROVE  IInv'
<1>1. UNCHANGED <<owner, waiters, ready_part, ts, timestamp, parts, asked, released>>
  BY DEF LockEnds, tableVars, queryVars
<1>2. pc[t] = "lock" /\ pc' = [pc EXCEPT ![t] = "run"] /\ asked[t] = Len(parts[t])
  BY DEF LockEnds, Goto
<1>3. Table' /\ WaitForOlder' /\ Counts' /\ \A u \in Threads : Held(u)' = Held(u)
  BY TableKept DEF LockEnds
<1>4. PlockTypeOK'
  BY <1>1, <1>2 DEF IInv, PlockTypeOK
<1>5. Counters'
  BY <1>1, <1>2 DEF IInv, PlockTypeOK, Counters
<1>6. Stamps'
  BY <1>1, <1>2 DEF IInv, PlockTypeOK, Stamps
<1>7. Owns'
  <2>1. Cardinality(Queued(t)) <= 0
    BY DEF LockEnds, IInv, Counts
  <2>2. Cardinality(Queued(t)) = 0
    BY <2>1, QueuedFinite
  <2>3. Queued(t) = {}
    BY <2>2, QueuedFinite, FS_EmptySet
  <2>4. \A p \in Held(t) : p \in Parts
    BY PartsFacts DEF Held
  <2>5. \A p \in Held(t) : owner[p] = t
    BY <2>3, <2>4 DEF IInv, Table
  <2> QED
    BY <1>1, <1>2, <1>3, <2>5 DEF IInv, PlockTypeOK, Owns
<1> QED
  BY <1>3, <1>4, <1>5, <1>6, <1>7 DEF IInv

\* All partitions are released.
LEMMA UnlockEndsStep ==
  ASSUME IInv, NEW t \in Threads, UnlockEnds(t)
  PROVE  IInv'
<1>1. UNCHANGED <<owner, waiters, ready_part, ts, timestamp, parts, asked, released>>
  BY DEF UnlockEnds, tableVars, queryVars
<1>2. pc' = [pc EXCEPT ![t] = "idle"] /\ released[t] = asked[t]
  BY DEF UnlockEnds, Goto
<1>3. Table' /\ WaitForOlder' /\ Counts' /\ \A u \in Threads : Held(u)' = Held(u)
  BY TableKept DEF UnlockEnds
<1>4. PlockTypeOK'
  BY <1>1, <1>2 DEF IInv, PlockTypeOK
<1>5. Counters'
  BY <1>1, <1>2 DEF IInv, PlockTypeOK, Counters
<1>6. Stamps'
  BY <1>1, <1>2 DEF IInv, PlockTypeOK, Stamps
<1>7. Owns'
  BY <1>1, <1>2, <1>3 DEF IInv, PlockTypeOK, Owns
<1> QED
  BY <1>3, <1>4, <1>5, <1>6, <1>7 DEF IInv

\* A new query: its thread is at no partition, so that its new timestamp disturbs no queue.
LEMMA NewQueryStep ==
  ASSUME IInv, NEW t \in Threads, NEW l \in PartLists, NewPartQuery(t, l)
  PROVE  IInv'
<1>1. UNCHANGED <<owner, waiters, ready_part>>
  BY DEF NewPartQuery, tableVars
<1>2. /\ pc[t] = "idle"
      /\ timestamp' = timestamp + 1
      /\ ts' = [ts EXCEPT ![t] = timestamp + 1]
      /\ parts' = [parts EXCEPT ![t] = l]
      /\ asked' = [asked EXCEPT ![t] = 0]
      /\ released' = [released EXCEPT ![t] = 0]
      /\ pc' = [pc EXCEPT ![t] = "lock"]
  BY DEF NewPartQuery, Goto
<1>3. PlockTypeOK'
  BY <1>1, <1>2 DEF IInv, PlockTypeOK
<1>4. Held(t) = {}
  <2>1. asked[t] \in Nat /\ released[t] = asked[t]
    BY <1>2 DEF IInv, PlockTypeOK, Counters
  <2>2. (released[t] + 1)..asked[t] = {}
    BY <2>1
  <2> QED
    BY <2>2 DEF Held
<1>5. Held(t)' = {}
  <2>1. asked'[t] = 0 /\ released'[t] = 0
    BY <1>2 DEF IInv, PlockTypeOK
  <2>2. (released'[t] + 1)..asked'[t] = {}
    BY <2>1
  <2> QED
    BY <2>2 DEF Held
<1>6. \A u \in Threads : u # t => Held(u)' = Held(u)
  BY <1>2 DEF Held, IInv, PlockTypeOK
<1>7. \A u \in Threads : Queued(u)' = Queued(u)
  BY <1>1 DEF Queued, Waits
<1>8. Table'
  BY <1>1, <1>4, <1>5, <1>6, <1>7 DEF IInv, Table
<1>9. Counts'
  BY <1>1, <1>7 DEF IInv, Counts
<1>10. Counters'
  <2>1. Len(l) \in Nat
    BY PlockAssumption, LenProperties
  <2> QED
    BY <1>2, <2>1 DEF IInv, PlockTypeOK, Counters
<1>11. Stamps'
  BY <1>2 DEF IInv, PlockTypeOK, Stamps
<1>12. Owns'
  BY <1>1, <1>2, <1>5, <1>6 DEF IInv, PlockTypeOK, Owns
<1>13. WaitForOlder'
  <2> SUFFICES ASSUME NEW p \in Parts
               PROVE  /\ \A k \in 1..Len(waiters[p]) :
                           owner[p] # NoTxn /\ ts'[owner[p]] < ts'[waiters[p][k]]
                      /\ \A k, n \in 1..Len(waiters[p]) :
                           k < n => ts'[waiters[p][k]] < ts'[waiters[p][n]]
    BY <1>1 DEF WaitForOlder, Ordered
  <2>1. owner[p] # t /\ p \notin Queued(t)
    BY <1>4 DEF IInv, Table
  <2>2. \A k \in 1..Len(waiters[p]) : waiters[p][k] \in Threads /\ waiters[p][k] # t
    BY <2>1, QueueFacts, ElementOfSeq DEF Queued, Waits
  <2>3. \A u \in Threads : u # t => ts'[u] = ts[u]
    BY <1>2 DEF IInv, PlockTypeOK
  <2>4. owner[p] \in Threads \cup {NoTxn}
    BY DEF IInv, PlockTypeOK
  <2> QED
    BY <2>1, <2>2, <2>3, <2>4 DEF IInv, WaitForOlder, Ordered
<1> QED
  BY <1>3, <1>8, <1>9, <1>10, <1>11, <1>12, <1>13 DEF IInv

-----------------------------------------------------------------------------
(***************************************************************************)
(* The order of the queues                                                 *)
(***************************************************************************)

\* The insertion in PartMan::lock keeps a queue in timestamp order.
LEMMA InsertOrdered ==
  ASSUME NEW w \in Seq(Threads), NEW p \in 1..(Len(w) + 1), NEW t \in Threads,
         ts \in [Threads -> Nat], Ordered(w), Position(w, t, p),
         \A k \in 1..Len(w) : ts[w[k]] # ts[t]
  PROVE  Ordered(InsertAt(w, p, t))
<1> DEFINE v == InsertAt(w, p, t)
<1>1. Len(v) = Len(w) + 1
  BY InsertAtLen
<1>2. \A k \in 1..(Len(w) + 1) : v[k] = IF k < p THEN w[k] ELSE IF k = p THEN t ELSE w[k - 1]
  BY InsertAtElement
<1> HIDE DEF v
<1>3. Len(w) \in Nat /\ \A k \in 1..Len(w) : ts[w[k]] \in Nat
  BY LenProperties, ElementOfSeq
<1>4. ts[t] \in Nat
  OBVIOUS
<1>5. \A k \in 1..Len(w) : k >= p => ts[t] < ts[w[k]]
  BY <1>3, <1>4 DEF Position
<1>6. \A k \in 1..Len(w) : k < p => ts[w[k]] < ts[t]
  <2> SUFFICES ASSUME NEW k \in 1..Len(w), k < p PROVE ts[w[k]] < ts[t]
    OBVIOUS
  <2>1. p - 1 \in 1..Len(w) /\ (k = p - 1 \/ k < p - 1)
    BY <1>3
  <2>2. ts[w[p - 1]] < ts[t]
    BY <1>3, <1>4, <2>1 DEF Position
  <2>3. CASE k = p - 1
    BY <2>2, <2>3
  <2>4. CASE k < p - 1
    <3>1. ts[w[k]] < ts[w[p - 1]]
      BY <2>1, <2>4 DEF Ordered
    <3> QED
      BY <1>3, <1>4, <2>1, <2>2, <3>1
  <2> QED
    BY <2>1, <2>3, <2>4
<1>7. ASSUME NEW k \in 1..(Len(w) + 1), NEW n \in 1..(Len(w) + 1), k < n
      PROVE  ts[v[k]] < ts[v[n]]
  <2>1. CASE n < p
    <3>1. k \in 1..Len(w) /\ n \in 1..Len(w) /\ v[k] = w[k] /\ v[n] = w[n]
      BY <1>2, <1>3, <1>7, <2>1
    <3> QED
      BY <1>7, <3>1 DEF Ordered
  <2>2. CASE n = p
    <3>1. k \in 1..Len(w) /\ v[k] = w[k] /\ v[n] = t /\ k < p
      BY <1>2, <1>3, <1>7, <2>2
    <3> QED
      BY <1>6, <3>1
  <2>3. CASE n > p /\ k < p
    <3>1. k \in 1..Len(w) /\ n - 1 \in 1..Len(w) /\ k < n - 1
      BY <1>3, <2>3
    <3>2. v[k] = w[k] /\ v[n] = w[n - 1]
      BY <1>2, <2>3
    <3> QED
      BY <3>1, <3>2 DEF Ordered
  <2>4. CASE n > p /\ k = p
    <3>1. n - 1 \in 1..Len(w) /\ n - 1 >= p
      BY <1>3, <2>4
    <3>2. v[k] = t /\ v[n] = w[n - 1]
      BY <1>2, <2>4
    <3> QED
      BY <1>5, <3>1, <3>2
  <2>5. CASE n > p /\ k > p
    <3>1. k - 1 \in 1..Len(w) /\ n - 1 \in 1..Len(w) /\ k - 1 < n - 1
      BY <1>3, <1>7, <2>5
    <3>2. v[k] = w[k - 1] /\ v[n] = w[n - 1]
      BY <1>2, <2>5
    <3> QED
      BY <3>1, <3>2 DEF Ordered
  <2> QED
    BY <1>3, <2>1, <2>2, <2>3, <2>4, <2>5
<1>8. Ordered(v)
  BY <1>1, <1>7 DEF Ordered
<1> QED
  BY <1>8 DEF v

\* Taking a transaction off a queue keeps the order of the others.
LEMMA RemoveOrdered ==
  ASSUME NEW w \in Seq(Threads), NEW k \in 1..Len(w), Ordered(w)
  PROVE  Ordered(RemoveAt(w, k))
<1> DEFINE v == RemoveAt(w, k)
<1>1. /\ Len(v) = Len(w) - 1
      /\ \A n \in 1..(Len(w) - 1) : v[n] = IF n < k THEN w[n] ELSE w[n + 1]
  BY RemoveAtProperties
<1> HIDE DEF v
<1>2. Len(w) \in Nat
  BY LenProperties
<1>3. ASSUME NEW m \in 1..(Len(w) - 1), NEW n \in 1..(Len(w) - 1), m < n
      PROVE  ts[v[m]] < ts[v[n]]
  <2> DEFINE i == IF m < k THEN m ELSE m + 1
             j == IF n < k THEN n ELSE n + 1
  <2>1. v[m] = w[i] /\ v[n] = w[j]
    BY <1>1
  <2>2. i \in 1..Len(w) /\ j \in 1..Len(w) /\ i < j
    BY <1>2, <1>3
  <2> HIDE DEF i, j
  <2> QED
    BY <2>1, <2>2 DEF Ordered
<1>4. Ordered(v)
  BY <1>1, <1>3 DEF Ordered
<1> QED
  BY <1>4 DEF v

\* The first waiter of a queue is the oldest; the others stay in order.
LEMMA TailOrdered ==
  ASSUME NEW w \in Seq(Threads), w # <<>>, Ordered(w)
  PROVE  /\ SubSeq(w, 2, Len(w)) \in Seq(Threads)
         /\ Ordered(SubSeq(w, 2, Len(w)))
         /\ w[1] \in Threads
         /\ \A k \in 1..Len(SubSeq(w, 2, Len(w))) : ts[w[1]] < ts[SubSeq(w, 2, Len(w))[k]]
<1>1. Len(w) \in Nat /\ Len(w) >= 1
  BY EmptySeq, LenProperties
<1> DEFINE v == SubSeq(w, 2, Len(w))
<1>2. v \in Seq(Threads) /\ Len(v) = Len(w) - 1 /\ \A n \in 1..(Len(w) - 1) : v[n] = w[1 + n]
  <2>1. 1 \in 0..Len(w)
    BY <1>1
  <2>2. /\ SubSeq(w, 1 + 1, Len(w)) \in Seq(Threads)
        /\ Len(SubSeq(w, 1 + 1, Len(w))) = Len(w) - 1
        /\ \A i \in 1..(Len(w) - 1) : SubSeq(w, 1 + 1, Len(w))[i] = w[1 + i]
    BY <2>1, DropProperties
  <2>3. 1 + 1 = 2
    OBVIOUS
  <2> QED
    BY <2>2, <2>3
<1> HIDE DEF v
<1>3. w[1] \in Threads
  BY <1>1, ElementOfSeq
<1>4. \A n \in 1..(Len(w) - 1) : 1 \in 1..Len(w) /\ 1 + n \in 1..Len(w) /\ 1 < 1 + n
  BY <1>1
<1>5. \A k \in 1..Len(v) : ts[w[1]] < ts[v[k]]
  BY <1>2, <1>4 DEF Ordered
<1>6. Ordered(v)
  <2> SUFFICES ASSUME NEW m \in 1..(Len(w) - 1), NEW n \in 1..(Len(w) - 1), m < n
               PROVE  ts[v[m]] < ts[v[n]]
    BY <1>2 DEF Ordered
  <2>1. 1 + m < 1 + n
    BY <1>1
  <2> QED
    BY <1>2, <1>4, <2>1 DEF Ordered
<1> QED
  BY <1>2, <1>3, <1>5, <1>6 DEF v

-----------------------------------------------------------------------------
(***************************************************************************)
(* PartMan::lock                                                           *)
(***************************************************************************)

\* A free partition is granted: it has no waiters to be older than.
LEMMA LockGrantedStep ==
  ASSUME IInv, NEW t \in Threads, LockGranted(t)
  PROVE  IInv'
<1> DEFINE p == Wanted(t)
<1>1. /\ AsksPart(t) /\ owner[p] = NoTxn
      /\ owner' = [owner EXCEPT ![p] = t]
      /\ asked' = [asked EXCEPT ![t] = @ + 1]
      /\ UNCHANGED <<waiters, ready_part, ts, timestamp, parts, pc, released>>
  BY DEF LockGranted, queryVars
<1>2. /\ p \in Parts /\ p \notin Held(t)
      /\ Held(t)' = Held(t) \cup {p}
      /\ \A u \in Threads : u # t => Held(u)' = Held(u)
  BY <1>1, HeldAsks
<1> HIDE DEF p
<1>3. PlockTypeOK'
  BY <1>1, <1>2 DEF IInv, PlockTypeOK
<1>4. Counters'
  BY <1>1, PartsFacts, SMTT(30) DEF IInv, PlockTypeOK, Counters, AsksPart
<1>5. Stamps'
  BY <1>1 DEF IInv, Stamps
<1>6. \A u \in Threads : Queued(u)' = Queued(u)
  BY <1>1 DEF Queued, Waits
<1>7. Counts'
  BY <1>1, <1>6 DEF IInv, Counts
<1>8. owner'[p] = t /\ \A q \in Parts : q # p => owner'[q] = owner[q]
  BY <1>1, <1>2 DEF IInv, PlockTypeOK
<1>9. NoTxn \notin Threads
  BY PlockAssumption
<1>10. Table'
  BY <1>1, <1>2, <1>6, <1>8, <1>9 DEF IInv, Table
<1>11. Owns'
  BY <1>1, <1>2, <1>8, <1>9 DEF IInv, Owns, AsksPart
<1>12. WaitForOlder'
  <2>1. waiters[p] = <<>>
    BY <1>1, <1>2, QueueFacts
  <2>2. Len(waiters[p]) = 0
    BY <2>1
  <2> QED
    BY <1>1, <1>8, <2>2 DEF IInv, WaitForOlder, Ordered
<1> QED
  BY <1>3, <1>4, <1>5, <1>7, <1>10, <1>11, <1>12 DEF IInv

\* The transaction is queued behind all that are older, and counts one queue more.
LEMMA LockQueuedStep ==
  ASSUME IInv, NEW t \in Threads, LockQueued(t)
  PROVE  IInv'
<1> DEFINE p == Wanted(t)
           w == waiters[p]
<1>1. /\ AsksPart(t)
      /\ owner[p] # NoTxn /\ ts[owner[p]] < ts[t]
      /\ ready_part' = [ready_part EXCEPT ![t] = @ + 1]
      /\ asked' = [asked EXCEPT ![t] = @ + 1]
      /\ UNCHANGED <<owner, ts, timestamp, parts, pc, released>>
  BY DEF LockQueued, queryVars
<1>2. PICK i \in 1..(Len(w) + 1) :
        /\ Position(w, t, i)
        /\ waiters' = [waiters EXCEPT ![p] = InsertAt(w, i, t)]
  BY DEF LockQueued
<1>3. /\ p \in Parts /\ p \notin Held(t)
      /\ Held(t)' = Held(t) \cup {p}
      /\ \A u \in Threads : u # t => Held(u)' = Held(u)
  BY <1>1, HeldAsks
<1> HIDE DEF p
<1>4. w \in Seq(Threads)
  BY <1>3, QueueFacts
<1>5. InsertAt(w, i, t) \in Seq(Threads)
  BY <1>4, InsertAtProperties
<1>6. \A u : Waits(InsertAt(w, i, t), u) <=> Waits(w, u) \/ u = t
  BY <1>4, InsertWaits
<1>7. \A k \in 1..Len(w) : w[k] \in Threads /\ p \in Queued(w[k])
  BY <1>3, <1>4, ElementOfSeq DEF Queued, Waits
<1>8. p \notin Queued(t)
  BY <1>3 DEF IInv, Table
<1>9. Ordered(InsertAt(w, i, t))
  <2>1. ts \in [Threads -> Nat] /\ Ordered(w)
    BY <1>3 DEF IInv, PlockTypeOK, WaitForOlder
  <2>2. ASSUME NEW k \in 1..Len(w) PROVE ts[w[k]] # ts[t]
    <3>1. w[k] # t /\ w[k] \in Threads
      BY <1>7, <1>8
    <3>2. ts[t] > 0
      BY <1>1 DEF IInv, Stamps, AsksPart
    <3> QED
      BY <2>1, <3>1, <3>2 DEF IInv, Stamps
  <2> QED
    BY <1>2, <1>4, <2>1, <2>2, InsertOrdered
<1>10. waiters'[p] = InsertAt(w, i, t) /\ \A q \in Parts : q # p => waiters'[q] = waiters[q]
  BY <1>2, <1>3 DEF IInv, PlockTypeOK
<1>11. PlockTypeOK'
  <2>1. waiters' \in [Parts -> Seq(Threads)]
    <3> DEFINE v == InsertAt(w, i, t)
    <3>1. v \in Seq(Threads) /\ waiters' = [waiters EXCEPT ![p] = v]
      BY <1>2, <1>5
    <3> HIDE DEF v
    <3>2. waiters \in [Parts -> Seq(Threads)]
      BY DEF IInv, PlockTypeOK
    <3> QED
      BY <3>1, <3>2
  <2>2. ready_part' \in [Threads -> Int] /\ asked' \in [Threads -> Nat]
    BY <1>1 DEF IInv, PlockTypeOK
  <2>3. PlockTypeOK /\ UNCHANGED <<owner, ts, timestamp, parts, pc, released>>
    BY <1>1 DEF IInv
  <2> QED
    BY <2>1, <2>2, <2>3 DEF PlockTypeOK
<1>12. Counters'
  <2>1. /\ asked' = [asked EXCEPT ![t] = asked[t] + 1] /\ asked \in [Threads -> Nat]
        /\ pc' = pc /\ parts' = parts /\ released' = released
    BY <1>1 DEF IInv, PlockTypeOK
  <2>2. /\ pc[t] = "lock" /\ asked[t] < Len(parts[t])
        /\ asked[t] \in Nat /\ released[t] \in Nat /\ Len(parts[t]) \in Nat
    BY <1>1, PartsFacts DEF AsksPart
  <2>3. Counters
    BY DEF IInv
  <2> QED
    BY <2>1, <2>2, <2>3 DEF Counters
<1>13. Stamps'
  BY <1>1 DEF IInv, Stamps
<1>14. Queued(t)' = Queued(t) \cup {p}
  BY <1>3, <1>6, <1>10 DEF Queued
<1>15. \A u \in Threads : u # t => Queued(u)' = Queued(u)
  BY <1>3, <1>6, <1>10 DEF Queued
<1>16. Table'
  BY <1>1, <1>3, <1>14, <1>15 DEF IInv, Table
<1>17. Counts'
  <2>1. Cardinality(Queued(t) \cup {p}) = Cardinality(Queued(t)) + 1
    BY <1>8, QueuedFinite, FS_AddElement
  <2>2. ready_part'[t] = ready_part[t] + 1 /\ \A u \in Threads : u # t => ready_part'[u] = ready_part[u]
    BY <1>1 DEF IInv, PlockTypeOK
  <2> QED
    BY <1>14, <1>15, <2>1, <2>2 DEF IInv, Counts
<1>18. Owns'
  BY <1>1, <1>3 DEF IInv, Owns, AsksPart
<1>19. WaitForOlder'
  <2>1. ASSUME NEW k \in 1..Len(InsertAt(w, i, t))
        PROVE  owner[p] # NoTxn /\ ts[owner[p]] < ts[InsertAt(w, i, t)[k]]
    <3>1. Waits(InsertAt(w, i, t), InsertAt(w, i, t)[k])
      BY DEF Waits
    <3>2. Waits(w, InsertAt(w, i, t)[k]) \/ InsertAt(w, i, t)[k] = t
      BY <1>6, <3>1
    <3> QED
      BY <1>1, <1>3, <3>2 DEF IInv, WaitForOlder, Waits
  <2>2. \A q \in Parts : q # p => /\ \A k \in 1..Len(waiters'[q]) :
                                      owner'[q] # NoTxn /\ ts'[owner'[q]] < ts'[waiters'[q][k]]
                                 /\ Ordered(waiters[q])
    BY <1>1, <1>10 DEF IInv, WaitForOlder
  <2>3. \A q \in Parts : Ordered(waiters'[q])
    BY <1>9, <1>10, <2>2
  <2>4. \A q \in Parts : Ordered(waiters[q])'
    BY <1>1, <2>3 DEF Ordered
  <2> QED
    BY <1>1, <1>10, <2>1, <2>2, <2>4 DEF WaitForOlder
<1> QED
  BY <1>11, <1>12, <1>13, <1>16, <1>17, <1>18, <1>19 DEF IInv

-----------------------------------------------------------------------------
(***************************************************************************)
(* PartMan::unlock                                                         *)
(***************************************************************************)

\* A partition without waiters becomes free.
LEMMA FreeStep ==
  ASSUME IInv, NEW t \in Threads, HandOver(t), waiters[Left(t)] = <<>>
  PROVE  IInv'
<1> DEFINE p == Left(t)
<1>1. /\ Releases(t) /\ owner[p] = t
      /\ owner' = [owner EXCEPT ![p] = NoTxn]
      /\ released' = [released EXCEPT ![t] = @ + 1]
      /\ UNCHANGED <<waiters, ready_part, ts, timestamp, parts, pc, asked>>
  BY DEF HandOver, queryVars
<1>2. /\ p \in Parts /\ p \in Held(t)
      /\ Held(t)' = Held(t) \ {p}
      /\ \A u \in Threads : u # t => Held(u)' = Held(u)
  BY <1>1, HeldReleases
<1>3. waiters[p] = <<>> /\ p \notin Queued(t)
  BY <1>1, <1>2, QueueFacts
<1> HIDE DEF p
<1>4. PlockTypeOK'
  BY <1>1, <1>2 DEF IInv, PlockTypeOK
<1>5. Counters'
  BY <1>1, PartsFacts DEF IInv, PlockTypeOK, Counters, Releases
<1>6. Stamps'
  BY <1>1 DEF IInv, Stamps
<1>7. \A u \in Threads : Queued(u)' = Queued(u)
  BY <1>1 DEF Queued, Waits
<1>8. Counts'
  BY <1>1, <1>7 DEF IInv, Counts
<1>9. owner'[p] = NoTxn /\ \A q \in Parts : q # p => owner'[q] = owner[q]
  BY <1>1, <1>2 DEF IInv, PlockTypeOK
<1>10. NoTxn \notin Threads
  BY PlockAssumption
<1>11. Table'
  BY <1>1, <1>2, <1>3, <1>7, <1>9, <1>10 DEF IInv, Table
<1>12. \A u \in Threads : \A q \in Held(u) : q \in Parts
  BY PartsFacts DEF Held
<1>13. Owns'
  BY <1>1, <1>2, <1>9, <1>12 DEF IInv, Owns
<1>14. WaitForOlder'
  <2>1. Len(waiters[p]) = 0
    BY <1>3
  <2> QED
    BY <1>1, <1>9, <2>1 DEF IInv, WaitForOlder, Ordered
<1> QED
  BY <1>4, <1>5, <1>6, <1>8, <1>11, <1>13, <1>14 DEF IInv

\* The oldest waiter takes over, unseen by the transaction that queued it.
LEMMA HandOverStep ==
  ASSUME IInv, NEW t \in Threads, HandOver(t), waiters[Left(t)] # <<>>
  PROVE  IInv'
<1> DEFINE p == Left(t)
           w == waiters[p]
           h == w[1]
           v == SubSeq(w, 2, Len(w))
<1>1. /\ Releases(t) /\ owner[p] = t
      /\ owner' = [owner EXCEPT ![p] = h]
      /\ waiters' = [waiters EXCEPT ![p] = v]
      /\ ready_part' = [ready_part EXCEPT ![h] = @ - 1]
      /\ released' = [released EXCEPT ![t] = @ + 1]
      /\ UNCHANGED <<ts, timestamp, parts, pc, asked>>
  BY DEF HandOver, queryVars
<1>2. /\ p \in Parts /\ p \in Held(t)
      /\ Held(t)' = Held(t) \ {p}
      /\ \A u \in Threads : u # t => Held(u)' = Held(u)
  BY <1>1, HeldReleases
<1>3. /\ w \in Seq(Threads) /\ w # <<>>
      /\ \A m, n \in 1..Len(w) : w[m] = w[n] => m = n
      /\ p \notin Queued(t)
  BY <1>1, <1>2, QueueFacts
<1>4. Ordered(w)
  BY <1>2 DEF IInv, WaitForOlder
<1>5. /\ v \in Seq(Threads) /\ Ordered(v) /\ h \in Threads
      /\ \A k \in 1..Len(v) : ts[h] < ts[v[k]]
  BY <1>3, <1>4, TailOrdered
<1>6. \A u : Waits(v, u) <=> Waits(w, u) /\ u # h
  BY <1>3, TailWaits
<1>7. Waits(w, h)
  <2>1. 1 \in 1..Len(w)
    BY <1>3, EmptySeq, LenProperties
  <2> QED
    BY <2>1 DEF Waits
<1>8. p \in Queued(h) /\ h # t
  BY <1>2, <1>3, <1>7 DEF Queued
<1>9. \A u : Waits(waiters[p], u) <=> Waits(w, u)
  OBVIOUS
<1> HIDE DEF p, w, h, v
<1>10. PlockTypeOK'
  BY <1>1, <1>2, <1>5, SMTT(30) DEF IInv, PlockTypeOK
<1>11. Counters'
  BY <1>1, PartsFacts, SMTT(30) DEF IInv, PlockTypeOK, Counters, Releases
<1>12. Stamps'
  BY <1>1 DEF IInv, Stamps
<1>13. owner'[p] = h /\ \A q \in Parts : q # p => owner'[q] = owner[q]
  BY <1>1, <1>2 DEF IInv, PlockTypeOK
<1>14. waiters'[p] = v /\ \A q \in Parts : q # p => waiters'[q] = waiters[q]
  BY <1>1, <1>2 DEF IInv, PlockTypeOK
<1>15. \A u \in Threads : u = h => Queued(u)' = Queued(u) \ {p}
  BY <1>6, <1>14 DEF Queued
<1>16. \A u \in Threads : u # h => Queued(u)' = Queued(u)
  BY <1>2, <1>6, <1>9, <1>14 DEF Queued
<1>17. Table'
  <2> SUFFICES ASSUME NEW u \in Threads, NEW q \in Parts
               PROVE  (owner'[q] = u \/ q \in Queued(u)') <=> q \in Held(u)'
    BY DEF Table
  <2>1. (owner[q] = u \/ q \in Queued(u)) <=> q \in Held(u)
    BY DEF IInv, Table
  <2>2. CASE q # p
    BY <1>2, <1>13, <1>15, <1>16, <2>1, <2>2
  <2>3. CASE q = p /\ u = h
    BY <1>2, <1>8, <1>13, <2>1, <2>3
  <2>4. CASE q = p /\ u = t
    BY <1>2, <1>3, <1>8, <1>13, <1>16, <2>4
  <2>5. CASE q = p /\ u # h /\ u # t
    BY <1>1, <1>2, <1>13, <1>16, <2>1, <2>5
  <2> QED
    BY <2>2, <2>3, <2>4, <2>5
<1>18. Counts'
  <2>1. Cardinality(Queued(h) \ {p}) = Cardinality(Queued(h)) - 1
    BY <1>8, QueuedFinite, FS_RemoveElement
  <2>2. ready_part'[h] = ready_part[h] - 1 /\ \A u \in Threads : u # h => ready_part'[u] = ready_part[u]
    BY <1>1, <1>5 DEF IInv, PlockTypeOK
  <2>3. Counts
    BY DEF IInv
  <2> QED
    BY <1>5, <1>15, <1>16, <2>1, <2>2, <2>3 DEF Counts
<1>19. \A u \in Threads : \A q \in Held(u) : q \in Parts
  BY PartsFacts DEF Held
<1>20. Owns'
  <2> SUFFICES ASSUME NEW u \in Threads, pc[u] \in {"run", "unlock"}, NEW q \in Held(u)'
               PROVE  owner'[q] = u
    BY <1>1 DEF Owns
  <2>1. q \in Held(u) /\ q \in Parts
    BY <1>2, <1>19
  <2>2. owner[q] = u
    BY <2>1 DEF IInv, Owns
  <2>3. q # p
    BY <1>1, <1>2, <2>2
  <2> QED
    BY <1>13, <2>1, <2>2, <2>3
<1>21. WaitForOlder'
  <2> SUFFICES ASSUME NEW q \in Parts
               PROVE  /\ \A k \in 1..Len(waiters'[q]) :
                           owner'[q] # NoTxn /\ ts[owner'[q]] < ts[waiters'[q][k]]
                      /\ \A k, n \in 1..Len(waiters'[q]) :
                           k < n => ts[waiters'[q][k]] < ts[waiters'[q][n]]
    BY <1>1 DEF WaitForOlder, Ordered
  <2>1. NoTxn \notin Threads
    BY PlockAssumption
  <2>2. CASE q = p
    BY <1>5, <1>13, <1>14, <2>1, <2>2 DEF Ordered
  <2>3. CASE q # p
    BY <1>13, <1>14, <2>3 DEF IInv, WaitForOlder, Ordered
  <2> QED
    BY <2>2, <2>3
<1> QED
  BY <1>10, <1>11, <1>12, <1>17, <1>18, <1>20, <1>21 DEF IInv

\* A transaction that gives up leaves a queue.
LEMMA LeaveQueueStep ==
  ASSUME IInv, NEW t \in Threads, LeaveQueue(t)
  PROVE  IInv'
<1> DEFINE p == Left(t)
           w == waiters[p]
<1>1. /\ Releases(t) /\ owner[p] # t
      /\ ready_part' = [ready_part EXCEPT ![t] = @ - 1]
      /\ released' = [released EXCEPT ![t] = @ + 1]
      /\ UNCHANGED <<owner, ts, timestamp, parts, pc, asked>>
  BY DEF LeaveQueue, queryVars
<1>2. PICK i \in 1..Len(w) : w[i] = t /\ waiters' = [waiters EXCEPT ![p] = RemoveAt(w, i)]
  BY DEF LeaveQueue
<1> DEFINE v == RemoveAt(w, i)
<1>3. /\ p \in Parts /\ p \in Held(t)
      /\ Held(t)' = Held(t) \ {p}
      /\ \A u \in Threads : u # t => Held(u)' = Held(u)
  BY <1>1, HeldReleases
<1>4. /\ w \in Seq(Threads)
      /\ \A m, n \in 1..Len(w) : w[m] = w[n] => m = n
  BY <1>3, QueueFacts
<1>5. v \in Seq(Threads)
  BY <1>4, RemoveAtProperties
<1>6. Ordered(v)
  <2>1. Ordered(w)
    BY <1>3 DEF IInv, WaitForOlder
  <2> QED
    BY <1>4, <2>1, RemoveOrdered
<1>7. \A u : Waits(v, u) <=> Waits(w, u) /\ u # t
  <2>1. \A u : Waits(RemoveAt(w, i), u) <=> Waits(w, u) /\ u # w[i]
    BY <1>4, RemoveWaits
  <2> QED
    BY <1>2, <2>1
<1>8. p \in Queued(t)
  BY <1>2, <1>3 DEF Queued, Waits
<1>8a. w = waiters[p]
  OBVIOUS
<1>9. waiters' = [waiters EXCEPT ![p] = v]
  BY <1>2
<1> HIDE DEF p, w, v
<1>10. PlockTypeOK'
  BY <1>1, <1>3, <1>5, <1>9 DEF IInv, PlockTypeOK
<1>11. Counters'
  BY <1>1, PartsFacts, SMTT(30) DEF IInv, PlockTypeOK, Counters, Releases
<1>12. Stamps'
  BY <1>1 DEF IInv, Stamps
<1>13. waiters'[p] = v /\ \A q \in Parts : q # p => waiters'[q] = waiters[q]
  BY <1>3, <1>9 DEF IInv, PlockTypeOK
<1>14. Queued(t)' = Queued(t) \ {p}
  BY <1>3, <1>7, <1>13, <1>8a DEF Queued
<1>15. \A u \in Threads : u # t => Queued(u)' = Queued(u)
  BY <1>3, <1>7, <1>13, <1>8a DEF Queued
<1>16. Table'
  BY <1>1, <1>3, <1>14, <1>15 DEF IInv, Table
<1>17. Counts'
  <2>1. Cardinality(Queued(t) \ {p}) = Cardinality(Queued(t)) - 1
    BY <1>8, QueuedFinite, FS_RemoveElement
  <2>2. ready_part'[t] = ready_part[t] - 1 /\ \A u \in Threads : u # t => ready_part'[u] = ready_part[u]
    BY <1>1 DEF IInv, PlockTypeOK
  <2>3. Counts
    BY DEF IInv
  <2> QED
    BY <1>14, <1>15, <2>1, <2>2, <2>3 DEF Counts
<1>18. Owns'
  BY <1>1, <1>3 DEF IInv, Owns
<1>19. WaitForOlder'
  <2>1. ASSUME NEW k \in 1..Len(v) PROVE owner[p] # NoTxn /\ ts[owner[p]] < ts[v[k]]
    <3>1. Waits(v, v[k])
      BY DEF Waits
    <3>2. Waits(w, v[k])
      BY <1>7, <3>1
    <3> QED
      BY <1>3, <1>8a, <3>2 DEF IInv, WaitForOlder, Waits
  <2> SUFFICES ASSUME NEW q \in Parts
               PROVE  /\ \A k \in 1..Len(waiters'[q]) :
                           owner[q] # NoTxn /\ ts[owner[q]] < ts[waiters'[q][k]]
                      /\ \A k, n \in 1..Len(waiters'[q]) :
                           k < n => ts[waiters'[q][k]] < ts[waiters'[q][n]]
    BY <1>1 DEF WaitForOlder, Ordered
  <2>2. CASE q = p
    BY <1>6, <1>13, <2>1, <2>2 DEF Ordered
  <2>3. CASE q # p
    BY <1>13, <2>3 DEF IInv, WaitForOlder, Ordered
  <2> QED
    BY <2>2, <2>3
<1> QED
  BY <1>10, <1>11, <1>12, <1>16, <1>17, <1>18, <1>19 DEF IInv

-----------------------------------------------------------------------------
(***************************************************************************)
(* The theorems                                                            *)
(***************************************************************************)

\* PartMan::init and the start of the threads.
LEMMA InitIInv ==
  ASSUME PlockInit
  PROVE  IInv
<1>1. PlockTypeOK
  BY DEF PlockInit, PlockTypeOK
<1>0. /\ timestamp = 0
      /\ \A t \in Threads : /\ ts[t] = 0 /\ pc[t] = "idle" /\ asked[t] = 0 /\ released[t] = 0
                            /\ parts[t] = <<>> /\ Len(parts[t]) = 0
  BY DEF PlockInit
<1>2. Counters
  <2>1. ASSUME NEW t \in Threads
        PROVE  released[t] <= asked[t] /\ asked[t] <= Len(parts[t])
    BY <1>0
  <2> QED
    BY <1>0, <2>1 DEF Counters
<1>3. Stamps
  <2>1. ASSUME NEW t \in Threads PROVE ts[t] <= timestamp
    BY <1>0
  <2> QED
    BY <1>0, <2>1 DEF Stamps
<1>4. \A p \in Parts : waiters[p] = <<>> /\ owner[p] = NoTxn /\ Len(waiters[p]) = 0
  BY DEF PlockInit
<1>5. \A t \in Threads : Queued(t) = {} /\ Held(t) = {}
  <2> SUFFICES ASSUME NEW t \in Threads PROVE Queued(t) = {} /\ Held(t) = {}
    OBVIOUS
  <2>1. Queued(t) = {}
    BY <1>4 DEF Queued, Waits
  <2>2. (released[t] + 1)..asked[t] = {}
    BY DEF PlockInit
  <2> QED
    BY <2>1, <2>2 DEF Held
<1>6. Table
  BY PlockAssumption, <1>4, <1>5 DEF Table
<1>7. WaitForOlder
  BY <1>4 DEF WaitForOlder, Ordered
<1>8. Counts
  BY <1>5, FS_EmptySet DEF PlockInit, Counts
<1>9. Owns
  BY <1>5 DEF Owns
<1> QED
  BY <1>1, <1>2, <1>3, <1>6, <1>7, <1>8, <1>9 DEF IInv

\* Every step of every thread preserves the invariant.
LEMMA NextIInv ==
  ASSUME IInv, [PlockNext]_plockVars
  PROVE  IInv'
<1>1. CASE UNCHANGED plockVars
  <2>1. UNCHANGED <<tableVars, queryVars, asked, released>> /\ pc' = pc
    BY <1>1 DEF plockVars, tableVars, queryVars
  <2>2. Table' /\ WaitForOlder' /\ Counts' /\ \A u \in Threads : Held(u)' = Held(u)
    BY <2>1, TableKept
  <2> QED
    BY <1>1, <2>2 DEF plockVars, IInv, PlockTypeOK, Counters, Stamps, Owns
<1>2. CASE PlockAllDone
  BY <1>1, <1>2 DEF PlockAllDone
<1>3. ASSUME NEW t \in Threads, PlockStep(t) PROVE IInv'
  <2>1. CASE \E l \in PartLists : NewPartQuery(t, l)
    BY <2>1, NewQueryStep
  <2>2. CASE LockGranted(t)
    BY <2>2, LockGrantedStep
  <2>3. CASE LockQueued(t)
    BY <2>3, LockQueuedStep
  <2>4. CASE LockRefused(t)
    BY <2>4, LockRefusedStep
  <2>5. CASE LockEnds(t)
    BY <2>5, LockEndsStep
  <2>6. CASE RunTxn(t)
    BY <2>6, RunTxnStep
  <2>7. CASE HandOver(t)
    BY <2>7, FreeStep, HandOverStep
  <2>8. CASE LeaveQueue(t)
    BY <2>8, LeaveQueueStep
  <2>9. CASE UnlockEnds(t)
    BY <2>9, UnlockEndsStep
  <2> QED
    BY <1>3, <2>1, <2>2, <2>3, <2>4, <2>5, <2>6, <2>7, <2>8, <2>9 DEF PlockStep
<1> QED
  BY <1>1, <1>2, <1>3 DEF PlockNext

\* The invariant implies the properties of Plock.
LEMMA IInvImplies ==
  ASSUME IInv
  PROVE  PlockTypeOK /\ BooksBalance /\ WaitForOlder /\ OwnsWhatItUses
<1>1. ASSUME NEW t \in Threads, pc[t] = "run", NEW k \in 1..Len(parts[t])
      PROVE  owner[parts[t][k]] = t
  <2>1. released[t] = 0 /\ asked[t] = Len(parts[t])
    BY <1>1 DEF IInv, Counters
  <2>2. parts[t][k] \in Held(t)
    BY <2>1 DEF Held
  <2> QED
    BY <1>1, <2>2 DEF IInv, Owns
<1> QED
  BY <1>1 DEF IInv, BooksBalance, Table, Counts, OwnsWhatItUses

\* The invariant holds in every reachable state of the partition locks, for any
\* threads, partitions, queries and number of transactions.
THEOREM PlockInvariant == PlockSpec => []IInv
<1>1. PlockInit => IInv
  BY InitIInv
<1>2. IInv /\ [PlockNext]_plockVars => IInv'
  BY NextIInv
<1> QED
  BY <1>1, <1>2, PTL DEF PlockSpec

\* PartMan and Plock keep their variables in their types.
THEOREM PlockTypes == PlockSpec => []PlockTypeOK
<1>1. PlockSpec => []IInv
  BY PlockInvariant
<1>2. IInv => PlockTypeOK
  BY IInvImplies
<1> QED
  BY <1>1, <1>2, PTL

\* ready_part is always the number of queues its transaction is in, and a transaction
\* is known exactly where PartMan::lock put it and PartMan::unlock did not take it off:
\* the asserts of plock.cpp on ready_part and find cannot fail.
THEOREM PlockBooksBalance == PlockSpec => []BooksBalance
<1>1. PlockSpec => []IInv
  BY PlockInvariant
<1>2. IInv => BooksBalance
  BY IInvImplies
<1> QED
  BY <1>1, <1>2, PTL

\* Waits always go from younger to older transactions, so that PartMan's queues are
\* never part of a cycle and the assert of PartMan::unlock on their order cannot fail.
THEOREM PlockWaitForOlder == PlockSpec => []WaitForOlder
<1>1. PlockSpec => []IInv
  BY PlockInvariant
<1>2. IInv => WaitForOlder
  BY IInvImplies
<1> QED
  BY <1>1, <1>2, PTL

\* A transaction that Plock::lock lets run owns all its partitions.
THEOREM PlockOwnership == PlockSpec => []OwnsWhatItUses
<1>1. PlockSpec => []IInv
  BY PlockInvariant
<1>2. IInv => OwnsWhatItUses
  BY IInvImplies
<1> QED
  BY <1>1, <1>2, PTL

=============================================================================
