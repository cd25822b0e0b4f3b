----------------------------- MODULE OccProofs ------------------------------
(***************************************************************************)
(* Optimistic concurrency control for every number of threads, rows and    *)
(* transactions: with per-row validation transactions take effect in the   *)
(* order of their end_ts, with either form no two of them write the same   *)
(* row at once, and N transactions take 2 N timestamps at most.            *)
(***************************************************************************)
EXTENDS Occ, SequenceLemmas

\* What is assumed of the constants.
Constants ==
  /\ Modes \subseteq Mode
  /\ Queries \subseteq Seq(Request)
  /\ NoTxn \notin Threads

-----------------------------------------------------------------------------
(***************************************************************************)
(* The inductive invariant                                                 *)
(***************************************************************************)
Contents == Nat \cup {Torn}
AnyAccess == [row: Rows, type: {"RD", "WR"}, read: Contents]
AnyEntry == [ts: Nat, end: Nat, reads: SUBSET (Rows \X Contents), writes: SUBSET Rows]
PC == {"idle", "exec", "latch", "central", "write", "copy", "release", "leave", "drop"}

\* The types that the argument needs: TypeOK without the bounds on timestamps.
Typed ==
  /\ mode \in Mode
  /\ data \in [Rows -> Contents]
  /\ wts \in [Rows -> Nat]
  /\ latch \in [Rows -> Threads \cup {NoTxn}]
  /\ timestamp \in Nat
  /\ start_ts \in [Threads -> Nat]
  /\ end_ts \in [Threads -> Nat]
  /\ pc \in [Threads -> PC]
  /\ query \in [Threads -> Queries \cup {<<>>}]
  /\ accesses \in [Threads -> Seq(AnyAccess)]
  /\ idx \in [Threads -> Nat]
  /\ hist \subseteq AnyEntry

\* Where t is in validation and in cleanup.
Place(t) ==
  /\ pc[t] \in {"latch", "write", "copy"} => idx[t] <= Len(accesses[t])
  /\ pc[t] = "copy" => idx[t] > 0 /\ accesses[t][idx[t]].type = "WR"
  /\ pc[t] \in {"latch", "release"} => PerRow
  /\ pc[t] \in {"central", "leave", "drop"} => ~PerRow

\* The latches t has taken.
Latched(t) ==
  PerRow =>
    /\ pc[t] = "latch" => \A i \in 1..idx[t] : latch[accesses[t][i].row] = t
    /\ pc[t] \in {"write", "copy"} => \A i \in 1..Len(accesses[t]) : latch[accesses[t][i].row] = t

\* Timestamps come from one counter.
Stamps ==
  /\ \A t \in Threads : start_ts[t] <= timestamp
  /\ PerRow => \A f \in hist : f.end <= timestamp

\* Central validation: who writes is in the list of the active transactions.
Listed(t) ==
  ~PerRow /\ pc[t] \in {"write", "copy"} /\ WriteSet(t) # {} => t \in active

\* t has passed validation and has not written row r yet.
Pending(t, r) ==
  pc[t] \in {"write", "copy"} /\ \E i \in 1..idx[t] : accesses[t][i].type = "WR" /\ accesses[t][i].row = r

\* The last of those that passed validation and write r is x, with end_ts e; if
\* there is none, x is the loader.
Newest(r, x, e) ==
  \/ x = 0 /\ e = 0 /\ \A f \in hist : r \notin f.writes
  \/ \E f \in hist : /\ r \in f.writes /\ f.ts = x /\ f.end = e
                     /\ \A g \in hist : r \in g.writes /\ g # f => g.end < e

\* A row has the newest version and its end_ts, or is still to be written.
Versions ==
  PerRow => \A r \in Rows :
    /\ (\A t \in Threads : ~Pending(t, r)) => Newest(r, data[r], wts[r])
    /\ \A t \in Threads : Pending(t, r) => Newest(r, start_ts[t], end_ts[t])

\* What was read of r is the newest version, or a newer one is more recent than the
\* start of t.
Fresh(r, x) == \E e \in Nat : Newest(r, x, e)
Stale(t, r) == \E f \in hist : r \in f.writes /\ f.end > start_ts[t]

\* What t has read; what it has latched can not become stale any more.
Read(t) ==
  PerRow =>
    /\ pc[t] \in {"exec", "latch"} => \A i \in 1..Len(accesses[t]) :
         \/ Fresh(accesses[t][i].row, accesses[t][i].read)
         \/ Stale(t, accesses[t][i].row)
    /\ pc[t] = "latch" => \A i \in 1..idx[t] : Fresh(accesses[t][i].row, accesses[t][i].read)

OccInv ==
  /\ Typed /\ Stamps /\ Versions /\ EndTsOrder /\ WritersDisjoint
  /\ \A t \in Threads : Place(t) /\ Latched(t) /\ Listed(t) /\ Read(t)

-----------------------------------------------------------------------------
(***************************************************************************)
(* Types                                                                   *)
(***************************************************************************)

\* A step of t leaves what other transactions keep for themselves alone.
Local(t) ==
  /\ mode' = mode
  /\ \A u \in Threads : u # t =>
       /\ pc'[u] = pc[u] /\ query'[u] = query[u] /\ accesses'[u] = accesses[u]
       /\ idx'[u] = idx[u] /\ start_ts'[u] = start_ts[u] /\ end_ts'[u] = end_ts[u]

LEMMA AccessOf ==
  ASSUME NEW s \in Seq(AnyAccess), NEW i \in 1..Len(s)
  PROVE  /\ s[i] \in AnyAccess /\ s[i].row \in Rows /\ s[i].type \in {"RD", "WR"}
         /\ s[i].read \in Contents
<1>1. s[i] \in AnyAccess
  BY ElementOfSeq
<1> QED
  BY <1>1 DEF AnyAccess

LEMMA Locals ==
  ASSUME Typed, NEW t \in Threads
  PROVE  /\ accesses[t] \in Seq(AnyAccess) /\ Len(accesses[t]) \in Nat
         /\ DOMAIN accesses[t] = 1..Len(accesses[t])
         /\ idx[t] \in Nat /\ start_ts[t] \in Nat /\ end_ts[t] \in Nat
         /\ \A i \in 1..Len(accesses[t]) :
              /\ accesses[t][i].row \in Rows /\ accesses[t][i].type \in {"RD", "WR"}
              /\ accesses[t][i].read \in Contents
<1>1. accesses[t] \in Seq(AnyAccess) /\ idx[t] \in Nat /\ start_ts[t] \in Nat /\ end_ts[t] \in Nat
  BY DEF Typed
<1>2. Len(accesses[t]) \in Nat /\ DOMAIN accesses[t] = 1..Len(accesses[t])
  BY <1>1
<1> QED
  BY <1>1, <1>2, AccessOf

\* The request get_row is called with.
LEMMA ReqType ==
  ASSUME Constants, Typed, NEW t \in Threads, Asks(t)
  PROVE  Req(t).row \in Rows /\ Req(t).type \in {"RD", "WR"}
<1>1. Len(accesses[t]) \in Nat /\ Len(accesses[t]) < Len(query[t])
  BY Locals DEF Asks
<1>2. query[t] \in Seq(Request)
  BY EmptySeq DEF Constants, Typed
<1>3. Len(accesses[t]) + 1 \in 1..Len(query[t])
  BY <1>1, <1>2
<1>4. Req(t) \in Request
  BY <1>2, <1>3, ElementOfSeq DEF Req
<1> QED
  BY <1>4 DEF Request

\* The sort permutes the accesses.
LEMMA Sorted ==
  ASSUME Typed, NEW t \in Threads, StartValidate(t), PerRow
  PROVE  /\ accesses' \in [Threads -> Seq(AnyAccess)]
         /\ \A u \in Threads : u # t => accesses'[u] = accesses[u]
         /\ \A i \in 1..Len(accesses'[t]) :
              \E j \in 1..Len(accesses[t]) : accesses'[t][i] = accesses[t][j]
<1>1. accesses \in [Threads -> Seq(AnyAccess)] /\ Len(accesses[t]) \in Nat
      /\ DOMAIN accesses[t] = 1..Len(accesses[t])
  BY Locals DEF Typed
<1>2. PICK p \in SetToSeqs(DOMAIN accesses[t]) :
        accesses' = [accesses EXCEPT ![t] = [i \in DOMAIN p |-> accesses[t][p[i]]]]
  BY DEF StartValidate
<1>3. DOMAIN accesses[t] \in SUBSET Nat /\ IsFiniteSet(DOMAIN accesses[t])
  BY <1>1, PositionsFinite
<1>4. p \in Seq(Nat) /\ Len(p) \in Nat /\ \A k \in 1..Len(p) : p[k] \in 1..Len(accesses[t])
  BY <1>1, <1>3, SetToSeqsProperties
<1> DEFINE s == [i \in DOMAIN p |-> accesses[t][p[i]]]
<1>5. s \in Seq(AnyAccess) /\ Len(s) = Len(p) /\ \A i \in 1..Len(p) : s[i] = accesses[t][p[i]]
  <2>1. DOMAIN p = 1..Len(p)
    BY <1>4
  <2>2. \A i \in 1..Len(p) : s[i] = accesses[t][p[i]] /\ s[i] \in AnyAccess
    BY <1>1, <1>4, <2>1, AccessOf
  <2>3. s \in [1..Len(p) -> AnyAccess]
    BY <2>1, <2>2
  <2> HIDE DEF s
  <2> QED
    BY <1>4, <2>2, <2>3
<1> HIDE DEF s
<1>6. accesses' = [accesses EXCEPT ![t] = s]
  BY <1>2 DEF s
<1> QED
  BY <1>1, <1>4, <1>5, <1>6

LEMMA WriteSetRows ==
  ASSUME Typed, NEW t \in Threads
  PROVE  WriteSet(t) \subseteq Rows
BY Locals DEF WriteSet

LEMMA TypeStep ==
  ASSUME Constants, Typed, NEW t \in Threads, Place(t), Step(t)
  PROVE  Typed' /\ Local(t)
<1> USE DEF Goto, rowVars, tsVars, centralVars
<1>p. \A s \in PC : [pc EXCEPT ![t] = s] \in [Threads -> PC]
  BY DEF Typed
<1>n. \A n \in Nat : n + 1 \in Nat
  OBVIOUS
<1>e. <<>> \in Seq(AnyAccess)
  BY EmptySeq
<1>h. ASSUME NEW n \in Nat, Validated(t, n) PROVE hist' \subseteq AnyEntry
  <2>1. {<<accesses[t][i].row, accesses[t][i].read>> : i \in DOMAIN accesses[t]} \subseteq Rows \X Contents
    BY Locals
  <2>2. WriteSet(t) \in SUBSET Rows /\ start_ts[t] \in Nat
    BY Locals, WriteSetRows
  <2> QED
    BY <1>h, <2>1, <2>2 DEF Validated, AnyEntry, Typed
<1>1. ASSUME NEW q \in Queries, NewQuery(t, q) PROVE Typed' /\ Local(t)
  <2>1. timestamp + 1 \in Nat
    BY DEF Typed
  <2> QED
    BY <1>1, <1>p, <1>e, <2>1, ZenonT(30) DEF NewQuery, Typed, Local, PC
<1>2. CASE ReadRow(t)
  <2> DEFINE a == [row |-> Req(t).row, type |-> Req(t).type, read |-> data[Req(t).row]]
  <2>1. a \in AnyAccess
    BY <1>2, ReqType DEF ReadRow, Typed, AnyAccess
  <2>2. accesses' = [accesses EXCEPT ![t] = Append(accesses[t], a)]
    BY <1>2 DEF ReadRow
  <2> HIDE DEF a
  <2>3. Append(accesses[t], a) \in Seq(AnyAccess)
    BY <2>1, Locals
  <2>4. /\ accesses' \in [Threads -> Seq(AnyAccess)]
        /\ \A u \in Threads : u # t => accesses'[u] = accesses[u]
    BY <2>2, <2>3 DEF Typed
  <2> QED
    BY <1>2, <2>4 DEF ReadRow, Typed, Local
<1>3. CASE ReadAborts(t)
  BY <1>3, <1>p, ZenonT(30) DEF ReadAborts, Typed, Local, PC
<1>4. CASE StartValidate(t) /\ PerRow
  <2>1. /\ accesses' \in [Threads -> Seq(AnyAccess)]
        /\ \A u \in Threads : u # t => accesses'[u] = accesses[u]
    BY <1>4, Sorted
  <2>2. /\ pc' = [pc EXCEPT ![t] = "latch"] /\ idx' = [idx EXCEPT ![t] = 0]
        /\ UNCHANGED <<mode, rowVars, tsVars, query, hist>>
    BY <1>4 DEF StartValidate
  <2> QED
    BY <1>p, <2>1, <2>2, ZenonT(30) DEF Typed, Local, PC
<1>5. CASE StartValidate(t) /\ ~PerRow
  <2>1. /\ pc' = [pc EXCEPT ![t] = "central"] /\ idx' = [idx EXCEPT ![t] = 0]
        /\ UNCHANGED <<mode, rowVars, tsVars, query, hist, accesses>>
    BY <1>5 DEF StartValidate
  <2> QED
    BY <1>p, <2>1, ZenonT(30) DEF Typed, Local, PC
<1>6. CASE LatchRow(t)
  <2>0. pc' = pc \/ pc' = [pc EXCEPT ![t] = "release"]
    BY <1>6 DEF LatchRow
  <2>1. pc' \in [Threads -> PC] /\ \A u \in Threads : u # t => pc'[u] = pc[u]
    BY <1>p, <2>0 DEF PC, Typed
  <2>2. latch' \in [Rows -> Threads \cup {NoTxn}]
    BY <1>6 DEF LatchRow, Typed
  <2>3. idx' \in [Threads -> Nat] /\ \A u \in Threads : u # t => idx'[u] = idx[u]
    BY <1>6 DEF LatchRow, Typed
  <2> QED
    BY <1>6, <2>1, <2>2, <2>3 DEF LatchRow, Typed, Local
<1>7. CASE TryLatchFails(t)
  BY <1>7, <1>p, ZenonT(30) DEF TryLatchFails, Typed, Local, PC
<1>8. CASE TakeEndTs(t)
  <2>1. timestamp + 1 \in Nat /\ hist' \subseteq AnyEntry
    BY <1>8, <1>h DEF TakeEndTs, Typed
  <2> QED
    BY <1>8, <1>p, <2>1, ZenonT(30) DEF TakeEndTs, Typed, Local, PC
<1>9. CASE StartCopy(t)
  <2>1. data' \in [Rows -> Contents]
    BY <1>9 DEF StartCopy, Typed, Contents
  <2> QED
    BY <1>9, <1>p, <2>1, ZenonT(30) DEF StartCopy, Typed, Local, PC
<1>10. CASE EndCopy(t)
  <2>1. data' \in [Rows -> Contents] /\ wts' \in [Rows -> Nat]
    BY <1>10, Locals DEF EndCopy, Typed, Contents
  <2>2. idx' \in [Threads -> Nat] /\ \A u \in Threads : u # t => idx'[u] = idx[u]
    BY <1>10, Locals DEF EndCopy, Typed, Place
  <2> QED
    BY <1>10, <1>p, <2>1, <2>2, ZenonT(30) DEF EndCopy, Typed, Local, PC
<1>11. CASE SkipRead(t)
  <2>1. idx' \in [Threads -> Nat] /\ \A u \in Threads : u # t => idx'[u] = idx[u]
    BY <1>11, Locals DEF SkipRead, Typed
  <2> QED
    BY <1>11, <2>1, ZenonT(30) DEF SkipRead, Typed, Local
<1>12. CASE WriteDone(t)
  BY <1>12, <1>p DEF WriteDone, Typed, Local, PC
<1>13. CASE ReleaseLatch(t)
  <2>1. latch' \in [Rows -> Threads \cup {NoTxn}]
    BY <1>13 DEF ReleaseLatch, Typed
  <2> QED
    BY <1>13, <2>1 DEF ReleaseLatch, Typed, Local
<1>14. CASE ReleaseDone(t)
  BY <1>14, <1>p, ZenonT(30) DEF ReleaseDone, Typed, Local, PC
<1>15. CASE Enter(t)
  <2>1. hist' \subseteq AnyEntry
    BY <1>15, <1>h DEF Enter, Typed
  <2>2. /\ pc' \in [Threads -> PC] /\ \A u \in Threads : u # t => pc'[u] = pc[u]
    BY <1>15, <1>p DEF Enter, PC, Typed
  <2>3. idx' \in [Threads -> Nat] /\ \A u \in Threads : u # t => idx'[u] = idx[u]
    BY <1>15, Locals DEF Enter, Typed
  <2> QED
    BY <1>15, <2>1, <2>2, <2>3 DEF Enter, Typed, Local
<1>16. CASE Leave(t)
  BY <1>16, <1>p, ZenonT(30) DEF Leave, Typed, Local, PC
<1> QED
  BY <1>1, <1>2, <1>3, <1>4, <1>5, <1>6, <1>7, <1>8, <1>9, <1>10, <1>11, <1>12, <1>13, <1>14,
     <1>15, <1>16 DEF Step

-----------------------------------------------------------------------------
(***************************************************************************)
(* Places, latches and the list of active transactions                     *)
(***************************************************************************)
LEMMA PlaceStep ==
  ASSUME Constants, Typed, NEW t \in Threads, Place(t), Step(t), Local(t)
  PROVE  Place(t)'
<1> USE DEF Goto, Mode
<1>w. pc \in [Threads -> PC] /\ idx \in [Threads -> Nat] /\ idx[t] \in Nat /\ Len(accesses[t]) \in Nat
  BY Locals DEF Typed
<1>m. PerRow' <=> PerRow
  BY DEF Local, PerRow
<1>0. CASE pc'[t] \in {"idle", "exec"}
  BY <1>0 DEF Place
<1>1. CASE pc'[t] = "latch"
  <2>1. CASE LatchRow(t)
    <3>1. PerRow /\ idx'[t] = idx[t] + 1 /\ idx[t] < Len(accesses[t]) /\ accesses' = accesses
      BY <2>1, <1>w DEF LatchRow, Place
    <3> QED
      BY <1>1, <1>m, <1>w, <3>1 DEF Place
  <2>2. CASE StartValidate(t)
    <3>1. PerRow /\ idx'[t] = 0
      BY <1>1, <1>w, <2>2 DEF StartValidate
    <3>2. Len(accesses'[t]) \in Nat
      <4>1. accesses'[t] \in Seq(AnyAccess)
        BY <2>2, <3>1, Sorted
      <4> QED
        BY <4>1
    <3> QED
      BY <1>1, <1>m, <3>1, <3>2 DEF Place
  <2>3. LatchRow(t) \/ StartValidate(t)
    BY <1>1, <1>w, ZenonT(30) DEF Step, NewQuery, ReadRow, Asks, ReadAborts, TryLatchFails, TakeEndTs,
       StartCopy, EndCopy, SkipRead, WriteDone, ReleaseLatch, ReleaseDone, Enter, Leave
  <2> QED
    BY <2>1, <2>2, <2>3
<1>2. CASE pc'[t] \in {"write", "copy"}
  <2>1. CASE TakeEndTs(t) \/ Enter(t)
    <3>1. pc'[t] = "write" /\ idx'[t] = Len(accesses[t]) /\ accesses' = accesses
      BY <1>2, <1>w, <2>1 DEF TakeEndTs, Enter
    <3> QED
      BY <1>w, <3>1 DEF Place
  <2>2. CASE StartCopy(t)
    BY <1>2, <1>w, <2>2 DEF StartCopy, Writes, Place
  <2>3. CASE EndCopy(t) \/ SkipRead(t)
    <3>1. /\ pc[t] \in {"write", "copy"} /\ idx[t] > 0 /\ idx'[t] = idx[t] - 1 /\ pc'[t] = "write"
          /\ accesses' = accesses /\ idx[t] <= Len(accesses[t])
      BY <1>w, <2>3 DEF EndCopy, SkipRead, Place
    <3> QED
      BY <1>w, <3>1 DEF Place
  <2>4. TakeEndTs(t) \/ Enter(t) \/ StartCopy(t) \/ EndCopy(t) \/ SkipRead(t)
    BY <1>2, <1>w, ZenonT(30) DEF Step, NewQuery, ReadRow, Asks, ReadAborts, TryLatchFails, StartValidate,
       LatchRow, WriteDone, ReleaseLatch, ReleaseDone, Leave
  <2> QED
    BY <2>1, <2>2, <2>3, <2>4
<1>3. CASE pc'[t] = "release"
  <2>1. PerRow
    BY <1>3, <1>w, ZenonT(30) DEF Step, NewQuery, ReadRow, Asks, ReadAborts, TryLatchFails, StartValidate,
       LatchRow, WriteDone, ReleaseLatch, ReleaseDone, Leave, TakeEndTs, Enter, StartCopy, EndCopy, SkipRead, Place
  <2> QED
    BY <1>3, <1>m, <2>1 DEF Place
<1>4. CASE pc'[t] \in {"central", "leave", "drop"}
  <2>1. ~PerRow
    BY <1>4, <1>w, ZenonT(30) DEF Step, NewQuery, ReadRow, Asks, ReadAborts, TryLatchFails, StartValidate,
       LatchRow, WriteDone, ReleaseLatch, ReleaseDone, Leave, TakeEndTs, Enter, StartCopy, EndCopy, SkipRead, Place
  <2> QED
    BY <1>4, <1>m, <2>1 DEF Place
<1>5. pc'[t] \in PC
  BY TypeStep DEF Typed
<1> QED
  BY <1>0, <1>1, <1>2, <1>3, <1>4, <1>5 DEF PC

LEMMA PlaceElsewhere ==
  ASSUME NEW t \in Threads, Local(t), NEW u \in Threads, u # t, Place(u)
  PROVE  Place(u)'
BY DEF Local, Place, PerRow

\* Latches are taken when they are free, and given back by their holder on its way out.
LEMMA LatchStep ==
  ASSUME Constants, Typed, NEW t \in Threads, Step(t)
  PROVE  \/ UNCHANGED latch
         \/ /\ LatchRow(t)
            /\ LET r == accesses[t][idx[t] + 1].row IN
                 r \in Rows /\ latch[r] = NoTxn /\ latch' = [latch EXCEPT ![r] = t]
         \/ /\ pc[t] = "release" /\ pc'[t] = "release"
            /\ \E r \in Rows : latch[r] = t /\ latch' = [latch EXCEPT ![r] = NoTxn]
<1>1. CASE LatchRow(t)
  <2>1. idx[t] + 1 \in 1..Len(accesses[t])
    BY <1>1, Locals DEF LatchRow
  <2> QED
    BY <1>1, <2>1, Locals DEF LatchRow
<1>2. CASE ReleaseLatch(t)
  BY <1>2 DEF ReleaseLatch
<1> QED
  BY <1>1, <1>2 DEF Step, NewQuery, ReadRow, ReadAborts, StartValidate, TryLatchFails, TakeEndTs,
     StartCopy, EndCopy, SkipRead, WriteDone, ReleaseDone, Enter, Leave, rowVars

LEMMA LatchedStep ==
  ASSUME Constants, Typed, NEW t \in Threads, Place(t), Step(t), Local(t),
         NEW u \in Threads, Place(u), Latched(u)
  PROVE  Latched(u)'
<1>w. /\ pc \in [Threads -> PC] /\ idx \in [Threads -> Nat] /\ latch \in [Rows -> Threads \cup {NoTxn}]
      /\ NoTxn \notin Threads
  BY DEF Typed, Constants
<1>m. PerRow' <=> PerRow
  BY DEF Local, PerRow
<1>s. SUFFICES ASSUME PerRow PROVE Latched(u)'
  BY <1>m DEF Latched
\* What another transaction has latched stays latched.
<1>1. ASSUME u # t, NEW r \in Rows, latch[r] = u PROVE latch'[r] = u
  BY <1>1, <1>w, LatchStep
<1>2. CASE u # t
  <2>1. /\ pc'[u] = pc[u] /\ accesses'[u] = accesses[u] /\ idx'[u] = idx[u]
    BY <1>2 DEF Local
  <2>2. CASE pc[u] = "latch"
    <3>1. ASSUME NEW i \in 1..idx[u] PROVE latch'[accesses[u][i].row] = u
      <4>1. i \in 1..Len(accesses[u])
        BY <2>2, Locals DEF Place
      <4>2. accesses[u][i].row \in Rows /\ latch[accesses[u][i].row] = u
        BY <1>s, <2>2, <4>1, Locals DEF Latched
      <4> QED
        BY <1>1, <1>2, <4>2
    <3> QED
      BY <2>1, <2>2, <3>1 DEF Latched
  <2>3. CASE pc[u] \in {"write", "copy"}
    <3>1. ASSUME NEW i \in 1..Len(accesses[u]) PROVE latch'[accesses[u][i].row] = u
      <4>2. accesses[u][i].row \in Rows /\ latch[accesses[u][i].row] = u
        BY <1>s, <2>3, Locals DEF Latched
      <4> QED
        BY <1>1, <1>2, <4>2
    <3> QED
      BY <2>1, <2>3, <3>1 DEF Latched
  <2> QED
    BY <2>1, <2>2, <2>3 DEF Latched
<1>3. CASE u = t
  <2>1. CASE LatchRow(t)
    <3> DEFINE r == accesses[t][idx[t] + 1].row
    <3>1. /\ pc[t] = "latch" /\ r \in Rows /\ latch[r] = NoTxn /\ latch' = [latch EXCEPT ![r] = t]
          /\ accesses' = accesses /\ idx'[t] = idx[t] + 1 /\ idx[t] \in Nat /\ idx[t] < Len(accesses[t])
      <4>1. r \in Rows
        <5>1. idx[t] + 1 \in 1..Len(accesses[t])
          BY <2>1, Locals DEF LatchRow
        <5> QED
          BY <5>1, Locals
      <4> QED
        BY <2>1, <4>1, <1>w DEF LatchRow
    <3>2. pc'[t] \in {"latch", "release"}
      BY <2>1, <1>w DEF LatchRow, Goto
    <3>3. ASSUME NEW i \in 1..(idx[t] + 1) PROVE latch'[accesses[t][i].row] = t
      <4>1. CASE i = idx[t] + 1
        BY <3>1, <4>1, <1>w
      <4>2. CASE i \in 1..idx[t]
        <5>1. i \in 1..Len(accesses[t])
          BY <3>1, <4>2, Locals
        <5>2. accesses[t][i].row \in Rows /\ latch[accesses[t][i].row] = t
          BY <1>s, <1>3, <3>1, <4>2, <5>1, Locals DEF Latched
        <5> QED
          BY <3>1, <5>2, <1>w
      <4> QED
        BY <3>1, <4>1, <4>2
    <3> QED
      BY <1>3, <3>1, <3>2, <3>3 DEF Latched
  <2>2. CASE StartValidate(t)
    <3>1. idx'[t] = 0 /\ pc'[t] = "latch"
      BY <1>s, <2>2, <1>w DEF StartValidate, Goto
    <3> QED
      BY <1>3, <3>1 DEF Latched
  <2>3. CASE TakeEndTs(t)
    <3>1. pc[t] = "latch" /\ idx[t] = Len(accesses[t]) /\ accesses' = accesses /\ latch' = latch /\ pc'[t] = "write"
      BY <2>3, <1>w DEF TakeEndTs, Goto, rowVars
    <3> QED
      BY <1>3, <1>s, <3>1 DEF Latched
  <2>4. CASE StartCopy(t) \/ EndCopy(t) \/ SkipRead(t)
    <3>1. pc[t] \in {"write", "copy"} /\ accesses' = accesses /\ latch' = latch /\ pc'[t] \in {"write", "copy"}
      BY <2>4, <1>w DEF StartCopy, EndCopy, SkipRead, Goto, rowVars
    <3> QED
      BY <1>3, <1>s, <3>1 DEF Latched
  <2>5. CASE ~LatchRow(t) /\ ~StartValidate(t) /\ ~TakeEndTs(t) /\ ~StartCopy(t) /\ ~EndCopy(t) /\ ~SkipRead(t)
    <3>1. pc[t] # "central"
      BY <1>s DEF Place
    <3>2. pc'[t] \notin {"latch", "write", "copy"}
      BY <2>5, <3>1, <1>w, ZenonT(30) DEF Step, NewQuery, ReadRow, Asks, ReadAborts, TryLatchFails,
         WriteDone, ReleaseLatch, ReleaseDone, Enter, Leave, Goto
    <3> QED
      BY <1>3, <3>2 DEF Latched
  <2> QED
    BY <2>1, <2>2, <2>3, <2>4, <2>5
<1> QED
  BY <1>2, <1>3

\* The transactions on their way through write, and the steps they take.
LEMMA WriteStep ==
  ASSUME Typed, NEW t \in Threads, Place(t), Step(t), Local(t), ~PerRow, pc'[t] \in {"write", "copy"}
  PROVE  \/ Enter(t) /\ ActiveValid(t) /\ accesses' = accesses
         \/ /\ pc[t] \in {"write", "copy"} /\ UNCHANGED <<accesses, active>>
<1>w. pc \in [Threads -> PC] /\ pc[t] # "latch"
  BY DEF Typed, Place
<1>1. Enter(t) \/ StartCopy(t) \/ EndCopy(t) \/ SkipRead(t)
  BY <1>w, ZenonT(30) DEF Step, NewQuery, ReadRow, Asks, ReadAborts, TryLatchFails, StartValidate,
     LatchRow, TakeEndTs, WriteDone, ReleaseLatch, ReleaseDone, Leave, Goto
<1>2. CASE Enter(t)
  BY <1>2, <1>w DEF Enter, Goto
<1>3. CASE StartCopy(t) \/ EndCopy(t) \/ SkipRead(t)
  BY <1>3 DEF StartCopy, EndCopy, SkipRead, centralVars
<1> QED
  BY <1>1, <1>2, <1>3

LEMMA ListedStep ==
  ASSUME Typed, NEW t \in Threads, Place(t), Step(t), Local(t), NEW u \in Threads, Listed(u)
  PROVE  Listed(u)'
<1>m. PerRow' <=> PerRow
  BY DEF Local, PerRow
<1> SUFFICES ASSUME ~PerRow, pc'[u] \in {"write", "copy"}, WriteSet(u)' # {} PROVE u \in active'
  BY <1>m DEF Listed
<1>1. CASE u # t
  <2>1. pc'[u] = pc[u] /\ accesses'[u] = accesses[u]
    BY <1>1 DEF Local
  <2>2. WriteSet(u)' = WriteSet(u)
    BY <2>1 DEF WriteSet
  <2>3. u \in active
    BY <2>1, <2>2 DEF Listed
  <2>4. active' = active \/ active' = active \cup {t} \/ active' = active \ {t}
    BY DEF Step, NewQuery, ReadRow, ReadAborts, StartValidate, LatchRow, TryLatchFails, TakeEndTs,
       StartCopy, EndCopy, SkipRead, WriteDone, ReleaseLatch, ReleaseDone, Enter, Leave, centralVars
  <2> QED
    BY <1>1, <2>3, <2>4
<1>2. CASE u = t
  <2>1. accesses' = accesses
    BY <1>2, WriteStep
  <2>2. WriteSet(t)' = WriteSet(t)
    BY <2>1 DEF WriteSet
  <2>3. CASE Enter(t)
    BY <1>2, <2>2, <2>3 DEF Enter
  <2>4. CASE pc[t] \in {"write", "copy"} /\ active' = active
    BY <1>2, <2>2, <2>4 DEF Listed
  <2> QED
    BY <1>2, <2>3, <2>4, WriteStep
<1> QED
  BY <1>1, <1>2

\* The rows that t writes it has latched.
LEMMA WritesLatched ==
  ASSUME Typed, NEW t \in Threads, Latched(t), PerRow, pc[t] \in {"write", "copy"}, NEW r \in WriteSet(t)
  PROVE  latch[r] = t
<1>1. PICK i \in 1..Len(accesses[t]) : accesses[t][i].row = r
  BY Locals DEF WriteSet
<1> QED
  BY <1>1 DEF Latched

LEMMA DisjointStep ==
  ASSUME Typed, Typed', NEW t \in Threads, Step(t), Local(t), WritersDisjoint,
         \A u \in Threads : Place(u) /\ Latched(u)' /\ Listed(u)
  PROVE  WritersDisjoint'
<1>m. PerRow' <=> PerRow
  BY DEF Local, PerRow
<1>1. CASE PerRow
  <2> SUFFICES ASSUME NEW a \in Threads, NEW b \in Threads, a # b,
                      pc'[a] \in {"write", "copy"}, pc'[b] \in {"write", "copy"},
                      NEW r, r \in WriteSet(a)', r \in WriteSet(b)'
               PROVE  FALSE
    BY DEF WritersDisjoint
  <2>1. \A c \in Threads : \A q : Latched(c)' /\ pc'[c] \in {"write", "copy"} /\ q \in WriteSet(c)' => latch'[q] = c
    <3> SUFFICES ASSUME NEW c \in Threads, NEW q, Latched(c)', pc'[c] \in {"write", "copy"}, q \in WriteSet(c)'
                 PROVE  latch'[q] = c
      OBVIOUS
    <3>1. PICK i \in DOMAIN accesses'[c] : accesses'[c][i].row = q
      BY DEF WriteSet
    <3>2. accesses'[c] \in Seq(AnyAccess)
      BY DEF Typed
    <3>3. i \in 1..Len(accesses'[c])
      BY <3>1, <3>2
    <3> QED
      BY <1>1, <1>m, <3>1, <3>3 DEF Latched
  <2> QED
    BY <2>1
<1>2. CASE ~PerRow
  \* The pair of the transaction that has moved and another one.
  <2>1. ASSUME NEW u \in Threads, u # t, pc'[t] \in {"write", "copy"}, pc'[u] \in {"write", "copy"}
        PROVE  WriteSet(t)' \cap WriteSet(u)' = {}
    <3>1. accesses' = accesses
      BY <1>2, <2>1, WriteStep
    <3>2. WriteSet(t)' = WriteSet(t) /\ WriteSet(u)' = WriteSet(u)
      BY <3>1 DEF WriteSet
    <3>3. pc[u] \in {"write", "copy"}
      BY <2>1 DEF Local
    <3>4. CASE ActiveValid(t)
      BY <1>2, <3>2, <3>3, <3>4 DEF Listed, ActiveValid
    <3>5. CASE pc[t] \in {"write", "copy"}
      BY <2>1, <3>2, <3>3, <3>5 DEF WritersDisjoint
    <3> QED
      BY <1>2, <2>1, <3>4, <3>5, WriteStep
  <2>2. ASSUME NEW u \in Threads, u # t
        PROVE  pc'[u] = pc[u] /\ WriteSet(u)' = WriteSet(u)
    BY <2>2 DEF Local, WriteSet
  <2>3. ASSUME NEW a \in Threads, NEW b \in Threads, a # b,
               pc'[a] \in {"write", "copy"}, pc'[b] \in {"write", "copy"}
        PROVE  WriteSet(a)' \cap WriteSet(b)' = {}
    <3>1. CASE a = t
      BY <2>1, <2>3, <3>1
    <3>2. CASE b = t
      <4>1. WriteSet(b)' \cap WriteSet(a)' = {}
        BY <2>1, <2>3, <3>2
      <4> QED
        BY <4>1
    <3>3. CASE a # t /\ b # t
      BY <2>2, <2>3, <3>3 DEF WritersDisjoint
    <3> QED
      BY <3>1, <3>2, <3>3
  <2> QED
    BY <2>3 DEF WritersDisjoint
<1> QED
  BY <1>1, <1>2

-----------------------------------------------------------------------------
(***************************************************************************)
(* The history                                                             *)
(***************************************************************************)

\* In the per-row form the history grows only when an end_ts is taken.
LEMMA HistStep ==
  ASSUME Typed, NEW t \in Threads, Place(t), Step(t), PerRow
  PROVE  TakeEndTs(t) \/ hist' = hist
<1>1. pc[t] # "central"
  BY DEF Place
<1> QED
  BY <1>1 DEF Step, NewQuery, ReadRow, ReadAborts, StartValidate, LatchRow, TryLatchFails,
     StartCopy, EndCopy, SkipRead, WriteDone, ReleaseLatch, ReleaseDone, Enter, Leave

\* What TakeEndTs does to it.
LEMMA NewEntry ==
  ASSUME Typed, NEW t \in Threads, Latched(t), Stamps, PerRow, TakeEndTs(t)
  PROVE  \E e \in AnyEntry :
           /\ hist' = hist \cup {e} /\ e \notin hist
           /\ e.ts = start_ts[t] /\ e.end = timestamp + 1 /\ e.writes = WriteSet(t)
           /\ e.reads = {<<accesses[t][i].row, accesses[t][i].read>> : i \in DOMAIN accesses[t]}
           /\ \A f \in hist : f.end < e.end
<1> DEFINE e == [ts |-> start_ts[t], end |-> timestamp + 1,
    reads |-> {<<accesses[t][i].row, accesses[t][i].read>> : i \in DOMAIN accesses[t]},
    writes |-> WriteSet(t)]
<1>1. hist' = hist \cup {e}
  BY DEF TakeEndTs, Validated
<1>2. e \in AnyEntry
  <2>1. {<<accesses[t][i].row, accesses[t][i].read>> : i \in DOMAIN accesses[t]} \subseteq Rows \X Contents
    BY Locals
  <2>2. WriteSet(t) \in SUBSET Rows /\ start_ts[t] \in Nat /\ timestamp + 1 \in Nat
    BY Locals, WriteSetRows DEF Typed
  <2> QED
    BY <2>1, <2>2 DEF AnyEntry
<1>3. \A f \in hist : f.end < timestamp + 1
  <2>1. \A f \in hist : f.end \in Nat /\ f.end <= timestamp
    BY DEF Stamps, Typed, AnyEntry
  <2> QED
    BY <2>1 DEF Typed
<1>4. timestamp + 1 \in Nat /\ ~(timestamp + 1 < timestamp + 1)
  BY DEF Typed
<1>5. e \notin hist
  BY <1>3, <1>4
<1> QED
  BY <1>1, <1>2, <1>3, <1>5

LEMMA StampsStep ==
  ASSUME Typed, Typed', NEW t \in Threads, Place(t), Latched(t), Step(t), Local(t), Stamps
  PROVE  Stamps' /\ timestamp <= timestamp'
<1>w. timestamp \in Nat /\ timestamp' \in Nat /\ start_ts \in [Threads -> Nat] /\ start_ts' \in [Threads -> Nat]
  BY DEF Typed
<1>1. /\ timestamp' = timestamp \/ timestamp' = timestamp + 1
      /\ start_ts' = start_ts \/ (start_ts' = [start_ts EXCEPT ![t] = timestamp + 1] /\ timestamp' = timestamp + 1)
  BY DEF Step, NewQuery, ReadRow, ReadAborts, StartValidate, LatchRow, TryLatchFails, TakeEndTs,
     StartCopy, EndCopy, SkipRead, WriteDone, ReleaseLatch, ReleaseDone, Enter, Leave, tsVars
<1>2. timestamp <= timestamp'
  BY <1>1, <1>w
<1>3. ASSUME NEW u \in Threads PROVE start_ts'[u] <= timestamp'
  <2>1. start_ts[u] \in Nat /\ start_ts[u] <= timestamp
    BY <1>w DEF Stamps
  <2> QED
    BY <1>1, <1>w, <2>1
<1>4. ASSUME PerRow', NEW f \in hist' PROVE f.end <= timestamp'
  <2>1. PerRow
    BY <1>4 DEF Local, PerRow
  <2>2. \A g \in hist : g.end \in Nat /\ g.end <= timestamp
    BY <2>1 DEF Stamps, Typed, AnyEntry
  <2>3. CASE hist' = hist
    BY <1>2, <1>4, <1>w, <2>2, <2>3
  <2>4. CASE TakeEndTs(t)
    <3>1. PICK e \in AnyEntry : hist' = hist \cup {e} /\ e.end = timestamp + 1
      BY <2>1, <2>4, NewEntry
    <3>2. timestamp' = timestamp + 1
      BY <2>4 DEF TakeEndTs
    <3>3. f \in hist \/ f = e
      BY <1>4, <3>1
    <3> QED
      BY <1>w, <2>2, <3>1, <3>2, <3>3
  <2> QED
    BY <2>1, <2>3, <2>4, HistStep
<1> QED
  BY <1>2, <1>3, <1>4 DEF Stamps

\* The newest version, when a transaction passes validation.
LEMMA NewestAppend ==
  ASSUME NEW e, hist' = hist \cup {e}, e \notin hist, \A f \in hist : f.end < e.end, NEW r
  PROVE  /\ \A x, z : r \notin e.writes /\ Newest(r, x, z) => Newest(r, x, z)'
         /\ \A x, z : r \in e.writes /\ x = e.ts /\ z = e.end => Newest(r, x, z)'
<1>1. ASSUME NEW x, NEW z, r \notin e.writes, Newest(r, x, z) PROVE Newest(r, x, z)'
  BY <1>1 DEF Newest
<1>2. ASSUME NEW x, NEW z, r \in e.writes, x = e.ts, z = e.end PROVE Newest(r, x, z)'
  BY <1>2 DEF Newest
<1> QED
  BY <1>1, <1>2

\* What t is going to write it has latched.
LEMMA PendingLatched ==
  ASSUME Typed, NEW t \in Threads, Place(t), Latched(t), PerRow, NEW r, Pending(t, r)
  PROVE  latch[r] = t /\ r \in Rows
<1>1. PICK i \in 1..idx[t] : accesses[t][i].row = r
  BY DEF Pending
<1>2. i \in 1..Len(accesses[t]) /\ pc[t] \in {"write", "copy"}
  BY <1>1, Locals DEF Place, Pending
<1> QED
  BY <1>1, <1>2, Locals DEF Latched

\* Steps other than TakeEndTs: what stays pending, what is completed, which rows change.
LEMMA PendingStep ==
  ASSUME Typed, NEW t \in Threads, Place(t), Step(t), Local(t), PerRow, ~TakeEndTs(t), NEW r \in Rows
  PROVE  /\ Pending(t, r)' => Pending(t, r) /\ start_ts'[t] = start_ts[t] /\ end_ts'[t] = end_ts[t]
         /\ Pending(t, r) /\ ~Pending(t, r)' =>
              data'[r] = start_ts[t] /\ wts'[r] = end_ts[t]
         /\ ~Pending(t, r) => data'[r] = data[r] /\ wts'[r] = wts[r]
<1>w. /\ pc \in [Threads -> PC] /\ idx \in [Threads -> Nat] /\ idx[t] \in Nat /\ Len(accesses[t]) \in Nat
      /\ data \in [Rows -> Contents] /\ wts \in [Rows -> Nat]
  BY Locals DEF Typed
<1>1. CASE StartCopy(t) \/ EndCopy(t) \/ SkipRead(t)
  <2>1. /\ pc[t] \in {"write", "copy"} /\ pc'[t] \in {"write", "copy"}
        /\ UNCHANGED <<accesses, start_ts, end_ts>>
        /\ idx[t] \in 1..idx[t]
    BY <1>1, <1>w DEF StartCopy, EndCopy, SkipRead, Goto, Writes, Place, tsVars
  <2>2. CASE StartCopy(t)
    <3>1. idx' = idx /\ wts' = wts /\ data' = [data EXCEPT ![accesses[t][idx[t]].row] = Torn]
          /\ accesses[t][idx[t]].type = "WR"
      BY <2>2 DEF StartCopy, Writes
    <3>2. Pending(t, r)' <=> Pending(t, r)
      BY <2>1, <3>1 DEF Pending
    <3>3. accesses[t][idx[t]].row = r => Pending(t, r)
      BY <2>1, <3>1 DEF Pending
    <3> QED
      BY <1>w, <2>1, <3>1, <3>2, <3>3
  <2>3. CASE SkipRead(t)
    <3>1. idx'[t] = idx[t] - 1 /\ accesses[t][idx[t]].type # "WR" /\ UNCHANGED <<data, wts>>
      BY <1>w, <2>3 DEF SkipRead, Writes, rowVars
    <3>2. \A i \in 1..idx[t] : i \in 1..(idx[t] - 1) \/ i = idx[t]
      BY <1>w
    <3>3. \A i \in 1..(idx[t] - 1) : i \in 1..idx[t]
      BY <1>w
    <3>4. Pending(t, r)' <=> Pending(t, r)
      BY <2>1, <3>1, <3>2, <3>3 DEF Pending
    <3> QED
      BY <2>1, <3>1, <3>4
  <2>4. CASE EndCopy(t)
    <3>1. /\ idx'[t] = idx[t] - 1 /\ accesses[t][idx[t]].type = "WR"
          /\ data' = [data EXCEPT ![accesses[t][idx[t]].row] = start_ts[t]]
          /\ wts' = [wts EXCEPT ![accesses[t][idx[t]].row] = end_ts[t]]
      BY <1>w, <2>4 DEF EndCopy, Place
    <3>2. \A i \in 1..idx[t] : i \in 1..(idx[t] - 1) \/ i = idx[t]
      BY <1>w
    <3>3. \A i \in 1..(idx[t] - 1) : i \in 1..idx[t]
      BY <1>w
    <3>4. Pending(t, r)' => Pending(t, r)
      BY <2>1, <3>1, <3>3 DEF Pending
    <3>5. accesses[t][idx[t]].row = r => Pending(t, r)
      BY <2>1, <3>1 DEF Pending
    <3>6. Pending(t, r) /\ ~Pending(t, r)' => accesses[t][idx[t]].row = r
      BY <2>1, <3>1, <3>2 DEF Pending
    <3> QED
      BY <1>w, <2>1, <3>1, <3>4, <3>5, <3>6
  <2> QED
    BY <1>1, <2>2, <2>3, <2>4
<1>2. CASE ~StartCopy(t) /\ ~EndCopy(t) /\ ~SkipRead(t)
  <2>1. UNCHANGED <<data, wts>>
    BY <1>2 DEF Step, NewQuery, ReadRow, ReadAborts, StartValidate, LatchRow, TryLatchFails,
       WriteDone, ReleaseLatch, ReleaseDone, Enter, Leave, rowVars
  <2>2. ~Pending(t, r)'
    <3>1. pc[t] # "central"
      BY DEF Place
    <3>2. pc'[t] \notin {"write", "copy"}
      BY <1>2, <1>w, <3>1, ZenonT(30) DEF Step, NewQuery, ReadRow, Asks, ReadAborts, StartValidate, LatchRow,
         TryLatchFails, WriteDone, ReleaseLatch, ReleaseDone, Enter, Leave, Goto
    <3> QED
      BY <3>2 DEF Pending
  <2>3. ~Pending(t, r)
    <3>1. pc[t] \notin {"write", "copy"} \/ idx[t] = 0
      BY <1>2 DEF Step, NewQuery, ReadRow, Asks, ReadAborts, StartValidate, LatchRow, TryLatchFails,
         WriteDone, ReleaseLatch, ReleaseDone, Enter, Leave
    <3> QED
      BY <3>1 DEF Pending
  <2> QED
    BY <2>1, <2>2, <2>3
<1> QED
  BY <1>1, <1>2

LEMMA PendingElsewhere ==
  ASSUME NEW t \in Threads, Local(t), NEW u \in Threads, u # t, NEW r
  PROVE  (Pending(u, r)' <=> Pending(u, r)) /\ start_ts'[u] = start_ts[u] /\ end_ts'[u] = end_ts[u]
BY DEF Local, Pending

\* What TakeEndTs makes pending.
LEMMA TakeEndTsPending ==
  ASSUME Typed, NEW t \in Threads, TakeEndTs(t), NEW r
  PROVE  (Pending(t, r)' <=> r \in WriteSet(t)) /\ ~Pending(t, r)
<1>1. /\ pc[t] = "latch" /\ pc'[t] = "write" /\ idx'[t] = Len(accesses[t]) /\ accesses' = accesses
  BY DEF TakeEndTs, Goto, Typed
<1> QED
  BY <1>1, Locals DEF Pending, WriteSet

LEMMA VersionsStep ==
  ASSUME Constants, Typed, Typed', NEW t \in Threads, Step(t), Local(t), Stamps, Versions,
         \A u \in Threads : Place(u) /\ Latched(u)
  PROVE  Versions'
<1>m. PerRow' <=> PerRow
  BY DEF Local, PerRow
<1> SUFFICES ASSUME PerRow, NEW r \in Rows
             PROVE  /\ (\A u \in Threads : ~Pending(u, r)') => Newest(r, data[r], wts[r])'
                    /\ \A u \in Threads : Pending(u, r)' => Newest(r, start_ts[u], end_ts[u])'
  BY <1>m DEF Versions
<1>v. /\ (\A u \in Threads : ~Pending(u, r)) => Newest(r, data[r], wts[r])
      /\ \A u \in Threads : Pending(u, r) => Newest(r, start_ts[u], end_ts[u])
  BY DEF Versions
<1>1. CASE ~TakeEndTs(t)
  <2>1. hist' = hist
    BY <1>1, HistStep
  <2>2. \A u \in Threads : Pending(u, r)' =>
          Pending(u, r) /\ start_ts'[u] = start_ts[u] /\ end_ts'[u] = end_ts[u]
    BY <1>1, PendingStep, PendingElsewhere
  <2>3. ASSUME NEW u \in Threads, Pending(u, r)' PROVE Newest(r, start_ts[u], end_ts[u])'
    <3>1. Newest(r, start_ts[u], end_ts[u])
      BY <1>v, <2>2, <2>3
    <3> QED
      BY <2>1, <2>2, <2>3, <3>1 DEF Newest
  <2>4. CASE \A u \in Threads : ~Pending(u, r)
    <3>1. data'[r] = data[r] /\ wts'[r] = wts[r]
      BY <1>1, <2>4, PendingStep
    <3>2. Newest(r, data[r], wts[r])
      BY <1>v, <2>4
    <3>3. Newest(r, data[r], wts[r])'
      BY <2>1, <3>1, <3>2 DEF Newest
    <3> QED
      BY <2>3, <3>3
  <2>5. CASE \E u \in Threads : Pending(u, r) /\ ~Pending(u, r)'
    <3>1. Pending(t, r) /\ ~Pending(t, r)'
      BY <2>5, PendingElsewhere
    <3>2. data'[r] = start_ts[t] /\ wts'[r] = end_ts[t]
      BY <1>1, <3>1, PendingStep
    <3>3. Newest(r, start_ts[t], end_ts[t])
      BY <1>v, <3>1
    <3>4. Newest(r, data[r], wts[r])'
      BY <2>1, <3>2, <3>3 DEF Newest
    <3> QED
      BY <2>3, <3>4
  <2> QED
    BY <2>3, <2>4, <2>5
<1>2. CASE TakeEndTs(t)
  <2>1. PICK e \in AnyEntry :
           /\ hist' = hist \cup {e} /\ e \notin hist
           /\ e.ts = start_ts[t] /\ e.end = timestamp + 1 /\ e.writes = WriteSet(t)
           /\ \A f \in hist : f.end < e.end
    BY <1>2, NewEntry
  <2>2. /\ pc[t] = "latch" /\ idx[t] = Len(accesses[t]) /\ UNCHANGED <<data, wts, start_ts>>
        /\ end_ts'[t] = timestamp + 1
    BY <1>2 DEF TakeEndTs, rowVars, Typed
  <2>3. CASE r \notin WriteSet(t)
    <3>1. \A x, z : Newest(r, x, z) => Newest(r, x, z)'
      BY <2>1, <2>3, NewestAppend
    <3>2. \A u \in Threads : Pending(u, r)' <=> Pending(u, r)
      BY <1>2, <2>3, TakeEndTsPending, PendingElsewhere
    <3>3. ASSUME \A u \in Threads : ~Pending(u, r)' PROVE Newest(r, data[r], wts[r])'
      <4>1. PICK x, z : x = data[r] /\ z = wts[r] /\ Newest(r, x, z)
        BY <1>v, <3>2, <3>3
      <4>2. Newest(r, x, z)' /\ x = data'[r] /\ z = wts'[r]
        BY <2>2, <3>1, <4>1
      <4> QED
        BY <4>2 DEF Newest
    <3>4. ASSUME NEW u \in Threads, Pending(u, r)' PROVE Newest(r, start_ts[u], end_ts[u])'
      <4>0. u # t
        BY <1>2, <2>3, <3>4, TakeEndTsPending
      <4>1. PICK x, z : x = start_ts[u] /\ z = end_ts[u] /\ Newest(r, x, z)
        BY <1>v, <3>2, <3>4
      <4>2. Newest(r, x, z)' /\ x = start_ts'[u] /\ z = end_ts'[u]
        BY <3>1, <4>0, <4>1, PendingElsewhere
      <4> QED
        BY <4>2 DEF Newest
    <3> QED
      BY <3>3, <3>4
  <2>4. CASE r \in WriteSet(t)
    <3>1. latch[r] = t
      <4>1. PICK i \in 1..Len(accesses[t]) : accesses[t][i].row = r
        BY <2>4, Locals DEF WriteSet
      <4> QED
        BY <2>2, <4>1 DEF Latched
    <3>2. ASSUME NEW u \in Threads, u # t PROVE ~Pending(u, r)'
      BY <3>1, <3>2, PendingLatched, PendingElsewhere
    <3>3. Pending(t, r)'
      BY <1>2, <2>4, TakeEndTsPending
    <3>4. \A x, z : x = start_ts[t] /\ z = timestamp + 1 => Newest(r, x, z)'
      BY <2>1, <2>4, NewestAppend
    <3>5. PICK x, z : x = start_ts'[t] /\ z = end_ts'[t] /\ Newest(r, x, z)'
      BY <2>2, <3>4
    <3>6. Newest(r, start_ts[t], end_ts[t])'
      BY <3>5 DEF Newest
    <3> QED
      BY <3>2, <3>3, <3>6
  <2> QED
    BY <2>3, <2>4
<1> QED
  BY <1>1, <1>2

-----------------------------------------------------------------------------
(***************************************************************************)
(* What has been read                                                      *)
(***************************************************************************)

\* What is fresh stays so until somebody else passes validation with a write of it.
LEMMA FreshKept ==
  ASSUME Typed, NEW t \in Threads, Place(t), Latched(t), Stamps, Step(t), PerRow,
         NEW r, NEW x, Fresh(r, x), TakeEndTs(t) => r \notin WriteSet(t)
  PROVE  Fresh(r, x)'
<1>1. PICK z \in Nat : Newest(r, x, z)
  BY DEF Fresh
<1>2. CASE hist' = hist
  BY <1>1, <1>2 DEF Fresh, Newest
<1>3. CASE TakeEndTs(t)
  <2>1. PICK e \in AnyEntry :
           /\ hist' = hist \cup {e} /\ e \notin hist /\ e.writes = WriteSet(t)
           /\ \A f \in hist : f.end < e.end
    BY <1>3, NewEntry
  <2>2. Newest(r, x, z)'
    BY <1>1, <1>3, <2>1, NewestAppend
  <2> QED
    BY <2>2 DEF Fresh
<1> QED
  BY <1>2, <1>3, HistStep

\* Somebody who passes validation later than u has started has a later end_ts.
LEMMA FreshOrStale ==
  ASSUME Typed, NEW t \in Threads, Place(t), Latched(t), Stamps, Step(t), PerRow,
         NEW u \in Threads, start_ts'[u] = start_ts[u], NEW r, NEW x, Fresh(r, x) \/ Stale(u, r)
  PROVE  Fresh(r, x)' \/ Stale(u, r)'
<1>1. CASE TakeEndTs(t) /\ r \in WriteSet(t)
  <2>1. PICK e \in AnyEntry : hist' = hist \cup {e} /\ e.writes = WriteSet(t) /\ e.end = timestamp + 1
    BY <1>1, NewEntry
  <2>2. start_ts[u] \in Nat /\ timestamp \in Nat /\ start_ts[u] <= timestamp
    BY DEF Stamps, Typed
  <2>3. e.end > start_ts'[u]
    BY <2>1, <2>2
  <2> QED
    BY <1>1, <2>1, <2>3 DEF Stale
<1>2. CASE ~(TakeEndTs(t) /\ r \in WriteSet(t)) /\ Fresh(r, x)
  BY <1>2, FreshKept
<1>3. CASE Stale(u, r)
  <2>1. hist \subseteq hist'
    BY NewEntry, HistStep
  <2> QED
    BY <1>3, <2>1 DEF Stale
<1> QED
  BY <1>1, <1>2, <1>3

\* Nobody later than the newest writes.
LEMMA NewestBounds ==
  ASSUME hist \subseteq AnyEntry, NEW r, NEW x, NEW z \in Nat, Newest(r, x, z)
  PROVE  \A f \in hist : r \in f.writes => f.end \in Nat /\ f.end <= z
<1> SUFFICES ASSUME NEW f \in hist, r \in f.writes PROVE f.end \in Nat /\ f.end <= z
  OBVIOUS
<1>1. f.end \in Nat
  BY DEF AnyEntry
<1>2. PICK g \in hist : g.end = z /\ (f # g => f.end < z)
  BY DEF Newest
<1> QED
  BY <1>1, <1>2

\* A row that is not latched has its newest version.
LEMMA FreeRow ==
  ASSUME Constants, Typed, Versions, \A u \in Threads : Place(u) /\ Latched(u), PerRow,
         NEW r \in Rows, latch[r] = NoTxn
  PROVE  Newest(r, data[r], wts[r]) /\ wts[r] \in Nat
<1>1. ASSUME NEW u \in Threads PROVE ~Pending(u, r)
  BY PendingLatched DEF Constants
<1> QED
  BY <1>1 DEF Versions, Typed

LEMMA ReadElsewhere ==
  ASSUME Typed, NEW t \in Threads, Place(t), Latched(t), Stamps, Step(t), Local(t),
         NEW u \in Threads, u # t, Place(u), Latched(u), Read(u)
  PROVE  Read(u)'
<1>m. PerRow' <=> PerRow
  BY DEF Local, PerRow
<1>1. pc'[u] = pc[u] /\ accesses'[u] = accesses[u] /\ idx'[u] = idx[u] /\ start_ts'[u] = start_ts[u]
  BY DEF Local
<1>2. ASSUME PerRow, pc[u] \in {"exec", "latch"}, NEW i \in 1..Len(accesses[u])
      PROVE  Fresh(accesses[u][i].row, accesses[u][i].read)' \/ Stale(u, accesses[u][i].row)'
  <2>1. PICK r, x : /\ r = accesses[u][i].row /\ x = accesses[u][i].read
                    /\ Fresh(r, x) \/ Stale(u, r)
    BY <1>2 DEF Read
  <2>2. Fresh(r, x)' \/ Stale(u, r)'
    BY <1>1, <1>2, <2>1, FreshOrStale
  <2> QED
    BY <1>1, <2>1, <2>2 DEF Fresh, Stale, Newest
<1>3. ASSUME PerRow, pc[u] = "latch", NEW i \in 1..idx[u]
      PROVE  Fresh(accesses[u][i].row, accesses[u][i].read)'
  <2>1. PICK r, x : r = accesses[u][i].row /\ x = accesses[u][i].read /\ Fresh(r, x) /\ latch[r] = u
    BY <1>3 DEF Read, Latched
  <2>2. ASSUME TakeEndTs(t), r \in WriteSet(t) PROVE FALSE
    <3>1. PICK j \in 1..Len(accesses[t]) : accesses[t][j].row = r
      BY <2>2, Locals DEF WriteSet
    <3>2. latch[r] = t
      BY <1>3, <2>2, <3>1 DEF TakeEndTs, Latched
    <3> QED
      BY <2>1, <3>2
  <2>3. Fresh(r, x)'
    BY <1>3, <2>1, <2>2, FreshKept
  <2> QED
    BY <1>1, <2>1, <2>3 DEF Fresh, Newest
<1> QED
  BY <1>m, <1>1, <1>2, <1>3 DEF Read

LEMMA ReadStep ==
  ASSUME Constants, Typed, NEW t \in Threads, Stamps, Versions, Step(t), Local(t), Read(t),
         \A u \in Threads : Place(u) /\ Latched(u)
  PROVE  Read(t)'
<1>m. PerRow' <=> PerRow
  BY DEF Local, PerRow
<1>s. SUFFICES ASSUME PerRow PROVE Read(t)'
  BY <1>m DEF Read
<1>w. /\ pc \in [Threads -> PC] /\ accesses \in [Threads -> Seq(AnyAccess)] /\ idx \in [Threads -> Nat]
      /\ Len(accesses[t]) \in Nat /\ idx[t] \in Nat
  BY Locals DEF Typed
<1>1. ASSUME NEW q \in Queries, NewQuery(t, q) PROVE Read(t)'
  <2>1. pc'[t] = "exec" /\ Len(accesses'[t]) = 0
    BY <1>1, <1>w DEF NewQuery, Goto
  <2> QED
    BY <2>1 DEF Read
<1>2. CASE ReadRow(t)
  <2> DEFINE n == Len(accesses[t])
             a == [row |-> Req(t).row, type |-> Req(t).type, read |-> data[Req(t).row]]
  <2>1. /\ pc[t] = "exec" /\ pc' = pc /\ start_ts' = start_ts /\ hist' = hist /\ latch[Req(t).row] = NoTxn
        /\ accesses' = [accesses EXCEPT ![t] = Append(accesses[t], a)]
    BY <1>2 DEF ReadRow, Asks, tsVars
  <2>2. Req(t).row \in Rows /\ a \in AnyAccess /\ a.row = Req(t).row /\ a.read = data[Req(t).row]
    BY <1>2, ReqType DEF ReadRow, Typed, AnyAccess
  <2> HIDE DEF a
  <2>3. accesses'[t] = Append(accesses[t], a)
    BY <1>w, <2>1
  <2>4. Len(accesses'[t]) = n + 1 /\ accesses'[t][n + 1] = a /\ \A i \in 1..n : accesses'[t][i] = accesses[t][i]
    BY <1>w, <2>2, <2>3
  <2>5. Fresh(a.row, a.read)
    BY <1>s, <2>1, <2>2, FreeRow DEF Fresh
  <2>6. ASSUME NEW i \in 1..Len(accesses'[t]), NEW r, NEW x, r = accesses'[t][i].row, x = accesses'[t][i].read
        PROVE  Fresh(r, x)' \/ Stale(t, r)'
    <3>1. Fresh(r, x) \/ Stale(t, r)
      <4>1. CASE i \in 1..n
        BY <1>s, <2>1, <2>4, <2>6, <4>1 DEF Read
      <4>2. CASE i = n + 1
        BY <2>4, <2>5, <2>6, <4>2
      <4> QED
        BY <1>w, <2>4, <4>1, <4>2
    <3> QED
      BY <2>1, <3>1 DEF Fresh, Stale, Newest
  <2>7. pc'[t] = "exec"
    BY <2>1
  <2>8. ASSUME NEW i \in 1..Len(accesses'[t])
        PROVE  Fresh(accesses[t][i].row, accesses[t][i].read)' \/ Stale(t, accesses[t][i].row)'
    <3>1. PICK r, x : r = accesses'[t][i].row /\ x = accesses'[t][i].read
      OBVIOUS
    <3>2. Fresh(r, x)' \/ Stale(t, r)'
      BY <2>6, <3>1
    <3>3. Fresh(r, x)' => Fresh(accesses[t][i].row, accesses[t][i].read)'
      BY <3>1 DEF Fresh, Newest
    <3>4. Stale(t, r)' => Stale(t, accesses[t][i].row)'
      BY <3>1 DEF Stale
    <3> QED
      BY <3>2, <3>3, <3>4
  <2> QED
    BY <2>7, <2>8 DEF Read
<1>3. CASE StartValidate(t)
  <2>1. pc[t] = "exec" /\ pc'[t] = "latch" /\ idx'[t] = 0 /\ start_ts' = start_ts /\ hist' = hist
    BY <1>3, <1>s, <1>w DEF StartValidate, Goto, tsVars
  <2>2. ASSUME NEW i \in 1..Len(accesses'[t])
        PROVE  \/ Fresh(accesses[t][i].row, accesses[t][i].read)'
               \/ Stale(t, accesses[t][i].row)'
    <3>1. PICK j \in 1..Len(accesses[t]) : accesses'[t][i] = accesses[t][j]
      BY <1>3, <1>s, <2>2, Sorted
    <3>2. Fresh(accesses[t][j].row, accesses[t][j].read) \/ Stale(t, accesses[t][j].row)
      BY <1>s, <2>1, <3>1 DEF Read
    <3> QED
      BY <2>1, <3>1, <3>2 DEF Fresh, Stale, Newest
  <2>3. \A i : i \notin 1..0
    OBVIOUS
  <2> QED
    BY <2>1, <2>2, <2>3 DEF Read
<1>4. CASE LatchRow(t)
  <2> DEFINE k == idx[t] + 1
             r == accesses[t][k].row
  <2>1. /\ pc[t] = "latch" /\ k \in 1..Len(accesses[t]) /\ latch[r] = NoTxn /\ idx'[t] = idx[t] + 1
        /\ UNCHANGED <<accesses, start_ts, hist>>
    BY <1>4, <1>w DEF LatchRow, tsVars
  <2>2. CASE start_ts[t] < wts[r]
    <3>1. pc'[t] = "release"
      BY <1>4, <1>w, <2>2 DEF LatchRow, Goto
    <3> QED
      BY <3>1 DEF Read
  <2>3. CASE ~(start_ts[t] < wts[r])
    <3>1. r \in Rows /\ start_ts[t] \in Nat /\ wts[r] \in Nat
      BY <2>1, Locals DEF Typed
    <3>2. Newest(r, data[r], wts[r])
      BY <1>s, <2>1, <3>1, FreeRow
    <3>3. \A f \in hist : r \in f.writes => f.end \in Nat /\ f.end <= wts[r]
      BY <3>1, <3>2, NewestBounds DEF Typed
    <3>4. ~Stale(t, r)
      BY <2>3, <3>1, <3>3 DEF Stale
    <3>5. Fresh(r, accesses[t][k].read)
      BY <1>s, <2>1, <3>4 DEF Read
    <3>6. \A i \in 1..(idx[t] + 1) : i \in 1..idx[t] \/ i = k
      BY <1>w
    <3>7. \A i \in 1..(idx[t] + 1) : Fresh(accesses[t][i].row, accesses[t][i].read)
      BY <1>s, <2>1, <3>5, <3>6 DEF Read
    <3>8. \A i \in 1..(idx[t] + 1) : Fresh(accesses[t][i].row, accesses[t][i].read)'
      BY <2>1, <3>7 DEF Fresh, Newest
    <3>9. ASSUME NEW i \in 1..Len(accesses[t])
          PROVE  Fresh(accesses[t][i].row, accesses[t][i].read)' \/ Stale(t, accesses[t][i].row)'
      <4>1. Fresh(accesses[t][i].row, accesses[t][i].read) \/ Stale(t, accesses[t][i].row)
        BY <1>s, <2>1 DEF Read
      <4> QED
        BY <2>1, <4>1 DEF Fresh, Stale, Newest
    <3> QED
      BY <2>1, <3>8, <3>9 DEF Read
  <2> QED
    BY <2>2, <2>3
<1>5. CASE ~(\E q \in Queries : NewQuery(t, q)) /\ ~ReadRow(t) /\ ~StartValidate(t) /\ ~LatchRow(t)
  <2>1. pc'[t] \notin {"exec", "latch"}
    BY <1>5, <1>w, ZenonT(30) DEF Step, ReadAborts, TryLatchFails, TakeEndTs,
       StartCopy, EndCopy, SkipRead, WriteDone, ReleaseLatch, ReleaseDone, Enter, Leave, Goto
  <2> QED
    BY <2>1 DEF Read
<1> QED
  BY <1>1, <1>2, <1>3, <1>4, <1>5

-----------------------------------------------------------------------------
(***************************************************************************)
(* The order of the end_ts                                                 *)
(***************************************************************************)

\* Newest says what ReadsLastOf says of the whole history.
LEMMA NewestIsLast ==
  ASSUME hist \subseteq AnyEntry, NEW e, NEW r, NEW x, Fresh(r, x)
  PROVE  ReadsLastOf(e, r, x, hist)
<1> DEFINE w == {f \in hist : r \in f.writes}
           last == CHOOSE f \in w : \A g \in w : g.end <= f.end
<1>1. PICK z \in Nat : Newest(r, x, z)
  BY DEF Fresh
<1>2. CASE w = {}
  BY <1>1, <1>2 DEF Newest, ReadsLastOf
<1>3. CASE w # {}
  <2>1. PICK f \in w : f.ts = x /\ f.end = z /\ \A g \in w : g # f => g.end < z
    BY <1>1, <1>3 DEF Newest
  <2>2. \A g \in w : g.end \in Nat
    BY DEF AnyEntry
  <2>3. \A g \in w : g.end <= f.end
    BY <2>1, <2>2
  <2>4. last \in w /\ \A g \in w : g.end <= last.end
    BY <2>1, <2>3
  <2> HIDE DEF last
  <2>5. last = f
    BY <2>1, <2>2, <2>4
  <2>6. x = last.ts
    BY <2>1, <2>5
  <2>7. x = IF w = {} THEN 0 ELSE last.ts
    BY <1>3, <2>6
  <2> QED
    BY <2>7 DEF ReadsLastOf, last
<1> QED
  BY <1>2, <1>3

LEMMA EndTsOrderStep ==
  ASSUME Typed, Typed', NEW t \in Threads, Place(t), Latched(t), Read(t), Stamps, Step(t), Local(t), EndTsOrder
  PROVE  EndTsOrder'
<1>m. PerRow' <=> PerRow
  BY DEF Local, PerRow
<1>s. SUFFICES ASSUME PerRow PROVE EndTsOrder'
  BY <1>m DEF EndTsOrder
<1>1. CASE hist' = hist
  BY <1>s, <1>1 DEF EndTsOrder, ReadsLastOf
<1>2. CASE TakeEndTs(t)
  <2>1. PICK e \in AnyEntry :
           /\ hist' = hist \cup {e} /\ e.end = timestamp + 1
           /\ e.reads = {<<accesses[t][i].row, accesses[t][i].read>> : i \in DOMAIN accesses[t]}
           /\ \A f \in hist : f.end < e.end
    BY <1>2, <1>s, NewEntry
  <2>2. hist \subseteq AnyEntry /\ e.end \in Nat /\ \A f \in hist : f.end \in Nat
    BY DEF Typed, AnyEntry
  <2>3. ASSUME NEW d \in hist, NEW p \in d.reads
        PROVE  ReadsLastOf(d, p[1], p[2], {f \in hist' : f.end < d.end})
    <3>1. {f \in hist' : f.end < d.end} = {f \in hist : f.end < d.end}
      BY <2>1, <2>2
    <3>2. ReadsLastOf(d, p[1], p[2], {f \in hist : f.end < d.end})
      BY <1>s DEF EndTsOrder
    <3> QED
      BY <3>1, <3>2
  <2>4. ASSUME NEW p \in e.reads
        PROVE  ReadsLastOf(e, p[1], p[2], {f \in hist' : f.end < e.end})
    <3>1. {f \in hist' : f.end < e.end} = hist
      BY <2>1, <2>2
    <3>2. PICK i \in 1..Len(accesses[t]) : p = <<accesses[t][i].row, accesses[t][i].read>>
      BY <2>1, <2>4, Locals
    <3>3. pc[t] = "latch" /\ idx[t] = Len(accesses[t])
      BY <1>2 DEF TakeEndTs
    <3>4. Fresh(accesses[t][i].row, accesses[t][i].read)
      BY <1>s, <3>2, <3>3 DEF Read
    <3>5. ReadsLastOf(e, p[1], p[2], hist)
      BY <2>2, <3>2, <3>4, NewestIsLast
    <3> QED
      BY <3>1, <3>5
  <2>5. ASSUME NEW d \in hist', NEW p \in d.reads
        PROVE  ReadsLastOf(d, p[1], p[2], {f \in hist' : f.end < d.end})
    <3>1. d \in hist \/ d = e
      BY <2>1, <2>5
    <3> QED
      BY <2>3, <2>4, <2>5, <3>1
  <2> QED
    BY <2>5 DEF EndTsOrder, ReadsLastOf
<1> QED
  BY <1>s, <1>1, <1>2, HistStep

-----------------------------------------------------------------------------
(***************************************************************************)
(* The invariants                                                          *)
(***************************************************************************)
LEMMA InitInv ==
  ASSUME Constants, Init
  PROVE  OccInv
<1>1. Typed
  BY EmptySeq DEF Init, Typed, Constants, Contents, PC
<1>2. ASSUME NEW t \in Threads PROVE pc[t] = "idle" /\ start_ts[t] = 0
  BY DEF Init
<1>3. hist = {} /\ timestamp = 0
  BY DEF Init
<1>4. Stamps
  BY <1>2, <1>3 DEF Stamps
<1>5. Versions
  <2>1. ASSUME NEW r \in Rows PROVE Newest(r, data[r], wts[r])
    BY <1>3 DEF Newest, Init
  <2> QED
    BY <1>2, <2>1 DEF Versions, Pending
<1>6. EndTsOrder /\ WritersDisjoint
  BY <1>2, <1>3 DEF EndTsOrder, WritersDisjoint
<1>7. \A t \in Threads : Place(t) /\ Latched(t) /\ Listed(t) /\ Read(t)
  BY <1>2 DEF Place, Latched, Listed, Read
<1> QED
  BY <1>1, <1>4, <1>5, <1>6, <1>7 DEF OccInv

LEMMA StutterInv ==
  ASSUME OccInv, UNCHANGED vars
  PROVE  OccInv'
<1> USE DEF vars, OccInv
<1>1. Typed'
  BY DEF Typed
<1>2. Stamps' /\ WritersDisjoint'
  BY DEF Stamps, PerRow, WritersDisjoint, WriteSet
<1>5. EndTsOrder'
  BY DEF EndTsOrder, PerRow, ReadsLastOf
<1>3. Versions'
  BY DEF Versions, PerRow, Pending, Newest
<1>4. ASSUME NEW t \in Threads PROVE Place(t)' /\ Latched(t)' /\ Listed(t)' /\ Read(t)'
  <2>1. Place(t)' /\ Latched(t)' /\ Listed(t)'
    BY DEF Place, Latched, Listed, PerRow, WriteSet
  <2>2. Read(t)'
    BY DEF Read, PerRow, Fresh, Stale, Newest
  <2> QED
    BY <2>1, <2>2
<1> QED
  BY <1>1, <1>2, <1>3, <1>4, <1>5

LEMMA InvStep ==
  ASSUME Constants, OccInv, [Next]_vars
  PROVE  OccInv'
<1>1. CASE UNCHANGED vars
  BY <1>1, StutterInv
<1>2. ASSUME NEW t \in Threads, Step(t) PROVE OccInv'
  <2> USE DEF OccInv
  <2>1. Typed' /\ Local(t)
    BY <1>2, TypeStep
  <2>2. \A u \in Threads : Place(u)'
    BY <1>2, <2>1, PlaceStep, PlaceElsewhere
  <2>3. \A u \in Threads : Latched(u)'
    BY <1>2, <2>1, LatchedStep
  <2>4. \A u \in Threads : Listed(u)'
    BY <1>2, <2>1, ListedStep
  <2>5. WritersDisjoint'
    BY <1>2, <2>1, <2>3, DisjointStep
  <2>6. Stamps'
    BY <1>2, <2>1, StampsStep
  <2>7. Versions'
    BY <1>2, <2>1, VersionsStep
  <2>8. ASSUME NEW u \in Threads PROVE Read(u)'
    <3>1. CASE u = t
      BY <1>2, <2>1, <3>1, ReadStep
    <3>2. CASE u # t
      BY <1>2, <2>1, <3>2, ReadElsewhere
    <3> QED
      BY <3>1, <3>2
  <2>9. EndTsOrder'
    BY <1>2, <2>1, EndTsOrderStep
  <2> QED
    BY <2>1, <2>2, <2>3, <2>4, <2>5, <2>6, <2>7, <2>8, <2>9
<1> QED
  BY <1>1, <1>2 DEF Next, AllDone

LEMMA InvCorrect ==
  ASSUME Constants
  PROVE  Spec => []OccInv
<1>1. Init => OccInv
  BY InitInv
<1>2. OccInv /\ [Next]_vars => OccInv'
  BY InvStep
<1> QED
  BY <1>1, <1>2, PTL DEF Spec

\* With per_row_validate the transactions that commit have read, of each row, what the
\* last one before them in the order of the end_ts wrote, and never a torn row: OCC with
\* per-row latches is serializable in that order, whatever the number of threads, the
\* rows and their latching order.
THEOREM EndTsOrderCorrect ==
  ASSUME Constants
  PROVE  Spec => []EndTsOrder
<1>1. OccInv => EndTsOrder
  BY DEF OccInv
<1> QED
  BY <1>1, InvCorrect, PTL

\* Two transactions that write at the same time write different rows: with per-row
\* validation because of the latches, with central_validate because each tests its
\* write set against those that are in the active list when it enters it.
THEOREM WritersDisjointCorrect ==
  ASSUME Constants
  PROVE  Spec => []WritersDisjoint
<1>1. OccInv => WritersDisjoint
  BY DEF OccInv
<1> QED
  BY <1>1, InvCorrect, PTL

-----------------------------------------------------------------------------
(***************************************************************************)
(* The bounds of the types: MaxTxns transactions take two timestamps each  *)
(* at most, one when they start and one when they are valid                *)
(***************************************************************************)

\* What the bounds rest on besides Constants.
Finite == IsFiniteSet(Threads) /\ MaxTxns \in Nat

\* The transactions that have taken their start_ts and may still take an end_ts.
Open == {t \in Threads : pc[t] \in {"exec", "latch"}}

\* Every transaction has taken two timestamps at most, an open one only one.
Count == started \in 0..MaxTxns /\ timestamp + Cardinality(Open) <= 2 * started

Whole == Version \cup {Torn}
Entry == [ts: Version, end: Version, reads: SUBSET (Rows \X Whole), writes: SUBSET Rows]

\* What TypeOK says beyond Typed and Count.
Bounds ==
  /\ data \in [Rows -> Whole]
  /\ wts \in [Rows -> Version]
  /\ start_ts \in [Threads -> Version]
  /\ end_ts \in [Threads -> Version]
  /\ accesses \in [Threads -> Seq(Access)]
  /\ active \in SUBSET Threads
  /\ history \in Seq(SUBSET Rows)
  /\ hist \subseteq Entry

LEMMA OpenFinite ==
  ASSUME Finite
  PROVE  IsFiniteSet(Open) /\ Cardinality(Open) \in Nat
<1>1. Open \in SUBSET Threads
  BY DEF Open
<1>2. IsFiniteSet(Open)
  BY <1>1, FS_Subset DEF Finite
<1> QED
  BY <1>2, FS_CardinalityType

\* Counting keeps the counter below the bound.
LEMMA CounterBounded ==
  ASSUME Finite, Typed, Count
  PROVE  timestamp \in Version
<1>1. timestamp \in Nat /\ MaxTxns \in Nat /\ Cardinality(Open) \in Nat /\ started \in 0..MaxTxns
      /\ timestamp + Cardinality(Open) <= 2 * started
  BY OpenFinite DEF Typed, Finite, Count
<1> QED
  BY <1>1 DEF Version

LEMMA CountStep ==
  ASSUME Constants, Finite, Typed, Count, NEW t \in Threads, Place(t), Step(t)
  PROVE  Count'
<1>t. Typed' /\ Local(t)
  BY TypeStep
<1>w. pc \in [Threads -> PC] /\ timestamp \in Nat /\ timestamp' \in Nat
  BY <1>t DEF Typed
<1>f. IsFiniteSet(Open) /\ Cardinality(Open) \in Nat
  BY OpenFinite
<1>c. started \in 0..MaxTxns /\ MaxTxns \in Nat /\ timestamp + Cardinality(Open) <= 2 * started
  BY DEF Count, Finite
<1>o. \A u \in Threads : u # t => (u \in Open' <=> u \in Open)
  BY <1>t DEF Open, Local
<1>s. Open \subseteq Threads /\ Open' \subseteq Threads
  BY DEF Open
<1>1. CASE \E q \in Queries : NewQuery(t, q)
  <2>1. t \notin Open /\ t \in Open' /\ started < MaxTxns /\ started' = started + 1
        /\ timestamp' = timestamp + 1
    BY <1>1, <1>w DEF NewQuery, Goto, Open
  <2>2. Open' = Open \cup {t}
    BY <1>o, <1>s, <2>1
  <2>3. Cardinality(Open') = Cardinality(Open) + 1
    BY <1>f, <2>1, <2>2, FS_AddElement
  <2> QED
    BY <1>c, <1>f, <1>w, <2>1, <2>3 DEF Count
<1>2. CASE TakeEndTs(t)
  <2>1. t \in Open /\ t \notin Open' /\ started' = started /\ timestamp' = timestamp + 1
    BY <1>2, <1>w DEF TakeEndTs, Goto, Open
  <2>2. Open' = Open \ {t}
    BY <1>o, <1>s, <2>1
  <2>3. Cardinality(Open') = Cardinality(Open) - 1
    BY <1>f, <2>1, <2>2, FS_RemoveElement
  <2> QED
    BY <1>c, <1>f, <1>w, <2>1, <2>3 DEF Count
<1>3. CASE ~(\E q \in Queries : NewQuery(t, q)) /\ ~TakeEndTs(t)
  <2>1. started' = started /\ timestamp' = timestamp
    BY <1>3 DEF Step, tsVars, ReadRow, ReadAborts, StartValidate, LatchRow, TryLatchFails, StartCopy,
       EndCopy, SkipRead, WriteDone, ReleaseLatch, ReleaseDone, Enter, Leave
  <2>2. t \in Open' => t \in Open
    BY <1>3, <1>w DEF Open, Step, Goto, ReadRow, Asks, ReadAborts, StartValidate, LatchRow, TryLatchFails,
       StartCopy, EndCopy, SkipRead, WriteDone, ReleaseLatch, ReleaseDone, Enter, Leave
  <2>3. Open' \in SUBSET Open
    BY <1>o, <1>s, <2>2
  <2>4. Cardinality(Open') <= Cardinality(Open) /\ Cardinality(Open') \in Nat
    BY <1>f, <2>3, FS_Subset, FS_CardinalityType
  <2> QED
    BY <1>c, <1>f, <1>w, <2>1, <2>4 DEF Count
<1> QED
  BY <1>1, <1>2, <1>3

\* Accesses whose contents are within the bounds.
LEMMA BoundedAccesses ==
  ASSUME NEW s \in Seq(AnyAccess), \A i \in 1..Len(s) : s[i].read \in Whole
  PROVE  s \in Seq(Access)
<1>1. \A i \in 1..Len(s) : s[i] \in Access
  BY AccessOf DEF AnyAccess, Access, Whole
<1>2. Len(s) \in Nat /\ DOMAIN s = 1..Len(s) /\ s \in [1..Len(s) -> AnyAccess]
  BY LenProperties
<1>3. s \in [1..Len(s) -> Access]
  BY <1>1, <1>2
<1> QED
  BY <1>2, <1>3, SeqDef

LEMMA BoundedReads ==
  ASSUME Bounds, NEW t \in Threads
  PROVE  \A i \in 1..Len(accesses[t]) : accesses[t][i].read \in Whole /\ accesses[t][i].row \in Rows
<1>1. accesses[t] \in Seq(Access)
  BY DEF Bounds
<1>2. \A i \in 1..Len(accesses[t]) : accesses[t][i] \in Access
  BY <1>1, ElementOfSeq
<1> QED
  BY <1>2 DEF Access, Whole

LEMMA AccessesBounded ==
  ASSUME Constants, Typed, Typed', Bounds, NEW t \in Threads, Step(t), Local(t)
  PROVE  accesses' \in [Threads -> Seq(Access)]
<1>s. accesses \in [Threads -> Seq(Access)] /\ accesses' \in [Threads -> Seq(AnyAccess)]
  BY DEF Bounds, Typed
<1>o. ASSUME NEW u \in Threads, u # t PROVE accesses'[u] \in Seq(Access)
  BY <1>o, <1>s DEF Local
<1>t. accesses'[t] \in Seq(Access)
  <2>1. CASE \E q \in Queries : NewQuery(t, q)
    <3>1. accesses'[t] = <<>>
      BY <2>1, <1>s DEF NewQuery
    <3> QED
      BY <3>1, EmptySeq
  <2>2. CASE ReadRow(t)
    <3> DEFINE a == [row |-> Req(t).row, type |-> Req(t).type, read |-> data[Req(t).row]]
    <3>1. a \in Access
      BY <2>2, ReqType DEF ReadRow, Bounds, Access, Whole
    <3>2. accesses'[t] = Append(accesses[t], a)
      BY <2>2, <1>s DEF ReadRow
    <3> HIDE DEF a
    <3> QED
      BY <1>s, <3>1, <3>2
  <2>3. CASE StartValidate(t) /\ PerRow
    <3>1. \A i \in 1..Len(accesses'[t]) : \E j \in 1..Len(accesses[t]) : accesses'[t][i] = accesses[t][j]
      BY <2>3, Sorted
    <3>2. \A i \in 1..Len(accesses'[t]) : accesses'[t][i].read \in Whole
      BY <3>1, BoundedReads
    <3> QED
      BY <1>s, <3>2, BoundedAccesses
  <2>4. CASE accesses' = accesses
    BY <1>s, <2>4
  <2>5. (\E q \in Queries : NewQuery(t, q)) \/ ReadRow(t) \/ (StartValidate(t) /\ PerRow) \/ accesses' = accesses
    BY ZenonT(30) DEF Step, ReadAborts, StartValidate, LatchRow, TryLatchFails, TakeEndTs, StartCopy,
       EndCopy, SkipRead, WriteDone, ReleaseLatch, ReleaseDone, Enter, Leave
  <2> QED
    BY <2>1, <2>2, <2>3, <2>4, <2>5
<1> QED
  BY <1>s, <1>o, <1>t

LEMMA BoundsStep ==
  ASSUME Constants, Typed, Typed', Bounds, Finite, timestamp' \in Version,
         NEW t \in Threads, Step(t), Local(t)
  PROVE  Bounds'
<1> USE DEF Goto, rowVars, tsVars, centralVars
<1>a. accesses' \in [Threads -> Seq(Access)]
  BY AccessesBounded
<1>z. 0 \in Version
  BY DEF Version, Finite
<1>v. start_ts[t] \in Version /\ end_ts[t] \in Version
  BY DEF Bounds
<1>w. WriteSet(t) \in SUBSET Rows
  BY WriteSetRows
<1>h. ASSUME NEW n \in Version, Validated(t, n) PROVE hist' \subseteq Entry
  <2>1. {<<accesses[t][i].row, accesses[t][i].read>> : i \in DOMAIN accesses[t]} \in SUBSET (Rows \X Whole)
    BY Locals, BoundedReads
  <2> QED
    BY <1>h, <1>v, <1>w, <2>1 DEF Validated, Entry, Bounds
<1>1. CASE \E q \in Queries : NewQuery(t, q)
  <2>1. /\ start_ts' = [start_ts EXCEPT ![t] = timestamp']
        /\ UNCHANGED <<data, wts, end_ts, active, history, hist>>
    BY <1>1 DEF NewQuery
  <2> QED
    BY <1>a, <2>1 DEF Bounds
<1>2. CASE TakeEndTs(t)
  <2>1. /\ end_ts' = [end_ts EXCEPT ![t] = timestamp'] /\ Validated(t, timestamp')
        /\ UNCHANGED <<data, wts, start_ts, active, history>>
    BY <1>2 DEF TakeEndTs
  <2>2. hist' \subseteq Entry
    BY <1>h, <2>1
  <2> QED
    BY <1>a, <2>1, <2>2 DEF Bounds
<1>3. CASE StartCopy(t)
  <2>1. data' \in [Rows -> Whole] /\ UNCHANGED <<wts, start_ts, end_ts, active, history, hist>>
    BY <1>3 DEF StartCopy, Bounds, Whole
  <2> QED
    BY <1>a, <2>1 DEF Bounds
<1>4. CASE EndCopy(t)
  <2>1. data' \in [Rows -> Whole] /\ wts' \in [Rows -> Version]
        /\ UNCHANGED <<start_ts, end_ts, active, history, hist>>
    BY <1>4, <1>v DEF EndCopy, Bounds, Whole
  <2> QED
    BY <1>a, <2>1 DEF Bounds
<1>5. CASE Enter(t)
  <2>1. active' \in SUBSET Threads /\ UNCHANGED <<data, wts, start_ts, end_ts, history>>
    BY <1>5 DEF Enter, Bounds
  <2>2. hist' \subseteq Entry
    <3>1. Validated(t, 0) \/ hist' = hist
      BY <1>5 DEF Enter
    <3> QED
      BY <1>h, <1>z, <3>1 DEF Bounds
  <2> QED
    BY <1>a, <2>1, <2>2 DEF Bounds
<1>6. CASE Leave(t)
  <2>1. active' \in SUBSET Threads /\ UNCHANGED <<data, wts, start_ts, end_ts, hist>>
    BY <1>6 DEF Leave, Bounds
  <2>2. history' \in Seq(SUBSET Rows)
    <3>1. history' = history \/ history' = Append(history, WriteSet(t))
      BY <1>6 DEF Leave
    <3> QED
      <4>1. history \in Seq(SUBSET Rows)
        BY DEF Bounds
      <4>2. Append(history, WriteSet(t)) \in Seq(SUBSET Rows)
        BY <1>w, <4>1, AppendProperties
      <4> QED
        BY <3>1, <4>1, <4>2
  <2> QED
    BY <1>a, <2>1, <2>2 DEF Bounds
<1>7. CASE UNCHANGED <<data, wts, start_ts, end_ts, active, history, hist>>
  BY <1>a, <1>7 DEF Bounds
<1>8. \/ \E q \in Queries : NewQuery(t, q)
      \/ TakeEndTs(t) \/ StartCopy(t) \/ EndCopy(t) \/ Enter(t) \/ Leave(t)
      \/ UNCHANGED <<data, wts, start_ts, end_ts, active, history, hist>>
  BY ZenonT(30) DEF Step, ReadRow, ReadAborts, StartValidate, LatchRow, TryLatchFails, SkipRead, WriteDone,
     ReleaseLatch, ReleaseDone
<1> QED
  BY <1>1, <1>2, <1>3, <1>4, <1>5, <1>6, <1>7, <1>8

LEMMA BoundedInit ==
  ASSUME Constants, Finite, Init
  PROVE  Count /\ Bounds
<1>z. 0 \in Version /\ <<>> \in Seq(Access) /\ <<>> \in Seq(SUBSET Rows)
  BY EmptySeq DEF Version, Finite
<1>1. Open = {} /\ timestamp = 0 /\ started = 0
  BY DEF Init, Open
<1>2. Count
  BY <1>1, FS_EmptySet DEF Count, Finite
<1>3. Bounds
  BY <1>z DEF Init, Bounds, Whole
<1> QED
  BY <1>2, <1>3

LEMMA BoundedStep ==
  ASSUME Constants, Finite, OccInv, Count, Bounds, [Next]_vars
  PROVE  Count' /\ Bounds'
<1>1. CASE UNCHANGED vars
  <2>1. Open' = Open
    BY <1>1 DEF vars, Open
  <2> QED
    BY <1>1, <2>1 DEF vars, Count, Bounds
<1>2. ASSUME NEW t \in Threads, Step(t) PROVE Count' /\ Bounds'
  <2>1. Typed /\ Place(t)
    BY DEF OccInv
  <2>2. Typed' /\ Local(t) /\ Count'
    BY <1>2, <2>1, TypeStep, CountStep
  <2>3. timestamp' \in Version
    <3>1. IsFiniteSet(Open') /\ Cardinality(Open') \in Nat
      <4>1. Open' \in SUBSET Threads
        BY DEF Open
      <4>2. IsFiniteSet(Open')
        BY <4>1, FS_Subset DEF Finite
      <4> QED
        BY <4>2, FS_CardinalityType
    <3>2. timestamp' \in Nat /\ MaxTxns \in Nat /\ started' \in 0..MaxTxns
          /\ timestamp' + Cardinality(Open') <= 2 * started'
      BY <2>2 DEF Typed, Finite, Count
    <3> QED
      BY <3>1, <3>2 DEF Version
  <2> QED
    BY <1>2, <2>1, <2>2, <2>3, BoundsStep
<1> QED
  BY <1>1, <1>2 DEF Next, AllDone

\* Timestamps, rows and accesses stay within their types: MaxTxns transactions take no
\* more than 2 * MaxTxns timestamps from Manager::get_ts, since one that is past
\* validation or has aborted takes none, and whatever a row, its wts, an access or a
\* committed transaction holds is one of them or Torn.
THEOREM TypeCorrect ==
  ASSUME Constants, Finite
  PROVE  Spec => []TypeOK
<1>1. Init => OccInv /\ Count /\ Bounds
  BY InitInv, BoundedInit
<1>2. OccInv /\ Count /\ Bounds /\ [Next]_vars => (OccInv /\ Count /\ Bounds)'
  BY InvStep, BoundedStep
<1>3. OccInv /\ Count /\ Bounds => TypeOK
  <2> SUFFICES ASSUME OccInv, Count, Bounds PROVE TypeOK
    OBVIOUS
  <2>1. Typed /\ timestamp \in Version
    BY CounterBounded DEF OccInv
  <2> QED
    BY <2>1 DEF TypeOK, Typed, Count, Bounds, Whole, Entry, PC
<1> QED
  BY <1>1, <1>2, <1>3, PTL DEF Spec
=============================================================================
