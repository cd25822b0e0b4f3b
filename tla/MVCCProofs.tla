----------------------------- MODULE MVCCProofs -----------------------------
(***************************************************************************)
(* Multi-version concurrency control for every number of threads, rows and *)
(* transactions, every length of the history and every width of the_ts:    *)
(* the books of reserveRow are right, a reserved version belongs to one    *)
(* transaction, and no request waits for a prewrite that is gone.  No      *)
(* update is lost.  And a reader reads what the last transaction before it *)
(* by timestamp wrote, unless its search went past that version or the     *)
(* memory of its version was given to a prewrite first: when the search    *)
(* does that, and what the rest takes, are the last theorems.              *)
(***************************************************************************)
EXTENDS MVCC, SequenceLemmas

\* What is assumed of the constants: workloads do not ask for a row twice.  The last
\* conjunct is true of every natural THE_TS_BITS; the provers know nothing of powers.
Constants ==
  /\ IsFiniteSet(Threads)
  /\ Queries \subseteq Seq(Request)
  /\ \A q \in Queries : \A i, j \in 1..Len(q) : q[i].row = q[j].row => i = j
  /\ HIS_LEN \in Nat \ {0}
  /\ FirstTs \in Nat
  /\ MaxTxns \in Nat
  /\ 2 ^ THE_TS_BITS \in Nat \ {0}

-----------------------------------------------------------------------------
(***************************************************************************)
(* The inductive invariant                                                 *)
(***************************************************************************)

\* No two entries of a history share memory with each other or with _row; n is the
\* number of cells of the row.
Memory(m, n) ==
  \A i \in 1..Len(m._write_history) :
    /\ m._write_history[i].row \in 0..n /\ m._write_history[i].row # m._row
    /\ \A j \in 1..Len(m._write_history) :
         m._write_history[i].row # NULL /\ m._write_history[j].row = m._write_history[i].row => i = j

\* The versions are those in the entries V.
Versions(m, V) ==
  /\ m._num_versions = Cardinality(V)
  /\ V # {} => \E i \in V : EntryTs(m, i) = m._latest_wts
  /\ \A i \in V : /\ m._write_history[i].row # NULL
                  /\ m._oldest_wts < EntryTs(m, i) /\ EntryTs(m, i) <= m._latest_wts
  /\ \A i, j \in V : EntryTs(m, i) = EntryTs(m, j) => i = j

\* An entry that is reserved and not valid is the prewrite's,
Reserved(m) ==
  \A i \in 1..Len(m._write_history) :
    m._write_history[i].reserved /\ ~m._write_history[i].valid =>
      m._exists_prewrite /\ i = m._prewrite_his_id

\* which is younger than every version.
Prewrite(m) ==
  LET i == m._prewrite_his_id IN
  m._exists_prewrite =>
    /\ i \in 1..Len(m._write_history)
    /\ m._write_history[i].reserved /\ ~m._write_history[i].valid
    /\ m._write_history[i].row # NULL
    /\ m._latest_wts < m._prewrite_ts

\* What every Row_mvcc with n cells has in common.
Shape(m, n) ==
  /\ m \in RowMvcc
  /\ Len(m._write_history) > 0
  /\ m._row \in 1..n /\ m._latest_row \in 1..n
  /\ m._oldest_wts <= m._latest_wts
  /\ Memory(m, n)

\* The books of a row.
RowSound(m, n) ==
  Shape(m, n) /\ Versions(m, Valid(m)) /\ Reserved(m) /\ Prewrite(m)

Books == \A r \in Rows : RowSound(mgr[r], Len(mem[r]))

\* Timestamps are handed out once.
Times ==
  /\ \A t \in Threads : ts[t] <= started /\ (pc[t] # "idle" => ts[t] > 0)
  /\ \A t, u \in Threads : ts[t] = ts[u] /\ ts[t] > 0 => t = u
  /\ \A r \in Rows : mgr[r]._latest_wts <= started
  /\ \A r \in Rows, t \in Threads : pc[t] \notin {"idle", "commit"} => mgr[r]._latest_wts # ts[t]

\* What t has accessed is a prefix of its query.
Prefix(t) ==
  /\ Len(accesses[t]) <= Len(query[t])
  /\ \A i \in 1..Len(accesses[t]) :
       accesses[t][i].row = query[t][i].row /\ accesses[t][i].type = query[t][i].type
  /\ pc[t] \in {"wait", "use"} => Len(accesses[t]) < Len(query[t])
  /\ pc[t] \in {"idle", "publish"} => accesses[t] = <<>>

\* The prewrite of row r is t's, with memory c.
Owns(t, r, c) ==
  /\ mgr[r]._exists_prewrite /\ mgr[r]._prewrite_ts = ts[t] /\ ts[t] > mgr[r]._latest_wts
  /\ PrewriteRow(mgr[r]) = c

\* What t has been given and has not used yet.
Given(t) ==
  pc[t] = "use" \/ (pc[t] = "wait" /\ ts_ready[t]) =>
    /\ cur_row[t] \in 1..Len(mem[Req(t).row])
    /\ Req(t).type = "WR" => Owns(t, Req(t).row, cur_row[t])

Owned(t) ==
  \A i \in 1..Len(accesses[t]) : accesses[t][i].type = "WR" =>
    Owns(t, accesses[t][i].row, accesses[t][i].data)

\* The request t has pending.
Pending(t) ==
  [type |-> IF Req(t).type = "RD" THEN "R_REQ" ELSE "P_REQ", ts |-> ts[t], txn |-> t]

\* A request q that is pending at r is that of a transaction that waits for an older
\* prewrite,
RequestRight(q, r) ==
  /\ q.txn \in Threads /\ pc[q.txn] = "wait" /\ ~ts_ready[q.txn]
  /\ Req(q.txn).row = r /\ q = Pending(q.txn)
  /\ mgr[r]._exists_prewrite /\ mgr[r]._prewrite_ts < q.ts

Requests(r) == \A q \in mgr[r]._requests : RequestRight(q, r)

\* and who waits has one.
Waiting(t) ==
  pc[t] = "wait" /\ ~ts_ready[t] => Pending(t) \in mgr[Req(t).row]._requests

MvccInv ==
  /\ TypeOK /\ Books /\ Times
  /\ \A t \in Threads : Prefix(t) /\ Given(t) /\ Owned(t) /\ Waiting(t)
  /\ \A r \in Rows : Requests(r)

-----------------------------------------------------------------------------
(***************************************************************************)
(* The history of a row                                                    *)
(***************************************************************************)

\* The fields of a Row_mvcc.
LEMMA RowFields ==
  ASSUME MaxTxns \in Nat, NEW m \in RowMvcc
  PROVE  /\ m._write_history \in Seq(WriteHisEntry) /\ Len(m._write_history) \in Nat
         /\ DOMAIN m._write_history = 1..Len(m._write_history)
         /\ \A i \in 1..Len(m._write_history) :
              /\ m._write_history[i] \in WriteHisEntry
              /\ EntryTs(m, i) \in Ts /\ EntryTs(m, i) \in Nat /\ EntryTs(m, i) <= MaxTxns
              /\ m._write_history[i].ts \in Nat
              /\ m._write_history[i].row \in Nat
              /\ m._write_history[i].valid \in BOOLEAN /\ m._write_history[i].reserved \in BOOLEAN
         /\ m._oldest_wts \in Nat /\ m._latest_wts \in Nat /\ m._prewrite_ts \in Nat
         /\ m._num_versions \in Nat /\ m._exists_prewrite \in BOOLEAN
<1> DEFINE h == m._write_history
<1>1. /\ h \in Seq(WriteHisEntry)
      /\ m._oldest_wts \in Ts /\ m._latest_wts \in Ts /\ m._prewrite_ts \in Ts
      /\ m._num_versions \in Nat /\ m._exists_prewrite \in BOOLEAN
  BY DEF RowMvcc
<1>2. Len(h) \in Nat /\ DOMAIN h = 1..Len(h)
  BY <1>1
<1>3. \A i \in 1..Len(h) : h[i] \in WriteHisEntry
  BY <1>1, ElementOfSeq
<1>4. ASSUME NEW i \in 1..Len(h)
      PROVE  h[i].ts \in Ts /\ h[i].row \in Nat /\ h[i].valid \in BOOLEAN /\ h[i].reserved \in BOOLEAN
  BY <1>3 DEF WriteHisEntry
<1>5. \A x \in Ts : x \in Nat /\ x <= MaxTxns
  BY DEF Ts
<1> QED
  BY <1>1, <1>2, <1>3, <1>4, <1>5 DEF EntryTs

LEMMA ValidFinite ==
  ASSUME MaxTxns \in Nat, NEW m \in RowMvcc
  PROVE  /\ Valid(m) \subseteq 1..Len(m._write_history)
         /\ IsFiniteSet(Valid(m)) /\ Cardinality(Valid(m)) \in Nat
         /\ Cardinality(Valid(m)) <= Len(m._write_history)
         /\ Cardinality(Valid(m)) = Len(m._write_history) => Valid(m) = 1..Len(m._write_history)
<1> DEFINE n == Len(m._write_history)
<1>1. Valid(m) \subseteq 1..n /\ n \in Nat
  BY RowFields DEF Valid
<1>2. IsFiniteSet(1..n) /\ Cardinality(1..n) = n
  BY <1>1, FS_Interval
<1>3. Valid(m) \in SUBSET (1..n)
  BY <1>1
<1>4. /\ IsFiniteSet(Valid(m)) /\ Cardinality(Valid(m)) <= n
      /\ n = Cardinality(Valid(m)) => (1..n) = Valid(m)
  BY <1>2, <1>3, FS_Subset
<1>5. Cardinality(Valid(m)) \in Nat
  BY <1>4, FS_CardinalityType
<1> QED
  BY <1>1, <1>4, <1>5

\* The entries Newest and Oldest choose.
LEMMA NewestProperties ==
  ASSUME MaxTxns \in Nat, NEW m \in RowMvcc,
         NEW I, I \subseteq 1..Len(m._write_history), I # {}
  PROVE  /\ Newest(m, I) \in I
         /\ \A j \in I : EntryTs(m, j) <= EntryTs(m, Newest(m, I))
<1> DEFINE T == {MaxTxns - EntryTs(m, i) : i \in I}
<1>1. \A i \in I : EntryTs(m, i) \in Nat /\ EntryTs(m, i) <= MaxTxns
  BY RowFields
<1>2. T \subseteq Nat /\ T # {}
  <2>1. \A i \in I : MaxTxns - EntryTs(m, i) \in Nat
    BY <1>1
  <2> QED
    BY <2>1
<1>3. PICK x \in T : \A y \in T : x <= y
  BY <1>2, LeastNat
<1>4. PICK i \in I : x = MaxTxns - EntryTs(m, i)
  BY <1>3
<1>5. \A j \in I : EntryTs(m, j) <= EntryTs(m, i)
  <2> TAKE j \in I
  <2>1. MaxTxns - EntryTs(m, j) \in T
    OBVIOUS
  <2>2. MaxTxns - EntryTs(m, i) <= MaxTxns - EntryTs(m, j)
    BY <1>3, <1>4, <2>1
  <2> QED
    BY <1>1, <2>2
<1> QED
  BY <1>5 DEF Newest

LEMMA OldestProperties ==
  ASSUME MaxTxns \in Nat, NEW m \in RowMvcc,
         NEW I, I \subseteq 1..Len(m._write_history), I # {}
  PROVE  /\ Oldest(m, I) \in I
         /\ \A j \in I : EntryTs(m, Oldest(m, I)) <= EntryTs(m, j)
<1> DEFINE T == {EntryTs(m, i) : i \in I}
<1>1. \A i \in I : EntryTs(m, i) \in Nat
  BY RowFields
<1>2. T \subseteq Nat /\ T # {}
  BY <1>1
<1>3. PICK x \in T : \A y \in T : x <= y
  BY <1>2, LeastNat
<1>4. PICK i \in I : x = EntryTs(m, i)
  BY <1>3
<1>5. \A j \in I : EntryTs(m, i) <= EntryTs(m, j)
  BY <1>3, <1>4
<1> QED
  BY <1>5 DEF Oldest

\* What garbage collection and making room leave alone.
SameLatest(m, k) ==
  /\ k._latest_wts = m._latest_wts /\ k._latest_row = m._latest_row
  /\ k._exists_prewrite = m._exists_prewrite
  /\ k._requests = m._requests /\ k._max_served_rts = m._max_served_rts

\* Memory c holds the version x of a row: it is _row, or that of an entry in V.
Version(m, V, x, c) ==
  \/ x = m._oldest_wts /\ c = m._row
  \/ \E i \in V : x = EntryTs(m, i) /\ c = m._write_history[i].row

\* k, with the versions in W, has those of m in V, except for some that are older than
\* its oldest one.
Keeps(m, V, k, W) ==
  \A x, c : /\ Version(k, W, x, c) => Version(m, V, x, c)
            /\ Version(m, V, x, c) => Version(k, W, x, c) \/ x < k._oldest_wts
KeepsAll(m, V, k, W) == \A x, c : Version(k, W, x, c) <=> Version(m, V, x, c)

\* Garbage collection keeps the books, and the versions that a transaction as old as
\* min may read.
LEMMA GcSound ==
  ASSUME MaxTxns \in Nat, NEW m, NEW n \in Nat, RowSound(m, n), ~m._exists_prewrite, NEW min \in Nat
  PROVE  /\ RowSound(Gc(m, min), n) /\ SameLatest(m, Gc(m, min))
         /\ Keeps(m, Valid(m), Gc(m, min), Valid(Gc(m, min)))
         /\ \/ KeepsAll(m, Valid(m), Gc(m, min), Valid(Gc(m, min)))
            \/ Gc(m, min)._oldest_wts < min
<1> DEFINE old == {i \in Valid(m) : EntryTs(m, i) < min}
           full == m._oldest_wts < min /\ m._num_versions = Len(m._write_history) /\ old # {}
           h == m._write_history
           idx == Newest(m, old)
           gone == {i \in Valid(m) : EntryTs(m, i) <= EntryTs(m, idx)}
           g == [i \in DOMAIN h |->
                  IF i \notin gone THEN h[i]
                  ELSE [h[i] EXCEPT !.valid = FALSE, !.reserved = FALSE,
                                    !.row = IF i = idx THEN m._row ELSE h[i].row]]
           k == Gc(m, min)
<1>m. m \in RowMvcc
  BY DEF RowSound, Shape
<1>1. CASE ~full
  <2>1. k = m
    BY <1>1 DEF Gc
  <2> QED
    BY <2>1 DEF SameLatest, Keeps, KeepsAll
<1>2. CASE full
  <2>1. k = [m EXCEPT !._row = h[idx].row, !._oldest_wts = EntryTs(m, idx),
                      !._write_history = g, !._num_versions = @ - Cardinality(gone)]
    BY <1>2 DEF Gc
  <2>h. /\ h \in Seq(WriteHisEntry) /\ Len(h) \in Nat /\ DOMAIN h = 1..Len(h)
        /\ \A i \in 1..Len(h) : /\ h[i] \in WriteHisEntry /\ h[i].row \in Nat /\ h[i].ts \in Nat
                                /\ EntryTs(m, i) \in Nat /\ EntryTs(m, i) = h[i].ts
    BY <1>m, RowFields DEF EntryTs
  <2>v. /\ Valid(m) \subseteq 1..Len(h) /\ IsFiniteSet(Valid(m))
        /\ \A i \in 1..Len(h) : i \in Valid(m) <=> h[i].valid
    BY <1>m, <2>h, ValidFinite DEF Valid
  <2>2. idx \in old /\ \A j \in old : EntryTs(m, j) <= EntryTs(m, idx)
    <3>1. old # {} /\ old \subseteq 1..Len(m._write_history)
      BY <1>2, <2>v
    <3> HIDE DEF old
    <3> QED
      BY <1>m, <3>1, NewestProperties
  <2>3. idx \in Valid(m) /\ idx \in 1..Len(h) /\ idx \in gone
    BY <2>2, <2>v, <2>h
  <2>4. \A i \in gone : i \in Valid(m) /\ EntryTs(m, i) <= EntryTs(m, idx)
    OBVIOUS
  <2>5. \A i \in Valid(m) : i \notin gone => EntryTs(m, i) > EntryTs(m, idx)
    BY <2>v, <2>h, <2>3
  <2>r. m._row \in 1..n /\ m._latest_row \in 1..n /\ Len(h) > 0 /\ m._oldest_wts <= m._latest_wts
    BY DEF RowSound, Shape
  <2>s. \A i \in 1..Len(h) : \/ i \notin gone /\ g[i] = h[i]
                             \/ /\ i \in gone
                                /\ g[i] = [h[i] EXCEPT !.valid = FALSE, !.reserved = FALSE,
                                                       !.row = IF i = idx THEN m._row ELSE h[i].row]
    BY <2>h
  <2>y. EntryTs(m, idx) < min
    BY <2>2
  <2> DEFINE ix == idx
  <2> HIDE DEF gone, idx, old, full
  <2>e. \A i \in 1..Len(h) :
          /\ g[i] \in WriteHisEntry
          /\ g[i].ts = h[i].ts
          /\ g[i].valid = (h[i].valid /\ i \notin gone)
          /\ g[i].reserved = (h[i].reserved /\ i \notin gone)
          /\ g[i].row = IF i = idx THEN m._row ELSE h[i].row
    <3> SUFFICES ASSUME NEW i \in 1..Len(h)
                 PROVE  /\ g[i] \in WriteHisEntry
                        /\ g[i].ts = h[i].ts
                        /\ g[i].valid = (h[i].valid /\ i \notin gone)
                        /\ g[i].reserved = (h[i].reserved /\ i \notin gone)
                        /\ g[i].row = IF i = idx THEN m._row ELSE h[i].row
      OBVIOUS
    <3>1. h[i] \in WriteHisEntry
      BY <2>h
    <3>2. CASE i \notin gone
      <4>1. g[i] = h[i] /\ i # idx
        BY <2>s, <3>2, <2>3
      <4>2. h[i].valid \in BOOLEAN /\ h[i].reserved \in BOOLEAN
        BY <3>1 DEF WriteHisEntry
      <4> HIDE DEF g
      <4>3. g[i].valid = (h[i].valid /\ i \notin gone) /\ g[i].reserved = (h[i].reserved /\ i \notin gone)
        BY <4>1, <4>2, <3>2, Zenon
      <4> QED
        BY <4>1, <4>3, <3>1
    <3>3. CASE i \in gone
      <4>1. g[i] = [h[i] EXCEPT !.valid = FALSE, !.reserved = FALSE,
                                !.row = IF i = idx THEN m._row ELSE h[i].row]
        BY <2>s, <3>3
      <4>2. m._row \in Nat
        BY <2>r
      <4> HIDE DEF g
      <4> QED
        BY <4>1, <4>2, <3>1, <3>3 DEF WriteHisEntry
    <3> QED
      BY <3>2, <3>3
  <2>g. g \in Seq(WriteHisEntry) /\ Len(g) = Len(h) /\ DOMAIN g = 1..Len(h)
    <3>1. DOMAIN g = 1..Len(h)
      BY <2>h
    <3> HIDE DEF g
    <3>2. g \in [1..Len(h) -> WriteHisEntry]
      <4>1. g = [i \in 1..Len(h) |-> g[i]]
        BY <3>1 DEF g
      <4> QED
        BY <4>1, <2>e
    <3> QED
      BY <3>2, <2>h, IsASeq, LenProperties
  <2>c. Cardinality(Valid(m) \ gone) = Cardinality(Valid(m)) - Cardinality(gone) /\ Cardinality(Valid(m) \ gone) \in Nat
    <3>1. gone \subseteq Valid(m)
      BY <2>4
    <3>2. IsFiniteSet(gone) /\ IsFiniteSet(Valid(m) \ gone)
      BY <3>1, <2>v, FS_Subset
    <3>3. (Valid(m) \ gone) \cup gone = Valid(m) /\ (Valid(m) \ gone) \cap gone = {}
      BY <3>1
    <3>4. Cardinality(Valid(m)) = Cardinality(Valid(m) \ gone) + Cardinality(gone) - Cardinality({})
      BY <3>2, <3>3, FS_Union
    <3>5. Cardinality(gone) \in Nat /\ Cardinality(Valid(m) \ gone) \in Nat /\ Cardinality({}) = 0
      BY <3>2, FS_CardinalityType, FS_EmptySet
    <3>6. Cardinality(Valid(m)) \in Nat
      BY <1>m, ValidFinite
    <3> QED
      BY <3>4, <3>5, <3>6
  <2> HIDE DEF g, h
  <2>k. /\ k._write_history = g /\ k._row = h[idx].row /\ k._oldest_wts = EntryTs(m, idx)
        /\ k._num_versions = m._num_versions - Cardinality(gone)
        /\ k._latest_row = m._latest_row /\ k._latest_wts = m._latest_wts
        /\ k._exists_prewrite = m._exists_prewrite
        /\ k._requests = m._requests /\ k._max_served_rts = m._max_served_rts
    BY <2>1, <1>m DEF RowMvcc
  <2>V. Valid(k) = Valid(m) \ gone
    BY <2>k, <2>e, <2>g, <2>v DEF Valid
  <2>n. k._num_versions = Cardinality(Valid(k)) /\ m._num_versions = Cardinality(Valid(m))
    <3>1. m._num_versions = Cardinality(Valid(m))
      BY DEF RowSound, Versions
    <3> QED
      BY <3>1, <2>k, <2>V, <2>c
  <2>t. \A i \in 1..Len(h) : EntryTs(k, i) = EntryTs(m, i)
    BY <2>k, <2>e, <2>h DEF EntryTs
  <2>6. k \in RowMvcc
    <3>1. k._num_versions \in Nat
      BY <2>n, <2>V, <2>c
    <3>2. EntryTs(m, idx) \in Ts /\ h[idx].row \in Nat
      BY <1>m, <2>3, <2>h, RowFields DEF h
    <3>3. g \in Seq(WriteHisEntry)
      BY <2>g
    <3>4. m._num_versions - Cardinality(gone) \in Nat
      BY <3>1, <2>k
    <3> HIDE DEF k
    <3>5. [m EXCEPT !._row = h[idx].row, !._oldest_wts = EntryTs(m, idx),
                      !._write_history = g, !._num_versions = m._num_versions - Cardinality(gone)] \in RowMvcc
      BY <3>2, <3>3, <3>4, <1>m DEF RowMvcc
    <3> QED
      BY <3>5, <2>1
  <2>7. \A i \in Valid(m) : /\ h[i].row # NULL
                            /\ m._oldest_wts < EntryTs(m, i) /\ EntryTs(m, i) <= m._latest_wts
    BY DEF RowSound, Versions, h
  <2>8. Memory(m, n)
    BY DEF RowSound, Shape
  <2>9. h[idx].row \in 1..n
    BY <2>7, <2>8, <2>3, <2>h DEF Memory, h, NULL
  <2>10. Memory(k, n)
    <3> HIDE DEF k
    <3>0. \A i \in 1..Len(h) : /\ h[i].row \in 0..n /\ h[i].row # m._row
                               /\ \A j \in 1..Len(h) : h[i].row # NULL /\ h[j].row = h[i].row => i = j
      BY <2>8 DEF Memory, h
    <3> SUFFICES ASSUME NEW i \in 1..Len(h)
                 PROVE  /\ g[i].row \in 0..n /\ g[i].row # h[idx].row
                        /\ \A j \in 1..Len(h) : g[i].row # NULL /\ g[j].row = g[i].row => i = j
      BY <2>k, <2>g DEF Memory
    <3>1. g[i].row \in 0..n /\ g[i].row # h[idx].row
      BY <3>0, <2>e, <2>3, <2>r, <2>7 
    <3>2. \A j \in 1..Len(h) : g[i].row # NULL /\ g[j].row = g[i].row => i = j
      BY <3>0, <2>e, <2>3, <2>r
    <3> QED
      BY <3>1, <3>2
  <2>11. Shape(k, n)
    <3>1. k._oldest_wts <= k._latest_wts
      BY <2>k, <2>7, <2>3
    <3> HIDE DEF k
    <3> QED
      BY <2>6, <2>9, <2>10, <2>k, <2>g, <2>r, <3>1 DEF Shape
  <2>12. Versions(k, Valid(k))
    <3> HIDE DEF k
    <3>1. Valid(k) # {} => \E i \in Valid(k) : EntryTs(k, i) = k._latest_wts
      <4> SUFFICES ASSUME NEW j \in Valid(k)
                   PROVE  \E i \in Valid(k) : EntryTs(k, i) = k._latest_wts
        OBVIOUS
      <4>1. PICK i \in Valid(m) : EntryTs(m, i) = m._latest_wts
        BY <2>3 DEF RowSound, Versions
      <4>2. EntryTs(m, j) > EntryTs(m, idx) /\ EntryTs(m, j) <= m._latest_wts
        BY <2>V, <2>5, <2>7
      <4>3. EntryTs(m, i) > EntryTs(m, idx)
        BY <4>1, <4>2, <2>v, <2>h, <2>3, <2>V
      <4>4. i \in Valid(k)
        BY <4>3, <2>V, <2>4, <2>v, <2>h, <2>3
      <4> QED
        BY <4>4, <4>1, <2>k, <2>t, <2>v
    <3>2. \A i \in Valid(k) : /\ k._write_history[i].row # NULL
                              /\ k._oldest_wts < EntryTs(k, i) /\ EntryTs(k, i) <= k._latest_wts
      <4> TAKE i \in Valid(k)
      <4>1. i \in Valid(m) /\ i \notin gone /\ i \in 1..Len(h) /\ i # idx
        BY <2>V, <2>v, <2>3
      <4>2. g[i].row # NULL
        BY <4>1, <2>e, <2>7
      <4> QED
        BY <4>1, <4>2, <2>k, <2>5, <2>7, <2>t
    <3>3. \A i, j \in Valid(k) : EntryTs(k, i) = EntryTs(k, j) => i = j
      <4>1. \A i, j \in Valid(m) : EntryTs(m, i) = EntryTs(m, j) => i = j
        BY DEF RowSound, Versions
      <4> QED
        BY <4>1, <2>V, <2>t, <2>v
    <3> QED
      BY <2>n, <3>1, <3>2, <3>3 DEF Versions
  <2>13. Reserved(k)
    <3> HIDE DEF k
    <3>1. \A i \in 1..Len(h) : ~(h[i].reserved /\ ~h[i].valid)
      BY DEF RowSound, Reserved, h
    <3>2. \A i \in 1..Len(h) : ~(g[i].reserved /\ ~g[i].valid)
      BY <3>1, <2>e
    <3> QED
      BY <3>2, <2>k, <2>g DEF Reserved
  <2>14. Prewrite(k)
    BY <2>k DEF Prewrite
  <2> HIDE DEF k
  <2>15. RowSound(k, n) /\ SameLatest(m, k)
    BY <2>11, <2>12, <2>13, <2>14, <2>k DEF RowSound, SameLatest
  <2>16. Keeps(m, Valid(m), k, Valid(k))
    <3> SUFFICES ASSUME NEW x, NEW c
                 PROVE  /\ Version(k, Valid(k), x, c) => Version(m, Valid(m), x, c)
                        /\ Version(m, Valid(m), x, c) => Version(k, Valid(k), x, c) \/ x < k._oldest_wts
      BY DEF Keeps
    <3>1. \A i \in Valid(k) : /\ i \in Valid(m) /\ EntryTs(k, i) = EntryTs(m, i)
                              /\ k._write_history[i].row = m._write_history[i].row
      <4> TAKE i \in Valid(k)
      <4>1. i \in Valid(m) /\ i \notin gone /\ i \in 1..Len(h) /\ i # idx
        BY <2>V, <2>v, <2>3
      <4> QED
        BY <4>1, <2>e, <2>k, <2>t DEF h
    <3>2. \A i \in Valid(m) : \/ i \in Valid(k)
                              \/ EntryTs(m, i) < k._oldest_wts
                              \/ EntryTs(m, i) = k._oldest_wts /\ m._write_history[i].row = k._row
      <4> TAKE i \in Valid(m)
      <4>1. CASE i \notin gone
        BY <4>1, <2>V
      <4>2. CASE i \in gone
        <5>1. EntryTs(m, i) <= EntryTs(m, idx) /\ i \in 1..Len(h)
          BY <4>2, <2>4, <2>v
        <5>2. EntryTs(m, i) = EntryTs(m, idx) => i = idx
          BY <2>3 DEF RowSound, Versions
        <5> QED
          BY <5>1, <5>2, <2>3, <2>h, <2>k DEF h
      <4> QED
        BY <4>1, <4>2
    <3>3. m._oldest_wts < k._oldest_wts
      BY <2>k, <2>7, <2>3
    <3>4. Version(m, Valid(m), k._oldest_wts, k._row)
      BY <2>k, <2>3 DEF Version, h
    <3> QED
      BY <3>1, <3>2, <3>3, <3>4 DEF Version
  <2>17. k._oldest_wts < min
    BY <2>k, <2>y
  <2> QED
    BY <2>15, <2>16, <2>17 DEF k
<1> QED
  BY <1>1, <1>2

LEMMA MinProperties ==
  ASSUME NEW S, S \subseteq Nat, S # {}
  PROVE  Min(S) \in S /\ Min(S) \in Nat /\ \A x \in S : Min(S) <= x
<1>1. \E x \in S : \A y \in S : x <= y
  BY LeastNat
<1> QED
  BY <1>1 DEF Min

\* A row without prewrite whose entry k is free for the next one.
Room(m, n, k) ==
  /\ Shape(m, n) /\ Versions(m, Valid(m) \ {k}) /\ Reserved(m)
  /\ ~m._exists_prewrite
  /\ k \in 1..Len(m._write_history)

LEMMA UnusedSlotSound ==
  ASSUME MaxTxns \in Nat, NEW m, NEW n \in Nat, RowSound(m, n), ~m._exists_prewrite,
         m._num_versions < Len(m._write_history)
  PROVE  Room(m, n, UnusedSlot(m))
<1> DEFINE h == m._write_history
           rows == {i \in Unused(m) : h[i].row # NULL}
           k == UnusedSlot(m)
<1>m. m \in RowMvcc
  BY DEF RowSound, Shape
<1>h. Len(h) \in Nat /\ DOMAIN h = 1..Len(h)
  BY <1>m, RowFields
<1>1. PICK i \in 1..Len(h) : i \notin Valid(m)
  <2>1. m._num_versions = Cardinality(Valid(m))
    BY DEF RowSound, Versions
  <2>a. Cardinality(1..Len(h)) = Len(h)
    BY <1>h, FS_Interval
  <2>b. m._num_versions \in Nat
    BY <1>m, RowFields
  <2>2. Cardinality(Valid(m)) # Len(h) /\ Cardinality(1..Len(h)) = Len(h)
    BY <2>1, <2>a, <2>b, <1>h
  <2>3. Valid(m) # 1..Len(h) /\ Valid(m) \subseteq 1..Len(h)
    BY <2>2, <1>m, ValidFinite
  <2> QED
    BY <2>3
<1>2. i \in Unused(m)
  BY <1>1, <1>h DEF RowSound, Reserved, Unused, Valid
<1>3. Unused(m) \subseteq 1..Len(h) /\ rows \subseteq Unused(m)
  BY <1>h DEF Unused
<1>4. k \in Unused(m)
  <2>1. CASE rows # {}
    <3>1. rows \subseteq Nat
      BY <1>3, <1>h
    <3>2. k = Min(rows)
      BY <2>1 DEF UnusedSlot
    <3> HIDE DEF rows, k
    <3>3. Min(rows) \in rows
      BY <2>1, <3>1, MinProperties
    <3> QED
      BY <3>2, <3>3, <1>3
  <2>2. CASE rows = {}
    <3>1. IsFiniteSet(Unused(m)) /\ Unused(m) \subseteq Nat
      BY <1>3, <1>h, PositionsFinite
    <3>2. k = Max(Unused(m))
      BY <2>2 DEF UnusedSlot
    <3> HIDE DEF rows, k
    <3>3. Max(Unused(m)) \in Unused(m)
      BY <3>1, <1>2, MaxProperties
    <3> QED
      BY <3>2, <3>3
  <2> QED
    BY <2>1, <2>2
<1> HIDE DEF k
<1>5. k \in 1..Len(h) /\ k \notin Valid(m)
  BY <1>4, <1>h DEF Unused, Valid
<1>6. Valid(m) \ {k} = Valid(m)
  BY <1>5
<1>7. Room(m, n, k)
  BY <1>5, <1>6 DEF Room, RowSound
<1> QED
  BY <1>7 DEF k

LEMMA RecycleSound ==
  ASSUME MaxTxns \in Nat, NEW m, NEW n \in Nat, RowSound(m, n), ~m._exists_prewrite,
         m._num_versions = Len(m._write_history)
  PROVE  /\ Room(Recycle(m), n, Oldest(m, Valid(m))) /\ SameLatest(m, Recycle(m))
         /\ Keeps(m, Valid(m), Recycle(m), Valid(Recycle(m)) \ {Oldest(m, Valid(m))})
         /\ Recycle(m)._num_versions + 1 >= Len(Recycle(m)._write_history)
         /\ Len(Recycle(m)._write_history) = Len(m._write_history)
<1> DEFINE h == m._write_history
           idx == Oldest(m, Valid(m))
           g == [h EXCEPT ![idx] = [h[idx] EXCEPT !.row = m._row]]
           k == Recycle(m)
<1>m. m \in RowMvcc
  BY DEF RowSound, Shape
<1>h. /\ h \in Seq(WriteHisEntry) /\ Len(h) \in Nat /\ DOMAIN h = 1..Len(h)
      /\ \A i \in 1..Len(h) : /\ h[i] \in WriteHisEntry /\ h[i].row \in Nat
                              /\ EntryTs(m, i) \in Nat /\ EntryTs(m, i) = h[i].ts
                              /\ EntryTs(m, i) \in Ts
      /\ m._latest_wts \in Nat /\ m._num_versions \in Nat
  BY <1>m, RowFields DEF EntryTs
<1>v. /\ Valid(m) \subseteq 1..Len(h) /\ IsFiniteSet(Valid(m))
      /\ \A i \in 1..Len(h) : i \in Valid(m) <=> h[i].valid
  BY <1>m, <1>h, ValidFinite DEF Valid
<1>r. m._row \in 1..n /\ m._latest_row \in 1..n /\ Len(h) > 0 /\ m._oldest_wts <= m._latest_wts
  BY DEF RowSound, Shape
<1>1. m._num_versions = Cardinality(Valid(m))
  BY DEF RowSound, Versions
<1>z. m._num_versions = Len(h)
  OBVIOUS
<1>2. Valid(m) # {}
  <2>1. Cardinality({}) = 0
    BY FS_EmptySet
  <2> SUFFICES ASSUME Valid(m) = {} PROVE FALSE
    OBVIOUS
  <2>2. Len(h) = 0
    BY <2>1, <1>1, <1>z
  <2> QED
    BY <2>2, <1>r
<1>3. idx \in Valid(m) /\ idx \in 1..Len(h) /\ \A j \in Valid(m) : EntryTs(m, idx) <= EntryTs(m, j)
  <2>1. Valid(m) \subseteq 1..Len(m._write_history)
    BY <1>v
  <2> QED
    BY <1>m, <1>2, <1>v, <2>1, OldestProperties
<1> HIDE DEF idx
<1>4. k = [m EXCEPT !._row = h[idx].row, !._write_history = g,
                    !._oldest_wts = EntryTs(m, idx), !._num_versions = @ - 1]
  BY <1>m DEF Recycle, idx, RowMvcc
<1>e. /\ g \in Seq(WriteHisEntry) /\ Len(g) = Len(h) /\ DOMAIN g = 1..Len(h)
      /\ \A i \in 1..Len(h) :
          /\ g[i].ts = h[i].ts /\ g[i].valid = h[i].valid /\ g[i].reserved = h[i].reserved
          /\ g[i].row = IF i = idx THEN m._row ELSE h[i].row
  <2>1. h[idx] \in WriteHisEntry /\ m._row \in Nat
    BY <1>3, <1>h, <1>r
  <2>2. [h[idx] EXCEPT !.row = m._row] \in WriteHisEntry
    BY <2>1 DEF WriteHisEntry
  <2>3. g \in Seq(WriteHisEntry) /\ Len(g) = Len(h) /\ DOMAIN g = 1..Len(h)
    <3>1. g \in Seq(WriteHisEntry) /\ Len(g) = Len(h)
      BY <2>2, <1>h, <1>3, ExceptSeq
    <3> QED
      BY <3>1, <1>h
  <2>4. ASSUME NEW i \in 1..Len(h)
        PROVE  /\ g[i].ts = h[i].ts /\ g[i].valid = h[i].valid /\ g[i].reserved = h[i].reserved
               /\ g[i].row = IF i = idx THEN m._row ELSE h[i].row
    <3>1. g[i] = IF i = idx THEN [h[idx] EXCEPT !.row = m._row] ELSE h[i]
      BY <1>h
    <3> HIDE DEF g
    <3> QED
      BY <3>1, <2>1 DEF WriteHisEntry
  <2> QED
    BY <2>3, <2>4
<1> HIDE DEF g, h
<1>k. /\ k._write_history = g /\ k._row = h[idx].row /\ k._oldest_wts = EntryTs(m, idx)
      /\ k._num_versions = m._num_versions - 1
      /\ k._latest_row = m._latest_row /\ k._latest_wts = m._latest_wts
      /\ k._exists_prewrite = m._exists_prewrite
      /\ k._requests = m._requests /\ k._max_served_rts = m._max_served_rts
  BY <1>4, <1>m DEF RowMvcc
<1>V. Valid(k) = Valid(m)
  BY <1>k, <1>e, <1>v DEF Valid
<1>t. \A i \in 1..Len(h) : EntryTs(k, i) = EntryTs(m, i)
  BY <1>k, <1>e, <1>h DEF EntryTs
<1>7. \A i \in Valid(m) : /\ h[i].row # NULL
                          /\ m._oldest_wts < EntryTs(m, i) /\ EntryTs(m, i) <= m._latest_wts
  BY DEF RowSound, Versions, h
<1>8. \A i \in 1..Len(h) : /\ h[i].row \in 0..n /\ h[i].row # m._row
                           /\ \A j \in 1..Len(h) : h[i].row # NULL /\ h[j].row = h[i].row => i = j
  BY DEF RowSound, Shape, Memory, h
<1>5. k \in RowMvcc
  <2>1. h[idx].row \in Nat /\ EntryTs(m, idx) \in Ts /\ m._num_versions - 1 \in Nat
    BY <1>3, <1>h, <1>r, <1>z
  <2>2. [m EXCEPT !._row = h[idx].row, !._write_history = g,
                  !._oldest_wts = EntryTs(m, idx), !._num_versions = m._num_versions - 1] \in RowMvcc
    BY <2>1, <1>e, <1>m DEF RowMvcc
  <2> HIDE DEF k
  <2> QED
    BY <2>2, <1>4
<1>9. Memory(k, n)
  <2> HIDE DEF k
  <2> SUFFICES ASSUME NEW i \in 1..Len(h)
               PROVE  /\ g[i].row \in 0..n /\ g[i].row # h[idx].row
                      /\ \A j \in 1..Len(h) : g[i].row # NULL /\ g[j].row = g[i].row => i = j
    BY <1>k, <1>e DEF Memory
  <2>1. g[i].row \in 0..n /\ g[i].row # h[idx].row
    BY <1>8, <1>e, <1>3, <1>r, <1>7
  <2>2. \A j \in 1..Len(h) : g[i].row # NULL /\ g[j].row = g[i].row => i = j
    BY <1>8, <1>e, <1>3, <1>r
  <2> QED
    BY <2>1, <2>2
<1>10. Shape(k, n)
  <2>1. h[idx].row \in 1..n
    BY <1>7, <1>8, <1>3, <1>h DEF NULL
  <2>2. EntryTs(m, idx) <= m._latest_wts
    BY <1>7, <1>3
  <2> HIDE DEF k
  <2> QED
    BY <1>5, <1>9, <1>k, <1>e, <1>r, <2>1, <2>2 DEF Shape
<1>11. Versions(k, Valid(k) \ {idx})
  <2> HIDE DEF k
  <2> DEFINE W == Valid(k) \ {idx}
  <2>1. k._num_versions = Cardinality(W)
    BY <1>k, <1>V, <1>1, <1>v, <1>3, FS_RemoveElement
  <2>u. \A i, j \in Valid(m) : EntryTs(m, i) = EntryTs(m, j) => i = j
    BY DEF RowSound, Versions
  <2>w. \A i \in W : i \in Valid(m) /\ i \in 1..Len(h) /\ i # idx /\ EntryTs(m, i) > EntryTs(m, idx)
    <3> TAKE i \in W
    <3>1. i \in Valid(m) /\ i \in 1..Len(h) /\ i # idx
      BY <1>V, <1>v
    <3>2. EntryTs(m, i) # EntryTs(m, idx) /\ EntryTs(m, idx) <= EntryTs(m, i)
      BY <3>1, <2>u, <1>3
    <3> QED
      BY <3>1, <3>2, <1>h, <1>3
  <2>2. W # {} => \E i \in W : EntryTs(k, i) = k._latest_wts
    <3> SUFFICES ASSUME NEW j \in W
                 PROVE  \E i \in W : EntryTs(k, i) = k._latest_wts
      OBVIOUS
    <3>1. PICK i \in Valid(m) : EntryTs(m, i) = m._latest_wts
      BY <1>3 DEF RowSound, Versions
    <3>2. EntryTs(m, j) > EntryTs(m, idx) /\ EntryTs(m, j) <= m._latest_wts
      BY <2>w, <1>7
    <3>3. i # idx
      <4>1. EntryTs(m, j) \in Nat /\ EntryTs(m, idx) \in Nat /\ m._latest_wts \in Nat
        BY <1>h, <1>3, <2>w
      <4> QED
        BY <3>1, <3>2, <4>1
    <3>4. i \in W
      BY <3>3, <1>V
    <3> QED
      BY <3>4, <3>1, <1>k, <1>t, <1>v
  <2>3. \A i \in W : /\ k._write_history[i].row # NULL
                     /\ k._oldest_wts < EntryTs(k, i) /\ EntryTs(k, i) <= k._latest_wts
    <3> TAKE i \in W
    <3>1. g[i].row # NULL
      BY <2>w, <1>e, <1>7
    <3> QED
      BY <3>1, <2>w, <1>k, <1>7, <1>t
  <2>4. \A i, j \in W : EntryTs(k, i) = EntryTs(k, j) => i = j
    BY <2>u, <2>w, <1>t
  <2> QED
    BY <2>1, <2>2, <2>3, <2>4 DEF Versions
<1>12. Reserved(k)
  <2> HIDE DEF k
  <2>1. \A i \in 1..Len(h) : ~(h[i].reserved /\ ~h[i].valid)
    BY DEF RowSound, Reserved, h
  <2>2. \A i \in 1..Len(h) : ~(g[i].reserved /\ ~g[i].valid)
    BY <2>1, <1>e
  <2> QED
    BY <2>2, <1>k, <1>e DEF Reserved
<1> HIDE DEF k
<1>13. Room(k, n, idx) /\ SameLatest(m, k)
  BY <1>10, <1>11, <1>12, <1>k, <1>e, <1>3 DEF Room, SameLatest
<1>14. Keeps(m, Valid(m), k, Valid(k) \ {idx})
  <2> SUFFICES ASSUME NEW x, NEW c
               PROVE  /\ Version(k, Valid(k) \ {idx}, x, c) => Version(m, Valid(m), x, c)
                      /\ Version(m, Valid(m), x, c) => Version(k, Valid(k) \ {idx}, x, c) \/ x < k._oldest_wts
    BY DEF Keeps
  <2>1. \A i \in Valid(m) \ {idx} : /\ EntryTs(k, i) = EntryTs(m, i)
                                    /\ k._write_history[i].row = m._write_history[i].row
    BY <1>v, <1>t, <1>k, <1>e DEF h
  <2>2. m._oldest_wts < k._oldest_wts
    BY <1>k, <1>7, <1>3
  <2>3. k._oldest_wts = EntryTs(m, idx) /\ k._row = m._write_history[idx].row
    BY <1>k DEF h
  <2> QED
    BY <2>1, <2>2, <2>3, <1>V, <1>3 DEF Version
<1>15. k._num_versions + 1 >= Len(k._write_history) /\ Len(k._write_history) = Len(m._write_history)
  BY <1>k, <1>e, <1>z, <1>h DEF h
<1> QED
  BY <1>13, <1>14, <1>15 DEF k, idx

LEMMA DoubleSound ==
  ASSUME MaxTxns \in Nat, NEW m, NEW n \in Nat, RowSound(m, n), ~m._exists_prewrite
  PROVE  /\ Room(Double(m), n, Len(m._write_history) + 1) /\ SameLatest(m, Double(m))
         /\ KeepsAll(m, Valid(m), Double(m), Valid(Double(m)) \ {Len(m._write_history) + 1})
<1> DEFINE h == m._write_history
           L == Len(h)
           f == [i \in DOMAIN h |-> NoEntry]
           g == h \o f
           k == Double(m)
<1>m. m \in RowMvcc
  BY DEF RowSound, Shape
<1>h. /\ h \in Seq(WriteHisEntry) /\ L \in Nat /\ DOMAIN h = 1..L
      /\ \A i \in 1..L : /\ h[i] \in WriteHisEntry /\ h[i].row \in Nat
                         /\ EntryTs(m, i) \in Nat /\ EntryTs(m, i) = h[i].ts
  BY <1>m, RowFields DEF EntryTs
<1>v. /\ Valid(m) \subseteq 1..L
      /\ \A i \in 1..L : i \in Valid(m) <=> h[i].valid
  BY <1>m, <1>h, ValidFinite DEF Valid
<1>r. m._row \in 1..n /\ m._latest_row \in 1..n /\ L > 0 /\ m._oldest_wts <= m._latest_wts
  BY DEF RowSound, Shape
<1>1. NoEntry \in WriteHisEntry
  BY DEF NoEntry, WriteHisEntry, Ts, NULL
<1>2. f \in Seq(WriteHisEntry) /\ Len(f) = L /\ \A i \in 1..L : f[i] = NoEntry
  <2>1. f \in [1..L -> WriteHisEntry]
    BY <1>1, <1>h
  <2>2. \A i \in 1..L : f[i] = NoEntry
    BY <1>h
  <2> HIDE DEF f
  <2> QED
    BY <2>1, <2>2, <1>h, IsASeq, LenProperties
<1>4. k = [m EXCEPT !._write_history = g]
  BY DEF Double
<1>e. /\ g \in Seq(WriteHisEntry) /\ Len(g) = L + L /\ DOMAIN g = 1..(L + L)
      /\ \A i \in 1..(L + L) : (i \in 1..L /\ g[i] = h[i]) \/ (i \notin 1..L /\ g[i] = NoEntry)
  <2> HIDE DEF f, h
  <2>1. g \in Seq(WriteHisEntry) /\ Len(g) = L + L
    <3>1. h \in Seq(WriteHisEntry) /\ f \in Seq(WriteHisEntry) /\ Len(f) = Len(h)
      BY <1>2, <1>h
    <3> QED
      BY <3>1, ConcatProperties
  <2>2. \A i \in 1..(L + L) : g[i] = IF i <= L THEN h[i] ELSE f[i - L]
    BY <1>2, <1>h, ConcatProperties
  <2>3. \A i \in 1..(L + L) : (i \in 1..L /\ g[i] = h[i]) \/ (i \notin 1..L /\ g[i] = NoEntry)
    <3> TAKE i \in 1..(L + L)
    <3>1. CASE i <= L
      BY <3>1, <2>2, <1>h
    <3>2. CASE ~(i <= L)
      <4>1. i - L \in 1..L /\ i \notin 1..L
        BY <3>2, <1>h
      <4> QED
        BY <3>2, <4>1, <2>2, <1>2
    <3> QED
      BY <3>1, <3>2
  <2> HIDE DEF g
  <2>4. DOMAIN g = 1..(L + L)
    BY <2>1, LenProperties
  <2> QED
    BY <2>1, <2>3, <2>4
<1> HIDE DEF g, h, f
<1>k. /\ k._write_history = g /\ k._row = m._row /\ k._oldest_wts = m._oldest_wts
      /\ k._num_versions = m._num_versions
      /\ k._latest_row = m._latest_row /\ k._latest_wts = m._latest_wts
      /\ k._exists_prewrite = m._exists_prewrite
      /\ k._requests = m._requests /\ k._max_served_rts = m._max_served_rts
  BY <1>4, <1>m DEF RowMvcc
<1>n. NoEntry.valid = FALSE /\ NoEntry.reserved = FALSE /\ NoEntry.row = NULL
  BY DEF NoEntry
<1>V. Valid(k) = Valid(m)
  <2>1. \A i \in 1..(L + L) : g[i].valid => i \in 1..L
    BY <1>e, <1>n
  <2>2. \A i \in 1..L : i \in 1..(L + L) /\ g[i] = h[i]
    BY <1>e, <1>h
  <2>3. Valid(k) = {i \in 1..(L + L) : g[i].valid}
    BY <1>k, <1>e DEF Valid
  <2> HIDE DEF k
  <2> QED
    BY <2>1, <2>2, <2>3, <1>v
<1>t. \A i \in Valid(m) : EntryTs(k, i) = EntryTs(m, i) /\ g[i] = h[i] /\ i \in 1..L
  <2>1. \A i \in 1..L : g[i] = h[i]
    BY <1>e, <1>h
  <2> QED
    BY <2>1, <1>k, <1>h, <1>v DEF EntryTs
<1>5. k \in RowMvcc
  <2>1. [m EXCEPT !._write_history = g] \in RowMvcc
    BY <1>e, <1>m DEF RowMvcc
  <2> HIDE DEF k
  <2> QED
    BY <2>1, <1>4
<1>8. \A i \in 1..L : /\ h[i].row \in 0..n /\ h[i].row # m._row
                      /\ \A j \in 1..L : h[i].row # NULL /\ h[j].row = h[i].row => i = j
  BY DEF RowSound, Shape, Memory, h
<1>9. Memory(k, n)
  <2> HIDE DEF k
  <2> SUFFICES ASSUME NEW i \in 1..(L + L)
               PROVE  /\ g[i].row \in 0..n /\ g[i].row # m._row
                      /\ \A j \in 1..(L + L) : g[i].row # NULL /\ g[j].row = g[i].row => i = j
    BY <1>k, <1>e DEF Memory
  <2>1. g[i].row \in 0..n /\ g[i].row # m._row
    BY <1>8, <1>e, <1>n, <1>r DEF NULL
  <2>2. \A j \in 1..(L + L) : g[i].row # NULL /\ g[j].row = g[i].row => i = j
    BY <1>8, <1>e, <1>n
  <2> QED
    BY <2>1, <2>2
<1>10. Shape(k, n)
  <2> HIDE DEF k
  <2>1. L + L > 0
    BY <1>r, <1>h
  <2> QED
    BY <1>5, <1>9, <1>k, <1>e, <1>r, <2>1 DEF Shape
<1>11. Versions(k, Valid(k) \ {L + 1})
  <2> HIDE DEF k
  <2>0. Valid(k) \ {L + 1} = Valid(m)
    BY <1>V, <1>v, <1>h
  <2>1. Versions(m, Valid(m))
    BY DEF RowSound
  <2>2. Versions(k, Valid(m))
    BY <2>1, <1>k, <1>t DEF Versions, h
  <2> QED
    BY <2>0, <2>2
<1>12. Reserved(k)
  <2> HIDE DEF k
  <2>1. \A i \in 1..L : ~(h[i].reserved /\ ~h[i].valid)
    BY DEF RowSound, Reserved, h
  <2>2. \A i \in 1..(L + L) : ~(g[i].reserved /\ ~g[i].valid)
    BY <2>1, <1>e, <1>n
  <2> QED
    BY <2>2, <1>k, <1>e DEF Reserved
<1> HIDE DEF k
<1>13. L + 1 \in 1..(L + L)
  BY <1>r, <1>h
<1>14. Room(k, n, L + 1) /\ SameLatest(m, k)
  BY <1>10, <1>11, <1>12, <1>k, <1>e, <1>13 DEF Room, SameLatest
<1>15. KeepsAll(m, Valid(m), k, Valid(k) \ {L + 1})
  <2>1. Valid(k) \ {L + 1} = Valid(m)
    BY <1>V, <1>v, <1>h
  <2>2. \A i \in Valid(m) : /\ EntryTs(k, i) = EntryTs(m, i)
                            /\ k._write_history[i].row = m._write_history[i].row
    BY <1>t, <1>k DEF h
  <2>3. KeepsAll(m, Valid(m), k, Valid(m))
    BY <2>2, <1>k DEF KeepsAll, Version
  <2> QED
    BY <2>1, <2>3
<1> QED
  BY <1>14, <1>15 DEF k, h

\* reserveRow makes room, and
LEMMA MadeRoomSound ==
  ASSUME MaxTxns \in Nat, NEW m, NEW n \in Nat, RowSound(m, n), ~m._exists_prewrite,
         NEW k, k = MadeRoom(m).row, NEW j, j = MadeRoom(m).idx
  PROVE  /\ Room(k, n, j) /\ SameLatest(m, k)
         /\ Keeps(m, Valid(m), k, Valid(k) \ {j})
         /\ \/ KeepsAll(m, Valid(m), k, Valid(k) \ {j})
            \/ /\ k._num_versions + 1 >= Len(k._write_history)
               /\ Len(k._write_history) >= Cardinality(Threads)
<1>m. m \in RowMvcc
  BY DEF RowSound, Shape
<1>h. Len(m._write_history) \in Nat /\ m._num_versions \in Nat
  BY <1>m, RowFields
<1>0. m._num_versions = Cardinality(Valid(m))
  BY DEF RowSound, Versions
<1>c. Cardinality(Valid(m)) <= Len(m._write_history)
  BY <1>m, ValidFinite
<1>1. CASE m._num_versions < Len(m._write_history)
  <2>1. MadeRoom(m) = [row |-> m, idx |-> UnusedSlot(m)]
    BY <1>1 DEF MadeRoom
  <2>2. k = m /\ j = UnusedSlot(m)
    BY <2>1
  <2>3. Room(m, n, j)
    BY <2>2, <1>1, UnusedSlotSound
  <2>4. j \notin Valid(m)
    <3>1. Versions(m, Valid(m) \ {j})
      BY <2>3 DEF Room
    <3>2. Cardinality(Valid(m) \ {j}) = Cardinality(Valid(m))
      BY <3>1, <1>0 DEF Versions
    <3>3. IsFiniteSet(Valid(m)) /\ Cardinality(Valid(m)) \in Nat
      BY <1>m, ValidFinite
    <3>4. j \in Valid(m) => Cardinality(Valid(m) \ {j}) = Cardinality(Valid(m)) - 1
      BY <3>3, FS_RemoveElement
    <3> QED
      BY <3>2, <3>3, <3>4
  <2>5. Valid(m) \ {j} = Valid(m)
    BY <2>4
  <2>6. KeepsAll(m, Valid(m), m, Valid(m) \ {j}) /\ Keeps(m, Valid(m), m, Valid(m) \ {j})
    BY <2>5 DEF Keeps, KeepsAll
  <2> QED
    BY <2>2, <2>3, <2>6 DEF SameLatest
<1>2. CASE ~(m._num_versions < Len(m._write_history)) /\ Len(m._write_history) >= Cardinality(Threads)
  <2>1. MadeRoom(m) = [row |-> Recycle(m), idx |-> Oldest(m, Valid(m))]
    BY <1>2 DEF MadeRoom
  <2>2. k = Recycle(m) /\ j = Oldest(m, Valid(m))
    BY <2>1
  <2>3. m._num_versions = Len(m._write_history)
    BY <1>2, <1>h, <1>0, <1>c
  <2>4. /\ Room(k, n, j) /\ SameLatest(m, k) /\ Keeps(m, Valid(m), k, Valid(k) \ {j})
        /\ k._num_versions + 1 >= Len(k._write_history)
        /\ Len(k._write_history) = Len(m._write_history)
    BY <2>2, <2>3, RecycleSound
  <2> QED
    BY <2>4, <1>2
<1>3. CASE ~(m._num_versions < Len(m._write_history)) /\ ~(Len(m._write_history) >= Cardinality(Threads))
  <2>1. MadeRoom(m) = [row |-> Double(m), idx |-> Len(m._write_history) + 1]
    BY <1>3 DEF MadeRoom
  <2>2. k = Double(m) /\ j = Len(m._write_history) + 1
    BY <2>1
  <2>3. Room(k, n, j) /\ SameLatest(m, k) /\ KeepsAll(m, Valid(m), k, Valid(k) \ {j})
    BY <2>2, DoubleSound
  <2>4. Keeps(m, Valid(m), k, Valid(k) \ {j})
    BY <2>3 DEF Keeps, KeepsAll
  <2> QED
    BY <2>3, <2>4
<1> QED
  BY <1>1, <1>2, <1>3

\* sets up an entry for the prewrite, which is younger than all versions.
Entry(p_ts, c) == [valid |-> FALSE, reserved |-> TRUE, ts |-> p_ts, row |-> c]
Reserve(m, k, p_ts, c) ==
  [m EXCEPT !._write_history[k] = Entry(p_ts, c), !._exists_prewrite = TRUE,
            !._prewrite_his_id = k, !._prewrite_ts = p_ts]

\* The memory c of the entry is its own or the next cell; d cells are there then.
Cell(row, n, c, d) == IF row = NULL THEN c = n + 1 /\ d = n + 1 ELSE c = row /\ d = n

\* What it leaves.
IsReserved(m, V, q, p_ts, c, d) ==
  /\ RowSound(q, d)
  /\ c \in 1..d /\ c # q._row
  /\ PrewriteRow(q) = c /\ q._exists_prewrite /\ q._prewrite_ts = p_ts
  /\ q._latest_wts = m._latest_wts /\ q._latest_row = m._latest_row
  /\ q._requests = m._requests /\ q._max_served_rts = m._max_served_rts
  /\ KeepsAll(m, V, q, Valid(q)) /\ q._oldest_wts = m._oldest_wts
  /\ q._num_versions = m._num_versions /\ Len(q._write_history) = Len(m._write_history)

LEMMA ReserveSound ==
  ASSUME MaxTxns \in Nat, NEW m, NEW n \in Nat, NEW k, Room(m, n, k),
         NEW p_ts \in Ts, p_ts > m._latest_wts,
         NEW c \in Nat, NEW d \in Nat, Cell(m._write_history[k].row, n, c, d),
         NEW q, q = Reserve(m, k, p_ts, c), NEW V, V = Valid(m) \ {k}
  PROVE  IsReserved(m, V, q, p_ts, c, d)
<1> DEFINE h == m._write_history
           L == Len(h)
           e == Entry(p_ts, c)
           g == [h EXCEPT ![k] = e]
<1>m. m \in RowMvcc /\ k \in 1..L /\ k \in Nat
  BY RowFields DEF Room, Shape
<1>h. /\ h \in Seq(WriteHisEntry) /\ L \in Nat /\ DOMAIN h = 1..L
      /\ \A i \in 1..L : /\ h[i] \in WriteHisEntry /\ h[i].row \in Nat
                         /\ EntryTs(m, i) \in Nat /\ EntryTs(m, i) = h[i].ts
      /\ m._latest_wts \in Nat
  BY <1>m, RowFields DEF EntryTs
<1>r. m._row \in 1..n /\ m._latest_row \in 1..n /\ L > 0 /\ m._oldest_wts <= m._latest_wts
  BY DEF Room, Shape
<1>8. \A i \in 1..L : /\ h[i].row \in 0..n /\ h[i].row # m._row
                      /\ \A j \in 1..L : h[i].row # NULL /\ h[j].row = h[i].row => i = j
  BY DEF Room, Shape, Memory
<1>w. \/ h[k].row = NULL /\ c = n + 1 /\ d = n + 1
      \/ h[k].row # NULL /\ c = h[k].row /\ d = n
  BY DEF Cell
<1>v. /\ Valid(m) \subseteq 1..L
      /\ \A i \in 1..L : i \in Valid(m) <=> h[i].valid
  BY <1>m, <1>h, ValidFinite DEF Valid
<1>f. /\ e \in WriteHisEntry /\ e.valid = FALSE /\ e.reserved = TRUE /\ e.ts = p_ts /\ e.row = c
  BY DEF Entry, WriteHisEntry
<1> HIDE DEF e, h
<1>g. /\ g \in Seq(WriteHisEntry) /\ Len(g) = L /\ DOMAIN g = 1..L
      /\ \A i \in 1..L : g[i] = IF i = k THEN e ELSE h[i]
  <2>1. /\ g \in Seq(WriteHisEntry) /\ Len(g) = L
        /\ \A i \in 1..L : g[i] = IF i = k THEN e ELSE h[i]
    BY <1>h, <1>f, <1>m, ExceptSeq
  <2> QED
    BY <2>1, <1>h
<1> HIDE DEF g
<1>1. q = [m EXCEPT !._write_history = g, !._exists_prewrite = TRUE,
                    !._prewrite_his_id = k, !._prewrite_ts = p_ts]
  BY <1>m DEF Reserve, g, h, e, RowMvcc
<1>q. /\ q._write_history = g /\ q._exists_prewrite = TRUE /\ q._prewrite_his_id = k /\ q._prewrite_ts = p_ts
      /\ q._row = m._row /\ q._oldest_wts = m._oldest_wts /\ q._num_versions = m._num_versions
      /\ q._latest_row = m._latest_row /\ q._latest_wts = m._latest_wts
      /\ q._requests = m._requests /\ q._max_served_rts = m._max_served_rts
  BY <1>1, <1>m DEF RowMvcc
<1>2. q \in RowMvcc
  <2>1. [m EXCEPT !._write_history = g, !._exists_prewrite = TRUE,
                    !._prewrite_his_id = k, !._prewrite_ts = p_ts] \in RowMvcc
    BY <1>m, <1>g DEF RowMvcc
  <2> QED
    BY <2>1, <1>1
<1>V. Valid(q) = Valid(m) \ {k}
  <2>1. Valid(q) = {i \in 1..L : g[i].valid}
    BY <1>q, <1>g DEF Valid
  <2> QED
    BY <2>1, <1>g, <1>f, <1>v, <1>m
<1>c. c \in 1..d /\ c # m._row /\ \A i \in 1..L : i # k => h[i].row # c
  <2>1. CASE h[k].row = NULL /\ c = n + 1 /\ d = n + 1
    BY <2>1, <1>8, <1>r
  <2>2. CASE h[k].row # NULL /\ c = h[k].row /\ d = n
    BY <2>2, <1>8, <1>r, <1>m DEF NULL
  <2> QED
    BY <2>1, <2>2, <1>w
<1>d. d \in Nat /\ d >= n
  BY <1>w
<1>3. Memory(q, d)
  <2> SUFFICES ASSUME NEW i \in 1..L
               PROVE  /\ g[i].row \in 0..d /\ g[i].row # m._row
                      /\ \A j \in 1..L : g[i].row # NULL /\ g[j].row = g[i].row => i = j
    BY <1>q, <1>g DEF Memory
  <2>1. g[i].row \in 0..d /\ g[i].row # m._row
    <3>1. CASE i = k
      BY <3>1, <1>g, <1>f, <1>c
    <3>2. CASE i # k
      BY <3>2, <1>g, <1>8, <1>d
    <3> QED
      BY <3>1, <3>2
  <2>2. ASSUME NEW j \in 1..L, g[i].row # NULL, g[j].row = g[i].row
        PROVE  i = j
    <3>1. \A x \in 1..L : g[x].row = IF x = k THEN c ELSE h[x].row
      BY <1>g, <1>f
    <3> QED
      BY <3>1, <2>2, <1>c, <1>8
  <2> QED
    BY <2>1, <2>2
<1>4. Shape(q, d)
  BY <1>2, <1>3, <1>q, <1>g, <1>r, <1>d DEF Shape
<1>5. Versions(q, Valid(q))
  <2>1. Versions(m, Valid(m) \ {k})
    BY DEF Room
  <2>2. \A i \in Valid(m) \ {k} : EntryTs(q, i) = EntryTs(m, i) /\ g[i] = h[i]
    BY <1>g, <1>q, <1>v, <1>h DEF EntryTs
  <2>3. Versions(q, Valid(m) \ {k})
    BY <2>1, <2>2, <1>q DEF Versions, h
  <2> QED
    BY <2>3, <1>V
<1>6. Reserved(q)
  <2>1. \A i \in 1..L : ~(h[i].reserved /\ ~h[i].valid)
    BY DEF Room, Reserved, h
  <2>2. \A i \in 1..L : g[i].reserved /\ ~g[i].valid => i = k
    BY <2>1, <1>g
  <2> QED
    BY <2>2, <1>q, <1>g DEF Reserved
<1>7. Prewrite(q) /\ PrewriteRow(q) = c
  <2>1. g[k] = e
    BY <1>g, <1>m
  <2>2. c # NULL
    BY <1>c DEF NULL
  <2> QED
    BY <2>1, <2>2, <1>q, <1>g, <1>f, <1>m DEF Prewrite, PrewriteRow
<1>9. KeepsAll(m, Valid(m) \ {k}, q, Valid(q))
  <2>1. \A i \in Valid(q) : /\ EntryTs(q, i) = EntryTs(m, i)
                            /\ q._write_history[i].row = m._write_history[i].row
    BY <1>g, <1>q, <1>v, <1>h, <1>V DEF EntryTs, h
  <2> QED
    BY <2>1, <1>V, <1>q DEF KeepsAll, Version
<1>10. Len(q._write_history) = Len(m._write_history)
  BY <1>q, <1>g DEF h
<1>11. RowSound(q, d)
  BY <1>4, <1>5, <1>6, <1>7 DEF RowSound
<1> QED
  BY <1>7, <1>9, <1>10, <1>11, <1>q, <1>c DEF IsReserved

\* What making room in m leaves: nothing is lost but versions older than the oldest one
\* left; and if any is, that one is older than min, or the history had to be recycled.
Stays(m, q, min) ==
  /\ Keeps(m, Valid(m), q, Valid(q))
  /\ \/ KeepsAll(m, Valid(m), q, Valid(q)) \/ q._oldest_wts < min
     \/ /\ q._num_versions + 1 >= Len(q._write_history)
        /\ Len(q._write_history) >= Cardinality(Threads)

\* The whole of reserveRow, with the copy of the latest version into the memory of
\* the prewrite.
LEMMA reserveRowSound ==
  ASSUME MaxTxns \in Nat, NEW m, NEW cells \in Seq(Ts), RowSound(m, Len(cells)), ~m._exists_prewrite,
         NEW p_ts \in Ts, p_ts > m._latest_wts, NEW min \in Nat,
         NEW q, q = reserveRow(m, p_ts, min, Len(cells)),
         NEW after, after = CopyLatest(q, cells)
  PROVE  /\ after \in Seq(Ts) /\ Len(after) >= Len(cells)
         /\ RowSound(q, Len(after))
         /\ PrewriteRow(q) \in 1..Len(after)
         /\ q._exists_prewrite /\ q._prewrite_ts = p_ts
         /\ q._latest_wts = m._latest_wts /\ q._latest_row = m._latest_row
         /\ q._requests = m._requests /\ q._max_served_rts = m._max_served_rts
         /\ Stays(m, q, min)
         /\ after[PrewriteRow(q)] = cells[m._latest_row]
         /\ \A x \in 1..Len(cells) : x # PrewriteRow(q) => after[x] = cells[x]
<1> DEFINE n == Len(cells)
           g == Gc(m, min)
           k == MadeRoom(g).row
           i == MadeRoom(g).idx
           c == IF k._write_history[i].row = NULL THEN n + 1 ELSE k._write_history[i].row
           d == IF k._write_history[i].row = NULL THEN n + 1 ELSE n
<1>n. n \in Nat
  OBVIOUS
<1>1. /\ RowSound(g, n) /\ SameLatest(m, g)
      /\ Keeps(m, Valid(m), g, Valid(g))
      /\ KeepsAll(m, Valid(m), g, Valid(g)) \/ g._oldest_wts < min
  BY <1>n, GcSound
<1>2. ~g._exists_prewrite
  BY <1>1 DEF SameLatest
<1> HIDE DEF g
<1>3. /\ Room(k, n, i) /\ SameLatest(g, k)
      /\ Keeps(g, Valid(g), k, Valid(k) \ {i})
      /\ \/ KeepsAll(g, Valid(g), k, Valid(k) \ {i})
         \/ /\ k._num_versions + 1 >= Len(k._write_history)
            /\ Len(k._write_history) >= Cardinality(Threads)
  BY <1>n, <1>1, <1>2, MadeRoomSound
<1>4. q = Reserve(k, i, p_ts, c)
  BY DEF reserveRow, Reserve, Entry, g
<1>m. k \in RowMvcc /\ i \in 1..Len(k._write_history)
  BY <1>3 DEF Room, Shape
<1> HIDE DEF k, i
<1>h. k._write_history[i].row \in Nat
  BY <1>m, RowFields
<1>5. c \in Nat /\ d \in Nat
  BY <1>n, <1>h
<1>6. \/ k._write_history[i].row = NULL /\ c = n + 1 /\ d = n + 1
      \/ k._write_history[i].row # NULL /\ c = k._write_history[i].row /\ d = n
  OBVIOUS
<1>z. Cell(k._write_history[i].row, n, c, d)
  BY DEF Cell
<1>s. k._latest_wts = m._latest_wts /\ k._latest_row = m._latest_row
      /\ k._requests = m._requests /\ k._max_served_rts = m._max_served_rts
  BY <1>1, <1>3 DEF SameLatest
<1>7. p_ts > k._latest_wts
  BY <1>s
<1> HIDE DEF c, d
<1>8. /\ RowSound(q, d)
      /\ c \in 1..d /\ c # q._row
      /\ PrewriteRow(q) = c /\ q._exists_prewrite /\ q._prewrite_ts = p_ts
      /\ q._latest_wts = k._latest_wts /\ q._latest_row = k._latest_row
      /\ q._requests = k._requests /\ q._max_served_rts = k._max_served_rts
      /\ KeepsAll(k, Valid(k) \ {i}, q, Valid(q)) /\ q._oldest_wts = k._oldest_wts
      /\ q._num_versions = k._num_versions /\ Len(q._write_history) = Len(k._write_history)
  <2> HIDE DEF n
  <2> DEFINE V == Valid(k) \ {i}
  <2>1. Room(k, n, i) /\ V = Valid(k) \ {i}
    BY <1>3
  <2> HIDE DEF V
  <2>2. IsReserved(k, V, q, p_ts, c, d)
    BY <1>n, <2>1, <1>4, <1>5, <1>z, <1>7, ReserveSound
  <2> QED
    BY <2>1, <2>2 DEF IsReserved
<1>9. /\ after \in Seq(Ts) /\ Len(after) = d
      /\ after[c] = cells[q._latest_row]
      /\ \A x \in 1..n : x # c => after[x] = cells[x]
  <2>1. q._latest_row \in 1..n
    <3>1. m._latest_row \in 1..n
      BY DEF RowSound, Shape
    <3> QED
      BY <3>1, <1>8, <1>s
  <2>2. cells[q._latest_row] \in Ts
    BY <2>1, ElementOfSeq
  <2>3. after = IF c > n THEN Append(cells, cells[q._latest_row]) ELSE [cells EXCEPT ![c] = cells[q._latest_row]]
    BY <1>8 DEF CopyLatest
  <2>4. CASE c > n
    <3>1. d = n + 1 /\ c = n + 1
      BY <2>4, <1>6, <1>8, <1>n
    <3>2. after = Append(cells, cells[q._latest_row])
      BY <2>3, <2>4
    <3>3. /\ after \in Seq(Ts) /\ Len(after) = n + 1 /\ after[n + 1] = cells[q._latest_row]
          /\ \A x \in 1..n : after[x] = cells[x]
      BY <3>2, <2>2, AppendProperties
    <3> QED
      BY <3>1, <3>3
  <2>5. CASE ~(c > n)
    <3>1. d = n /\ c \in 1..n
      BY <2>5, <1>6, <1>8, <1>n, <1>5
    <3>2. after = [cells EXCEPT ![c] = cells[q._latest_row]]
      BY <2>3, <2>5
    <3>3. /\ after \in Seq(Ts) /\ Len(after) = n
          /\ \A x \in 1..n : after[x] = IF x = c THEN cells[q._latest_row] ELSE cells[x]
      BY <3>1, <3>2, <2>2, ExceptSeq
    <3> QED
      BY <3>1, <3>3
  <2> QED
    BY <2>4, <2>5
<1>10. d >= n
  BY <1>6, <1>n, <1>5
<1>11. Stays(m, q, min)
  <2>0. Keeps(m, Valid(m), g, Valid(g)) /\ Keeps(g, Valid(g), k, Valid(k) \ {i})
    BY <1>1, <1>3
  <2>1. g._oldest_wts <= k._oldest_wts
    <3>1. g \in RowMvcc /\ \A j \in Valid(g) : g._oldest_wts < EntryTs(g, j)
      BY <1>1 DEF RowSound, Shape, Versions
    <3>2. Version(k, Valid(k) \ {i}, k._oldest_wts, k._row)
      BY DEF Version
    <3>3. Version(g, Valid(g), k._oldest_wts, k._row)
      BY <3>2, <2>0, Zenon DEF Keeps
    <3>4. g._oldest_wts \in Nat /\ \A j \in Valid(g) : EntryTs(g, j) \in Nat
      BY <3>1, ValidFinite, RowFields
    <3> QED
      BY <3>1, <3>3, <3>4 DEF Version
  <2>2. k._oldest_wts \in Nat /\ g._oldest_wts \in Nat /\ m._oldest_wts \in Nat
    BY <1>m, <1>1, RowFields DEF RowSound, Shape
  <2>t. \A x, e : Version(m, Valid(m), x, e) => x \in Nat
    <3>1. m \in RowMvcc
      BY DEF RowSound, Shape
    <3>2. \A j \in Valid(m) : EntryTs(m, j) \in Nat
      BY <3>1, ValidFinite, RowFields
    <3> QED
      BY <3>2, <2>2 DEF Version
  <2>3. Keeps(m, Valid(m), q, Valid(q))
    <3> SUFFICES ASSUME NEW x, NEW e
                 PROVE  /\ Version(q, Valid(q), x, e) => Version(m, Valid(m), x, e)
                        /\ Version(m, Valid(m), x, e) => Version(q, Valid(q), x, e) \/ x < q._oldest_wts
      BY DEF Keeps
    <3>1. Version(q, Valid(q), x, e) <=> Version(k, Valid(k) \ {i}, x, e)
      BY <1>8 DEF KeepsAll
    <3>2. /\ Version(k, Valid(k) \ {i}, x, e) => Version(g, Valid(g), x, e)
          /\ Version(g, Valid(g), x, e) => Version(k, Valid(k) \ {i}, x, e) \/ x < k._oldest_wts
      BY <2>0, Zenon DEF Keeps
    <3>3. /\ Version(g, Valid(g), x, e) => Version(m, Valid(m), x, e)
          /\ Version(m, Valid(m), x, e) => Version(g, Valid(g), x, e) \/ x < g._oldest_wts
      BY <2>0, Zenon DEF Keeps
    <3>4. x \in Nat /\ x < g._oldest_wts => x < k._oldest_wts
      BY <2>1, <2>2
    <3> QED
      BY <3>1, <3>2, <3>3, <3>4, <2>t, <1>8
  <2>4. CASE /\ q._num_versions + 1 >= Len(q._write_history)
             /\ Len(q._write_history) >= Cardinality(Threads)
    BY <2>4, <2>3 DEF Stays
  <2>5. CASE KeepsAll(g, Valid(g), k, Valid(k) \ {i})
    <3>1. KeepsAll(g, Valid(g), q, Valid(q))
      BY <2>5, <1>8 DEF KeepsAll
    <3>2. CASE KeepsAll(m, Valid(m), g, Valid(g))
      <4>1. KeepsAll(m, Valid(m), q, Valid(q))
        BY <3>1, <3>2 DEF KeepsAll
      <4> QED
        BY <4>1, <2>3 DEF Stays
    <3>3. CASE g._oldest_wts < min
      <4>1. Version(g, Valid(g), g._oldest_wts, g._row)
        BY DEF Version
      <4>2. Version(q, Valid(q), g._oldest_wts, g._row)
        BY <4>1, <3>1 DEF KeepsAll
      <4>3. q._oldest_wts <= g._oldest_wts
        <5>1. q \in RowMvcc /\ \A j \in Valid(q) : q._oldest_wts < EntryTs(q, j)
          BY <1>8 DEF RowSound, Shape, Versions
        <5>2. q._oldest_wts \in Nat /\ \A j \in Valid(q) : EntryTs(q, j) \in Nat
          BY <5>1, ValidFinite, RowFields
        <5> QED
          BY <5>1, <5>2, <4>2 DEF Version
      <4>4. q._oldest_wts < min
        BY <4>3, <3>3, <2>2, <1>8
      <4> QED
        BY <4>4, <2>3 DEF Stays
    <3> QED
      BY <3>2, <3>3, <1>1
  <2> QED
    BY <2>4, <2>5, <1>3, <1>8
<1> QED
  BY <1>8, <1>9, <1>10, <1>11, <1>s

\* W_REQ: the prewrite becomes the latest version.
LEMMA CommittedSound ==
  ASSUME MaxTxns \in Nat, NEW m, NEW n \in Nat, RowSound(m, n), m._exists_prewrite,
         NEW t, ts[t] \in Ts, ts[t] = m._prewrite_ts, NEW c, c = PrewriteRow(m),
         NEW q, q = Committed(m, t, c)
  PROVE  /\ RowSound(q, n) /\ ~q._exists_prewrite
         /\ q._latest_wts = ts[t] /\ q._latest_row \in 1..n /\ q._latest_row = c
         /\ q._requests = m._requests /\ q._max_served_rts = m._max_served_rts
         /\ q._oldest_wts = m._oldest_wts
         /\ \A y, b : Version(q, Valid(q), y, b) <=> Version(m, Valid(m), y, b) \/ (y = ts[t] /\ b = c)
<1> DEFINE h == m._write_history
           L == Len(h)
           k == m._prewrite_his_id
           x == ts[t]
           e == [h[k] EXCEPT !.valid = TRUE, !.ts = x]
           g == [h EXCEPT ![k] = e]
<1>p. Prewrite(m)
  BY DEF RowSound
<1>m. m \in RowMvcc /\ k \in 1..L
  BY <1>p DEF RowSound, Shape, Prewrite
<1>h. /\ h \in Seq(WriteHisEntry) /\ L \in Nat /\ DOMAIN h = 1..L
      /\ \A i \in 1..L : /\ h[i] \in WriteHisEntry /\ h[i].row \in Nat
                         /\ EntryTs(m, i) \in Nat /\ EntryTs(m, i) = h[i].ts
      /\ m._latest_wts \in Nat /\ m._oldest_wts \in Nat /\ m._num_versions \in Nat
  BY <1>m, RowFields DEF EntryTs
<1>k. h[k].reserved /\ ~h[k].valid /\ h[k].row # NULL /\ m._latest_wts < x /\ x \in Nat /\ h[k].row = c
  BY <1>p, <1>m DEF Prewrite, PrewriteRow, Ts
<1>r. m._row \in 1..n /\ m._latest_row \in 1..n /\ L > 0 /\ m._oldest_wts <= m._latest_wts
  BY DEF RowSound, Shape
<1>8. \A i \in 1..L : /\ h[i].row \in 0..n /\ h[i].row # m._row
                      /\ \A j \in 1..L : h[i].row # NULL /\ h[j].row = h[i].row => i = j
  BY DEF RowSound, Shape, Memory
<1>v. /\ Valid(m) \subseteq 1..L /\ IsFiniteSet(Valid(m))
      /\ \A i \in 1..L : i \in Valid(m) <=> h[i].valid
  BY <1>m, <1>h, ValidFinite DEF Valid
<1> HIDE DEF x
<1>f. /\ e \in WriteHisEntry /\ e.valid = TRUE /\ e.reserved = h[k].reserved /\ e.ts = x /\ e.row = h[k].row
  <2>1. h[k] \in WriteHisEntry /\ x \in Ts
    BY <1>h, <1>m DEF x
  <2> QED
    BY <2>1 DEF WriteHisEntry
<1>1. q = [m EXCEPT !._write_history = g, !._latest_wts = x, !._latest_row = c,
                    !._exists_prewrite = FALSE, !._num_versions = m._num_versions + 1]
  <2>1. [[h EXCEPT ![k].valid = TRUE] EXCEPT ![k].ts = x] = g
    BY <1>h, <1>m
  <2> QED
    BY <2>1, <1>m DEF Committed, RowMvcc, x
<1> HIDE DEF e, h, k
<1>g. /\ g \in Seq(WriteHisEntry) /\ Len(g) = L /\ DOMAIN g = 1..L
      /\ \A i \in 1..L : g[i] = IF i = k THEN e ELSE h[i]
  <2>1. /\ g \in Seq(WriteHisEntry) /\ Len(g) = L
        /\ \A i \in 1..L : g[i] = IF i = k THEN e ELSE h[i]
    BY <1>h, <1>f, <1>m, ExceptSeq
  <2> QED
    BY <2>1, <1>h
<1> HIDE DEF g
<1>q. /\ q._write_history = g /\ q._exists_prewrite = FALSE
      /\ q._row = m._row /\ q._oldest_wts = m._oldest_wts /\ q._num_versions = m._num_versions + 1
      /\ q._latest_row = c /\ q._latest_wts = x
      /\ q._requests = m._requests /\ q._max_served_rts = m._max_served_rts
  BY <1>1, <1>m DEF RowMvcc
<1>2. q \in RowMvcc
  <2>1. x \in Ts /\ c \in Nat /\ m._num_versions + 1 \in Nat
    BY <1>k, <1>h, <1>m DEF x
  <2> QED
    BY <1>1, <2>1, <1>m, <1>g DEF RowMvcc
<1>V. Valid(q) = Valid(m) \cup {k} /\ k \notin Valid(m)
  <2>1. Valid(q) = {i \in 1..L : g[i].valid}
    BY <1>q, <1>g DEF Valid
  <2> QED
    BY <2>1, <1>g, <1>f, <1>v, <1>m, <1>k
<1>e. \A i \in 1..L : g[i].row = h[i].row
  BY <1>g, <1>f
<1>3. Memory(q, n)
  BY <1>q, <1>g, <1>e, <1>8 DEF Memory
<1>c. c \in 1..n
  BY <1>k, <1>8, <1>m, <1>h DEF NULL
<1>4. Shape(q, n)
  <2>1. m._oldest_wts <= x
    BY <1>k, <1>h, <1>r
  <2> QED
    BY <1>2, <1>3, <1>q, <1>g, <1>r, <1>c, <2>1 DEF Shape
<1>5. Versions(q, Valid(q))
  <2>0. \A i \in Valid(m) : /\ h[i].row # NULL
                            /\ m._oldest_wts < EntryTs(m, i) /\ EntryTs(m, i) <= m._latest_wts
    BY DEF RowSound, Versions, h
  <2>1. q._num_versions = Cardinality(Valid(q))
    <3>1. m._num_versions = Cardinality(Valid(m))
      BY DEF RowSound, Versions
    <3> QED
      <4>1. Cardinality(Valid(m) \cup {k}) = Cardinality(Valid(m)) + 1
        BY <1>V, <1>v, FS_AddElement
      <4> QED
        BY <3>1, <4>1, <1>q, <1>V
  <2>2. EntryTs(q, k) = x /\ k \in Valid(q) /\ g[k].row # NULL
    BY <1>q, <1>g, <1>f, <1>m, <1>V, <1>k DEF EntryTs
  <2>3. \A i \in Valid(m) : EntryTs(q, i) = EntryTs(m, i) /\ g[i] = h[i] /\ i \in 1..L /\ EntryTs(m, i) \in Nat
    BY <1>g, <1>q, <1>v, <1>h, <1>V DEF EntryTs
  <2>4. \A i \in Valid(m) : EntryTs(q, i) < x
    BY <2>3, <2>0, <1>k, <1>h
  <2>5. \A i \in Valid(q) : /\ g[i].row # NULL
                            /\ m._oldest_wts < EntryTs(q, i) /\ EntryTs(q, i) <= x
    <3> TAKE i \in Valid(q)
    <3>1. CASE i = k
      BY <3>1, <2>2, <1>k, <1>h, <1>r
    <3>2. CASE i \in Valid(m)
      BY <3>2, <2>0, <2>3, <2>4, <1>k, <1>h
    <3> QED
      BY <3>1, <3>2, <1>V
  <2>6. \A i, j \in Valid(q) : EntryTs(q, i) = EntryTs(q, j) => i = j
    <3>1. \A i, j \in Valid(m) : EntryTs(m, i) = EntryTs(m, j) => i = j
      BY DEF RowSound, Versions
    <3>2. \A i \in Valid(m) : EntryTs(q, i) # x
      BY <2>3, <2>4, <1>k
    <3> QED
      BY <3>1, <3>2, <2>2, <2>3, <1>V
  <2> QED
    BY <2>1, <2>2, <2>5, <2>6, <1>q DEF Versions
<1>6. Reserved(q)
  <2>1. \A i \in 1..L : h[i].reserved /\ ~h[i].valid => i = k
    BY DEF RowSound, Reserved, h, k
  <2>2. \A i \in 1..L : ~(g[i].reserved /\ ~g[i].valid)
    BY <2>1, <1>g, <1>f
  <2> QED
    BY <2>2, <1>q, <1>g DEF Reserved
<1>7. Prewrite(q)
  BY <1>q DEF Prewrite
<1>9. ASSUME NEW y, NEW b
      PROVE  Version(q, Valid(q), y, b) <=> Version(m, Valid(m), y, b) \/ (y = x /\ b = c)
  <2>1. \A i \in Valid(m) : EntryTs(q, i) = EntryTs(m, i) /\ g[i].row = h[i].row
    BY <1>g, <1>q, <1>v, <1>h, <1>V DEF EntryTs
  <2>2. EntryTs(q, k) = x /\ g[k].row = c
    BY <1>q, <1>g, <1>f, <1>m, <1>k DEF EntryTs
  <2> QED
    BY <2>1, <2>2, <1>V, <1>q DEF Version, h
<1>10. RowSound(q, n)
  BY <1>4, <1>5, <1>6, <1>7 DEF RowSound
<1> QED
  BY <1>9, <1>10, <1>q, <1>c DEF x

\* XP_REQ: the prewrite is dropped.
LEMMA DroppedSound ==
  ASSUME MaxTxns \in Nat, NEW m, NEW n \in Nat, RowSound(m, n), m._exists_prewrite,
         NEW q, q = Dropped(m)
  PROVE  /\ RowSound(q, n) /\ ~q._exists_prewrite
         /\ q._latest_wts = m._latest_wts /\ q._latest_row \in 1..n /\ q._latest_row = m._latest_row
         /\ q._requests = m._requests /\ q._max_served_rts = m._max_served_rts
         /\ KeepsAll(m, Valid(m), q, Valid(q)) /\ q._oldest_wts = m._oldest_wts
<1> DEFINE h == m._write_history
           L == Len(h)
           k == m._prewrite_his_id
           e == [h[k] EXCEPT !.valid = FALSE, !.reserved = FALSE]
           g == [h EXCEPT ![k] = e]
<1>p. Prewrite(m)
  BY DEF RowSound
<1>m. m \in RowMvcc /\ k \in 1..L
  BY <1>p DEF RowSound, Shape, Prewrite
<1>h. /\ h \in Seq(WriteHisEntry) /\ L \in Nat /\ DOMAIN h = 1..L
      /\ \A i \in 1..L : h[i] \in WriteHisEntry
  BY <1>m, RowFields
<1>k. ~h[k].valid
  BY <1>p, <1>m DEF Prewrite
<1>r. Shape(m, n)
  BY DEF RowSound
<1>8. \A i \in 1..L : /\ h[i].row \in 0..n /\ h[i].row # m._row
                      /\ \A j \in 1..L : h[i].row # NULL /\ h[j].row = h[i].row => i = j
  BY DEF RowSound, Shape, Memory
<1>v. /\ Valid(m) \subseteq 1..L
      /\ \A i \in 1..L : i \in Valid(m) <=> h[i].valid
  BY <1>m, <1>h, ValidFinite DEF Valid
<1>f. /\ e \in WriteHisEntry /\ e.valid = FALSE /\ e.reserved = FALSE /\ e.ts = h[k].ts /\ e.row = h[k].row
  <2>1. h[k] \in WriteHisEntry
    BY <1>h, <1>m
  <2> QED
    BY <2>1 DEF WriteHisEntry
<1>1. q = [m EXCEPT !._write_history = g, !._exists_prewrite = FALSE]
  <2>1. [[h EXCEPT ![k].valid = FALSE] EXCEPT ![k].reserved = FALSE] = g
    BY <1>h, <1>m
  <2> QED
    BY <2>1, <1>m DEF Dropped, RowMvcc
<1> HIDE DEF e, h, k
<1>g. /\ g \in Seq(WriteHisEntry) /\ Len(g) = L /\ DOMAIN g = 1..L
      /\ \A i \in 1..L : g[i] = IF i = k THEN e ELSE h[i]
  <2>1. /\ g \in Seq(WriteHisEntry) /\ Len(g) = L
        /\ \A i \in 1..L : g[i] = IF i = k THEN e ELSE h[i]
    BY <1>h, <1>f, <1>m, ExceptSeq
  <2> QED
    BY <2>1, <1>h
<1> HIDE DEF g
<1>q. /\ q._write_history = g /\ q._exists_prewrite = FALSE
      /\ q._row = m._row /\ q._oldest_wts = m._oldest_wts /\ q._num_versions = m._num_versions
      /\ q._latest_row = m._latest_row /\ q._latest_wts = m._latest_wts
      /\ q._requests = m._requests /\ q._max_served_rts = m._max_served_rts
  BY <1>1, <1>m DEF RowMvcc
<1>2. q \in RowMvcc
  BY <1>1, <1>m, <1>g DEF RowMvcc
<1>V. Valid(q) = Valid(m)
  <2>1. Valid(q) = {i \in 1..L : g[i].valid}
    BY <1>q, <1>g DEF Valid
  <2> QED
    BY <2>1, <1>g, <1>f, <1>v, <1>m, <1>k
<1>e. \A i \in 1..L : g[i].row = h[i].row /\ g[i].ts = h[i].ts
  BY <1>g, <1>f
<1>3. Memory(q, n)
  BY <1>q, <1>g, <1>e, <1>8 DEF Memory
<1>4. Shape(q, n)
  BY <1>2, <1>3, <1>q, <1>g, <1>r DEF Shape, h
<1>5. Versions(q, Valid(q))
  <2>1. Versions(m, Valid(m))
    BY DEF RowSound
  <2>2. \A i \in Valid(m) : EntryTs(q, i) = EntryTs(m, i) /\ g[i].row = h[i].row
    BY <1>e, <1>q, <1>v DEF EntryTs, h
  <2> QED
    BY <2>1, <2>2, <1>q, <1>V DEF Versions, h
<1>6. Reserved(q)
  <2>1. \A i \in 1..L : h[i].reserved /\ ~h[i].valid => i = k
    BY DEF RowSound, Reserved, h, k
  <2>2. \A i \in 1..L : ~(g[i].reserved /\ ~g[i].valid)
    BY <2>1, <1>g, <1>f
  <2> QED
    BY <2>2, <1>q, <1>g DEF Reserved
<1>7. Prewrite(q)
  BY <1>q DEF Prewrite
<1>9. KeepsAll(m, Valid(m), q, Valid(q))
  <2>1. \A i \in Valid(m) : EntryTs(q, i) = EntryTs(m, i) /\ g[i].row = h[i].row
    BY <1>e, <1>q, <1>v DEF EntryTs, h
  <2> QED
    BY <2>1, <1>V, <1>q DEF KeepsAll, Version, h
<1>10. RowSound(q, n)
  BY <1>4, <1>5, <1>6, <1>7 DEF RowSound
<1> QED
  BY <1>9, <1>10, <1>q, <1>r DEF Shape

\* The loop over the history ends with no entry or with a valid one: best is defined
\* by recursion on the entries seen, and an entry it keeps is valid.
Turn(t, m, f, i) ==
  IF i = 0 THEN [the_ts |-> 0, the_i |-> 0] ELSE Look(t, m, f[i - 1], i)

LEMMA LoopIsDefined ==
  ASSUME NEW t, NEW m, NEW L \in Nat
  PROVE  \A k \in 0..L : \E f : f = [i \in 0..k |-> Turn(t, m, f, i)]
<1> DEFINE P(k) == \E f : f = [i \in 0..k |-> Turn(t, m, f, i)]
           T == {k \in 0..L : ~P(k)}
<1> SUFFICES ASSUME T # {} PROVE FALSE
  OBVIOUS
<1>1. PICK k \in T : \A j \in T : k <= j
  <2>1. T \subseteq Nat
    OBVIOUS
  <2> HIDE DEF T
  <2> QED
    BY <2>1, LeastNat
<1>2. k # 0
  <2>1. P(0)
    <3> DEFINE f == [i \in 0..0 |-> [the_ts |-> 0, the_i |-> 0]]
    <3>1. f = [i \in 0..0 |-> Turn(t, m, f, i)]
      BY DEF Turn
    <3> QED
      BY <3>1
  <2> QED
    BY <2>1, <1>1
<1>3. k - 1 \in 0..L /\ k - 1 \notin T
  BY <1>1, <1>2
<1>4. PICK f : f = [i \in 0..(k - 1) |-> Turn(t, m, f, i)]
  BY <1>3
<1> DEFINE g == [i \in 0..k |-> IF i < k THEN f[i] ELSE Look(t, m, f[k - 1], k)]
<1>5. \A i \in 0..k : g[i] = Turn(t, m, g, i)
  <2> TAKE i \in 0..k
  <2>1. CASE i = 0
    <3>1. f[0] = Turn(t, m, f, 0)
      BY <1>4, <1>1, <1>2
    <3> QED
      BY <2>1, <3>1, <1>1, <1>2 DEF Turn
  <2>2. CASE i # 0 /\ i < k
    <3>1. f[i] = Turn(t, m, f, i)
      <4>1. \A j \in 0..(k - 1) : f[j] = Turn(t, m, f, j)
        BY <1>4, Zenon
      <4>2. i \in 0..(k - 1)
        BY <2>2, <1>1
      <4> QED
        BY <4>1, <4>2
    <3>2. g[i] = f[i] /\ g[i - 1] = f[i - 1]
      BY <2>2, <1>1
    <3> QED
      BY <2>2, <3>1, <3>2 DEF Turn
  <2>3. CASE i = k
    <3>1. g[k] = Look(t, m, f[k - 1], k) /\ g[k - 1] = f[k - 1]
      BY <1>1, <1>2
    <3> QED
      BY <2>3, <3>1, <1>2 DEF Turn
  <2> QED
    BY <2>1, <2>2, <2>3, <1>1
<1>6. g = [i \in 0..k |-> g[i]]
  OBVIOUS
<1> HIDE DEF g
<1>7. g = [i \in 0..k |-> Turn(t, m, g, i)]
  BY <1>5, <1>6
<1>8. P(k)
  BY <1>7
<1> QED
  BY <1>1, <1>8

LEMMA LoopFindsValid ==
  ASSUME MaxTxns \in Nat, NEW t, NEW m \in RowMvcc,
         NEW f, f = [i \in 0..Len(m._write_history) |-> Turn(t, m, f, i)]
  PROVE  \A k \in 0..Len(m._write_history) : f[k].the_i = 0 \/ f[k].the_i \in Valid(m)
<1> DEFINE L == Len(m._write_history)
           T == {k \in 0..L : ~(f[k].the_i = 0 \/ f[k].the_i \in Valid(m))}
<1>L. L \in Nat /\ DOMAIN m._write_history = 1..L
  BY RowFields
<1> SUFFICES ASSUME T # {} PROVE FALSE
  OBVIOUS
<1>1. PICK k \in T : \A j \in T : k <= j
  <2>1. T \subseteq Nat
    BY <1>L
  <2> HIDE DEF T
  <2> QED
    BY <2>1, LeastNat
<1>t. k \in 0..L /\ k \in Nat /\ ~(f[k].the_i = 0 \/ f[k].the_i \in Valid(m))
  BY <1>1, <1>L
<1>2. f[k] = Turn(t, m, f, k)
  <2>1. \A i \in 0..L : f[i] = Turn(t, m, f, i)
    BY Zenon
  <2> QED
    BY <2>1, <1>t
<1>3. CASE k = 0
  BY <1>2, <1>3, <1>t DEF Turn
<1>4. CASE k # 0
  <2>1. k - 1 \in 0..L /\ k - 1 \notin T /\ k \in 1..L
    <3>1. k - 1 \in 0..L /\ k \in 1..L /\ ~(k <= k - 1)
      BY <1>4, <1>t, <1>L
    <3> HIDE DEF T
    <3> QED
      BY <3>1, <1>1
  <2>2. f[k - 1].the_i = 0 \/ f[k - 1].the_i \in Valid(m)
    BY <2>1
  <2>3. f[k] = Look(t, m, f[k - 1], k)
    BY <1>2, <1>4 DEF Turn
  <2>4. \/ f[k] = f[k - 1]
        \/ m._write_history[k].valid /\ f[k].the_i = k
    BY <2>3 DEF Look
  <2>5. m._write_history[k].valid => k \in Valid(m)
    BY <2>1, <1>L DEF Valid
  <2> QED
    BY <2>2, <2>4, <2>5, <1>t
<1> QED
  BY <1>3, <1>4

LEMMA SearchVersionSound ==
  ASSUME MaxTxns \in Nat, NEW t, NEW m, NEW n \in Nat, RowSound(m, n)
  PROVE  SearchVersion(t, m) \in 1..n
<1> DEFINE L == Len(m._write_history)
           best == CHOOSE f : f = [i \in 0..L |-> Turn(t, m, f, i)]
           x == best[L].the_i
<1>m. m \in RowMvcc /\ m._row \in 1..n
  BY DEF RowSound, Shape
<1>L. L \in Nat
  BY <1>m, RowFields
<1>1. best = [i \in 0..L |-> Turn(t, m, best, i)]
  <2>1. \E f : f = [i \in 0..L |-> Turn(t, m, f, i)]
    <3>1. L \in 0..L
      BY <1>L
    <3>2. \A k \in 0..L : \E f : f = [i \in 0..k |-> Turn(t, m, f, i)]
      BY <1>L, LoopIsDefined
    <3> HIDE DEF L
    <3> QED
      BY <3>1, <3>2
  <2> QED
    BY <2>1
<1>2. SearchVersion(t, m) = IF x = 0 THEN m._row ELSE m._write_history[x].row
  BY DEF SearchVersion, Turn
<1> HIDE DEF best
<1>3. x = 0 \/ x \in Valid(m)
  <2>1. L \in 0..L
    BY <1>L
  <2>2. \A k \in 0..L : best[k].the_i = 0 \/ best[k].the_i \in Valid(m)
    BY <1>1, <1>m, LoopFindsValid
  <2> QED
    BY <2>1, <2>2
<1> HIDE DEF x
<1>4. x \in Valid(m) => m._write_history[x].row \in 1..n
  <2> SUFFICES ASSUME x \in Valid(m) PROVE m._write_history[x].row \in 1..n
    OBVIOUS
  <2>1. x \in 1..L /\ m._write_history[x].row # NULL
    BY <1>m, ValidFinite DEF RowSound, Versions
  <2>2. m._write_history[x].row \in 0..n
    BY <2>1 DEF RowSound, Shape, Memory
  <2> QED
    BY <2>1, <2>2 DEF NULL
<1> QED
  BY <1>2, <1>3, <1>4, <1>m

-----------------------------------------------------------------------------
(***************************************************************************)
(* Types of the parts of the state                                         *)
(***************************************************************************)
LEMMA RequestOf ==
  ASSUME NEW s \in Seq(Request), NEW i \in 1..Len(s)
  PROVE  s[i].row \in Rows /\ s[i].type \in {"RD", "WR"}
<1>1. s[i] \in Request
  BY ElementOfSeq
<1> QED
  BY <1>1 DEF Request

LEMMA AccessOf ==
  ASSUME NEW s \in Seq(Access), NEW i \in 1..Len(s)
  PROVE  /\ s[i] \in Access /\ s[i].row \in Rows /\ s[i].type \in {"RD", "WR"}
         /\ s[i].data \in Nat /\ s[i].read \in Ts
<1>1. s[i] \in Access
  BY ElementOfSeq
<1> QED
  BY <1>1 DEF Access

LEMMA Locals ==
  ASSUME Constants, TypeOK, NEW t \in Threads
  PROVE  /\ ts[t] \in Ts /\ ts[t] \in Nat
         /\ query[t] \in Seq(Request) /\ Len(query[t]) \in Nat
         /\ accesses[t] \in Seq(Access) /\ Len(accesses[t]) \in Nat
         /\ DOMAIN accesses[t] = 1..Len(accesses[t])
         /\ cur_row[t] \in Nat /\ ts_ready[t] \in BOOLEAN
         /\ \A i, j \in 1..Len(query[t]) : query[t][i].row = query[t][j].row => i = j
<1>1. ts[t] \in Ts /\ accesses[t] \in Seq(Access) /\ cur_row[t] \in Nat /\ ts_ready[t] \in BOOLEAN
  BY DEF TypeOK
<1>2. ts[t] \in Nat
  BY <1>1 DEF Ts, Constants
<1>3. query[t] \in Queries \/ query[t] = <<>>
  BY DEF TypeOK
<1>4. query[t] \in Seq(Request) /\ \A i, j \in 1..Len(query[t]) : query[t][i].row = query[t][j].row => i = j
  <2>1. CASE query[t] \in Queries
    BY <2>1 DEF Constants
  <2>2. CASE query[t] = <<>>
    <3>1. Len(query[t]) = 0 /\ query[t] \in Seq(Request)
      BY <2>2
    <3> QED
      BY <3>1
  <2> QED
    BY <2>1, <2>2, <1>3
<1>5. Len(query[t]) \in Nat /\ Len(accesses[t]) \in Nat /\ DOMAIN accesses[t] = 1..Len(accesses[t])
  BY <1>1, <1>4
<1> QED
  BY <1>1, <1>2, <1>4, <1>5

LEMMA ReqOf ==
  ASSUME Constants, TypeOK, NEW t \in Threads, Len(accesses[t]) < Len(query[t])
  PROVE  /\ Req(t).row \in Rows /\ Req(t).type \in {"RD", "WR"}
         /\ Len(accesses[t]) + 1 \in 1..Len(query[t])
<1>1. Len(accesses[t]) + 1 \in 1..Len(query[t]) /\ query[t] \in Seq(Request)
  BY Locals
<1> QED
  BY <1>1, RequestOf DEF Req

LEMMA Managers ==
  ASSUME Constants, TypeOK, NEW r \in Rows
  PROVE  /\ mgr[r] \in RowMvcc /\ mem[r] \in Seq(Ts) /\ Len(mem[r]) \in Nat
         /\ mgr[r]._latest_wts \in Nat /\ mgr[r]._prewrite_ts \in Nat
         /\ mgr[r]._latest_wts \in Ts /\ mgr[r]._exists_prewrite \in BOOLEAN
         /\ mgr[r]._requests \in SUBSET ReqEntry
         /\ mgr[r]._max_served_rts \in Ts
<1>1. mgr[r] \in RowMvcc /\ mem[r] \in Seq(Ts)
  BY DEF TypeOK
<1>2. /\ mgr[r]._latest_wts \in Ts /\ mgr[r]._prewrite_ts \in Ts /\ mgr[r]._exists_prewrite \in BOOLEAN
      /\ mgr[r]._requests \in SUBSET ReqEntry /\ mgr[r]._max_served_rts \in Ts
  BY <1>1 DEF RowMvcc
<1>3. \A x \in Ts : x \in Nat
  BY DEF Ts, Constants
<1> QED
  BY <1>1, <1>2, <1>3

LEMMA MinTsType ==
  ASSUME Constants, TypeOK, NEW t \in Threads
  PROVE  get_min_ts(t) \in Nat
<1> DEFINE S == {all_ts[u] : u \in Threads}
<1>1. \A u \in Threads : all_ts[u] \in Nat
  BY DEF TypeOK, Constants, Ts
<1>2. S \subseteq Nat /\ S # {}
  BY <1>1
<1> HIDE DEF S
<1>3. Min(S) \in Nat
  BY <1>2, MinProperties
<1>4. min_ts \in Nat
  BY DEF TypeOK
<1>5. get_min_ts(t) = IF t = 0 /\ Min(S) > min_ts THEN Min(S) ELSE min_ts
  BY DEF get_min_ts, S
<1> QED
  BY <1>3, <1>4, <1>5

-----------------------------------------------------------------------------
(***************************************************************************)
(* What a step of t leaves to the others                                   *)
(***************************************************************************)

\* Prewrites stay as they are, requests stay and memory is only added.
RowFrame(r) ==
  /\ mgr[r]._exists_prewrite =>
       /\ mgr'[r]._exists_prewrite /\ mgr'[r]._prewrite_ts = mgr[r]._prewrite_ts
       /\ PrewriteRow(mgr'[r]) = PrewriteRow(mgr[r])
  /\ mgr'[r]._latest_wts = mgr[r]._latest_wts
  /\ mgr[r]._requests \subseteq mgr'[r]._requests
  /\ Len(mem'[r]) \in Nat /\ Len(mem'[r]) >= Len(mem[r])

\* Every step but the return of a version.
Frame(t) ==
  /\ \A u \in Threads : u # t =>
       /\ pc'[u] = pc[u] /\ query'[u] = query[u] /\ accesses'[u] = accesses[u]
       /\ ts'[u] = ts[u] /\ ts_ready'[u] = ts_ready[u] /\ cur_row'[u] = cur_row[u]
  /\ \A r \in Rows : RowFrame(r)

LEMMA OwnsFrame ==
  ASSUME NEW t, NEW u, Frame(t), NEW r \in Rows, NEW c, Owns(u, r, c), ts'[u] = ts[u]
  PROVE  Owns(u, r, c)'
BY DEF Frame, RowFrame, Owns

LEMMA FrameOthers ==
  ASSUME Constants, MvccInv, NEW t \in Threads, Frame(t), NEW u \in Threads, u # t
  PROVE  Prefix(u)' /\ Given(u)' /\ Owned(u)' /\ Waiting(u)'
<1>i. TypeOK /\ Prefix(u) /\ Given(u) /\ Owned(u) /\ Waiting(u)
  BY DEF MvccInv
<1>e. /\ pc'[u] = pc[u] /\ query'[u] = query[u] /\ accesses'[u] = accesses[u]
      /\ ts'[u] = ts[u] /\ ts_ready'[u] = ts_ready[u] /\ cur_row'[u] = cur_row[u]
  BY DEF Frame, RowFrame
<1>q. Req(u)' = Req(u) /\ Pending(u)' = Pending(u)
  BY <1>e DEF Req, Pending
<1>w. pc[u] \in {"wait", "use"} => Req(u).row \in Rows
  BY <1>i, ReqOf DEF Prefix
<1>1. Prefix(u)'
  BY <1>i, <1>e DEF Prefix
<1>2. Given(u)'
  <2> SUFFICES ASSUME pc[u] = "use" \/ (pc[u] = "wait" /\ ts_ready[u])
               PROVE  /\ cur_row[u] \in 1..Len(mem'[Req(u).row])
                      /\ Req(u).type = "WR" => Owns(u, Req(u).row, cur_row[u])'
    BY <1>e, <1>q DEF Given, Owns
  <2>0. Req(u).row \in Rows
    BY <1>w
  <2>1. cur_row[u] \in 1..Len(mem[Req(u).row]) /\ (Req(u).type = "WR" => Owns(u, Req(u).row, cur_row[u]))
    BY <1>i DEF Given
  <2>2. Len(mem'[Req(u).row]) \in Nat /\ Len(mem'[Req(u).row]) >= Len(mem[Req(u).row])
    BY <2>0 DEF Frame, RowFrame
  <2>3. Len(mem[Req(u).row]) \in Nat
    BY <2>0, <1>i, Managers
  <2>4. cur_row[u] \in 1..Len(mem'[Req(u).row])
    BY <2>1, <2>2, <2>3
  <2>5. ASSUME Req(u).type = "WR" PROVE Owns(u, Req(u).row, cur_row[u])'
    <3>1. \A r \in Rows, c \in Nat : Owns(u, r, c) => Owns(u, r, c)'
      BY <1>e, OwnsFrame
    <3>2. cur_row[u] \in Nat
      BY <1>i, Locals
    <3>3. \A r \in Rows, c \in Nat : r = Req(u).row /\ c = cur_row[u] => Owns(u, r, c)'
      BY <3>1, <2>1, <2>5
    <3> QED
      BY <3>2, <3>3, <2>0, <1>e, <1>q DEF Owns
  <2> QED
    BY <2>4, <2>5
<1>3. Owned(u)'
  <2> SUFFICES ASSUME NEW i \in 1..Len(accesses[u]), accesses[u][i].type = "WR"
               PROVE  Owns(u, accesses[u][i].row, accesses[u][i].data)'
    BY <1>e DEF Owned
  <2>1. Owns(u, accesses[u][i].row, accesses[u][i].data)
    BY <1>i DEF Owned
  <2>2. accesses[u][i].row \in Rows
    BY <1>i, Locals, AccessOf
  <2>3. \A r \in Rows : \A c : Owns(u, r, c) => Owns(u, r, c)'
    BY <1>e, OwnsFrame
  <2>4. \A r \in Rows : \A c : r = accesses[u][i].row /\ c = accesses[u][i].data => Owns(u, r, c)'
    BY <2>1, <2>3
  <2> QED
    BY <2>2, <2>4, <1>e DEF Owns
<1>4. Waiting(u)'
  <2> SUFFICES ASSUME pc[u] = "wait", ~ts_ready[u]
               PROVE  Pending(u) \in mgr'[Req(u).row]._requests
    BY <1>e, <1>q DEF Waiting
  <2>1. Pending(u) \in mgr[Req(u).row]._requests
    BY <1>i DEF Waiting
  <2> QED
    BY <2>1, <1>w DEF Frame, RowFrame
<1> QED
  BY <1>1, <1>2, <1>3, <1>4

\* A request that was pending is still right.
LEMMA FrameRequests ==
  ASSUME Constants, MvccInv, NEW t \in Threads, Frame(t), ~(pc[t] = "wait" /\ ~ts_ready[t]),
         NEW r \in Rows, NEW q \in mgr[r]._requests
  PROVE  RequestRight(q, r)'
<1>1. RequestRight(q, r)
  BY DEF MvccInv, Requests
<1>2. q.txn # t /\ q.txn \in Threads
  BY <1>1 DEF RequestRight
<1> DEFINE u == q.txn
<1>e. /\ pc'[u] = pc[u] /\ query'[u] = query[u] /\ accesses'[u] = accesses[u]
      /\ ts'[u] = ts[u] /\ ts_ready'[u] = ts_ready[u]
  BY <1>2 DEF Frame, RowFrame
<1>q. Req(u)' = Req(u) /\ Pending(u)' = Pending(u)
  BY <1>e DEF Req, Pending
<1>r. mgr'[r]._exists_prewrite /\ mgr'[r]._prewrite_ts = mgr[r]._prewrite_ts
  BY <1>1 DEF Frame, RowFrame, RequestRight
<1> QED
  BY <1>1, <1>e, <1>q, <1>r DEF RequestRight

\* A step that stays in its frame has to be checked for t only.
LEMMA FromFrame ==
  ASSUME Constants, MvccInv, NEW t \in Threads, Frame(t), ~(pc[t] = "wait" /\ ~ts_ready[t]),
         TypeOK', Books', Times', Prefix(t)', Given(t)', Owned(t)', Waiting(t)',
         \A r \in Rows : \A q \in mgr'[r]._requests : q \in mgr[r]._requests \/ RequestRight(q, r)'
  PROVE  MvccInv'
<1>1. \A u \in Threads : Prefix(u)' /\ Given(u)' /\ Owned(u)' /\ Waiting(u)'
  BY FrameOthers
<1>2. \A r \in Rows : Requests(r)'
  <2> SUFFICES ASSUME NEW r \in Rows, NEW q \in mgr'[r]._requests
               PROVE  RequestRight(q, r)'
    BY DEF Requests
  <2> QED
    BY FrameRequests
<1> QED
  BY <1>1, <1>2 DEF MvccInv

LEMMA TimesSame ==
  ASSUME MvccInv, NEW t \in Threads, ts' = ts, started' = started,
         \A u \in Threads : u # t => pc'[u] = pc[u],
         \A r \in Rows : mgr'[r]._latest_wts = mgr[r]._latest_wts,
         pc[t] # "idle", pc'[t] \in {"idle", "commit"} \/ pc[t] # "commit"
  PROVE  Times'
<1>1. Times
  BY DEF MvccInv
<1>2. \A u \in Threads : pc'[u] # "idle" => pc[u] # "idle"
  OBVIOUS
<1>3. \A u \in Threads : pc'[u] \notin {"idle", "commit"} => pc[u] \notin {"idle", "commit"}
  OBVIOUS
<1> QED
  BY <1>1, <1>2, <1>3 DEF Times

LEMMA OwnedSame ==
  ASSUME Constants, MvccInv, NEW t \in Threads, Frame(t), ts'[t] = ts[t], accesses'[t] = accesses[t]
  PROVE  Owned(t)'
<1> SUFFICES ASSUME NEW i \in 1..Len(accesses[t]), accesses[t][i].type = "WR"
             PROVE  Owns(t, accesses[t][i].row, accesses[t][i].data)'
  BY DEF Owned
<1>i. TypeOK /\ Owned(t)
  BY DEF MvccInv
<1>1. Owns(t, accesses[t][i].row, accesses[t][i].data)
  BY <1>i DEF Owned
<1>2. accesses[t][i].row \in Rows
  BY <1>i, Locals, AccessOf
<1>3. \A r \in Rows : \A c : Owns(t, r, c) => Owns(t, r, c)'
  BY OwnsFrame
<1>4. \A r \in Rows : \A c : r = accesses[t][i].row /\ c = accesses[t][i].data => Owns(t, r, c)'
  BY <1>1, <1>3
<1> QED
  BY <1>2, <1>4 DEF Owns

\* Steps that do not touch the rows.
LEMMA RowsSame ==
  ASSUME Constants, MvccInv, NEW t \in Threads, UNCHANGED <<mgr, mem>>,
         \A u \in Threads : u # t =>
           /\ pc'[u] = pc[u] /\ query'[u] = query[u] /\ accesses'[u] = accesses[u]
           /\ ts'[u] = ts[u] /\ ts_ready'[u] = ts_ready[u] /\ cur_row'[u] = cur_row[u]
  PROVE  Frame(t) /\ Books'
<1>1. TypeOK /\ Books
  BY DEF MvccInv
<1>2. \A r \in Rows : Len(mem[r]) \in Nat
  BY <1>1, Managers
<1>3. Books'
  BY <1>1 DEF Books
<1> QED
  BY <1>2, <1>3 DEF Frame, RowFrame

-----------------------------------------------------------------------------
(***************************************************************************)
(* The steps of a transaction                                              *)
(***************************************************************************)
PC == {"idle", "publish", "exec", "wait", "use", "commit", "abort"}

LEMMA PcGoes ==
  ASSUME TypeOK, NEW t \in Threads, NEW where \in PC, Goto(t, where)
  PROVE  /\ pc' \in [Threads -> PC] /\ pc'[t] = where
         /\ \A u \in Threads : u # t => pc'[u] = pc[u]
<1>1. pc \in [Threads -> PC]
  BY DEF TypeOK, PC
<1> QED
  BY <1>1 DEF Goto

LEMMA NewQueryStep ==
  ASSUME Constants, MvccInv, NEW t \in Threads, NEW q \in Queries, NewQuery(t, q)
  PROVE  MvccInv'
<1>i. TypeOK /\ Times /\ Books /\ Prefix(t)
  BY DEF MvccInv
<1>p. pc' \in [Threads -> PC] /\ pc'[t] = "publish" /\ \A u \in Threads : u # t => pc'[u] = pc[u]
  BY <1>i, PcGoes DEF NewQuery, PC
<1>w. /\ ts \in [Threads -> Ts] /\ query \in [Threads -> Queries \cup {<<>>}]
      /\ started \in Nat /\ MaxTxns \in Nat
  BY <1>i DEF TypeOK, Ts, Constants
<1>1. /\ pc[t] = "idle" /\ started < MaxTxns /\ started' = started + 1
      /\ ts' = [ts EXCEPT ![t] = started + 1] /\ query' = [query EXCEPT ![t] = q]
      /\ UNCHANGED <<mgr, mem, all_ts, min_ts, cur_row, ts_ready, accesses, hist>>
  BY DEF NewQuery
<1>2. started + 1 \in Ts
  BY <1>1, <1>w DEF Ts
<1>3. ts' \in [Threads -> Ts] /\ ts'[t] = started + 1 /\ \A u \in Threads : u # t => ts'[u] = ts[u]
  BY <1>1, <1>2, <1>w
<1>4. query' \in [Threads -> Queries \cup {<<>>}] /\ query'[t] = q /\ \A u \in Threads : u # t => query'[u] = query[u]
  BY <1>1, <1>w
<1>5. Frame(t) /\ Books'
  <2>1. \A u \in Threads : u # t =>
           /\ pc'[u] = pc[u] /\ query'[u] = query[u] /\ accesses'[u] = accesses[u]
           /\ ts'[u] = ts[u] /\ ts_ready'[u] = ts_ready[u] /\ cur_row'[u] = cur_row[u]
    BY <1>1, <1>3, <1>4, <1>p
  <2> QED
    BY <2>1, <1>1, RowsSame
<1>6. TypeOK'
  BY <1>1, <1>2, <1>3, <1>4, <1>p, <1>i DEF TypeOK, PC
<1>7. Times'
  <2>1. \A u \in Threads : ts[u] \in Nat /\ ts[u] <= started
    BY <1>i, <1>w, Locals DEF Times
  <2>2. \A r \in Rows : mgr[r]._latest_wts \in Nat /\ mgr[r]._latest_wts <= started
    BY <1>i, Managers DEF Times
  <2>3. \A u \in Threads : ts'[u] <= started + 1 /\ (pc'[u] # "idle" => ts'[u] > 0)
    BY <2>1, <1>3, <1>p, <1>i, <1>w DEF Times
  <2>4. \A u, v \in Threads : ts'[u] = ts'[v] /\ ts'[u] > 0 => u = v
    BY <2>1, <1>3, <1>i, <1>w DEF Times
  <2>5. \A r \in Rows : mgr[r]._latest_wts <= started + 1
    BY <2>2, <1>w
  <2>6. \A r \in Rows, u \in Threads : pc'[u] \notin {"idle", "commit"} => mgr[r]._latest_wts # ts'[u]
    BY <2>2, <1>3, <1>p, <1>i, <1>w DEF Times
  <2> QED
    BY <2>3, <2>4, <2>5, <2>6, <1>1 DEF Times
<1>8. accesses[t] = <<>> /\ q \in Seq(Request)
  BY <1>1, <1>i DEF Prefix, Constants
<1>9. Prefix(t)' /\ Given(t)' /\ Owned(t)' /\ Waiting(t)'
  <2>1. accesses'[t] = <<>> /\ Len(accesses'[t]) = 0 /\ Len(q) \in Nat
    BY <1>8, <1>1
  <2> QED
    BY <2>1, <1>4, <1>p DEF Prefix, Given, Owned, Waiting
<1> QED
  BY <1>1, <1>5, <1>6, <1>7, <1>9, FromFrame

\* Steps that only move t and change what no property of others is about.
LEMMA AddTsStep ==
  ASSUME Constants, MvccInv, NEW t \in Threads, AddTs(t)
  PROVE  MvccInv'
<1>i. TypeOK /\ Times /\ Books /\ Prefix(t)
  BY DEF MvccInv
<1>p. pc' \in [Threads -> PC] /\ pc'[t] = "exec" /\ \A u \in Threads : u # t => pc'[u] = pc[u]
  BY <1>i, PcGoes DEF AddTs, PC
<1>1. /\ pc[t] = "publish" /\ all_ts' = [all_ts EXCEPT ![t] = ts[t]]
      /\ UNCHANGED <<mgr, mem, started, ts, min_ts, query, cur_row, ts_ready, accesses, hist>>
  BY DEF AddTs
<1>5. Frame(t) /\ Books'
  BY <1>1, <1>p, RowsSame
<1>6. TypeOK'
  <2>1. all_ts' \in [Threads -> Ts \cup {FirstTs}]
    BY <1>1, <1>i DEF TypeOK
  <2> QED
    BY <1>1, <2>1, <1>p, <1>i DEF TypeOK, PC
<1>7. Times'
  BY <1>1, <1>p, TimesSame
<1>9. Prefix(t)' /\ Given(t)' /\ Waiting(t)'
  BY <1>1, <1>p, <1>i DEF Prefix, Given, Waiting
<1>10. Owned(t)'
  BY <1>1, <1>5, OwnedSame
<1> QED
  BY <1>1, <1>5, <1>6, <1>7, <1>9, <1>10, FromFrame

LEMMA AccessAbortsStep ==
  ASSUME Constants, MvccInv, NEW t \in Threads, AccessAborts(t)
  PROVE  MvccInv'
<1>i. TypeOK /\ Times /\ Books /\ Prefix(t)
  BY DEF MvccInv
<1>p. pc' \in [Threads -> PC] /\ pc'[t] = "abort" /\ \A u \in Threads : u # t => pc'[u] = pc[u]
  BY <1>i, PcGoes DEF AccessAborts, PC
<1>1. /\ pc[t] = "exec"
      /\ UNCHANGED <<mgr, mem, started, ts, all_ts, min_ts, query, cur_row, ts_ready, accesses, hist>>
  BY DEF AccessAborts, Asks, tsVars
<1>5. Frame(t) /\ Books'
  BY <1>1, <1>p, RowsSame
<1>6. TypeOK'
  BY <1>1, <1>p, <1>i DEF TypeOK, PC
<1>7. Times'
  BY <1>1, <1>p, TimesSame
<1>9. Prefix(t)' /\ Given(t)' /\ Waiting(t)'
  BY <1>1, <1>p, <1>i DEF Prefix, Given, Waiting
<1>10. Owned(t)'
  BY <1>1, <1>5, OwnedSame
<1> QED
  BY <1>1, <1>5, <1>6, <1>7, <1>9, <1>10, FromFrame

LEMMA WaitEndsStep ==
  ASSUME Constants, MvccInv, NEW t \in Threads, WaitEnds(t)
  PROVE  MvccInv'
<1>i. TypeOK /\ Times /\ Books /\ Prefix(t) /\ Given(t)
  BY DEF MvccInv
<1>p. pc' \in [Threads -> PC] /\ pc'[t] = "use" /\ \A u \in Threads : u # t => pc'[u] = pc[u]
  BY <1>i, PcGoes DEF WaitEnds, PC
<1>1. /\ pc[t] = "wait" /\ ts_ready[t] /\ ts_ready' = [ts_ready EXCEPT ![t] = FALSE]
      /\ UNCHANGED <<mgr, mem, started, ts, all_ts, min_ts, query, cur_row, accesses, hist>>
  BY DEF WaitEnds, tsVars
<1>2. ts_ready' \in [Threads -> BOOLEAN] /\ \A u \in Threads : u # t => ts_ready'[u] = ts_ready[u]
  BY <1>1, <1>i DEF TypeOK
<1>5. Frame(t) /\ Books'
  BY <1>1, <1>2, <1>p, RowsSame
<1>6. TypeOK'
  BY <1>1, <1>2, <1>p, <1>i DEF TypeOK, PC
<1>7. Times'
  BY <1>1, <1>p, TimesSame
<1>9. Prefix(t)' /\ Waiting(t)'
  BY <1>1, <1>p, <1>i DEF Prefix, Waiting
<1>8. Given(t)'
  BY <1>1, <1>i DEF Given, Req, Owns
<1>10. Owned(t)'
  BY <1>1, <1>5, OwnedSame
<1> QED
  BY <1>1, <1>5, <1>6, <1>7, <1>8, <1>9, <1>10, FromFrame

LEMMA FinishStep ==
  ASSUME Constants, MvccInv, NEW t \in Threads, Finish(t)
  PROVE  MvccInv'
<1>i. TypeOK /\ Times /\ Books /\ Prefix(t)
  BY DEF MvccInv
<1>p. pc' \in [Threads -> PC] /\ pc'[t] = "commit" /\ \A u \in Threads : u # t => pc'[u] = pc[u]
  BY <1>i, PcGoes DEF Finish, PC
<1> DEFINE R == {<<accesses[t][i].row, accesses[t][i].read>> : i \in DOMAIN accesses[t]}
           W == {accesses[t][i].row : i \in {j \in DOMAIN accesses[t] : accesses[t][j].type = "WR"}}
<1>1. /\ pc[t] = "exec"
      /\ hist' = hist \cup {[ts |-> ts[t], reads |-> R, writes |-> W]}
      /\ UNCHANGED <<mgr, mem, started, ts, all_ts, min_ts, query, cur_row, ts_ready, accesses>>
  BY DEF Finish, tsVars
<1>5. Frame(t) /\ Books'
  BY <1>1, <1>p, RowsSame
<1>6. TypeOK'
  <2>1. \A i \in DOMAIN accesses[t] : accesses[t][i].row \in Rows /\ accesses[t][i].read \in Ts
    BY <1>i, Locals, AccessOf
  <2>2. R \subseteq Rows \X Ts /\ W \subseteq Rows /\ ts[t] \in Ts
    BY <2>1, <1>i, Locals
  <2> HIDE DEF R, W
  <2>3. hist' \subseteq [ts: Ts, reads: SUBSET (Rows \X Ts), writes: SUBSET Rows]
    BY <2>2, <1>1, <1>i DEF TypeOK
  <2> QED
    BY <1>1, <2>3, <1>p, <1>i DEF TypeOK, PC
<1>7. Times'
  BY <1>1, <1>p, TimesSame
<1>9. Prefix(t)' /\ Given(t)' /\ Waiting(t)'
  BY <1>1, <1>p, <1>i DEF Prefix, Given, Waiting
<1>10. Owned(t)'
  BY <1>1, <1>5, OwnedSame
<1> QED
  BY <1>1, <1>5, <1>6, <1>7, <1>9, <1>10, FromFrame

LEMMA CleanupDoneStep ==
  ASSUME Constants, MvccInv, NEW t \in Threads, CleanupDone(t)
  PROVE  MvccInv'
<1>i. TypeOK /\ Times /\ Books /\ Prefix(t)
  BY DEF MvccInv
<1>p. pc' \in [Threads -> PC] /\ pc'[t] = "idle" /\ \A u \in Threads : u # t => pc'[u] = pc[u]
  BY <1>i, PcGoes DEF CleanupDone, PC
<1>1. /\ pc[t] \in {"commit", "abort"}
      /\ accesses' = [accesses EXCEPT ![t] = <<>>] /\ query' = [query EXCEPT ![t] = <<>>]
      /\ UNCHANGED <<mgr, mem, started, ts, all_ts, min_ts, cur_row, ts_ready, hist>>
  BY DEF CleanupDone, tsVars
<1>2. /\ accesses' \in [Threads -> Seq(Access)] /\ query' \in [Threads -> Queries \cup {<<>>}]
      /\ accesses'[t] = <<>> /\ query'[t] = <<>>
      /\ \A u \in Threads : u # t => accesses'[u] = accesses[u] /\ query'[u] = query[u]
  BY <1>1, <1>i DEF TypeOK
<1>5. Frame(t) /\ Books'
  BY <1>1, <1>2, <1>p, RowsSame
<1>6. TypeOK'
  BY <1>1, <1>2, <1>p, <1>i DEF TypeOK, PC
<1>7. Times'
  BY <1>1, <1>p, TimesSame
<1>9. Prefix(t)' /\ Given(t)' /\ Waiting(t)' /\ Owned(t)'
  <2>1. Len(accesses'[t]) = 0 /\ Len(query'[t]) = 0
    BY <1>2
  <2> QED
    BY <1>2, <2>1, <1>p DEF Prefix, Given, Waiting, Owned
<1> QED
  BY <1>1, <1>5, <1>6, <1>7, <1>9, FromFrame

\* The books do not depend on the requests and on the reads served.
SameBooks(m, q) ==
  /\ q._row = m._row /\ q._latest_row = m._latest_row
  /\ q._latest_wts = m._latest_wts /\ q._oldest_wts = m._oldest_wts
  /\ q._write_history = m._write_history /\ q._num_versions = m._num_versions
  /\ q._exists_prewrite = m._exists_prewrite /\ q._prewrite_ts = m._prewrite_ts
  /\ q._prewrite_his_id = m._prewrite_his_id

LEMMA SameBooksSound ==
  ASSUME NEW m, NEW n, RowSound(m, n), NEW q \in RowMvcc, SameBooks(m, q)
  PROVE  RowSound(q, n) /\ PrewriteRow(q) = PrewriteRow(m)
<1>1. Valid(q) = Valid(m) /\ \A i : EntryTs(q, i) = EntryTs(m, i)
  BY DEF Valid, EntryTs, SameBooks
<1>2. Shape(q, n)
  BY DEF SameBooks, RowSound, Shape, Memory
<1>3. Versions(q, Valid(q))
  BY <1>1 DEF SameBooks, RowSound, Versions
<1>4. Reserved(q) /\ Prewrite(q)
  BY DEF SameBooks, RowSound, Reserved, Prewrite
<1> QED
  BY <1>2, <1>3, <1>4 DEF RowSound, PrewriteRow, SameBooks

\* A step that changes the requests or the reads served of row r only.
LEMMA OnlyServed ==
  ASSUME Constants, MvccInv, NEW r \in Rows, NEW m \in RowMvcc, SameBooks(mgr[r], m),
         mgr[r]._requests \subseteq m._requests,
         mgr' = [mgr EXCEPT ![r] = m], mem' = mem
  PROVE  /\ mgr' \in [Rows -> RowMvcc] /\ Books'
         /\ \A s \in Rows : RowFrame(s)
<1>i. TypeOK /\ Books
  BY DEF MvccInv
<1>w. mgr \in [Rows -> RowMvcc]
  BY <1>i DEF TypeOK
<1>1. mgr' \in [Rows -> RowMvcc] /\ mgr'[r] = m /\ \A s \in Rows : s # r => mgr'[s] = mgr[s]
  BY <1>w
<1>2. \A s \in Rows : Len(mem[s]) \in Nat
  BY <1>i, Managers
<1>3. RowSound(m, Len(mem[r])) /\ PrewriteRow(m) = PrewriteRow(mgr[r])
  <2>1. RowSound(mgr[r], Len(mem[r]))
    BY <1>i DEF Books
  <2> QED
    BY <2>1, SameBooksSound
<1>4. Books'
  <2>1. \A s \in Rows : RowSound(mgr'[s], Len(mem[s]))
    BY <1>1, <1>3, <1>i DEF Books
  <2> QED
    BY <2>1 DEF Books
<1>5. ASSUME NEW s \in Rows
      PROVE  RowFrame(s)
  <2>1. CASE s # r
    BY <2>1, <1>1, <1>2 DEF RowFrame
  <2>2. CASE s = r
    BY <2>2, <1>1, <1>2, <1>3 DEF SameBooks, RowFrame
  <2> QED
    BY <2>1, <2>2
<1> QED
  BY <1>1, <1>4, <1>5

LEMMA AccessWaitsStep ==
  ASSUME Constants, MvccInv, NEW t \in Threads, AccessWaits(t)
  PROVE  MvccInv'
<1>i. TypeOK /\ Times /\ Books /\ Prefix(t)
  BY DEF MvccInv
<1>p. pc' \in [Threads -> PC] /\ pc'[t] = "wait" /\ \A u \in Threads : u # t => pc'[u] = pc[u]
  BY <1>i, PcGoes DEF AccessWaits, PC
<1> DEFINE r == Req(t).row
           q == Pending(t)
           m == [mgr[r] EXCEPT !._requests = @ \cup {q}]
<1>1. /\ pc[t] = "exec" /\ Len(accesses[t]) < Len(query[t])
      /\ mgr[r]._exists_prewrite /\ mgr[r]._prewrite_ts < ts[t]
      /\ ts_ready' = [ts_ready EXCEPT ![t] = FALSE]
      /\ UNCHANGED <<mem, started, ts, all_ts, min_ts, query, cur_row, accesses, hist>>
  BY DEF AccessWaits, Asks, OlderPrewrite, Mgr, tsVars
<1>r. r \in Rows /\ Req(t).type \in {"RD", "WR"}
  BY <1>1, <1>i, ReqOf
<1>w. mgr \in [Rows -> RowMvcc] /\ mgr[r] \in RowMvcc /\ mgr[r]._requests \subseteq ReqEntry
  BY <1>i, <1>r, Managers DEF TypeOK
<1>2. mgr' = [mgr EXCEPT ![r] = m]
  BY <1>w DEF AccessWaits, Mgr, Pending
<1>q. q \in ReqEntry /\ q.txn = t /\ q.ts = ts[t]
  BY <1>i, Locals DEF Pending, ReqEntry
<1> HIDE DEF q, r
<1>m. m \in RowMvcc /\ SameBooks(mgr[r], m) /\ m._requests = mgr[r]._requests \cup {q}
  BY <1>w, <1>q DEF RowMvcc, SameBooks
<1> HIDE DEF m
<1>3. /\ mgr' \in [Rows -> RowMvcc] /\ Books'
      /\ \A s \in Rows : RowFrame(s)
  <2>1. mgr[r]._requests \subseteq m._requests
    BY <1>m
  <2> QED
    BY <2>1, <1>1, <1>2, <1>m, <1>r, OnlyServed
<1>4. /\ ts_ready' \in [Threads -> BOOLEAN] /\ ts_ready'[t] = FALSE
      /\ \A u \in Threads : u # t => ts_ready'[u] = ts_ready[u]
  BY <1>1, <1>i DEF TypeOK
<1>5. Frame(t)
  BY <1>1, <1>3, <1>4, <1>p DEF Frame
<1>6. TypeOK'
  BY <1>1, <1>3, <1>4, <1>p, <1>i DEF TypeOK, PC
<1>7. Times'
  <2>1. \A s \in Rows : mgr'[s]._latest_wts = mgr[s]._latest_wts
    BY <1>3 DEF RowFrame
  <2> QED
    BY <2>1, <1>1, <1>p, TimesSame
<1>e. Req(t)' = Req(t) /\ Pending(t)' = Pending(t)
  BY <1>1 DEF Req, Pending
<1>8. mgr'[r] = m /\ \A s \in Rows : s # r => mgr'[s] = mgr[s]
  BY <1>2, <1>w, <1>r
<1>9. Prefix(t)' /\ Given(t)'
  BY <1>1, <1>p, <1>4, <1>i DEF Prefix, Given
<1>10. Waiting(t)'
  <2>1. Pending(t) \in mgr'[Req(t).row]._requests
    BY <1>8, <1>m DEF q, r
  <2> QED
    BY <2>1, <1>e DEF Waiting
<1>11. Owned(t)'
  BY <1>1, <1>5, OwnedSame
<1>12. RequestRight(q, r)'
  <2>1. mgr'[r]._exists_prewrite /\ mgr'[r]._prewrite_ts < ts[t]
    BY <1>1, <1>8, <1>m DEF SameBooks, r
  <2>2. /\ q.txn \in Threads /\ pc'[q.txn] = "wait" /\ ~ts_ready'[q.txn]
        /\ Req(q.txn)'.row = r /\ q = Pending(q.txn)'
        /\ mgr'[r]._exists_prewrite /\ mgr'[r]._prewrite_ts < q.ts
    BY <2>1, <1>q, <1>p, <1>4, <1>e DEF q, r
  <2>3. r' = r /\ q' = q
    BY <1>e DEF q, r
  <2> QED
    BY <2>2, <2>3 DEF RequestRight
<1>13. \A s \in Rows : \A x \in mgr'[s]._requests : x \in mgr[s]._requests \/ RequestRight(x, s)'
  <2>1. \A x, s : x = q /\ s = r => RequestRight(x, s)'
    <3>1. r' = r /\ q' = q
      BY <1>e DEF q, r
    <3> QED
      BY <1>12, <3>1 DEF RequestRight
  <2> QED
    BY <2>1, <1>8, <1>m
<1> QED
  BY <1>1, <1>3, <1>5, <1>6, <1>7, <1>9, <1>10, <1>11, <1>13, FromFrame

LEMMA ReadServedStep ==
  ASSUME Constants, MvccInv, NEW t \in Threads, ReadServed(t)
  PROVE  MvccInv'
<1>i. TypeOK /\ Times /\ Books /\ Prefix(t)
  BY DEF MvccInv
<1>p. pc' \in [Threads -> PC] /\ pc'[t] = "use" /\ \A u \in Threads : u # t => pc'[u] = pc[u]
  BY <1>i, PcGoes DEF ReadServed, PC
<1> DEFINE r == Req(t).row
           x == mgr[r]._max_served_rts
           m == [mgr[r] EXCEPT !._max_served_rts = IF ts[t] > @ THEN ts[t] ELSE @]
<1>1. /\ pc[t] = "exec" /\ Len(accesses[t]) < Len(query[t]) /\ Req(t).type = "RD"
      /\ UNCHANGED <<mem, started, ts, all_ts, min_ts, query, ts_ready, accesses, hist>>
  BY DEF ReadServed, Asks, tsVars
<1>r. r \in Rows
  BY <1>1, <1>i, ReqOf
<1>w. /\ mgr \in [Rows -> RowMvcc] /\ mgr[r] \in RowMvcc /\ mgr[r]._max_served_rts \in Ts
      /\ cur_row \in [Threads -> Nat] /\ Len(mem[r]) \in Nat /\ ts[t] \in Ts
  BY <1>i, <1>r, Managers, Locals DEF TypeOK
<1>s. RowSound(mgr[r], Len(mem[r]))
  BY <1>i, <1>r DEF Books
<1>2. PICK c : cur_row' = [cur_row EXCEPT ![t] = c] /\ c \in 1..Len(mem[r])
               /\ (mgr' = mgr \/ mgr' = [mgr EXCEPT ![r] = m])
  <2>1. CASE /\ cur_row' = [cur_row EXCEPT ![t] = mgr[r]._latest_row]
             /\ mgr' = [mgr EXCEPT ![r]._max_served_rts = IF ts[t] > @ THEN ts[t] ELSE @]
    <3>1. mgr[r]._latest_row \in 1..Len(mem[r])
      BY <1>s DEF RowSound, Shape
    <3>2. mgr' = [mgr EXCEPT ![r] = m]
      BY <2>1, <1>w
    <3> QED
      BY <3>1, <3>2, <2>1
  <2>2. CASE cur_row' = [cur_row EXCEPT ![t] = SearchVersion(t, mgr[r])] /\ mgr' = mgr
    <3>1. SearchVersion(t, mgr[r]) \in 1..Len(mem[r])
      BY <1>s, <1>w, SearchVersionSound DEF Constants
    <3> QED
      BY <3>1, <2>2
  <2> QED
    BY <2>1, <2>2 DEF ReadServed, Mgr
<1> HIDE DEF r
<1>m. m \in RowMvcc /\ SameBooks(mgr[r], m) /\ m._requests = mgr[r]._requests
  BY <1>w DEF RowMvcc, SameBooks
<1> HIDE DEF m
<1>3. /\ mgr' \in [Rows -> RowMvcc] /\ Books'
      /\ \A s \in Rows : RowFrame(s)
  <2>1. CASE mgr' = mgr
    <3>1. \A s \in Rows : Len(mem[s]) \in Nat
      BY <1>i, Managers
    <3>2. Books'
      BY <2>1, <1>1, <1>i DEF Books
    <3> QED
      BY <2>1, <3>1, <3>2, <1>1, <1>w DEF RowFrame
  <2>2. CASE mgr' = [mgr EXCEPT ![r] = m]
    <3>1. mgr[r]._requests \subseteq m._requests
      BY <1>m
    <3> QED
      BY <3>1, <2>2, <1>1, <1>m, <1>r, OnlyServed
  <2> QED
    BY <2>1, <2>2, <1>2
<1>4. /\ cur_row' \in [Threads -> Nat] /\ cur_row'[t] = c
      /\ \A u \in Threads : u # t => cur_row'[u] = cur_row[u]
  BY <1>2, <1>w
<1>5. Frame(t)
  BY <1>1, <1>3, <1>4, <1>p DEF Frame
<1>6. TypeOK'
  BY <1>1, <1>3, <1>4, <1>p, <1>i DEF TypeOK, PC
<1>7. Times'
  <2>1. \A s \in Rows : mgr'[s]._latest_wts = mgr[s]._latest_wts
    BY <1>3 DEF RowFrame
  <2> QED
    BY <2>1, <1>1, <1>p, TimesSame
<1>9. Prefix(t)' /\ Waiting(t)'
  BY <1>1, <1>p, <1>i DEF Prefix, Waiting
<1>10. Given(t)'
  <2>1. Req(t)' = Req(t)
    BY <1>1 DEF Req
  <2>2. cur_row'[t] \in 1..Len(mem'[Req(t).row])
    BY <1>1, <1>2, <1>4 DEF r
  <2> QED
    BY <2>1, <2>2, <1>1 DEF Given
<1>11. Owned(t)'
  BY <1>1, <1>5, OwnedSame
<1>13. \A s \in Rows : mgr'[s]._requests = mgr[s]._requests
  BY <1>2, <1>m, <1>w, <1>r
<1> QED
  BY <1>1, <1>3, <1>5, <1>6, <1>7, <1>9, <1>10, <1>11, <1>13, FromFrame

LEMMA PrewriteServedStep ==
  ASSUME Constants, MvccInv, NEW t \in Threads, PrewriteServed(t)
  PROVE  MvccInv'
<1>i. TypeOK /\ Times /\ Books /\ Prefix(t)
  BY DEF MvccInv
<1>p. pc' \in [Threads -> PC] /\ pc'[t] = "use" /\ \A u \in Threads : u # t => pc'[u] = pc[u]
  BY <1>i, PcGoes DEF PrewriteServed, PC
<1> DEFINE r == Req(t).row
           min == get_min_ts(t)
<1>1. /\ pc[t] = "exec" /\ Len(accesses[t]) < Len(query[t]) /\ Req(t).type = "WR"
      /\ ts[t] >= mgr[r]._latest_wts /\ ~mgr[r]._exists_prewrite
      /\ min_ts' = min
      /\ UNCHANGED <<started, ts, all_ts, query, ts_ready, accesses, hist>>
  BY DEF PrewriteServed, Asks, tsVars
<1>2. PICK m : /\ m = reserveRow(mgr[r], ts[t], min, Len(mem[r]))
               /\ mgr' = [mgr EXCEPT ![r] = m]
               /\ mem' = [mem EXCEPT ![r] = CopyLatest(m, mem[r])]
               /\ cur_row' = [cur_row EXCEPT ![t] = PrewriteRow(m)]
  BY DEF PrewriteServed
<1>r. r \in Rows
  BY <1>1, <1>i, ReqOf
<1>n. min \in Nat
  BY <1>i, MinTsType
<1>w. /\ mgr \in [Rows -> RowMvcc] /\ mem \in [Rows -> Seq(Ts)] /\ mem[r] \in Seq(Ts)
      /\ cur_row \in [Threads -> Nat] /\ ts[t] \in Ts /\ ts[t] \in Nat /\ mgr[r]._latest_wts \in Nat
  BY <1>i, <1>r, Managers, Locals DEF TypeOK
<1>l. \A s \in Rows : Len(mem[s]) \in Nat
  BY <1>i, Managers
<1>s. RowSound(mgr[r], Len(mem[r]))
  BY <1>i, <1>r DEF Books
<1>t. ts[t] > mgr[r]._latest_wts
  <2>1. ts[t] # mgr[r]._latest_wts
    BY <1>1, <1>i, <1>r DEF Times
  <2> QED
    BY <2>1, <1>1, <1>w
<1> HIDE DEF r, min
<1> DEFINE cells == CopyLatest(m, mem[r])
<1>m. /\ cells \in Seq(Ts) /\ Len(cells) >= Len(mem[r])
      /\ RowSound(m, Len(cells))
      /\ PrewriteRow(m) \in 1..Len(cells)
      /\ m._exists_prewrite /\ m._prewrite_ts = ts[t]
      /\ m._latest_wts = mgr[r]._latest_wts
      /\ m._requests = mgr[r]._requests
  <2>1. MaxTxns \in Nat
    BY DEF Constants
  <2> HIDE DEF cells
  <2>2. cells = CopyLatest(m, mem[r])
    BY DEF cells
  <2> QED
    BY <2>1, <2>2, <1>2, <1>s, <1>1, <1>w, <1>t, <1>n, reserveRowSound DEF r, min
<1> HIDE DEF cells
<1>c. Len(cells) \in Nat /\ m \in RowMvcc
  BY <1>m DEF RowSound, Shape
<1>3. /\ mgr' \in [Rows -> RowMvcc] /\ mgr'[r] = m /\ \A s \in Rows : s # r => mgr'[s] = mgr[s]
      /\ mem' \in [Rows -> Seq(Ts)] /\ mem'[r] = cells /\ \A s \in Rows : s # r => mem'[s] = mem[s]
  <2>1. mem' = [mem EXCEPT ![r] = cells]
    BY <1>2 DEF cells
  <2> QED
    BY <2>1, <1>2, <1>w, <1>m, <1>c, <1>r
<1>4. /\ cur_row' \in [Threads -> Nat] /\ cur_row'[t] = PrewriteRow(m)
      /\ \A u \in Threads : u # t => cur_row'[u] = cur_row[u]
  <2>1. PrewriteRow(m) \in Nat
    BY <1>m, <1>c
  <2> QED
    BY <2>1, <1>2, <1>w
<1>5. \A s \in Rows : RowFrame(s)
  <2> TAKE s \in Rows
  <2>1. CASE s # r
    BY <2>1, <1>3, <1>l DEF RowFrame
  <2>2. CASE s = r
    BY <2>2, <1>3, <1>m, <1>c, <1>1 DEF RowFrame, r
  <2> QED
    BY <2>1, <2>2
<1>f. Frame(t)
  BY <1>1, <1>4, <1>5, <1>p DEF Frame
<1>b. Books'
  <2>1. \A s \in Rows : RowSound(mgr'[s], Len(mem'[s]))
    BY <1>3, <1>m, <1>i DEF Books
  <2> QED
    BY <2>1 DEF Books
<1>6. TypeOK'
  <2>1. min_ts' \in Nat
    BY <1>1, <1>n
  <2> QED
    BY <2>1, <1>1, <1>3, <1>4, <1>p, <1>i DEF TypeOK, PC
<1>7. Times'
  <2>1. \A s \in Rows : mgr'[s]._latest_wts = mgr[s]._latest_wts
    BY <1>5 DEF RowFrame
  <2> QED
    BY <2>1, <1>1, <1>p, TimesSame
<1>9. Prefix(t)' /\ Waiting(t)'
  BY <1>1, <1>p, <1>i DEF Prefix, Waiting
<1>10. Given(t)'
  <2>1. Req(t)' = Req(t) /\ r' = r
    BY <1>1 DEF Req, r
  <2>2. cur_row'[t] \in 1..Len(mem'[r])
    BY <1>3, <1>4, <1>m
  <2>3. /\ mgr'[r]._exists_prewrite /\ mgr'[r]._prewrite_ts = ts'[t] /\ ts'[t] > mgr'[r]._latest_wts
        /\ PrewriteRow(mgr'[r]) = cur_row'[t]
    BY <1>1, <1>3, <1>4, <1>m, <1>t
  <2> QED
    BY <2>1, <2>2, <2>3 DEF Given, Owns, r
<1>11. Owned(t)'
  BY <1>1, <1>f, OwnedSame
<1>13. \A s \in Rows : mgr'[s]._requests = mgr[s]._requests
  BY <1>3, <1>m
<1> QED
  BY <1>1, <1>b, <1>f, <1>6, <1>7, <1>9, <1>10, <1>11, <1>13, FromFrame

LEMMA UseRowStep ==
  ASSUME Constants, MvccInv, NEW t \in Threads, UseRow(t)
  PROVE  MvccInv'
<1>i. TypeOK /\ Times /\ Books /\ Prefix(t) /\ Given(t) /\ Owned(t)
  BY DEF MvccInv
<1>p. pc' \in [Threads -> PC] /\ pc'[t] = "exec" /\ \A u \in Threads : u # t => pc'[u] = pc[u]
  BY <1>i, PcGoes DEF UseRow, PC
<1> DEFINE r == Req(t).row
           c == cur_row[t]
           a == [row |-> r, type |-> Req(t).type, data |-> c, read |-> mem[r][c]]
           n == Len(accesses[t])
<1>1. /\ pc[t] = "use"
      /\ accesses' = [accesses EXCEPT ![t] = Append(accesses[t], a)]
      /\ mem' = IF Req(t).type = "WR" THEN [mem EXCEPT ![r][c] = ts[t]] ELSE mem
      /\ cur_row' = [cur_row EXCEPT ![t] = NULL]
      /\ UNCHANGED <<mgr, started, ts, all_ts, min_ts, query, ts_ready, hist>>
  BY DEF UseRow, tsVars
<1>2. n < Len(query[t])
  BY <1>1, <1>i DEF Prefix
<1>r. r \in Rows /\ Req(t).type \in {"RD", "WR"} /\ n + 1 \in 1..Len(query[t])
  BY <1>2, <1>i, ReqOf
<1>w. /\ mem \in [Rows -> Seq(Ts)] /\ mem[r] \in Seq(Ts) /\ cur_row \in [Threads -> Nat]
      /\ accesses \in [Threads -> Seq(Access)] /\ accesses[t] \in Seq(Access) /\ n \in Nat
      /\ ts[t] \in Ts /\ Len(query[t]) \in Nat
  BY <1>i, <1>r, Managers, Locals DEF TypeOK
<1>l. \A s \in Rows : Len(mem[s]) \in Nat
  BY <1>i, Managers
<1>c. c \in 1..Len(mem[r]) /\ (Req(t).type = "WR" => Owns(t, r, c))
  BY <1>1, <1>i DEF Given
<1>a. a \in Access /\ a.row = r /\ a.type = Req(t).type /\ a.data = c
  <2>1. mem[r][c] \in Ts
    BY <1>c, <1>w, ElementOfSeq
  <2>2. c \in Nat
    BY <1>c, <1>l, <1>r
  <2> QED
    BY <2>1, <2>2, <1>r DEF Access
<1>d. Req(t) = query[t][n + 1]
  BY DEF Req
<1> HIDE DEF a, c, r
<1>3. /\ mem' \in [Rows -> Seq(Ts)]
      /\ \A s \in Rows : Len(mem'[s]) = Len(mem[s])
  <2>1. CASE Req(t).type = "WR"
    <3> DEFINE cells == [mem[r] EXCEPT ![c] = ts[t]]
    <3>1. mem' = [mem EXCEPT ![r] = cells]
      BY <2>1, <1>1 DEF r, c
    <3>2. cells \in Seq(Ts) /\ Len(cells) = Len(mem[r])
      BY <1>w, <1>c, ExceptSeq
    <3> HIDE DEF cells
    <3> QED
      BY <3>1, <3>2, <1>w, <1>r
  <2>2. CASE Req(t).type # "WR"
    BY <2>2, <1>1, <1>w
  <2> QED
    BY <2>1, <2>2
<1>4. /\ cur_row' \in [Threads -> Nat]
      /\ \A u \in Threads : u # t => cur_row'[u] = cur_row[u]
  BY <1>1, <1>w DEF NULL
<1>5. /\ accesses' \in [Threads -> Seq(Access)]
      /\ Len(accesses'[t]) = n + 1
      /\ \A i \in 1..(n + 1) : (i \in 1..n /\ accesses'[t][i] = accesses[t][i]) \/ (i = n + 1 /\ accesses'[t][i] = a)
      /\ \A u \in Threads : u # t => accesses'[u] = accesses[u]
  <2> DEFINE s == Append(accesses[t], a)
  <2>1. /\ s \in Seq(Access) /\ Len(s) = n + 1 /\ s[n + 1] = a
        /\ \A i \in 1..n : s[i] = accesses[t][i]
    BY <1>w, <1>a, AppendProperties
  <2>2. accesses' = [accesses EXCEPT ![t] = s]
    BY <1>1 DEF a, r, c
  <2> HIDE DEF s
  <2>3. accesses' \in [Threads -> Seq(Access)] /\ accesses'[t] = s /\ \A u \in Threads : u # t => accesses'[u] = accesses[u]
    BY <2>1, <2>2, <1>w
  <2>4. \A i \in 1..(n + 1) : i \in 1..n \/ i = n + 1
    BY <1>w
  <2> QED
    BY <2>1, <2>3, <2>4
<1>f. Frame(t)
  <2>1. \A s \in Rows : RowFrame(s)
    BY <1>1, <1>3, <1>l DEF RowFrame
  <2> QED
    BY <2>1, <1>1, <1>4, <1>5, <1>p DEF Frame
<1>b. Books'
  <2>1. \A s \in Rows : RowSound(mgr'[s], Len(mem'[s]))
    BY <1>1, <1>3, <1>i DEF Books
  <2> QED
    BY <2>1 DEF Books
<1>6. TypeOK'
  BY <1>1, <1>3, <1>4, <1>5, <1>p, <1>i DEF TypeOK, PC
<1>7. Times'
  BY <1>1, <1>p, TimesSame
<1>8. Prefix(t)'
  <2>1. n + 1 <= Len(query[t])
    BY <1>2, <1>w
  <2>2. \A i \in 1..(n + 1) : accesses'[t][i].row = query[t][i].row /\ accesses'[t][i].type = query[t][i].type
    <3> TAKE i \in 1..(n + 1)
    <3>1. CASE i \in 1..n /\ accesses'[t][i] = accesses[t][i]
      BY <3>1, <1>i DEF Prefix
    <3>2. CASE i = n + 1 /\ accesses'[t][i] = a
      BY <3>2, <1>a, <1>d DEF r
    <3> QED
      BY <3>1, <3>2, <1>5
  <2> QED
    BY <2>1, <2>2, <1>1, <1>5, <1>p DEF Prefix
<1>9. Given(t)' /\ Waiting(t)'
  BY <1>p DEF Given, Waiting
<1>10. Owned(t)'
  <2> SUFFICES ASSUME NEW i \in 1..(n + 1), accesses'[t][i].type = "WR"
               PROVE  Owns(t, accesses[t][i].row, accesses[t][i].data)'
    BY <1>5 DEF Owned
  <2>1. \A s, x : Owns(t, s, x) => Owns(t, s, x)'
    BY <1>1 DEF Owns
  <2>2. CASE i \in 1..n /\ accesses'[t][i] = accesses[t][i]
    <3>1. Owns(t, accesses[t][i].row, accesses[t][i].data)
      BY <2>2, <1>i DEF Owned
    <3>2. \A s, x : s = accesses[t][i].row /\ x = accesses[t][i].data => Owns(t, s, x)'
      BY <3>1, <2>1
    <3> QED
      BY <3>2, <2>2 DEF Owns
  <2>3. CASE i = n + 1 /\ accesses'[t][i] = a
    <3>1. Owns(t, r, c)
      BY <2>3, <1>a, <1>c
    <3>2. \A s, x : s = a.row /\ x = a.data => Owns(t, s, x)'
      BY <3>1, <2>1, <1>a
    <3> QED
      BY <3>2, <2>3 DEF Owns
  <2> QED
    BY <2>2, <2>3, <1>5
<1> QED
  BY <1>1, <1>b, <1>f, <1>6, <1>7, <1>8, <1>9, <1>10, FromFrame

\* Two pending requests of a row have different timestamps.
LEMMA RequestsDiffer ==
  ASSUME Constants, MvccInv, NEW r \in Rows, NEW p \in mgr[r]._requests, NEW q \in mgr[r]._requests,
         p.ts = q.ts \/ p.txn = q.txn
  PROVE  p = q
<1>1. RequestRight(p, r) /\ RequestRight(q, r)
  BY DEF MvccInv, Requests
<1>2. p.txn \in Threads /\ q.txn \in Threads /\ p = Pending(p.txn) /\ q = Pending(q.txn)
      /\ pc[p.txn] = "wait" /\ pc[q.txn] = "wait"
  BY <1>1 DEF RequestRight
<1>3. p.ts = ts[p.txn] /\ q.ts = ts[q.txn]
  BY <1>2 DEF Pending
<1>4. \A t, u \in Threads : ts[t] = ts[u] /\ ts[t] > 0 => t = u
  BY DEF MvccInv, Times
<1>5. ts[p.txn] > 0
  BY <1>2 DEF MvccInv, Times
<1>6. p.txn = q.txn
  BY <1>2, <1>3, <1>4, <1>5
<1> QED
  BY <1>2, <1>6

\* What return_row does to the row r whose prewrite t returns, and to the requests
\* that waited for it: m is the Row_mvcc after it and cells the memory of the row.
Returned(t, r, m, cells, reads, pre) ==
  /\ m \in RowMvcc /\ cells \in Seq(Ts) /\ Len(cells) >= Len(mem[r])
  /\ RowSound(m, Len(cells))
  /\ \/ m._latest_wts = mgr[r]._latest_wts
     \/ m._latest_wts = ts[t] /\ pc[t] = "commit"
  /\ m._latest_row \in 1..Len(mem[r])
  /\ reads \cup pre \subseteq mgr[r]._requests
  /\ m._requests = mgr[r]._requests \ (reads \cup pre)
  /\ \A q \in reads : q.type = "R_REQ"
  /\ pre = {} => m._requests = {}
  /\ \A p \in pre : /\ p.type = "P_REQ"
                    /\ m._exists_prewrite /\ m._prewrite_ts = p.ts
                    /\ PrewriteRow(m) \in 1..Len(cells)
                    /\ \A q \in m._requests : p.ts < q.ts

\* The version is committed or dropped,
Done(t, r, c) == IF pc[t] = "commit" THEN Committed(mgr[r], t, c) ELSE Dropped(mgr[r])

LEMMA DoneSound ==
  ASSUME Constants, MvccInv, NEW t \in Threads, NEW r \in Rows, NEW c, Owns(t, r, c),
         NEW d, d = Done(t, r, c)
  PROVE  /\ RowSound(d, Len(mem[r])) /\ ~d._exists_prewrite
         /\ \/ d._latest_wts = mgr[r]._latest_wts
            \/ d._latest_wts = ts[t] /\ pc[t] = "commit"
         /\ d._latest_row \in 1..Len(mem[r])
         /\ d._requests = mgr[r]._requests /\ d._max_served_rts = mgr[r]._max_served_rts
         /\ d._latest_wts <= ts[t]
<1>i. TypeOK /\ Books
  BY DEF MvccInv
<1>w. /\ Len(mem[r]) \in Nat /\ ts[t] \in Ts /\ MaxTxns \in Nat /\ ts[t] \in Nat
      /\ mgr[r]._latest_wts \in Nat
  BY <1>i, Managers, Locals DEF Constants
<1>s. RowSound(mgr[r], Len(mem[r]))
  BY <1>i DEF Books
<1>o. /\ mgr[r]._exists_prewrite /\ mgr[r]._prewrite_ts = ts[t] /\ ts[t] > mgr[r]._latest_wts
      /\ c = PrewriteRow(mgr[r])
  BY DEF Owns
<1>1. CASE pc[t] = "commit"
  <2>1. d = Committed(mgr[r], t, c)
    BY <1>1 DEF Done
  <2>2. /\ RowSound(d, Len(mem[r])) /\ ~d._exists_prewrite
        /\ d._latest_wts = ts[t] /\ d._latest_row \in 1..Len(mem[r])
        /\ d._requests = mgr[r]._requests /\ d._max_served_rts = mgr[r]._max_served_rts
    BY <2>1, <1>w, <1>s, <1>o, CommittedSound
  <2> QED
    BY <2>2, <1>1, <1>w
<1>2. CASE pc[t] # "commit"
  <2>1. d = Dropped(mgr[r])
    BY <1>2 DEF Done
  <2>2. /\ RowSound(d, Len(mem[r])) /\ ~d._exists_prewrite
        /\ d._latest_wts = mgr[r]._latest_wts /\ d._latest_row \in 1..Len(mem[r])
        /\ d._requests = mgr[r]._requests /\ d._max_served_rts = mgr[r]._max_served_rts
    BY <2>1, <1>w, <1>s, <1>o, DroppedSound
  <2> QED
    BY <2>2, <1>w, <1>o
<1> QED
  BY <1>1, <1>2

\* and update_buffer serves the reads up to the next waiting prewrite, and that one.
LEMMA ServedProperties ==
  ASSUME Constants, MvccInv, NEW t \in Threads, NEW r \in Rows, NEW c, Owns(t, r, c),
         NEW d, d._requests = mgr[r]._requests,
         NEW reads, reads = ServedReads(d, ts[t]), NEW pre, pre = ServedPrewrite(d, ts[t])
  PROVE  /\ reads \cup pre \subseteq mgr[r]._requests
         /\ \A q \in reads : q.type = "R_REQ"
         /\ \A p \in pre : p.type = "P_REQ" /\ \A q \in mgr[r]._requests \ (reads \cup pre) : p.ts < q.ts
         /\ pre = {} => mgr[r]._requests \ (reads \cup pre) = {}
         /\ \A p, q \in pre : p = q
<1> DEFINE R == mgr[r]._requests
           N == NextPrewrite(d, ts[t])
<1>i. TypeOK
  BY DEF MvccInv
<1>o. mgr[r]._prewrite_ts = ts[t]
  BY DEF Owns
<1>1. \A q \in R : q \in ReqEntry /\ q.ts \in Nat /\ q.type \in {"R_REQ", "P_REQ"} /\ q.ts > ts[t]
  <2> TAKE q \in R
  <2>1. q \in ReqEntry
    BY <1>i, Managers
  <2>2. q.ts \in Nat /\ q.type \in {"R_REQ", "P_REQ"}
    BY <2>1 DEF ReqEntry, Ts, Constants
  <2>3. mgr[r]._prewrite_ts < q.ts
    BY DEF MvccInv, Requests, RequestRight
  <2>4. ts[t] \in Nat
    BY <1>i, Locals
  <2> QED
    BY <2>1, <2>2, <2>3, <2>4, <1>o
<1>2. N = {q \in R : q.type = "P_REQ"}
  BY <1>1 DEF NextPrewrite
<1> HIDE DEF N
<1>3. pre = {q \in N : \A p \in N : q.ts <= p.ts}
  BY DEF ServedPrewrite, N
<1>4. reads = {q \in R : q.type = "R_REQ" /\ \A p \in N : q.ts < p.ts}
  BY DEF ServedReads, N
<1>5. reads \cup pre \subseteq R /\ \A q \in reads : q.type = "R_REQ"
  BY <1>2, <1>3, <1>4
<1>6. \A p, q \in pre : p = q
  <2> TAKE p, q \in pre
  <2>1. p \in R /\ q \in R /\ p.ts <= q.ts /\ q.ts <= p.ts
    BY <1>2, <1>3
  <2>2. p.ts = q.ts
    BY <2>1, <1>1
  <2> QED
    BY <2>1, <2>2, RequestsDiffer
<1>7. ASSUME NEW p \in pre, NEW q \in R \ (reads \cup pre)
      PROVE  p.ts < q.ts
  <2>1. p \in R /\ p \in N /\ \A x \in N : p.ts <= x.ts
    BY <1>2, <1>3
  <2>2. p.ts # q.ts
    BY <2>1, RequestsDiffer
  <2>3. p.ts <= q.ts
    <3>1. CASE q.type = "P_REQ"
      BY <3>1, <2>1, <1>2
    <3>2. CASE q.type = "R_REQ"
      <4>1. PICK x \in N : ~(q.ts < x.ts)
        BY <3>2, <1>4
      <4>2. x.ts \in Nat /\ q.ts \in Nat /\ p.ts \in Nat /\ p.ts <= x.ts
        BY <4>1, <2>1, <1>1, <1>2
      <4> QED
        BY <4>1, <4>2
    <3> QED
      BY <3>1, <3>2, <1>1
  <2> QED
    BY <2>1, <2>2, <2>3, <1>1
<1>8. ASSUME pre = {} PROVE R \ (reads \cup pre) = {}
  <2>1. N = {}
    <3> SUFFICES ASSUME N # {} PROVE FALSE
      OBVIOUS
    <3> DEFINE T == {q.ts : q \in N}
    <3>1. T \subseteq Nat /\ T # {}
      BY <1>1, <1>2
    <3>2. PICK x \in T : \A y \in T : x <= y
      BY <3>1, LeastNat
    <3>3. PICK q \in N : x = q.ts
      BY <3>2
    <3>4. \A p \in N : q.ts <= p.ts
      BY <3>2, <3>3
    <3> QED
      BY <3>3, <3>4, <1>3, <1>8
  <2>2. \A q \in R : q.type = "R_REQ"
    BY <2>1, <1>1, <1>2
  <2> QED
    BY <2>1, <2>2, <1>4
<1>9. \A p \in pre : p.type = "P_REQ"
  BY <1>2, <1>3
<1> QED
  BY <1>5, <1>6, <1>7, <1>8, <1>9

LEMMA AfterBufferSound ==
  ASSUME Constants, MvccInv, NEW t \in Threads, NEW r \in Rows, NEW c, Owns(t, r, c),
         NEW d, d = Done(t, r, c),
         NEW reads, reads = ServedReads(d, ts[t]), NEW pre, pre = ServedPrewrite(d, ts[t]),
         NEW m, m = AfterBuffer(t, r, d, reads, pre),
         NEW cells, cells = IF pre = {} THEN mem[r] ELSE CopyLatest(m, mem[r])
  PROVE  Returned(t, r, m, cells, reads, pre)
<1> DEFINE R == mgr[r]._requests
           x == Max({d._max_served_rts} \cup {q.ts : q \in reads})
           k == [d EXCEPT !._max_served_rts = x, !._requests = @ \ (reads \cup pre)]
           p == CHOOSE q \in pre : TRUE
           min == get_min_ts(t)
<1>i. TypeOK
  BY DEF MvccInv
<1>d. /\ RowSound(d, Len(mem[r])) /\ ~d._exists_prewrite
      /\ \/ d._latest_wts = mgr[r]._latest_wts
         \/ d._latest_wts = ts[t] /\ pc[t] = "commit"
      /\ d._latest_row \in 1..Len(mem[r])
      /\ d._requests = mgr[r]._requests /\ d._max_served_rts = mgr[r]._max_served_rts
      /\ d._latest_wts <= ts[t]
  BY DoneSound
<1>r. d \in RowMvcc /\ MaxTxns \in Nat
  BY <1>d DEF RowSound, Shape, Constants
<1>s. /\ reads \cup pre \subseteq R
      /\ \A q \in reads : q.type = "R_REQ"
      /\ \A y \in pre : y.type = "P_REQ" /\ \A q \in R \ (reads \cup pre) : y.ts < q.ts
      /\ pre = {} => R \ (reads \cup pre) = {}
      /\ \A y, q \in pre : y = q
  BY <1>d, ServedProperties
<1>w. /\ mem[r] \in Seq(Ts) /\ Len(mem[r]) \in Nat /\ ts[t] \in Nat /\ R \in SUBSET ReqEntry
      /\ mgr[r]._max_served_rts \in Ts
  BY <1>i, Managers, Locals
<1>t. \A q \in R : q.ts \in Ts /\ q.ts \in Nat /\ q.ts > ts[t]
  <2> TAKE q \in R
  <2>1. q \in ReqEntry
    BY <1>w
  <2>2. q.ts \in Ts /\ q.ts \in Nat
    BY <2>1 DEF ReqEntry, Ts, Constants
  <2>3. mgr[r]._prewrite_ts < q.ts
    BY DEF MvccInv, Requests, RequestRight
  <2> QED
    BY <2>2, <2>3, <1>w DEF Owns
<1>x. x \in Ts
  <2> DEFINE T == {d._max_served_rts} \cup {q.ts : q \in reads}
  <2>1. T \subseteq Ts /\ T # {}
    BY <1>d, <1>w, <1>s, <1>t
  <2>2. Ts \subseteq Nat /\ IsFiniteSet(Ts)
    BY <1>r, FS_Interval DEF Ts
  <2> HIDE DEF T
  <2>3. IsFiniteSet(T)
    BY <2>1, <2>2, FS_Subset
  <2>4. T \subseteq Nat
    BY <2>1, <2>2
  <2>5. Max(T) \in T
    BY <2>1, <2>3, <2>4, MaxProperties
  <2>6. x = Max(T)
    BY DEF T
  <2> HIDE DEF x
  <2> QED
    BY <2>1, <2>5, <2>6
<1> HIDE DEF x
<1>k. /\ k \in RowMvcc /\ SameBooks(d, k) /\ k._requests = R \ (reads \cup pre)
  <2>1. R \ (reads \cup pre) \in SUBSET ReqEntry
    BY <1>w
  <2> QED
    BY <2>1, <1>r, <1>x, <1>d DEF RowMvcc, SameBooks
<1>1. m = IF pre = {} THEN k ELSE reserveRow(k, p.ts, min, Len(mem[r]))
  BY DEF AfterBuffer, x
<1> HIDE DEF k, p, min
<1>2. RowSound(k, Len(mem[r]))
  BY <1>k, <1>d, SameBooksSound
<1>e. /\ k._latest_wts = d._latest_wts /\ k._latest_row = d._latest_row
      /\ k._exists_prewrite = d._exists_prewrite
  BY <1>k DEF SameBooks
<1>3. CASE pre = {}
  <2>1. m = k /\ cells = mem[r]
    BY <1>3, <1>1
  <2> QED
    BY <2>1, <1>2, <1>3, <1>d, <1>e, <1>k, <1>s, <1>w DEF Returned
<1>4. CASE pre # {}
  <2>1. p \in pre /\ p \in R
    BY <1>4, <1>s DEF p
  <2>2. m = reserveRow(k, p.ts, min, Len(mem[r])) /\ cells = CopyLatest(m, mem[r])
    BY <1>4, <1>1
  <2>3. min \in Nat
    BY <1>i, MinTsType DEF min
  <2>4. p.ts \in Ts /\ p.ts > k._latest_wts
    <3>1. k._latest_wts \in Nat
      BY <1>k, <1>r, RowFields
    <3> QED
      BY <3>1, <2>1, <1>t, <1>d, <1>e, <1>w
  <2>5. /\ cells \in Seq(Ts) /\ Len(cells) >= Len(mem[r])
        /\ RowSound(m, Len(cells))
        /\ PrewriteRow(m) \in 1..Len(cells)
        /\ m._exists_prewrite /\ m._prewrite_ts = p.ts
        /\ m._latest_wts = k._latest_wts /\ m._latest_row = k._latest_row
        /\ m._requests = k._requests
    BY <2>2, <2>3, <2>4, <1>2, <1>e, <1>d, <1>r, <1>w, reserveRowSound
  <2>6. m \in RowMvcc
    BY <2>5 DEF RowSound, Shape
  <2>7. \A y \in pre : y = p
    BY <2>1, <1>s
  <2>8. \A y \in pre : /\ y.type = "P_REQ"
                       /\ m._exists_prewrite /\ m._prewrite_ts = y.ts
                       /\ PrewriteRow(m) \in 1..Len(cells)
                       /\ \A q \in m._requests : y.ts < q.ts
    BY <2>5, <2>7, <1>s, <1>k
  <2> QED
    BY <2>5, <2>6, <2>8, <1>4, <1>d, <1>e, <1>k, <1>s DEF Returned
<1> QED
  BY <1>3, <1>4

LEMMA ReturnRowStep ==
  ASSUME Constants, MvccInv, NEW t \in Threads, ReturnRow(t)
  PROVE  MvccInv'
<1>i. TypeOK /\ Times /\ Books /\ Prefix(t) /\ Owned(t)
  BY DEF MvccInv
<1> DEFINE n == Max(Unreturned(t))
           a == accesses[t][n]
           r == a.row
           R == mgr[r]._requests
<1>1. /\ pc[t] \in {"commit", "abort"} /\ Unreturned(t) # {}
      /\ accesses' = [accesses EXCEPT ![t] = SubSeq(accesses[t], 1, n - 1)]
      /\ UNCHANGED <<started, ts, all_ts, pc, query, hist>>
  BY DEF ReturnRow, tsVars
<1>w. /\ mgr \in [Rows -> RowMvcc] /\ mem \in [Rows -> Seq(Ts)] /\ cur_row \in [Threads -> Nat]
      /\ ts_ready \in [Threads -> BOOLEAN] /\ accesses \in [Threads -> Seq(Access)]
      /\ accesses[t] \in Seq(Access) /\ Len(accesses[t]) \in Nat
      /\ DOMAIN accesses[t] = 1..Len(accesses[t])
      /\ ts[t] \in Nat /\ Len(query[t]) \in Nat /\ min_ts \in Nat
  BY <1>i, Locals DEF TypeOK
<1>n. n \in 1..Len(accesses[t]) /\ accesses[t][n].type = "WR"
  <2>1. Unreturned(t) \subseteq 1..Len(accesses[t])
    BY <1>w DEF Unreturned
  <2>2. IsFiniteSet(Unreturned(t)) /\ Unreturned(t) \subseteq Nat
    BY <2>1, <1>w, PositionsFinite
  <2>3. n \in Unreturned(t)
    BY <2>2, <1>1, MaxProperties
  <2> QED
    BY <2>1, <2>3 DEF Unreturned
<1>x. PICK d \in {IF pc[t] = "commit" THEN Committed(mgr[r], t, a.data) ELSE Dropped(mgr[r])} :
        update_buffer(t, r, d)
  BY DEF ReturnRow
<1>y. PICK reads \in {ServedReads(d, ts[t])}, pre \in {ServedPrewrite(d, ts[t])} :
        \E m \in {AfterBuffer(t, r, d, reads, pre)} :
          /\ mgr' = [mgr EXCEPT ![r] = m]
          /\ mem' = IF pre = {} THEN mem ELSE [mem EXCEPT ![r] = CopyLatest(m, mem[r])]
          /\ min_ts' = IF pre = {} THEN min_ts ELSE get_min_ts(t)
          /\ cur_row' = [u \in Threads |->
               IF \E q \in reads : q.txn = u THEN m._latest_row
               ELSE IF \E q \in pre : q.txn = u THEN PrewriteRow(m) ELSE cur_row[u]]
          /\ ts_ready' = [u \in Threads |-> ts_ready[u] \/ \E q \in reads \cup pre : q.txn = u]
  BY <1>x DEF update_buffer
<1>z. PICK m \in {AfterBuffer(t, r, d, reads, pre)} :
        /\ mgr' = [mgr EXCEPT ![r] = m]
        /\ mem' = IF pre = {} THEN mem ELSE [mem EXCEPT ![r] = CopyLatest(m, mem[r])]
        /\ min_ts' = IF pre = {} THEN min_ts ELSE get_min_ts(t)
        /\ cur_row' = [u \in Threads |->
             IF \E q \in reads : q.txn = u THEN m._latest_row
             ELSE IF \E q \in pre : q.txn = u THEN PrewriteRow(m) ELSE cur_row[u]]
        /\ ts_ready' = [u \in Threads |-> ts_ready[u] \/ \E q \in reads \cup pre : q.txn = u]
  BY <1>y
<1>2. /\ d = Done(t, r, a.data)
      /\ reads = ServedReads(d, ts[t]) /\ pre = ServedPrewrite(d, ts[t])
      /\ m = AfterBuffer(t, r, d, reads, pre)
      /\ mgr' = [mgr EXCEPT ![r] = m]
      /\ mem' = IF pre = {} THEN mem ELSE [mem EXCEPT ![r] = CopyLatest(m, mem[r])]
      /\ min_ts' = IF pre = {} THEN min_ts ELSE get_min_ts(t)
      /\ cur_row' = [u \in Threads |->
           IF \E q \in reads : q.txn = u THEN m._latest_row
           ELSE IF \E q \in pre : q.txn = u THEN PrewriteRow(m) ELSE cur_row[u]]
      /\ ts_ready' = [u \in Threads |-> ts_ready[u] \/ \E q \in reads \cup pre : q.txn = u]
  BY <1>x, <1>y, <1>z DEF Done
<1> HIDE DEF n
<1>r. r \in Rows /\ a.type = "WR" /\ a.data \in Nat
  BY <1>n, <1>w, AccessOf
<1>o. Owns(t, r, a.data)
  BY <1>n, <1>i DEF Owned
<1> HIDE DEF a, r
<1> DEFINE cells == IF pre = {} THEN mem[r] ELSE CopyLatest(m, mem[r])
           Srv(u) == \E q \in reads \cup pre : q.txn = u
<1>R. Returned(t, r, m, cells, reads, pre)
  <2> HIDE DEF cells
  <2>1. cells = IF pre = {} THEN mem[r] ELSE CopyLatest(m, mem[r])
    BY DEF cells
  <2> QED
    BY <2>1, <1>2, <1>r, <1>o, AfterBufferSound
<1>l. \A s \in Rows : Len(mem[s]) \in Nat /\ mgr[s]._latest_wts \in Nat
  BY <1>i, Managers
<1>3. /\ mgr' \in [Rows -> RowMvcc] /\ mgr'[r] = m /\ \A s \in Rows : s # r => mgr'[s] = mgr[s]
      /\ mem' \in [Rows -> Seq(Ts)] /\ mem'[r] = cells /\ \A s \in Rows : s # r => mem'[s] = mem[s]
  <2>1. mem' = [mem EXCEPT ![r] = cells]
    <3>1. CASE pre = {}
      BY <3>1, <1>2, <1>w, <1>r
    <3>2. CASE pre # {}
      BY <3>2, <1>2
    <3> QED
      BY <3>1, <3>2
  <2>2. m \in RowMvcc /\ cells \in Seq(Ts)
    BY <1>R DEF Returned
  <2>3. mgr' = [mgr EXCEPT ![r] = m]
    BY <1>2
  <2> HIDE DEF cells
  <2> QED
    BY <2>1, <2>2, <2>3, <1>w, <1>r
<1>c. Len(cells) \in Nat /\ Len(cells) >= Len(mem[r])
  BY <1>R DEF Returned
<1> HIDE DEF cells
<1>L. \A s \in Rows : Len(mem'[s]) \in Nat /\ Len(mem'[s]) >= Len(mem[s])
  BY <1>3, <1>c, <1>l
\* Who is served had its request pending at r.
<1>q. \A q \in R : RequestRight(q, r)
  BY <1>r DEF MvccInv, Requests, r, a
<1>s. ASSUME NEW u \in Threads, Srv(u)
      PROVE  /\ pc[u] = "wait" /\ ~ts_ready[u] /\ Req(u).row = r /\ u # t
             /\ Pending(u) \in reads \cup pre
             /\ \A q \in reads \cup pre : q.txn = u => q = Pending(u)
  <2>1. PICK q \in reads \cup pre : q.txn = u
    BY <1>s
  <2>2. \A x \in reads \cup pre : RequestRight(x, r)
    BY <1>R, <1>q DEF Returned, R
  <2> QED
    BY <2>1, <2>2, <1>1 DEF RequestRight
<1>e. \A u \in Threads : /\ pc'[u] = pc[u] /\ query'[u] = query[u] /\ ts'[u] = ts[u]
                         /\ (u # t => accesses'[u] = accesses[u])
                         /\ ts_ready'[u] = (ts_ready[u] \/ Srv(u))
                         /\ (~Srv(u) => cur_row'[u] = cur_row[u])
  <2>1. \A u \in Threads : u # t => accesses'[u] = accesses[u]
    BY <1>1, <1>w
  <2>2. \A u \in Threads : ts_ready'[u] = (ts_ready[u] \/ Srv(u))
    BY <1>2
  <2>3. \A u \in Threads : ~Srv(u) => cur_row'[u] = cur_row[u]
    BY <1>2
  <2> HIDE DEF Srv
  <2> QED
    BY <1>1, <2>1, <2>2, <2>3
<1>f. \A u \in Threads : u # t => Req(u)' = Req(u) /\ Pending(u)' = Pending(u)
  <2> TAKE u \in Threads
  <2> HAVE u # t
  <2>1. accesses'[u] = accesses[u] /\ query'[u] = query[u] /\ ts'[u] = ts[u]
    BY <1>e
  <2> QED
    BY <2>1 DEF Req, Pending
<1>g. ASSUME NEW u \in Threads
      PROVE  /\ (\E q \in reads : q.txn = u) => cur_row'[u] = m._latest_row /\ Req(u).type # "WR"
             /\ (\E q \in pre : q.txn = u) /\ ~(\E q \in reads : q.txn = u) => cur_row'[u] = PrewriteRow(m)
  <2>1. (\E q \in reads : q.txn = u) => cur_row'[u] = m._latest_row
    BY <1>2
  <2>2. ASSUME NEW q \in reads, q.txn = u PROVE Req(u).type # "WR"
    <3>1. q = Pending(u) /\ q.type = "R_REQ"
      BY <2>2, <1>s, <1>R DEF Returned
    <3> QED
      BY <3>1 DEF Pending
  <2>3. (\E q \in pre : q.txn = u) /\ ~(\E q \in reads : q.txn = u) => cur_row'[u] = PrewriteRow(m)
    BY <1>2
  <2> QED
    BY <2>1, <2>2, <2>3
\* Nobody else owns a prewrite of r.
<1>h. ASSUME NEW u \in Threads, u # t, NEW s \in Rows, NEW x, Owns(u, s, x)
      PROVE  Owns(u, s, x)' /\ s # r
  <2>1. s # r
    <3>1. mgr[s]._exists_prewrite /\ mgr[s]._prewrite_ts = ts[u] /\ mgr[r]._prewrite_ts = ts[t]
      BY <1>h, <1>o DEF Owns
    <3>2. ts[t] > 0
      BY <1>1, <1>i DEF Times
    <3> QED
      BY <3>1, <3>2, <1>h, <1>i DEF Times
  <2>2. mgr'[s] = mgr[s] /\ ts'[u] = ts[u]
    BY <2>1, <1>3, <1>e
  <2> QED
    BY <2>1, <2>2, <1>h DEF Owns
<1>t. mgr[r]._prewrite_ts = ts[t] /\ m._latest_wts <= ts[t] /\ m._latest_wts \in Nat
  <2>1. mgr[r]._prewrite_ts = ts[t] /\ ts[t] > mgr[r]._latest_wts
    BY <1>o DEF Owns
  <2> QED
    BY <2>1, <1>R, <1>l, <1>r, <1>w DEF Returned
<1>4. Books'
  <2>1. \A s \in Rows : RowSound(mgr'[s], Len(mem'[s]))
    BY <1>3, <1>R, <1>i DEF Books, Returned
  <2> QED
    BY <2>1 DEF Books
<1>5. /\ accesses' \in [Threads -> Seq(Access)] /\ Len(accesses'[t]) = n - 1
      /\ \A i \in 1..(n - 1) : accesses'[t][i] = accesses[t][i]
  <2> DEFINE z == SubSeq(accesses[t], 1, n - 1)
  <2>1. z \in Seq(Access) /\ Len(z) = n - 1 /\ \A i \in 1..(n - 1) : z[i] = accesses[t][i]
    BY <1>n, <1>w
  <2>2. accesses' = [accesses EXCEPT ![t] = z]
    BY <1>1
  <2> HIDE DEF z
  <2> QED
    BY <2>1, <2>2, <1>w
<1>6. TypeOK'
  <2>1. min_ts' \in Nat
    BY <1>2, <1>w, <1>i, MinTsType
  <2>2. ts_ready' \in [Threads -> BOOLEAN]
    BY <1>2
  <2>3. cur_row' \in [Threads -> Nat]
    <3>1. m._latest_row \in Nat
      BY <1>R, <1>l, <1>r DEF Returned
    <3>2. \A q \in pre : PrewriteRow(m) \in Nat
      BY <1>R, <1>c DEF Returned
    <3>3. \A u \in Threads : (IF \E q \in reads : q.txn = u THEN m._latest_row
             ELSE IF \E q \in pre : q.txn = u THEN PrewriteRow(m) ELSE cur_row[u]) \in Nat
      BY <3>1, <3>2, <1>w
    <3> QED
      BY <3>3, <1>2
  <2> QED
    BY <2>1, <2>2, <2>3, <1>1, <1>3, <1>5, <1>i DEF TypeOK
<1>7. Times'
  <2>1. \A s \in Rows : mgr'[s]._latest_wts <= started
    <3>1. ts[t] <= started /\ started \in Nat
      BY <1>i DEF Times, TypeOK, Ts, Constants
    <3>2. m._latest_wts <= started
      BY <3>1, <1>t, <1>w
    <3> QED
      BY <3>2, <1>3, <1>i DEF Times
  <2>2. ASSUME NEW s \in Rows, NEW u \in Threads, pc[u] \notin {"idle", "commit"}
        PROVE  mgr'[s]._latest_wts # ts[u]
    <3>1. mgr[s]._latest_wts # ts[u]
      BY <2>2, <1>i DEF Times
    <3>2. CASE s # r
      BY <3>1, <3>2, <1>3
    <3>3. CASE s = r
      <4>1. CASE m._latest_wts = mgr[r]._latest_wts
        BY <4>1, <3>1, <3>3, <1>3
      <4>2. CASE m._latest_wts = ts[t] /\ pc[t] = "commit"
        <5>1. u # t /\ ts[t] > 0
          BY <4>2, <2>2, <1>1, <1>i DEF Times
        <5>2. ts[t] # ts[u]
          BY <5>1, <1>i DEF Times
        <5> QED
          BY <5>2, <4>2, <3>3, <1>3
      <4> QED
        BY <4>1, <4>2, <1>R DEF Returned
    <3> QED
      BY <3>2, <3>3
  <2> QED
    BY <2>1, <2>2, <1>1, <1>i DEF Times
<1>8. Prefix(t)' /\ Given(t)' /\ Owned(t)' /\ Waiting(t)'
  <2>1. n - 1 <= Len(query[t]) /\ \A i \in 1..(n - 1) : i \in 1..Len(accesses[t]) /\ i # n
    BY <1>n, <1>w, <1>i DEF Prefix
  <2>2. \A i \in 1..(n - 1) : accesses[t][i].row = query[t][i].row /\ accesses[t][i].type = query[t][i].type
    BY <2>1, <1>i DEF Prefix
  <2>3. Prefix(t)'
    BY <2>1, <2>2, <1>1, <1>5 DEF Prefix
  <2>4. Owned(t)'
    <3> SUFFICES ASSUME NEW i \in 1..(n - 1), accesses[t][i].type = "WR"
                 PROVE  Owns(t, accesses[t][i].row, accesses[t][i].data)'
      BY <1>5 DEF Owned
    <3> DEFINE s == accesses[t][i].row
               x == accesses[t][i].data
    <3>1. Owns(t, s, x) /\ s \in Rows
      BY <2>1, <1>i, <1>w, AccessOf DEF Owned
    <3>2. s # r
      <4>1. s = query[t][i].row /\ r = query[t][n].row
        BY <2>2, <1>n, <1>i DEF Prefix, r, a
      <4>2. i \in 1..Len(query[t]) /\ n \in 1..Len(query[t]) /\ i # n
        BY <2>1, <1>n, <1>i, <1>w DEF Prefix
      <4>3. \A j, k \in 1..Len(query[t]) : query[t][j].row = query[t][k].row => j = k
        BY <1>i, Locals
      <4> QED
        BY <4>1, <4>2, <4>3
    <3>3. mgr'[s] = mgr[s] /\ ts'[t] = ts[t]
      BY <3>1, <3>2, <1>3, <1>e
    <3>4. s' = s /\ x' = x
      BY <1>5
    <3> HIDE DEF s, x
    <3>5. Owns(t, s, x)'
      BY <3>1, <3>3, <3>4 DEF Owns
    <3> QED
      BY <3>5 DEF s, x
  <2> QED
    BY <2>3, <2>4, <1>1 DEF Given, Waiting
<1>9. ASSUME NEW u \in Threads, u # t
      PROVE  Prefix(u)' /\ Given(u)' /\ Owned(u)' /\ Waiting(u)'
  <2>i. Prefix(u) /\ Given(u) /\ Owned(u) /\ Waiting(u)
    BY DEF MvccInv
  <2>e. /\ pc'[u] = pc[u] /\ query'[u] = query[u] /\ accesses'[u] = accesses[u] /\ ts'[u] = ts[u]
        /\ ts_ready'[u] = (ts_ready[u] \/ Srv(u)) /\ (~Srv(u) => cur_row'[u] = cur_row[u])
        /\ Req(u)' = Req(u) /\ Pending(u)' = Pending(u)
    BY <1>9, <1>e, <1>f
  <2>w. pc[u] \in {"wait", "use"} => Req(u).row \in Rows
    BY <2>i, <1>i, ReqOf DEF Prefix
  <2>1. Prefix(u)'
    BY <2>i, <2>e DEF Prefix
  <2>2. Given(u)'
    <3> SUFFICES ASSUME pc[u] = "use" \/ (pc[u] = "wait" /\ ts_ready'[u])
                 PROVE  /\ cur_row'[u] \in 1..Len(mem'[Req(u).row])
                        /\ Req(u).type = "WR" =>
                             /\ mgr'[Req(u).row]._exists_prewrite /\ mgr'[Req(u).row]._prewrite_ts = ts[u]
                             /\ ts[u] > mgr'[Req(u).row]._latest_wts
                             /\ PrewriteRow(mgr'[Req(u).row]) = cur_row'[u]
      BY <2>e DEF Given, Owns
    <3>0. Req(u).row \in Rows
      BY <2>w
    <3>1. CASE ~Srv(u)
      <4>1. /\ cur_row[u] \in 1..Len(mem[Req(u).row])
            /\ Req(u).type = "WR" => Owns(u, Req(u).row, cur_row[u])
        BY <3>1, <2>e, <2>i DEF Given
      <4>2. cur_row'[u] = cur_row[u] /\ cur_row[u] \in 1..Len(mem'[Req(u).row])
        BY <4>1, <3>1, <2>e, <3>0, <1>L, <1>l
      <4>3. ASSUME Req(u).type = "WR" PROVE mgr'[Req(u).row] = mgr[Req(u).row]
        <5>1. Req(u).row # r
          BY <4>1, <4>3, <3>0, <1>9, <1>h
        <5> QED
          BY <5>1, <3>0, <1>3
      <4> QED
        BY <4>1, <4>2, <4>3 DEF Owns
    <3>2. CASE \E q \in reads : q.txn = u
      <4>1. Req(u).row = r /\ cur_row'[u] = m._latest_row /\ Req(u).type # "WR"
        BY <3>2, <1>s, <1>g
      <4>2. m._latest_row \in 1..Len(cells)
        BY <1>R, <1>c, <1>l, <1>r DEF Returned
      <4> QED
        BY <4>1, <4>2, <1>3
    <3>3. CASE (\E q \in pre : q.txn = u) /\ ~(\E q \in reads : q.txn = u)
      <4>1. PICK p \in pre : p.txn = u
        BY <3>3
      <4>2. Req(u).row = r /\ cur_row'[u] = PrewriteRow(m) /\ p = Pending(u)
        BY <3>3, <4>1, <1>s, <1>g
      <4>3. m._exists_prewrite /\ m._prewrite_ts = p.ts /\ PrewriteRow(m) \in 1..Len(cells)
        BY <1>R DEF Returned
      <4>4. p.ts = ts[u] /\ ts[u] \in Nat
        BY <4>2, <1>i, Locals DEF Pending
      <4>5. ts[t] < p.ts
        BY <1>q, <1>R, <1>t DEF Returned, RequestRight, R
      <4>6. ts[u] > m._latest_wts
        BY <4>4, <4>5, <1>t, <1>w
      <4> QED
        BY <4>2, <4>3, <4>4, <4>6, <1>3
    <3> QED
      BY <3>1, <3>2, <3>3
  <2>3. Owned(u)'
    <3> SUFFICES ASSUME NEW i \in 1..Len(accesses[u]), accesses[u][i].type = "WR"
                 PROVE  Owns(u, accesses[u][i].row, accesses[u][i].data)'
      BY <2>e DEF Owned
    <3>1. Owns(u, accesses[u][i].row, accesses[u][i].data) /\ accesses[u][i].row \in Rows
      BY <2>i, <1>i, Locals, AccessOf DEF Owned
    <3>2. \A s \in Rows : \A x : Owns(u, s, x) => Owns(u, s, x)'
      BY <1>h, <1>9
    <3>3. \A s \in Rows : \A x : s = accesses[u][i].row /\ x = accesses[u][i].data => Owns(u, s, x)'
      BY <3>1, <3>2
    <3> QED
      BY <3>1, <3>3, <2>e DEF Owns
  <2>4. Waiting(u)'
    <3> SUFFICES ASSUME pc[u] = "wait", ~ts_ready[u], ~Srv(u)
                 PROVE  Pending(u) \in mgr'[Req(u).row]._requests
      BY <2>e DEF Waiting
    <3>1. Pending(u) \in mgr[Req(u).row]._requests /\ Req(u).row \in Rows
      BY <2>i, <2>w DEF Waiting
    <3>2. CASE Req(u).row # r
      BY <3>1, <3>2, <1>3
    <3>3. CASE Req(u).row = r
      <4>1. Pending(u).txn = u
        BY DEF Pending
      <4>2. Pending(u) \notin reads \cup pre
        BY <4>1
      <4> QED
        BY <3>1, <3>3, <4>2, <1>3, <1>R DEF Returned
    <3> QED
      BY <3>2, <3>3
  <2> QED
    BY <2>1, <2>2, <2>3, <2>4
<1>10. ASSUME NEW s \in Rows PROVE Requests(s)'
  <2> SUFFICES ASSUME NEW q \in mgr'[s]._requests
               PROVE  RequestRight(q, s)'
    BY DEF Requests
  <2>1. q \in mgr[s]._requests
    BY <1>3, <1>R DEF Returned
  <2>2. RequestRight(q, s)
    BY <2>1 DEF MvccInv, Requests
  <2> DEFINE u == q.txn
  <2>3. u \in Threads /\ u # t /\ pc[u] = "wait" /\ ~ts_ready[u] /\ Req(u).row = s /\ q = Pending(u)
    BY <2>2, <1>1 DEF RequestRight
  <2>4. ~Srv(u)
    <3> SUFFICES ASSUME Srv(u) PROVE FALSE
      OBVIOUS
    <3>1. Req(u).row = r /\ Pending(u) \in reads \cup pre
      BY <2>3, <1>s
    <3>2. s = r /\ q \in reads \cup pre
      BY <3>1, <2>3
    <3> QED
      BY <3>2, <1>3, <1>R DEF Returned
  <2>5. mgr'[s]._exists_prewrite /\ mgr'[s]._prewrite_ts < q.ts
    <3>1. CASE s # r
      BY <3>1, <1>3, <2>2 DEF RequestRight
    <3>2. CASE s = r
      <4>1. pre # {} /\ q \in m._requests
        BY <3>2, <1>3, <1>R DEF Returned
      <4>2. PICK p \in pre : TRUE
        BY <4>1
      <4> QED
        BY <3>2, <4>1, <1>3, <1>R DEF Returned
    <3> QED
      BY <3>1, <3>2
  <2>6. /\ pc'[u] = pc[u] /\ ts_ready'[u] = (ts_ready[u] \/ Srv(u))
        /\ Req(u)' = Req(u) /\ Pending(u)' = Pending(u)
    BY <2>3, <1>e, <1>f
  <2> QED
    BY <2>3, <2>4, <2>5, <2>6 DEF RequestRight
<1> QED
  BY <1>4, <1>6, <1>7, <1>8, <1>9, <1>10 DEF MvccInv

-----------------------------------------------------------------------------
(***************************************************************************)
(* The theorems                                                            *)
(***************************************************************************)
LEMMA InitSound ==
  ASSUME Constants, NEW n \in Nat \ {0}, NEW m,
         m = [_row |-> 1, _latest_row |-> 1, _latest_wts |-> 0, _oldest_wts |-> 0,
              _write_history |-> [i \in 1..HIS_LEN |-> NoEntry], _num_versions |-> 0,
              _exists_prewrite |-> FALSE, _prewrite_ts |-> 0, _prewrite_his_id |-> 1,
              _max_served_rts |-> 0, _requests |-> {}]
  PROVE  RowSound(m, n)
<1> DEFINE h == [i \in 1..HIS_LEN |-> NoEntry]
<1>c. HIS_LEN \in Nat /\ HIS_LEN > 0 /\ 0 \in Ts
  BY DEF Constants, Ts
<1>n. /\ NoEntry \in WriteHisEntry /\ NoEntry.valid = FALSE /\ NoEntry.reserved = FALSE
      /\ NoEntry.row = 0
  BY <1>c DEF NoEntry, WriteHisEntry, NULL
<1>h. h \in Seq(WriteHisEntry) /\ Len(h) = HIS_LEN /\ DOMAIN h = 1..HIS_LEN /\ \A i \in 1..HIS_LEN : h[i] = NoEntry
  <2>1. h \in [1..HIS_LEN -> WriteHisEntry] /\ \A i \in 1..HIS_LEN : h[i] = NoEntry
    BY <1>n
  <2> HIDE DEF h
  <2> QED
    BY <2>1, <1>c, IsASeq, LenProperties
<1>f. /\ m._write_history = h /\ m._row = 1 /\ m._latest_row = 1 /\ m._latest_wts = 0
      /\ m._oldest_wts = 0 /\ m._num_versions = 0 /\ m._exists_prewrite = FALSE
  OBVIOUS
<1>1. m \in RowMvcc
  <2>1. h \in Seq(WriteHisEntry)
    BY <1>h
  <2> HIDE DEF h
  <2>2. m = [_row |-> 1, _latest_row |-> 1, _latest_wts |-> 0, _oldest_wts |-> 0,
              _write_history |-> h, _num_versions |-> 0,
              _exists_prewrite |-> FALSE, _prewrite_ts |-> 0, _prewrite_his_id |-> 1,
              _max_served_rts |-> 0, _requests |-> {}]
    BY DEF h
  <2> QED
    BY <2>1, <2>2, <1>c DEF RowMvcc
<1> HIDE DEF h
<1>2. Valid(m) = {}
  BY <1>f, <1>h, <1>n DEF Valid
<1>3. Shape(m, n)
  <2>1. Memory(m, n)
    BY <1>f, <1>h, <1>n, <1>c DEF Memory, NULL
  <2> QED
    BY <2>1, <1>1, <1>f, <1>h, <1>c DEF Shape
<1>4. Versions(m, Valid(m))
  BY <1>2, <1>f, FS_EmptySet DEF Versions
<1>5. Reserved(m) /\ Prewrite(m)
  BY <1>f, <1>h, <1>n DEF Reserved, Prewrite
<1> QED
  BY <1>3, <1>4, <1>5 DEF RowSound

LEMMA InitInv ==
  ASSUME Constants, Init
  PROVE  MvccInv
<1>c. 0 \in Ts /\ 0 \in Nat /\ MaxTxns \in Nat
  BY DEF Constants, Ts
<1>1. \A r \in Rows : RowSound(mgr[r], 1)
  <2> TAKE r \in Rows
  <2>1. mgr[r] = [_row |-> 1, _latest_row |-> 1, _latest_wts |-> 0, _oldest_wts |-> 0,
              _write_history |-> [i \in 1..HIS_LEN |-> NoEntry], _num_versions |-> 0,
              _exists_prewrite |-> FALSE, _prewrite_ts |-> 0, _prewrite_his_id |-> 1,
              _max_served_rts |-> 0, _requests |-> {}]
    BY DEF Init
  <2> QED
    BY <2>1, InitSound
<1>2. \A r \in Rows : mem[r] = <<0>> /\ Len(mem[r]) = 1 /\ mem[r] \in Seq(Ts)
  <2>1. <<0>> \in Seq(Ts) /\ Len(<<0>>) = 1
    BY <1>c
  <2> QED
    BY <2>1 DEF Init
<1>3. \A r \in Rows : mgr[r] \in RowMvcc
  BY <1>1 DEF RowSound, Shape
<1>4. Books
  BY <1>1, <1>2 DEF Books
<1>t. \A t \in Threads : ts[t] = 0 /\ pc[t] = "idle" /\ query[t] = <<>> /\ accesses[t] = <<>>
  BY DEF Init
<1>m. \A r \in Rows : mgr[r]._latest_wts = 0 /\ mgr[r]._requests = {}
  BY DEF Init
<1>5. TypeOK
  <2>1. mgr \in [Rows -> RowMvcc]
    <3>1. mgr = [r \in Rows |-> mgr[r]]
      BY DEF Init
    <3> QED
      BY <3>1, <1>3
  <2>2. mem \in [Rows -> Seq(Ts)]
    <3>1. mem = [r \in Rows |-> mem[r]]
      BY DEF Init
    <3> QED
      BY <3>1, <1>2
  <2>3. accesses \in [Threads -> Seq(Access)]
    BY DEF Init
  <2>4. /\ started \in Ts /\ ts \in [Threads -> Ts] /\ min_ts \in Nat
        /\ all_ts \in [Threads -> Ts \cup {FirstTs}]
    BY <1>c DEF Init
  <2>5. /\ pc \in [Threads -> {"idle", "publish", "exec", "wait", "use", "commit", "abort"}]
        /\ query \in [Threads -> Queries \cup {<<>>}]
        /\ cur_row \in [Threads -> Nat]
        /\ ts_ready \in [Threads -> BOOLEAN]
        /\ hist \subseteq [ts: Ts, reads: SUBSET (Rows \X Ts), writes: SUBSET Rows]
    BY DEF Init, NULL
  <2> QED
    BY <2>1, <2>2, <2>3, <2>4, <2>5 DEF TypeOK
<1>6. Times
  <2>1. started = 0
    BY DEF Init
  <2> QED
    BY <2>1, <1>t, <1>m DEF Times
<1>7. \A t \in Threads : Prefix(t) /\ Given(t) /\ Owned(t) /\ Waiting(t)
  <2> TAKE t \in Threads
  <2>1. pc[t] = "idle" /\ accesses[t] = <<>> /\ Len(accesses[t]) = 0 /\ Len(query[t]) = 0
    BY <1>t
  <2> QED
    BY <2>1 DEF Prefix, Given, Owned, Waiting
<1>8. \A r \in Rows : Requests(r)
  BY <1>m DEF Requests
<1> QED
  BY <1>4, <1>5, <1>6, <1>7, <1>8 DEF MvccInv

LEMMA StutterInv ==
  ASSUME MvccInv, UNCHANGED vars
  PROVE  MvccInv'
<1>u. /\ mgr' = mgr /\ mem' = mem /\ started' = started /\ ts' = ts /\ all_ts' = all_ts
      /\ min_ts' = min_ts /\ pc' = pc /\ query' = query /\ cur_row' = cur_row
      /\ ts_ready' = ts_ready /\ accesses' = accesses /\ hist' = hist
  BY DEF vars
<1>1. TypeOK'
  BY <1>u DEF MvccInv, TypeOK
<1>2. Books'
  BY <1>u DEF MvccInv, Books
<1>3. Times'
  BY <1>u DEF MvccInv, Times
<1>4. \A t \in Threads : Prefix(t)'
  BY <1>u DEF MvccInv, Prefix
<1>5. \A t \in Threads : Given(t)'
  BY <1>u DEF MvccInv, Given, Owns, Req
<1>6. \A t \in Threads : Owned(t)'
  BY <1>u DEF MvccInv, Owned, Owns
<1>7. \A t \in Threads : Waiting(t)'
  BY <1>u DEF MvccInv, Waiting, Pending, Req
<1>8. \A r \in Rows : Requests(r)'
  BY <1>u DEF MvccInv, Requests, RequestRight, Pending, Req
<1> QED
  BY <1>1, <1>2, <1>3, <1>4, <1>5, <1>6, <1>7, <1>8 DEF MvccInv

LEMMA NextInv ==
  ASSUME Constants, MvccInv, [Next]_vars
  PROVE  MvccInv'
<1>1. CASE AllDone \/ UNCHANGED vars
  BY <1>1, StutterInv DEF AllDone
<1>2. ASSUME NEW t \in Threads, Step(t) PROVE MvccInv'
  BY <1>2, NewQueryStep, AddTsStep, AccessAbortsStep, AccessWaitsStep, ReadServedStep,
     PrewriteServedStep, WaitEndsStep, UseRowStep, FinishStep, ReturnRowStep, CleanupDoneStep
     DEF Step
<1> QED
  BY <1>1, <1>2 DEF Next

\* The conjunction of all that access, reserveRow and update_buffer rely on holds in
\* every reachable state, whatever the queries, the threads and the length of a history.
THEOREM MvccInvCorrect ==
  ASSUME Constants
  PROVE  Spec => []MvccInv
<1>1. Init => MvccInv
  BY InitInv
<1>2. MvccInv /\ [Next]_vars => MvccInv'
  BY NextInv
<1> QED
  BY <1>1, <1>2, PTL DEF Spec

LEMMA MvccInvImplies ==
  ASSUME Constants, MvccInv
  PROVE  TypeOK /\ OwnsPrewrite /\ NoLostWakeup /\ HistoryIsSound
<1>i. TypeOK /\ Books
  BY DEF MvccInv
<1>1. OwnsPrewrite
  <2> SUFFICES ASSUME NEW t \in Threads, NEW i \in DOMAIN accesses[t], accesses[t][i].type = "WR"
               PROVE  Owns(t, accesses[t][i].row, accesses[t][i].data)
    BY DEF OwnsPrewrite, Owns
  <2>1. i \in 1..Len(accesses[t])
    BY <1>i, Locals
  <2> QED
    BY <2>1 DEF MvccInv, Owned
<1>2. NoLostWakeup
  <2>1. ASSUME NEW r \in Rows, NEW q \in mgr[r]._requests
        PROVE  /\ mgr[r]._exists_prewrite /\ mgr[r]._prewrite_ts < q.ts
               /\ q.ts > mgr[r]._latest_wts
    <3>1. mgr[r]._exists_prewrite /\ mgr[r]._prewrite_ts < q.ts
      BY DEF MvccInv, Requests, RequestRight
    <3>2. mgr[r]._latest_wts < mgr[r]._prewrite_ts
      BY <3>1, <1>i DEF Books, RowSound, Prewrite
    <3>3. mgr[r]._latest_wts \in Nat /\ mgr[r]._prewrite_ts \in Nat /\ q \in ReqEntry
      BY <1>i, Managers
    <3>4. q.ts \in Nat
      BY <3>3 DEF ReqEntry, Ts, Constants
    <3> QED
      BY <3>1, <3>2, <3>3, <3>4
  <2>2. ASSUME NEW t \in Threads, pc[t] = "wait"
        PROVE  ts_ready[t] <=> ~\E r \in Rows : \E q \in mgr[r]._requests : q.txn = t
    <3>1. ASSUME ts_ready[t], NEW r \in Rows, NEW q \in mgr[r]._requests, q.txn = t PROVE FALSE
      BY <3>1 DEF MvccInv, Requests, RequestRight
    <3>2. ASSUME ~ts_ready[t]
          PROVE  \E r \in Rows : \E q \in mgr[r]._requests : q.txn = t
      <4>1. Pending(t) \in mgr[Req(t).row]._requests
        BY <2>2, <3>2 DEF MvccInv, Waiting
      <4>2. Len(accesses[t]) < Len(query[t])
        BY <2>2 DEF MvccInv, Prefix
      <4>3. Req(t).row \in Rows
        BY <4>2, <1>i, ReqOf
      <4>4. Pending(t).txn = t
        BY DEF Pending
      <4> QED
        BY <4>1, <4>3, <4>4
    <3>3. ts_ready[t] \in BOOLEAN
      BY <1>i, Locals
    <3> QED
      BY <3>1, <3>2, <3>3
  <2> QED
    BY <2>1, <2>2 DEF NoLostWakeup
<1>3. HistoryIsSound
  <2> SUFFICES ASSUME NEW r \in Rows
               PROVE  LET m == mgr[r]
                          used == {i \in DOMAIN m._write_history : m._write_history[i].row # NULL}
                      IN
                      /\ m._num_versions = Cardinality(Valid(m))
                      /\ m._num_versions > 0 =>
                           /\ EntryTs(m, Newest(m, Valid(m))) = m._latest_wts
                           /\ EntryTs(m, Oldest(m, Valid(m))) > m._oldest_wts
                      /\ \A i \in used : m._write_history[i].row # m._row
                      /\ \A i, j \in used : m._write_history[i].row = m._write_history[j].row => i = j
    BY DEF HistoryIsSound
  <2> DEFINE m == mgr[r]
             h == m._write_history
             used == {i \in DOMAIN h : h[i].row # NULL}
  <2>s. RowSound(m, Len(mem[r])) /\ m \in RowMvcc /\ MaxTxns \in Nat
    BY <1>i DEF Books, RowSound, Shape, Constants
  <2>v. Versions(m, Valid(m)) /\ Memory(m, Len(mem[r]))
    BY <2>s DEF RowSound, Shape
  <2> HIDE DEF m
  <2>d. DOMAIN h = 1..Len(h) /\ m._latest_wts \in Nat /\ \A i \in 1..Len(h) : EntryTs(m, i) \in Nat
    BY <2>s, RowFields
  <2>1. m._num_versions = Cardinality(Valid(m))
    BY <2>v DEF Versions
  <2>2. ASSUME m._num_versions > 0
        PROVE  /\ EntryTs(m, Newest(m, Valid(m))) = m._latest_wts
               /\ EntryTs(m, Oldest(m, Valid(m))) > m._oldest_wts
    <3>1. Valid(m) # {}
      <4> SUFFICES ASSUME Valid(m) = {} PROVE FALSE
        OBVIOUS
      <4>1. Cardinality({}) = 0
        BY FS_EmptySet
      <4>2. m._num_versions = 0
        BY <4>1, <2>1
      <4> QED
        BY <4>2, <2>2
    <3>2. Valid(m) \subseteq 1..Len(m._write_history)
      BY <2>s, ValidFinite
    <3>3. /\ Newest(m, Valid(m)) \in Valid(m)
          /\ \A j \in Valid(m) : EntryTs(m, j) <= EntryTs(m, Newest(m, Valid(m)))
      BY <2>s, <3>1, <3>2, NewestProperties
    <3>4. Oldest(m, Valid(m)) \in Valid(m)
      BY <2>s, <3>1, <3>2, OldestProperties
    <3>5. PICK i \in Valid(m) : EntryTs(m, i) = m._latest_wts
      BY <3>1, <2>v DEF Versions
    <3>6. \A j \in Valid(m) : m._oldest_wts < EntryTs(m, j) /\ EntryTs(m, j) <= m._latest_wts
      BY <2>v DEF Versions
    <3>7. m._latest_wts <= EntryTs(m, Newest(m, Valid(m))) /\ EntryTs(m, Newest(m, Valid(m))) <= m._latest_wts
      BY <3>3, <3>5, <3>6
    <3>8. EntryTs(m, Newest(m, Valid(m))) \in Nat
      BY <3>2, <3>3, <2>d
    <3> QED
      BY <3>4, <3>6, <3>7, <3>8, <2>d
  <2>3. \A i \in used : h[i].row # m._row
    BY <2>v, <2>d DEF Memory
  <2>4. \A i, j \in used : h[i].row = h[j].row => i = j
    BY <2>v, <2>d DEF Memory
  <2> QED
    BY <2>1, <2>2, <2>3, <2>4 DEF m
<1> QED
  BY <1>i, <1>1, <1>2, <1>3

\* Every variable keeps its type: versions are read and written only in memory that
\* the row has, and timestamps stay in their range.
THEOREM TypeCorrect ==
  ASSUME Constants
  PROVE  Spec => []TypeOK
<1>1. MvccInv => TypeOK
  BY MvccInvImplies
<1> QED
  BY <1>1, MvccInvCorrect, PTL

\* What Row_mvcc::access asserts for W_REQ and XP_REQ: the prewrite a transaction
\* returns is its own, and no version has become younger meanwhile.
THEOREM OwnsPrewriteCorrect ==
  ASSUME Constants
  PROVE  Spec => []OwnsPrewrite
<1>1. MvccInv => OwnsPrewrite
  BY MvccInvImplies
<1> QED
  BY <1>1, MvccInvCorrect, PTL

\* update_buffer leaves no request behind that nobody would wake: a request is pending
\* exactly as long as its transaction waits, and then for a prewrite older than itself.
THEOREM NoLostWakeupCorrect ==
  ASSUME Constants
  PROVE  Spec => []NoLostWakeup
<1>1. MvccInv => NoLostWakeup
  BY MvccInvImplies
<1> QED
  BY <1>1, MvccInvCorrect, PTL

\* reserveRow keeps the books on the versions of a row through garbage collection,
\* recycling and the doubling of the history, and never gives the same memory twice.
THEOREM HistoryIsSoundCorrect ==
  ASSUME Constants
  PROVE  Spec => []HistoryIsSound
<1>1. MvccInv => HistoryIsSound
  BY MvccInvImplies
<1> QED
  BY <1>1, MvccInvCorrect, PTL

-----------------------------------------------------------------------------
(***************************************************************************)
(* What a reader sees: the versions of a row and the transactions that     *)
(* have written it                                                         *)
(***************************************************************************)

\* The committed transactions that have written row r, by their timestamps.
Written(r) == {e.ts : e \in {g \in hist : r \in g.writes}}

\* v is the last of the transactions in W before n, 0 if there is none.
IsLast(W, n, v) ==
  /\ v = 0 \/ (v \in W /\ v < n)
  /\ \A w \in W : w < n => w <= v

\* The versions of a row that W has written, in the memory cells, are what their
\* timestamps say, the latest one is one of them, and so is everything in W from the
\* oldest one on but the prewrite, that is not older than any read that was served.
RowFits(m, cells, W) ==
  /\ \A x, c : Version(m, Valid(m), x, c) => cells[c] = x /\ (x = 0 \/ x \in W)
  /\ Version(m, Valid(m), m._latest_wts, m._latest_row)
  /\ \A w \in W : w >= m._oldest_wts =>
       (\E c : Version(m, Valid(m), w, c)) \/ (m._exists_prewrite /\ w = m._prewrite_ts)
  /\ m._exists_prewrite => m._max_served_rts <= m._prewrite_ts

\* No transaction before n will write the row any more.
Settled(m, n) ==
  n <= m._latest_wts \/ n <= m._max_served_rts \/ (m._exists_prewrite /\ n = m._prewrite_ts)

\* The timestamps and the memory of the versions of a row.
LEMMA VersionFacts ==
  ASSUME MaxTxns \in Nat, NEW m, NEW n \in Nat, RowSound(m, n), NEW x, NEW c,
         Version(m, Valid(m), x, c)
  PROVE  /\ x \in Nat /\ m._oldest_wts <= x /\ x <= m._latest_wts
         /\ c \in 1..n
         /\ m._exists_prewrite => c # PrewriteRow(m) /\ x < m._prewrite_ts
<1>m. m \in RowMvcc /\ m._row \in 1..n /\ m._oldest_wts <= m._latest_wts /\ Memory(m, n)
      /\ Versions(m, Valid(m)) /\ Prewrite(m)
  BY DEF RowSound, Shape
<1>f. /\ Valid(m) \subseteq 1..Len(m._write_history)
      /\ m._oldest_wts \in Nat /\ m._latest_wts \in Nat /\ m._prewrite_ts \in Nat
      /\ \A i \in 1..Len(m._write_history) : EntryTs(m, i) \in Nat /\ m._write_history[i].row \in Nat
      /\ \A i \in Valid(m) : m._write_history[i].valid
  BY <1>m, RowFields, ValidFinite DEF Valid
<1>p. m._exists_prewrite =>
        /\ m._prewrite_his_id \in 1..Len(m._write_history)
        /\ ~m._write_history[m._prewrite_his_id].valid
        /\ m._write_history[m._prewrite_his_id].row # NULL
        /\ m._latest_wts < m._prewrite_ts
  BY <1>m DEF Prewrite
<1>1. CASE x = m._oldest_wts /\ c = m._row
  <2>1. m._exists_prewrite => m._write_history[m._prewrite_his_id].row # m._row
    BY <1>p, <1>m DEF Memory
  <2> QED
    BY <1>1, <2>1, <1>m, <1>f, <1>p DEF PrewriteRow
<1>2. ASSUME NEW i \in Valid(m), x = EntryTs(m, i), c = m._write_history[i].row
      PROVE  /\ x \in Nat /\ m._oldest_wts <= x /\ x <= m._latest_wts
             /\ c \in 1..n
             /\ m._exists_prewrite => c # PrewriteRow(m) /\ x < m._prewrite_ts
  <2>1. /\ m._write_history[i].row # NULL
        /\ m._oldest_wts < EntryTs(m, i) /\ EntryTs(m, i) <= m._latest_wts
    BY <1>m DEF Versions
  <2>2. i \in 1..Len(m._write_history) /\ c \in 0..n
    BY <1>2, <1>f, <1>m DEF Memory
  <2>3. c \in 1..n
    BY <2>1, <2>2, <1>2 DEF NULL
  <2>4. m._exists_prewrite => c # PrewriteRow(m)
    <3>1. m._exists_prewrite => i # m._prewrite_his_id
      BY <1>p, <1>f
    <3>2. m._exists_prewrite /\ m._write_history[m._prewrite_his_id].row = c => i = m._prewrite_his_id
      BY <2>1, <2>2, <1>2, <1>p, <1>m DEF Memory
    <3> QED
      BY <3>1, <3>2 DEF PrewriteRow
  <2> QED
    BY <2>1, <2>2, <2>3, <2>4, <1>2, <1>f, <1>p
<1> QED
  BY <1>1, <1>2 DEF Version

\* Everything that was written is as old as the latest version, or is the prewrite.
LEMMA WrittenBounded ==
  ASSUME MaxTxns \in Nat, NEW m, NEW n \in Nat, RowSound(m, n),
         NEW cells, NEW W \in SUBSET Nat, RowFits(m, cells, W), NEW w \in W
  PROVE  w <= m._latest_wts \/ (m._exists_prewrite /\ w = m._prewrite_ts)
<1>m. m \in RowMvcc /\ m._oldest_wts <= m._latest_wts
  BY DEF RowSound, Shape
<1>f. m._oldest_wts \in Nat /\ m._latest_wts \in Nat /\ w \in Nat
  BY <1>m, RowFields
<1>1. CASE w < m._oldest_wts
  BY <1>1, <1>m, <1>f
<1>2. CASE w >= m._oldest_wts
  <2>1. (\E c : Version(m, Valid(m), w, c)) \/ (m._exists_prewrite /\ w = m._prewrite_ts)
    BY <1>2 DEF RowFits
  <2> QED
    BY <2>1, VersionFacts
<1> QED
  BY <1>1, <1>2, <1>f

\* The latest version is the last one for a transaction that does not overtake a prewrite.
LEMMA LatestFits ==
  ASSUME MaxTxns \in Nat, NEW m, NEW n \in Nat, RowSound(m, n),
         NEW cells, NEW W \in SUBSET Nat, RowFits(m, cells, W),
         NEW x \in Nat, x > m._latest_wts, m._exists_prewrite => x <= m._prewrite_ts
  PROVE  IsLast(W, x, cells[m._latest_row])
<1>m. m \in RowMvcc
  BY DEF RowSound, Shape
<1>f. m._latest_wts \in Nat /\ m._prewrite_ts \in Nat
  BY <1>m, RowFields
<1>1. cells[m._latest_row] = m._latest_wts /\ (m._latest_wts = 0 \/ m._latest_wts \in W)
  BY DEF RowFits
<1>2. \A w \in W : w \in Nat /\ (w <= m._latest_wts \/ (m._exists_prewrite /\ w = m._prewrite_ts))
  BY WrittenBounded
<1>3. ASSUME NEW w \in W, w < x PROVE w <= m._latest_wts
  BY <1>2, <1>3, <1>f
<1> QED
  BY <1>1, <1>3, <1>f DEF IsLast

\* The requests and the reads that were served do not matter to the versions.
LEMMA ServedFits ==
  ASSUME NEW m, NEW cells, NEW W, RowFits(m, cells, W), NEW q, SameBooks(m, q),
         q._exists_prewrite => q._max_served_rts <= q._prewrite_ts
  PROVE  RowFits(q, cells, W)
<1>1. Valid(q) = Valid(m)
  BY DEF Valid, SameBooks
<1>2. \A x, c : Version(q, Valid(q), x, c) <=> Version(m, Valid(m), x, c)
  BY <1>1 DEF Version, SameBooks, EntryTs
<1> QED
  BY <1>2 DEF RowFits, SameBooks

\* The memory of the prewrite may be overwritten.
LEMMA OverwriteFits ==
  ASSUME MaxTxns \in Nat, NEW m, NEW n \in Nat, RowSound(m, n),
         NEW cells, NEW W, RowFits(m, cells, W), m._exists_prewrite,
         NEW after, \A c \in 1..n : c # PrewriteRow(m) => after[c] = cells[c]
  PROVE  RowFits(m, after, W)
<1>1. ASSUME NEW x, NEW c, Version(m, Valid(m), x, c)
      PROVE  after[c] = x /\ (x = 0 \/ x \in W)
  <2>1. c \in 1..n /\ c # PrewriteRow(m)
    BY <1>1, VersionFacts
  <2>2. cells[c] = x /\ (x = 0 \/ x \in W)
    BY <1>1 DEF RowFits
  <2> QED
    BY <2>1, <2>2
<1> QED
  BY <1>1 DEF RowFits

\* The prewrite's transaction may commit.
LEMMA CommitFits ==
  ASSUME NEW m, NEW cells, NEW W, RowFits(m, cells, W), NEW U,
         \A w \in W : w \in U, \A u \in U : u \in W \/ (m._exists_prewrite /\ u = m._prewrite_ts)
  PROVE  RowFits(m, cells, U)
BY DEF RowFits

\* reserveRow keeps everything a row needs.
LEMMA ReserveFits ==
  ASSUME MaxTxns \in Nat, NEW m, NEW cells \in Seq(Ts), RowSound(m, Len(cells)), ~m._exists_prewrite,
         NEW p_ts \in Ts, p_ts > m._latest_wts, p_ts >= m._max_served_rts, NEW min \in Nat,
         NEW q, q = reserveRow(m, p_ts, min, Len(cells)),
         NEW after, after = CopyLatest(q, cells),
         NEW W \in SUBSET Nat, RowFits(m, cells, W)
  PROVE  /\ RowFits(q, after, W)
         /\ after[PrewriteRow(q)] = after[q._latest_row]
<1>1. /\ after \in Seq(Ts) /\ Len(after) >= Len(cells)
      /\ RowSound(q, Len(after))
      /\ q._exists_prewrite /\ q._prewrite_ts = p_ts
      /\ q._latest_wts = m._latest_wts /\ q._latest_row = m._latest_row
      /\ q._max_served_rts = m._max_served_rts
      /\ Stays(m, q, min)
      /\ after[PrewriteRow(q)] = cells[m._latest_row]
      /\ \A x \in 1..Len(cells) : x # PrewriteRow(q) => after[x] = cells[x]
  BY reserveRowSound
<1>k. Keeps(m, Valid(m), q, Valid(q))
  BY <1>1 DEF Stays
<1>l. Len(cells) \in Nat /\ Len(after) \in Nat
  BY <1>1
<1>q. q \in RowMvcc /\ q._oldest_wts <= q._latest_wts /\ m \in RowMvcc
  BY <1>1 DEF RowSound, Shape
<1>f. q._oldest_wts \in Nat /\ q._latest_wts \in Nat /\ m._oldest_wts \in Nat
  BY <1>q, RowFields
<1>2. ASSUME NEW x, NEW c, Version(q, Valid(q), x, c)
      PROVE  after[c] = x /\ (x = 0 \/ x \in W) /\ Version(m, Valid(m), x, c)
  <2>1. Version(m, Valid(m), x, c)
    BY <1>2, <1>k, Zenon DEF Keeps
  <2>2. c \in 1..Len(cells)
    BY <2>1, <1>l, VersionFacts
  <2>3. c # PrewriteRow(q)
    BY <1>1, <1>2, <1>l, VersionFacts
  <2>4. cells[c] = x /\ (x = 0 \/ x \in W)
    BY <2>1 DEF RowFits
  <2> QED
    BY <2>1, <2>2, <2>3, <2>4, <1>1
<1>3. Version(q, Valid(q), q._latest_wts, q._latest_row)
  <2>1. Version(m, Valid(m), q._latest_wts, q._latest_row)
    BY <1>1 DEF RowFits
  <2>2. ~(q._latest_wts < q._oldest_wts)
    BY <1>q, <1>f
  <2> QED
    BY <2>1, <2>2, <1>k, Zenon DEF Keeps
<1>4. ASSUME NEW w \in W, w >= q._oldest_wts
      PROVE  \E c : Version(q, Valid(q), w, c)
  <2>1. Version(q, Valid(q), q._oldest_wts, q._row)
    BY DEF Version
  <2>2. q._oldest_wts >= m._oldest_wts
    <3>1. Version(m, Valid(m), q._oldest_wts, q._row)
      BY <2>1, <1>k, Zenon DEF Keeps
    <3> QED
      BY <3>1, <1>l, <1>f, VersionFacts
  <2>3. w \in Nat /\ w >= m._oldest_wts
    BY <2>2, <1>4, <1>f
  <2>4. PICK c : Version(m, Valid(m), w, c)
    BY <2>3 DEF RowFits
  <2>5. ~(w < q._oldest_wts)
    BY <2>3, <1>4, <1>f
  <2>6. Version(q, Valid(q), w, c)
    BY <2>4, <2>5, <1>k, Zenon DEF Keeps
  <2> QED
    BY <2>6
<1>5. RowFits(q, after, W)
  <2>1. q._max_served_rts <= q._prewrite_ts
    <3>1. m._max_served_rts \in Nat /\ p_ts \in Nat
      BY <1>q DEF RowMvcc, Ts
    <3> QED
      BY <3>1, <1>1
  <2> QED
    BY <1>2, <1>3, <1>4, <2>1 DEF RowFits
<1>6. after[q._latest_row] = q._latest_wts /\ cells[m._latest_row] = m._latest_wts
  BY <1>5 DEF RowFits
<1> QED
  BY <1>1, <1>5, <1>6

\* W_REQ adds the version of a transaction that is committed,
LEMMA CommittedFits ==
  ASSUME MaxTxns \in Nat, NEW m, NEW n \in Nat, RowSound(m, n), m._exists_prewrite,
         NEW t, ts[t] \in Ts, ts[t] = m._prewrite_ts, NEW c, c = PrewriteRow(m),
         NEW q, q = Committed(m, t, c),
         NEW cells, cells[c] = ts[t], NEW W, ts[t] \in W, RowFits(m, cells, W)
  PROVE  RowFits(q, cells, W)
<1>1. /\ ~q._exists_prewrite
      /\ q._latest_wts = ts[t] /\ q._latest_row = c
      /\ q._oldest_wts = m._oldest_wts
      /\ \A y, b : Version(q, Valid(q), y, b) <=> Version(m, Valid(m), y, b) \/ (y = ts[t] /\ b = c)
  BY CommittedSound
<1>2. \A x, b : Version(m, Valid(m), x, b) => cells[b] = x /\ (x = 0 \/ x \in W)
  BY DEF RowFits
<1>3. \A w \in W : w >= m._oldest_wts =>
        (\E b : Version(m, Valid(m), w, b)) \/ w = ts[t]
  BY DEF RowFits
<1>4. \A x, b : Version(q, Valid(q), x, b) => cells[b] = x /\ (x = 0 \/ x \in W)
  BY <1>1, <1>2
<1>5. Version(q, Valid(q), q._latest_wts, q._latest_row)
  BY <1>1
<1>6. \A w \in W : w >= q._oldest_wts => \E b : Version(q, Valid(q), w, b)
  BY <1>1, <1>3
<1> QED
  BY <1>1, <1>4, <1>5, <1>6 DEF RowFits

\* and XP_REQ drops that of one that is not.
LEMMA DroppedFits ==
  ASSUME MaxTxns \in Nat, NEW m, NEW n \in Nat, RowSound(m, n), m._exists_prewrite,
         NEW q, q = Dropped(m),
         NEW cells, NEW W, m._prewrite_ts \notin W, RowFits(m, cells, W)
  PROVE  RowFits(q, cells, W)
<1>1. /\ ~q._exists_prewrite
      /\ q._latest_wts = m._latest_wts /\ q._latest_row = m._latest_row
      /\ KeepsAll(m, Valid(m), q, Valid(q)) /\ q._oldest_wts = m._oldest_wts
  BY DroppedSound
<1>2. \A x, b : Version(q, Valid(q), x, b) <=> Version(m, Valid(m), x, b)
  BY <1>1 DEF KeepsAll
<1> QED
  BY <1>1, <1>2 DEF RowFits

-----------------------------------------------------------------------------
(***************************************************************************)
(* The search for the version of a reader                                  *)
(***************************************************************************)

\* The memory of the last version before t.
LastOlder(t, m) ==
  IF Older(t, m) = {} THEN m._row ELSE m._write_history[Newest(m, Older(t, m))].row

\* What the loop has after k entries, i being the newest of the versions it looks for:
\* it takes i whatever it has found before, and then goes on with what the_ts keeps of
\* the timestamp of i.
Finds(t, m, best, k, i) ==
  /\ best.the_ts \in Nat
  /\ k < i => best.the_ts < EntryTs(m, i)
  /\ k >= i => /\ best.the_i \in i..k
               /\ best.the_i = i => best.the_ts = EntryTs(m, i) % 2 ^ THE_TS_BITS
               /\ best.the_i # i => best.the_i \in Older(t, m) /\ GoesPast(t, m)
               /\ \A j \in Older(t, m) : i < j /\ j <= k
                    /\ EntryTs(m, j) > EntryTs(m, i) % 2 ^ THE_TS_BITS => best.the_i # i

\* A remainder.
LEMMA ModBound ==
  ASSUME NEW x \in Nat, NEW d \in Nat \ {0}
  PROVE  x % d \in Nat /\ x % d <= x
OBVIOUS

\* One turn of the loop.
LEMMA LookFinds ==
  ASSUME Constants, NEW t, ts[t] \in Nat, NEW m \in RowMvcc, NEW k \in 1..Len(m._write_history),
         NEW i \in Older(t, m), \A j \in Older(t, m) : EntryTs(m, j) <= EntryTs(m, i),
         \A j \in Older(t, m) : EntryTs(m, j) = EntryTs(m, i) => j = i,
         NEW best, Finds(t, m, best, k - 1, i)
  PROVE  Finds(t, m, Look(t, m, best, k), k, i)
<1> DEFINE e == m._write_history[k]
           next == Look(t, m, best, k)
           M == EntryTs(m, i) % 2 ^ THE_TS_BITS
<1>L. /\ Len(m._write_history) \in Nat /\ DOMAIN m._write_history = 1..Len(m._write_history)
      /\ \A j \in 1..Len(m._write_history) : EntryTs(m, j) \in Nat
      /\ e.ts = EntryTs(m, k) /\ MaxTxns \in Nat /\ 2 ^ THE_TS_BITS \in Nat \ {0}
  BY RowFields DEF EntryTs, Constants
<1>o. /\ Older(t, m) \subseteq 1..Len(m._write_history)
      /\ \A j \in 1..Len(m._write_history) :
           j \in Older(t, m) <=> m._write_history[j].valid /\ EntryTs(m, j) < ts[t]
  BY <1>L DEF Older, Valid
<1>i. i \in Nat /\ k \in Nat /\ EntryTs(m, i) \in Nat /\ EntryTs(m, k) \in Nat
  BY <1>L, <1>o
<1>M. M \in Nat /\ \A j \in 1..Len(m._write_history) :
        EntryTs(m, j) % 2 ^ THE_TS_BITS \in Nat /\ EntryTs(m, j) % 2 ^ THE_TS_BITS <= EntryTs(m, j)
  BY <1>L, <1>o, ModBound
<1>b. best.the_ts \in Nat
  BY DEF Finds
<1>1. CASE k < i
  <2>1. best.the_ts < EntryTs(m, i)
    BY <1>1, <1>i DEF Finds
  <2>2. next.the_ts \in Nat /\ next.the_ts < EntryTs(m, i)
    <3>1. CASE e.valid /\ e.ts < ts[t] /\ e.ts > best.the_ts
      <4>1. next.the_ts = EntryTs(m, k) % 2 ^ THE_TS_BITS
        BY <3>1, <1>L DEF Look
      <4>2. k \in Older(t, m) /\ k # i
        BY <3>1, <1>1, <1>o, <1>L, <1>i
      <4>3. EntryTs(m, k) < EntryTs(m, i)
        BY <4>2, <1>i
      <4> QED
        BY <4>1, <4>3, <1>M, <1>i
    <3>2. CASE ~(e.valid /\ e.ts < ts[t] /\ e.ts > best.the_ts)
      BY <3>2, <2>1, <1>b DEF Look
    <3> QED
      BY <3>1, <3>2
  <2> QED
    BY <2>2, <1>1, <1>i DEF Finds
<1>2. CASE k = i
  <2>1. best.the_ts < EntryTs(m, i)
    BY <1>2, <1>i DEF Finds
  <2>2. e.valid /\ e.ts < ts[t] /\ e.ts > best.the_ts
    BY <2>1, <1>2, <1>o, <1>L, <1>b, <1>i
  <2>3. next.the_ts = M /\ next.the_i = i
    BY <2>2, <1>2, <1>L DEF Look
  <2>4. \A j \in Older(t, m) : ~(i < j /\ j <= k)
    BY <1>2, <1>o, <1>i
  <2> HIDE DEF next, M
  <2>5. Finds(t, m, next, k, i)
    BY <2>3, <2>4, <1>2, <1>i, <1>M DEF Finds, M
  <2> QED
    BY <2>5 DEF next
<1>3. CASE k > i
  <2>1. /\ best.the_i \in i..(k - 1)
        /\ best.the_i = i => best.the_ts = M
        /\ best.the_i # i => best.the_i \in Older(t, m) /\ GoesPast(t, m)
        /\ \A j \in Older(t, m) : i < j /\ j <= k - 1 /\ EntryTs(m, j) > M => best.the_i # i
    BY <1>3, <1>i DEF Finds
  <2>2. CASE e.valid /\ e.ts < ts[t] /\ e.ts > best.the_ts
    <3>1. next.the_i = k /\ next.the_ts = EntryTs(m, k) % 2 ^ THE_TS_BITS
      BY <2>2, <1>L DEF Look
    <3>2. k \in Older(t, m) /\ EntryTs(m, k) > best.the_ts
      BY <2>2, <1>o, <1>L
    <3>3. GoesPast(t, m)
      <4>1. CASE best.the_i = i
        BY <4>1, <3>2, <2>1, <1>3 DEF GoesPast
      <4>2. CASE best.the_i # i
        BY <4>2, <2>1
      <4> QED
        BY <4>1, <4>2
    <3>4. next.the_i # i /\ next.the_i \in i..k /\ next.the_ts \in Nat
      BY <3>1, <1>3, <1>i, <1>M
    <3> HIDE DEF next
    <3>5. Finds(t, m, next, k, i)
      BY <3>1, <3>2, <3>3, <3>4, <1>3, <1>i DEF Finds
    <3> QED
      BY <3>5 DEF next
  <2>3. CASE ~(e.valid /\ e.ts < ts[t] /\ e.ts > best.the_ts)
    <3>1. next = best
      BY <2>3 DEF Look
    <3>2. ASSUME NEW j \in Older(t, m), i < j, j <= k, EntryTs(m, j) > M
          PROVE  best.the_i # i
      <4>1. CASE j <= k - 1
        BY <4>1, <3>2, <2>1
      <4>2. CASE j = k
        BY <4>2, <3>2, <2>1, <2>3, <1>o, <1>L
      <4> QED
        BY <4>1, <4>2, <3>2, <1>o, <1>i
    <3>3. best.the_i \in i..k
      BY <2>1, <1>i
    <3> HIDE DEF next
    <3>4. Finds(t, m, best, k, i)
      BY <3>2, <3>3, <2>1, <1>b, <1>3, <1>i DEF Finds
    <3> QED
      BY <3>1, <3>4 DEF next
  <2> QED
    BY <2>2, <2>3
<1> QED
  BY <1>1, <1>2, <1>3, <1>i

\* So the loop finds what Finds says,
LEMMA LoopFinds ==
  ASSUME Constants, NEW t, ts[t] \in Nat, NEW m \in RowMvcc,
         NEW i \in Older(t, m), EntryTs(m, i) > 0,
         \A j \in Older(t, m) : EntryTs(m, j) <= EntryTs(m, i),
         \A j \in Older(t, m) : EntryTs(m, j) = EntryTs(m, i) => j = i,
         NEW f, f = [k \in 0..Len(m._write_history) |-> Turn(t, m, f, k)]
  PROVE  \A k \in 0..Len(m._write_history) : Finds(t, m, f[k], k, i)
<1> DEFINE L == Len(m._write_history)
           T == {k \in 0..L : ~Finds(t, m, f[k], k, i)}
<1>L. L \in Nat /\ i \in 1..L
  <2>1. L \in Nat /\ DOMAIN m._write_history = 1..L
    BY RowFields DEF Constants
  <2> QED
    BY <2>1 DEF Older, Valid
<1> SUFFICES ASSUME T # {} PROVE FALSE
  OBVIOUS
<1>1. PICK k \in T : \A j \in T : k <= j
  <2>1. T \subseteq Nat
    BY <1>L
  <2> HIDE DEF T
  <2> QED
    BY <2>1, LeastNat
<1>t. k \in 0..L /\ k \in Nat /\ ~Finds(t, m, f[k], k, i)
  BY <1>1, <1>L
<1>2. f[k] = Turn(t, m, f, k)
  <2>1. \A j \in 0..L : f[j] = Turn(t, m, f, j)
    BY Zenon
  <2> QED
    BY <2>1, <1>t
<1>3. CASE k = 0
  <2>1. f[k].the_ts = 0
    BY <1>2, <1>3 DEF Turn
  <2> QED
    BY <2>1, <1>3, <1>t, <1>L DEF Finds
<1>4. CASE k # 0
  <2>1. k - 1 \in 0..L /\ k - 1 \notin T /\ k \in 1..L
    <3>1. k - 1 \in 0..L /\ k \in 1..L /\ ~(k <= k - 1)
      BY <1>4, <1>t, <1>L
    <3> HIDE DEF T
    <3> QED
      BY <3>1, <1>1
  <2>2. Finds(t, m, f[k - 1], k - 1, i)
    BY <2>1
  <2>3. f[k] = Look(t, m, f[k - 1], k)
    BY <1>2, <1>4 DEF Turn
  <2>4. Finds(t, m, Look(t, m, f[k - 1], k), k, i)
    BY <2>1, <2>2, LookFinds
  <2> QED
    BY <2>3, <2>4, <1>t
<1> QED
  BY <1>3, <1>4

\* nothing where there is no version before t,
LEMMA LoopFindsNone ==
  ASSUME Constants, NEW t, NEW m \in RowMvcc, Older(t, m) = {},
         NEW f, f = [k \in 0..Len(m._write_history) |-> Turn(t, m, f, k)]
  PROVE  \A k \in 0..Len(m._write_history) : f[k].the_i = 0
<1> DEFINE L == Len(m._write_history)
           T == {k \in 0..L : f[k].the_i # 0}
<1>L. L \in Nat /\ DOMAIN m._write_history = 1..L
  BY RowFields DEF Constants
<1> SUFFICES ASSUME T # {} PROVE FALSE
  OBVIOUS
<1>1. PICK k \in T : \A j \in T : k <= j
  <2>1. T \subseteq Nat
    BY <1>L
  <2> HIDE DEF T
  <2> QED
    BY <2>1, LeastNat
<1>t. k \in 0..L /\ k \in Nat /\ f[k].the_i # 0
  BY <1>1, <1>L
<1>2. f[k] = Turn(t, m, f, k)
  <2>1. \A j \in 0..L : f[j] = Turn(t, m, f, j)
    BY Zenon
  <2> QED
    BY <2>1, <1>t
<1>3. CASE k = 0
  BY <1>2, <1>3, <1>t DEF Turn
<1>4. CASE k # 0
  <2>1. k - 1 \in 0..L /\ k - 1 \notin T /\ k \in 1..L
    <3>1. k - 1 \in 0..L /\ k \in 1..L /\ ~(k <= k - 1)
      BY <1>4, <1>t, <1>L
    <3> HIDE DEF T
    <3> QED
      BY <3>1, <1>1
  <2>2. f[k] = Look(t, m, f[k - 1], k)
    BY <1>2, <1>4 DEF Turn
  <2>3. ~(m._write_history[k].valid /\ m._write_history[k].ts < ts[t])
    BY <2>1, <1>L DEF Older, Valid, EntryTs
  <2>4. f[k] = f[k - 1]
    BY <2>2, <2>3 DEF Look
  <2> QED
    BY <2>1, <2>4, <1>t
<1> QED
  BY <1>3, <1>4

\* and the search ends with the last version before t, unless it goes past it: then it
\* ends with an older one.
LEMMA SearchFinds ==
  ASSUME Constants, NEW t, ts[t] \in Nat, NEW m, NEW n \in Nat, RowSound(m, n)
  PROVE  /\ ~GoesPast(t, m) => SearchVersion(t, m) = LastOlder(t, m)
         /\ GoesPast(t, m) => SearchVersion(t, m) # LastOlder(t, m)
<1> DEFINE L == Len(m._write_history)
           best == CHOOSE f : f = [j \in 0..L |-> Turn(t, m, f, j)]
           x == best[L].the_i
           O == Older(t, m)
<1>m. m \in RowMvcc /\ Versions(m, Valid(m)) /\ Memory(m, n)
  BY DEF RowSound, Shape
<1>L. /\ L \in Nat /\ MaxTxns \in Nat /\ m._oldest_wts \in Nat
      /\ Valid(m) \subseteq 1..L /\ O \subseteq Valid(m)
      /\ \A j \in 1..L : EntryTs(m, j) \in Nat
  BY <1>m, RowFields, ValidFinite DEF Constants, Older
<1>1. best = [j \in 0..L |-> Turn(t, m, best, j)]
  <2>1. \E f : f = [j \in 0..L |-> Turn(t, m, f, j)]
    <3>1. L \in 0..L
      BY <1>L
    <3>2. \A k \in 0..L : \E f : f = [j \in 0..k |-> Turn(t, m, f, j)]
      BY <1>L, LoopIsDefined
    <3> HIDE DEF L
    <3> QED
      BY <3>1, <3>2
  <2> QED
    BY <2>1
<1>2. SearchVersion(t, m) = IF x = 0 THEN m._row ELSE m._write_history[x].row
  BY DEF SearchVersion, Turn
<1> HIDE DEF best
<1>l. L \in 0..L
  BY <1>L
<1>3. CASE O = {}
  <2>1. \A k \in 0..L : best[k].the_i = 0
    BY <1>1, <1>3, <1>m, LoopFindsNone
  <2>2. x = 0
    BY <2>1, <1>l
  <2>3. ~GoesPast(t, m)
    BY <1>3 DEF GoesPast
  <2> QED
    BY <2>2, <2>3, <1>2, <1>3 DEF LastOlder
<1>4. CASE O # {}
  <2> DEFINE i == Newest(m, O)
  <2>1. i \in O /\ \A j \in O : EntryTs(m, j) <= EntryTs(m, i)
    BY <1>4, <1>L, <1>m, NewestProperties
  <2>2. LastOlder(t, m) = m._write_history[i].row
    BY <1>4 DEF LastOlder
  <2> HIDE DEF i
  <2>3. i \in 1..L /\ EntryTs(m, i) > 0 /\ m._write_history[i].row # NULL
        /\ \A j \in O : EntryTs(m, j) = EntryTs(m, i) => j = i
    BY <2>1, <1>L, <1>m DEF Versions
  <2>4. \A k \in 0..L : Finds(t, m, best[k], k, i)
    BY <2>1, <2>3, <1>1, <1>m, LoopFinds
  <2>5. Finds(t, m, best[L], L, i) /\ L >= i
    BY <2>3, <2>4, <1>l, <1>L
  <2>6. x \in i..L /\ (x # i => GoesPast(t, m))
    BY <2>5 DEF Finds
  <2>7. GoesPast(t, m) => x # i
    <3> SUFFICES ASSUME NEW a \in O, NEW j \in O, a < j, \A k \in O : EntryTs(m, k) <= EntryTs(m, a),
                        EntryTs(m, j) > EntryTs(m, a) % 2 ^ THE_TS_BITS
                 PROVE  x # i
      BY DEF GoesPast
    <3>1. EntryTs(m, a) <= EntryTs(m, i) /\ EntryTs(m, i) <= EntryTs(m, a)
          /\ EntryTs(m, a) \in Nat /\ EntryTs(m, i) \in Nat
      BY <2>1, <1>L
    <3>2. a = i
      BY <3>1, <2>3
    <3>3. j <= L
      BY <1>L
    <3> QED
      BY <3>2, <3>3, <2>5 DEF Finds
  <2>8. SearchVersion(t, m) = m._write_history[x].row /\ x \in 1..L
    BY <2>3, <2>6, <1>2, <1>L
  <2>9. m._write_history[x].row = m._write_history[i].row => x = i
    BY <2>3, <2>8, <1>m DEF Memory
  <2> QED
    BY <2>2, <2>6, <2>7, <2>8, <2>9
<1> QED
  BY <1>3, <1>4

\* What is there is a version.
LEMMA SearchIsVersion ==
  ASSUME Constants, NEW t, ts[t] \in Nat, NEW m, NEW n \in Nat, RowSound(m, n), ~GoesPast(t, m)
  PROVE  Version(m, Valid(m), IF Older(t, m) = {} THEN m._oldest_wts ELSE EntryTs(m, Newest(m, Older(t, m))),
                 SearchVersion(t, m))
<1>1. SearchVersion(t, m) = LastOlder(t, m)
  BY SearchFinds
<1>2. CASE Older(t, m) = {}
  BY <1>1, <1>2 DEF LastOlder, Version
<1>3. CASE Older(t, m) # {}
  <2>1. m \in RowMvcc /\ MaxTxns \in Nat
    BY DEF RowSound, Shape, Constants
  <2>2. Older(t, m) \subseteq Valid(m) /\ Valid(m) \subseteq 1..Len(m._write_history)
    BY <2>1, ValidFinite DEF Older
  <2>3. Newest(m, Older(t, m)) \in Older(t, m)
    BY <2>1, <2>2, <1>3, NewestProperties
  <2> QED
    BY <2>2, <2>3, <1>1, <1>3 DEF LastOlder, Version
<1> QED
  BY <1>2, <1>3

\* It is the last one before ts[t].
LEMMA SearchFits ==
  ASSUME Constants, NEW t, ts[t] \in Nat, NEW m, NEW n \in Nat, RowSound(m, n), ~GoesPast(t, m),
         NEW cells, NEW W \in SUBSET Nat, RowFits(m, cells, W), ts[t] \notin W, ts[t] > 0,
         ts[t] >= m._oldest_wts, ts[t] <= m._latest_wts
  PROVE  /\ IsLast(W, ts[t], cells[SearchVersion(t, m)])
         /\ \E x : Version(m, Valid(m), x, SearchVersion(t, m))
<1> DEFINE O == Older(t, m)
           x == IF O = {} THEN m._oldest_wts ELSE EntryTs(m, Newest(m, O))
           c == SearchVersion(t, m)
<1>m. m \in RowMvcc /\ Versions(m, Valid(m)) /\ MaxTxns \in Nat
  BY DEF RowSound, Shape, Constants
<1>L. /\ m._oldest_wts \in Nat /\ m._latest_wts \in Nat
      /\ O \subseteq Valid(m) /\ Valid(m) \subseteq 1..Len(m._write_history)
      /\ \A i \in Valid(m) : i \in O <=> EntryTs(m, i) < ts[t]
  BY <1>m, RowFields, ValidFinite DEF Older
<1>1. Version(m, Valid(m), x, c)
  BY SearchIsVersion
<1>2. x \in Nat /\ m._oldest_wts <= x
  BY <1>1, <1>m, VersionFacts
<1>3. O # {} => Newest(m, O) \in O /\ \A i \in O : EntryTs(m, i) <= EntryTs(m, Newest(m, O))
  BY <1>m, <1>L, NewestProperties
<1>4. \A i \in Valid(m) : EntryTs(m, i) < ts[t] => EntryTs(m, i) <= x
  BY <1>3, <1>L
<1>5. cells[c] = x /\ (x = 0 \/ x \in W)
  BY <1>1 DEF RowFits
<1>6. x = 0 \/ (x \in W /\ x < ts[t])
  <2>1. x <= ts[t]
    <3>1. CASE O = {}
      BY <3>1
    <3>2. CASE O # {}
      BY <3>2, <1>2, <1>3, <1>L
    <3> QED
      BY <3>1, <3>2
  <2> HIDE DEF x
  <2> QED
    BY <2>1, <1>2, <1>5
<1> HIDE DEF x, c, O
<1>9. ASSUME NEW w \in W, w < ts[t] PROVE w <= x
  <2>1. CASE w < m._oldest_wts
    BY <2>1, <1>2, <1>L
  <2>2. CASE w >= m._oldest_wts
    <3>1. (\E b : Version(m, Valid(m), w, b)) \/ (m._exists_prewrite /\ w = m._prewrite_ts)
      BY <2>2 DEF RowFits
    <3>2. m._exists_prewrite => m._latest_wts < m._prewrite_ts /\ m._prewrite_ts \in Nat
      BY <1>m, RowFields DEF RowSound, Prewrite
    <3>3. PICK b : Version(m, Valid(m), w, b)
      BY <3>1, <3>2, <1>9, <1>L
    <3> QED
      BY <3>3, <1>2, <1>4, <1>9 DEF Version
  <2> QED
    BY <2>1, <2>2, <1>L
<1> QED
  BY <1>1, <1>5, <1>6, <1>9 DEF IsLast, c

-----------------------------------------------------------------------------
(***************************************************************************)
(* The order of the timestamps                                             *)
(***************************************************************************)

\* n, which has read v of row r, has read the last version before it, whatever is still
\* to come.
Right(r, n, v) == IsLast(Written(r), n, v) /\ Settled(mgr[r], n)

\* A claim is made of what transaction n reads in order to update it, and of all that it
\* reads unless it is one of D, the transactions that something has disturbed.
Claimed(D, n, type) == type = "WR" \/ n \notin D

Accessed(D, t) ==
  pc[t] \in {"exec", "wait", "use"} =>
    \A i \in 1..Len(accesses[t]) : Claimed(D, ts[t], accesses[t][i].type) =>
      Right(accesses[t][i].row, ts[t], accesses[t][i].read)

Holds(D, t) ==
  HasRow(t) /\ Claimed(D, ts[t], Req(t).type) =>
    Right(Req(t).row, ts[t], mem[Req(t).row][cur_row[t]])

Wrote(t) ==
  \A i \in 1..Len(accesses[t]) : accesses[t][i].type = "WR" =>
    /\ mem[accesses[t][i].row][accesses[t][i].data] = ts[t]
    /\ pc[t] = "commit" => ts[t] \in Written(accesses[t][i].row)

\* Committed transactions are not those that still run, and have read the right versions.
HistRight(D) ==
  \A e \in hist :
    /\ e.ts > 0 /\ e.ts <= started
    /\ \A t \in Threads : pc[t] \notin {"idle", "commit"} => e.ts # ts[t]
    /\ \A p \in e.reads : p[1] \in e.writes \/ e.ts \notin D => Right(p[1], e.ts, p[2])

OrderInv(D) ==
  /\ HistRight(D)
  /\ \A r \in Rows : RowFits(mgr[r], mem[r], Written(r))
  /\ \A t \in Threads : Accessed(D, t) /\ Holds(D, t) /\ Wrote(t)

\* No transaction outside D reads memory that has been given to a prewrite,
Kept(D) == \A u \in Threads : ts[u] \notin D => ~Overwritten(u)

\* The timestamps that have written a row.
LEMMA WrittenType ==
  ASSUME Constants, TypeOK, NEW r
  PROVE  Written(r) \in SUBSET Nat /\ Written(r) \in SUBSET Ts
<1>1. \A e \in hist : e.ts \in Ts
  BY DEF TypeOK
<1>2. \A n \in Ts : n \in Nat
  BY DEF Ts, Constants
<1> QED
  BY <1>1, <1>2 DEF Written

\* A transaction that has not committed has written nothing yet.
LEMMA NotWritten ==
  ASSUME NEW D, HistRight(D), NEW t \in Threads, pc[t] \notin {"idle", "commit"}, NEW r
  PROVE  ts[t] \notin Written(r)
BY DEF HistRight, Written

\* What was right stays right, except for the transactions in X.
KeepsRight(X) ==
  \A r \in Rows, n \in Nat : \A v : n \notin X /\ Right(r, n, v) => Right(r, n, v)'

\* The versions of row r become only younger, and its prewrite stays, is committed, or
\* is that of a transaction in X.
Advances(r, X) ==
  /\ mgr[r]._latest_wts <= mgr'[r]._latest_wts
  /\ mgr[r]._max_served_rts <= mgr'[r]._max_served_rts
  /\ mgr[r]._exists_prewrite /\ mgr[r]._prewrite_ts \notin X =>
       \/ mgr'[r]._exists_prewrite /\ mgr'[r]._prewrite_ts = mgr[r]._prewrite_ts
       \/ mgr[r]._prewrite_ts <= mgr'[r]._latest_wts

\* When the rows only advance, what was right stays right.
LEMMA AdvancesKeeps ==
  ASSUME Constants, TypeOK, TypeOK', hist' = hist, NEW X, \A r \in Rows : Advances(r, X)
  PROVE  KeepsRight(X)
<1> SUFFICES ASSUME NEW r \in Rows, NEW n \in Nat, NEW v, n \notin X, Right(r, n, v)
             PROVE  Right(r, n, v)'
  BY DEF KeepsRight
<1>1. /\ mgr[r]._latest_wts \in Nat /\ mgr'[r]._latest_wts \in Nat
      /\ mgr[r]._max_served_rts \in Nat /\ mgr'[r]._max_served_rts \in Nat
      /\ mgr[r]._prewrite_ts \in Nat
  <2>1. mgr[r] \in RowMvcc /\ mgr'[r] \in RowMvcc
    BY DEF TypeOK
  <2>2. \A x \in Ts : x \in Nat
    BY DEF Ts, Constants
  <2> QED
    BY <2>1, <2>2 DEF RowMvcc
<1>2. IsLast(Written(r), n, v) /\ Settled(mgr[r], n)
  BY DEF Right
<1>3. Written(r)' = Written(r)
  BY DEF Written
<1>4. Advances(r, X)
  OBVIOUS
<1>5. Settled(mgr'[r], n)
  BY <1>1, <1>2, <1>4 DEF Advances, Settled
<1> QED
  BY <1>2, <1>3, <1>5 DEF Right

\* What u has read stays right,
LEMMA AccessedKept ==
  ASSUME Constants, TypeOK, NEW u \in Threads, NEW D, Accessed(D, u), NEW X, KeepsRight(X), ts[u] \notin X,
         ts'[u] = ts[u], accesses'[u] = accesses[u],
         pc'[u] \in {"exec", "wait", "use"} => pc[u] \in {"exec", "wait", "use"}
  PROVE  Accessed(D, u)'
<1> SUFFICES ASSUME pc[u] \in {"exec", "wait", "use"}, NEW i \in 1..Len(accesses[u]),
                    Claimed(D, ts[u], accesses[u][i].type)
             PROVE  Right(accesses[u][i].row, ts[u], accesses[u][i].read)'
  BY DEF Accessed, Claimed
<1>1. Right(accesses[u][i].row, ts[u], accesses[u][i].read)
  BY DEF Accessed
<1>2. accesses[u][i].row \in Rows /\ ts[u] \in Nat
  BY Locals, AccessOf
<1>3. PICK r, n, v : r \in Rows /\ n \in Nat /\ r = accesses[u][i].row /\ n = ts[u] /\ v = accesses[u][i].read
  BY <1>2
<1>4. Right(r, n, v)
  BY <1>1, <1>3
<1>5. Right(r, n, v)'
  BY <1>3, <1>4 DEF KeepsRight
<1>6. r = accesses'[u][i].row /\ n = ts'[u] /\ v = accesses'[u][i].read
  BY <1>3
<1> QED
  BY <1>5, <1>6

\* what it holds does,
LEMMA HoldsKept ==
  ASSUME Constants, MvccInv, NEW u \in Threads, NEW D, Holds(D, u), NEW X, KeepsRight(X), ts[u] \notin X,
         ts'[u] = ts[u], accesses'[u] = accesses[u], query'[u] = query[u],
         HasRow(u)' => HasRow(u) /\ cur_row'[u] = cur_row[u],
         HasRow(u)' /\ Claimed(D, ts[u], Req(u).type) =>
           mem'[Req(u).row][cur_row[u]] = mem[Req(u).row][cur_row[u]]
  PROVE  Holds(D, u)'
<1>r. Req(u)' = Req(u)
  BY DEF Req
<1> SUFFICES ASSUME HasRow(u)', Claimed(D, ts[u], Req(u).type)
             PROVE  Right(Req(u).row, ts[u], mem[Req(u).row][cur_row[u]])'
  BY <1>r DEF Holds, Claimed
<1>1. Right(Req(u).row, ts[u], mem[Req(u).row][cur_row[u]]) /\ HasRow(u)
  BY DEF Holds
<1>2. Req(u).row \in Rows /\ ts[u] \in Nat
  BY <1>1, Locals, ReqOf DEF MvccInv, Prefix, HasRow
<1>3. PICK r, n, v : r \in Rows /\ n \in Nat /\ r = Req(u).row /\ n = ts[u] /\ v = mem[Req(u).row][cur_row[u]]
  BY <1>2
<1>4. Right(r, n, v)
  BY <1>1, <1>3
<1>5. Right(r, n, v)'
  BY <1>3, <1>4 DEF KeepsRight
<1>7. r = Req(u).row' /\ n = ts'[u] /\ v = mem'[Req(u).row'][cur_row'[u]]
  BY <1>1, <1>3, <1>r
<1> QED
  BY <1>5, <1>7

\* what it has written stays there,
LEMMA WroteKept ==
  ASSUME Constants, TypeOK, NEW u \in Threads, Wrote(u), ts'[u] = ts[u],
         Len(accesses'[u]) \in Nat, Len(accesses'[u]) <= Len(accesses[u]),
         \A i \in 1..Len(accesses'[u]) : accesses'[u][i] = accesses[u][i],
         pc'[u] = "commit" => pc[u] = "commit",
         \A r \in Rows : Written(r) \subseteq Written(r)',
         \A i \in 1..Len(accesses'[u]) : accesses[u][i].type = "WR" =>
           mem'[accesses[u][i].row][accesses[u][i].data] = mem[accesses[u][i].row][accesses[u][i].data]
  PROVE  Wrote(u)'
<1> SUFFICES ASSUME NEW i \in 1..Len(accesses'[u]), accesses'[u][i].type = "WR"
             PROVE  /\ mem'[accesses'[u][i].row][accesses'[u][i].data] = ts'[u]
                    /\ pc'[u] = "commit" => (ts[u] \in Written(accesses[u][i].row))'
  BY DEF Wrote
<1>1. i \in 1..Len(accesses[u]) /\ accesses[u][i].row \in Rows
  BY Locals, AccessOf
<1>2. /\ mem[accesses[u][i].row][accesses[u][i].data] = ts[u]
      /\ pc[u] = "commit" => ts[u] \in Written(accesses[u][i].row)
  BY <1>1 DEF Wrote
<1>3. PICK r \in Rows : r = accesses[u][i].row
  BY <1>1
<1>4. pc'[u] = "commit" => ts[u] \in Written(r)'
  BY <1>2, <1>3
<1> QED
  BY <1>2, <1>3, <1>4

\* and the history of committed transactions stays right.
LEMMA HistKept ==
  ASSUME Constants, TypeOK, NEW D, HistRight(D), hist' = hist, NEW X, KeepsRight(X), \A e \in hist : e.ts \notin X,
         started' \in Nat, started <= started',
         \A u \in Threads : pc'[u] \notin {"idle", "commit"} =>
           \/ pc[u] \notin {"idle", "commit"} /\ ts'[u] = ts[u]
           \/ ts'[u] > started /\ ts'[u] \in Nat
  PROVE  HistRight(D)'
<1> SUFFICES ASSUME NEW e \in hist
             PROVE  /\ e.ts > 0 /\ e.ts <= started'
                    /\ \A u \in Threads : pc'[u] \notin {"idle", "commit"} => e.ts # ts'[u]
                    /\ \A p \in e.reads : p[1] \in e.writes \/ e.ts \notin D => Right(p[1], e.ts, p[2])'
  BY DEF HistRight
<1>1. /\ e.ts > 0 /\ e.ts <= started
      /\ \A u \in Threads : pc[u] \notin {"idle", "commit"} => e.ts # ts[u]
      /\ \A p \in e.reads : p[1] \in e.writes \/ e.ts \notin D => Right(p[1], e.ts, p[2])
  BY DEF HistRight
<1>2. /\ e.ts \in Nat /\ started \in Nat /\ e.reads \in SUBSET (Rows \X Ts)
  BY DEF TypeOK, Ts, Constants
<1>3. \A p \in e.reads : p[1] \in Rows
  BY <1>2
<1>4. \A p \in e.reads : p[1] \in e.writes \/ e.ts \notin D => Right(p[1], e.ts, p[2])'
  BY <1>1, <1>2, <1>3 DEF KeepsRight
<1>5. \A u \in Threads : pc'[u] \notin {"idle", "commit"} => e.ts # ts'[u]
  BY <1>1, <1>2
<1> QED
  BY <1>1, <1>2, <1>4, <1>5

\* The steps that leave the versions, the memory and the committed transactions alone.
LEMMA QuietOrder ==
  ASSUME Constants, MvccInv, NEW D, OrderInv(D), TypeOK', NEW t \in Threads,
         hist' = hist, mem' = mem, cur_row' = cur_row, started' \in Nat, started <= started',
         \A r \in Rows : SameBooks(mgr[r], mgr'[r]) /\ mgr'[r]._max_served_rts = mgr[r]._max_served_rts,
         \A u \in Threads : u # t =>
           /\ pc'[u] = pc[u] /\ query'[u] = query[u] /\ accesses'[u] = accesses[u]
           /\ ts'[u] = ts[u] /\ ts_ready'[u] = ts_ready[u],
         pc'[t] \notin {"idle", "commit"} =>
           (pc[t] \notin {"idle", "commit"} /\ ts'[t] = ts[t]) \/ ts'[t] > started,
         \/ accesses'[t] = <<>> /\ ~HasRow(t)'
         \/ /\ ts'[t] = ts[t] /\ accesses'[t] = accesses[t] /\ query'[t] = query[t]
            /\ pc'[t] \in {"exec", "wait", "use"} => pc[t] \in {"exec", "wait", "use"}
            /\ pc'[t] = "commit" => pc[t] = "commit"
            /\ HasRow(t)' => HasRow(t)
  PROVE  OrderInv(D)'
<1>i. TypeOK /\ Times
  BY DEF MvccInv
<1>o. /\ HistRight(D) /\ \A r \in Rows : RowFits(mgr[r], mem[r], Written(r))
      /\ \A u \in Threads : Accessed(D, u) /\ Holds(D, u) /\ Wrote(u)
  BY DEF OrderInv
<1>w. \A r : Written(r)' = Written(r)
  BY DEF Written
<1>n. \A u \in Threads : ts[u] \in Nat /\ ts'[u] \in Nat /\ Len(accesses[u]) \in Nat
  BY <1>i, Locals DEF TypeOK, Ts, Constants
<1>1. KeepsRight({})
  <2>1. ASSUME NEW r \in Rows PROVE Advances(r, {})
    <3>1. mgr[r]._latest_wts \in Nat /\ mgr[r]._max_served_rts \in Nat
      BY <1>i, Managers DEF Ts, Constants
    <3> QED
      BY <3>1 DEF Advances, SameBooks
  <2> QED
    BY <2>1, <1>i, AdvancesKeeps
<1>2. HistRight(D)'
  <2>1. \A e \in hist : e.ts \notin {}
    OBVIOUS
  <2>2. \A u \in Threads : pc'[u] \notin {"idle", "commit"} =>
           \/ pc[u] \notin {"idle", "commit"} /\ ts'[u] = ts[u]
           \/ ts'[u] > started /\ ts'[u] \in Nat
    BY <1>n
  <2> QED
    BY <2>1, <2>2, <1>1, <1>i, <1>o, HistKept
<1>3. ASSUME NEW r \in Rows PROVE RowFits(mgr[r], mem[r], Written(r))'
  <2>1. RowFits(mgr[r], mem[r], Written(r)) /\ SameBooks(mgr[r], mgr'[r])
    BY <1>o
  <2>2. mgr'[r]._exists_prewrite => mgr'[r]._max_served_rts <= mgr'[r]._prewrite_ts
    BY <2>1 DEF RowFits, SameBooks
  <2>3. RowFits(mgr'[r], mem[r], Written(r))
    BY <2>1, <2>2, ServedFits
  <2> QED
    BY <2>3, <1>w
<1>4. ASSUME NEW u \in Threads,
             ts'[u] = ts[u] /\ accesses'[u] = accesses[u] /\ query'[u] = query[u],
             pc'[u] \in {"exec", "wait", "use"} => pc[u] \in {"exec", "wait", "use"},
             pc'[u] = "commit" => pc[u] = "commit",
             HasRow(u)' => HasRow(u)
      PROVE  Accessed(D, u)' /\ Holds(D, u)' /\ Wrote(u)'
  <2>1. Accessed(D, u)'
    BY <1>1, <1>4, <1>i, <1>o, AccessedKept
  <2>2. Holds(D, u)'
    BY <1>1, <1>4, <1>o, HoldsKept
  <2>3. Wrote(u)'
    BY <1>4, <1>i, <1>o, <1>n, <1>w, WroteKept
  <2> QED
    BY <2>1, <2>2, <2>3
<1>5. ASSUME NEW u \in Threads, accesses'[u] = <<>>, ~HasRow(u)'
      PROVE  Accessed(D, u)' /\ Holds(D, u)' /\ Wrote(u)'
  <2>1. Len(accesses'[u]) = 0
    BY <1>5
  <2> QED
    BY <2>1, <1>5 DEF Accessed, Holds, Wrote
<1>6. ASSUME NEW u \in Threads PROVE Accessed(D, u)' /\ Holds(D, u)' /\ Wrote(u)'
  <2>1. CASE u # t
    <3>1. HasRow(u)' => HasRow(u)
      BY <2>1 DEF HasRow
    <3> QED
      BY <2>1, <3>1, <1>4
  <2>2. CASE u = t
    BY <2>2, <1>4, <1>5
  <2> QED
    BY <2>1, <2>2
<1> QED
  BY <1>2, <1>3, <1>6 DEF OrderInv

\* A row that does not change.
LEMMA SameBooksSelf ==
  ASSUME NEW m PROVE SameBooks(m, m)
BY DEF SameBooks

\* The steps that neither serve, nor use, nor return a row.
LEMMA NewQueryOrder ==
  ASSUME Constants, MvccInv, NEW D, OrderInv(D), MvccInv', NEW t \in Threads, NEW q \in Queries, NewQuery(t, q)
  PROVE  OrderInv(D)'
<1>i. TypeOK /\ Prefix(t) /\ TypeOK'
  BY DEF MvccInv
<1>p. pc'[t] = "publish" /\ \A u \in Threads : u # t => pc'[u] = pc[u]
  BY <1>i, PcGoes DEF NewQuery, PC
<1>1. /\ pc[t] = "idle" /\ started' = started + 1
      /\ ts' = [ts EXCEPT ![t] = started + 1]
      /\ query' = [query EXCEPT ![t] = q]
      /\ UNCHANGED <<mgr, mem, all_ts, min_ts, cur_row, ts_ready, accesses, hist>>
  BY DEF NewQuery
<1>2. started \in Nat /\ ts \in [Threads -> Ts] /\ query \in [Threads -> Queries \cup {<<>>}]
  BY <1>i DEF TypeOK, Ts, Constants
<1>3. /\ started' \in Nat /\ started <= started' /\ ts'[t] > started
      /\ \A u \in Threads : u # t => ts'[u] = ts[u] /\ query'[u] = query[u]
  BY <1>1, <1>2
<1>4. accesses'[t] = <<>> /\ ~HasRow(t)'
  BY <1>1, <1>i, <1>p DEF Prefix, HasRow
<1>5. \A r \in Rows : SameBooks(mgr[r], mgr'[r]) /\ mgr'[r]._max_served_rts = mgr[r]._max_served_rts
  BY <1>1, SameBooksSelf
<1> QED
  BY <1>1, <1>3, <1>4, <1>5, <1>i, <1>p, QuietOrder

\* Publishing the timestamp.
LEMMA AddTsOrder ==
  ASSUME Constants, MvccInv, NEW D, OrderInv(D), MvccInv', NEW t \in Threads, AddTs(t)
  PROVE  OrderInv(D)'
<1>i. TypeOK /\ Prefix(t) /\ TypeOK'
  BY DEF MvccInv
<1>p. pc'[t] = "exec" /\ \A u \in Threads : u # t => pc'[u] = pc[u]
  BY <1>i, PcGoes DEF AddTs, PC
<1>1. /\ pc[t] = "publish"
      /\ UNCHANGED <<mgr, mem, started, ts, min_ts, query, cur_row, ts_ready, accesses, hist>>
  BY DEF AddTs
<1>2. started' \in Nat /\ started <= started'
  BY <1>1, <1>i DEF TypeOK, Ts, Constants
<1>4. accesses'[t] = <<>> /\ ~HasRow(t)'
  BY <1>1, <1>i, <1>p DEF Prefix, HasRow
<1>5. \A r \in Rows : SameBooks(mgr[r], mgr'[r]) /\ mgr'[r]._max_served_rts = mgr[r]._max_served_rts
  BY <1>1, SameBooksSelf
<1> QED
  BY <1>1, <1>2, <1>4, <1>5, <1>i, <1>p, QuietOrder

\* A request that is refused.
LEMMA AccessAbortsOrder ==
  ASSUME Constants, MvccInv, NEW D, OrderInv(D), MvccInv', NEW t \in Threads, AccessAborts(t)
  PROVE  OrderInv(D)'
<1>i. TypeOK /\ TypeOK'
  BY DEF MvccInv
<1>p. pc'[t] = "abort" /\ \A u \in Threads : u # t => pc'[u] = pc[u]
  BY <1>i, PcGoes DEF AccessAborts, PC
<1>1. /\ pc[t] = "exec"
      /\ UNCHANGED <<mgr, mem, started, ts, min_ts, query, cur_row, ts_ready, accesses, hist>>
  BY DEF AccessAborts, Asks, tsVars
<1>2. started' \in Nat /\ started <= started'
  BY <1>1, <1>i DEF TypeOK, Ts, Constants
<1>4. ~HasRow(t)'
  BY <1>p DEF HasRow
<1>5. \A r \in Rows : SameBooks(mgr[r], mgr'[r]) /\ mgr'[r]._max_served_rts = mgr[r]._max_served_rts
  BY <1>1, SameBooksSelf
<1> QED
  BY <1>1, <1>2, <1>4, <1>5, <1>i, <1>p, QuietOrder

\* The wait ends, with the row that update_buffer has given.
LEMMA WaitEndsOrder ==
  ASSUME Constants, MvccInv, NEW D, OrderInv(D), MvccInv', NEW t \in Threads, WaitEnds(t)
  PROVE  OrderInv(D)'
<1>i. TypeOK /\ TypeOK'
  BY DEF MvccInv
<1>p. pc'[t] = "use" /\ \A u \in Threads : u # t => pc'[u] = pc[u]
  BY <1>i, PcGoes DEF WaitEnds, PC
<1>1. /\ pc[t] = "wait" /\ ts_ready[t]
      /\ ts_ready' = [ts_ready EXCEPT ![t] = FALSE]
      /\ UNCHANGED <<mgr, mem, started, ts, min_ts, query, cur_row, accesses, hist>>
  BY DEF WaitEnds, tsVars
<1>2. started' \in Nat /\ started <= started'
  BY <1>1, <1>i DEF TypeOK, Ts, Constants
<1>3. \A u \in Threads : u # t => ts_ready'[u] = ts_ready[u]
  BY <1>1, <1>i DEF TypeOK
<1>4. HasRow(t)
  BY <1>1 DEF HasRow
<1>5. \A r \in Rows : SameBooks(mgr[r], mgr'[r]) /\ mgr'[r]._max_served_rts = mgr[r]._max_served_rts
  BY <1>1, SameBooksSelf
<1> QED
  BY <1>1, <1>2, <1>3, <1>4, <1>5, <1>i, <1>p, QuietOrder

\* The end of cleanup.
LEMMA CleanupDoneOrder ==
  ASSUME Constants, MvccInv, NEW D, OrderInv(D), MvccInv', NEW t \in Threads, CleanupDone(t)
  PROVE  OrderInv(D)'
<1>i. TypeOK /\ TypeOK'
  BY DEF MvccInv
<1>p. pc'[t] = "idle" /\ \A u \in Threads : u # t => pc'[u] = pc[u]
  BY <1>i, PcGoes DEF CleanupDone, PC
<1>1. /\ accesses' = [accesses EXCEPT ![t] = <<>>]
      /\ query' = [query EXCEPT ![t] = <<>>]
      /\ UNCHANGED <<mgr, mem, started, ts, min_ts, cur_row, ts_ready, hist>>
  BY DEF CleanupDone, tsVars
<1>2. started' \in Nat /\ started <= started'
  BY <1>1, <1>i DEF TypeOK, Ts, Constants
<1>w. accesses \in [Threads -> Seq(Access)] /\ query \in [Threads -> Queries \cup {<<>>}]
  BY <1>i DEF TypeOK
<1>3. \A u \in Threads : u # t => accesses'[u] = accesses[u] /\ query'[u] = query[u]
  BY <1>1, <1>w
<1>4. accesses'[t] = <<>> /\ ~HasRow(t)'
  BY <1>1, <1>w, <1>p DEF HasRow
<1>5. \A r \in Rows : SameBooks(mgr[r], mgr'[r]) /\ mgr'[r]._max_served_rts = mgr[r]._max_served_rts
  BY <1>1, SameBooksSelf
<1> QED
  BY <1>1, <1>2, <1>3, <1>4, <1>5, <1>i, <1>p, QuietOrder

\* buffer_req adds a request and changes nothing else.
LEMMA AccessWaitsBooks ==
  ASSUME Constants, TypeOK, NEW t \in Threads, AccessWaits(t), NEW s \in Rows
  PROVE  SameBooks(mgr[s], mgr'[s]) /\ mgr'[s]._max_served_rts = mgr[s]._max_served_rts
<1> DEFINE r == Req(t).row
           e == [type |-> IF Req(t).type = "RD" THEN "R_REQ" ELSE "P_REQ", ts |-> ts[t], txn |-> t]
           m == [mgr[r] EXCEPT !._requests = @ \cup {e}]
<1>1. Len(accesses[t]) < Len(query[t]) /\ mgr' = [mgr EXCEPT ![r]._requests = @ \cup {e}]
  BY DEF AccessWaits, Asks
<1>r. r \in Rows
  BY <1>1, ReqOf
<1>w. mgr \in [Rows -> RowMvcc]
  BY DEF TypeOK
<1>m. SameBooks(mgr[r], m) /\ m._max_served_rts = mgr[r]._max_served_rts
  <2>1. mgr[r] \in RowMvcc
    BY <1>w, <1>r
  <2> HIDE DEF e
  <2> QED
    BY <2>1 DEF SameBooks, RowMvcc
<1>6. mgr' = [mgr EXCEPT ![r] = m]
  BY <1>1
<1> HIDE DEF m, r
<1>2. CASE s = r
  BY <1>2, <1>6, <1>m, <1>w
<1>3. CASE s # r
  <2>1. mgr'[s] = mgr[s]
    BY <1>3, <1>6, <1>w
  <2> QED
    BY <2>1, SameBooksSelf
<1> QED
  BY <1>2, <1>3

\* A request that waits.
LEMMA AccessWaitsOrder ==
  ASSUME Constants, MvccInv, NEW D, OrderInv(D), MvccInv', NEW t \in Threads, AccessWaits(t)
  PROVE  OrderInv(D)'
<1>i. TypeOK /\ TypeOK'
  BY DEF MvccInv
<1>p. pc'[t] = "wait" /\ \A u \in Threads : u # t => pc'[u] = pc[u]
  BY <1>i, PcGoes DEF AccessWaits, PC
<1>1. /\ pc[t] = "exec"
      /\ ts_ready' = [ts_ready EXCEPT ![t] = FALSE]
      /\ UNCHANGED <<mem, started, ts, min_ts, query, cur_row, accesses, hist>>
  BY DEF AccessWaits, Asks, tsVars
<1>2. started' \in Nat /\ started <= started'
  BY <1>1, <1>i DEF TypeOK, Ts, Constants
<1>3. ts_ready'[t] = FALSE /\ \A u \in Threads : u # t => ts_ready'[u] = ts_ready[u]
  BY <1>1, <1>i DEF TypeOK
<1>4. ~HasRow(t)'
  BY <1>p, <1>3 DEF HasRow
<1>5. \A s \in Rows : SameBooks(mgr[s], mgr'[s]) /\ mgr'[s]._max_served_rts = mgr[s]._max_served_rts
  BY <1>i, AccessWaitsBooks
<1> QED
  BY <1>1, <1>2, <1>3, <1>4, <1>5, <1>i, <1>p, QuietOrder

\* The prewrite has memory.
LEMMA PrewriteCell ==
  ASSUME MaxTxns \in Nat, NEW m, NEW n \in Nat, RowSound(m, n), m._exists_prewrite
  PROVE  PrewriteRow(m) \in 1..n
<1>1. /\ m._prewrite_his_id \in 1..Len(m._write_history)
      /\ m._write_history[m._prewrite_his_id].row # NULL
  BY DEF RowSound, Prewrite
<1>2. m._write_history[m._prewrite_his_id].row \in 0..n
  BY <1>1 DEF RowSound, Shape, Memory
<1> QED
  BY <1>1, <1>2 DEF PrewriteRow, NULL

\* Memory is changed only where a transaction other than u has a prewrite after it.
MemKept(u) ==
  \A s \in Rows : \A c \in 1..Len(mem[s]) :
    \/ mem'[s][c] = mem[s][c]
    \/ /\ mgr'[s]._exists_prewrite /\ c = PrewriteRow(mgr'[s])
       /\ mgr'[s]._prewrite_ts # ts'[u]

\* So u keeps what it has written,
LEMMA WrittenMemory ==
  ASSUME Constants, MvccInv, MvccInv', NEW u \in Threads, MemKept(u),
         Len(accesses'[u]) \in Nat, Len(accesses'[u]) <= Len(accesses[u]),
         \A i \in 1..Len(accesses'[u]) : accesses'[u][i] = accesses[u][i],
         NEW i \in 1..Len(accesses'[u]), accesses[u][i].type = "WR"
  PROVE  mem'[accesses[u][i].row][accesses[u][i].data] = mem[accesses[u][i].row][accesses[u][i].data]
<1>i. TypeOK /\ Books /\ Owned(u) /\ Owned(u)'
  BY DEF MvccInv
<1> DEFINE a == accesses[u][i]
<1>1. i \in 1..Len(accesses[u]) /\ a.row \in Rows
  BY <1>i, Locals, AccessOf
<1>2. Owns(u, a.row, a.data)
  BY <1>1, <1>i DEF Owned
<1>3. a.data \in 1..Len(mem[a.row])
  <2>1. RowSound(mgr[a.row], Len(mem[a.row])) /\ Len(mem[a.row]) \in Nat
    BY <1>1, <1>i, Managers DEF Books
  <2> QED
    BY <2>1, <1>2, PrewriteCell DEF Owns, Constants
<1>4. mgr'[a.row]._prewrite_ts = ts'[u]
  BY <1>i DEF Owned, Owns
<1> QED
  BY <1>1, <1>3, <1>4 DEF MemKept

\* and, unless it is overwritten, what it was given.
LEMMA GivenMemory ==
  ASSUME Constants, MvccInv, MvccInv', NEW u \in Threads, MemKept(u), NEW D, Kept(D)', ts'[u] = ts[u],
         Claimed(D, ts[u], Req(u).type),
         HasRow(u), HasRow(u)', cur_row'[u] = cur_row[u],
         accesses'[u] = accesses[u], query'[u] = query[u]
  PROVE  mem'[Req(u).row][cur_row[u]] = mem[Req(u).row][cur_row[u]]
<1>i. TypeOK /\ Given(u) /\ Given(u)' /\ Prefix(u)
  BY DEF MvccInv
<1>1. Req(u)' = Req(u)
  BY DEF Req
<1>2. cur_row[u] \in 1..Len(mem[Req(u).row])
  BY <1>i DEF Given, HasRow
<1>3. Req(u).row \in Rows /\ Req(u).type \in {"RD", "WR"}
  BY <1>i, ReqOf DEF HasRow, Prefix
<1>4. CASE Req(u).type = "RD"
  <2>0. ~Overwritten(u)'
    BY <1>4 DEF Kept, Claimed
  <2>1. ~(mgr'[Req(u).row]._exists_prewrite /\ cur_row[u] = PrewriteRow(mgr'[Req(u).row]))
    BY <2>0, <1>1, <1>4 DEF Overwritten
  <2> QED
    BY <2>1, <1>2, <1>3 DEF MemKept
<1>5. CASE Req(u).type = "WR"
  <2>1. mgr'[Req(u).row]._prewrite_ts = ts'[u]
    <3>1. Given(u)' /\ HasRow(u)'
      BY <1>i
    <3>2. (Req(u).type = "WR" => Owns(u, Req(u).row, cur_row[u]))'
      BY <3>1 DEF Given, HasRow
    <3> QED
      BY <3>2, <1>1, <1>5 DEF Owns
  <2> QED
    BY <2>1, <1>2, <1>3 DEF MemKept
<1> QED
  BY <1>3, <1>4, <1>5

\* A thread that does not take the step.
LEMMA OthersOrder ==
  ASSUME Constants, MvccInv, NEW D, OrderInv(D), MvccInv', NEW u \in Threads, MemKept(u), Kept(D)',
         NEW X, KeepsRight(X), ts[u] \notin X, \A r \in Rows : Written(r) \subseteq Written(r)',
         pc'[u] = pc[u], query'[u] = query[u], accesses'[u] = accesses[u], ts'[u] = ts[u],
         HasRow(u)' => HasRow(u) /\ cur_row'[u] = cur_row[u]
  PROVE  Accessed(D, u)' /\ Holds(D, u)' /\ Wrote(u)'
<1>i. TypeOK /\ Accessed(D, u) /\ Holds(D, u) /\ Wrote(u)
  BY DEF MvccInv, OrderInv
<1>n. Len(accesses[u]) \in Nat
  BY <1>i, Locals
<1>1. Accessed(D, u)'
  BY <1>i, AccessedKept
<1>2. Holds(D, u)'
  <2>1. HasRow(u)' /\ Claimed(D, ts[u], Req(u).type) =>
          mem'[Req(u).row][cur_row[u]] = mem[Req(u).row][cur_row[u]]
    BY GivenMemory
  <2> QED
    BY <2>1, <1>i, HoldsKept
<1>3. Wrote(u)'
  <2>1. \A i \in 1..Len(accesses'[u]) : accesses[u][i].type = "WR" =>
           mem'[accesses[u][i].row][accesses[u][i].data] = mem[accesses[u][i].row][accesses[u][i].data]
    <3>1. /\ Len(accesses'[u]) \in Nat /\ Len(accesses'[u]) <= Len(accesses[u])
          /\ \A i \in 1..Len(accesses'[u]) : accesses'[u][i] = accesses[u][i]
      BY <1>n
    <3> QED
      BY <3>1, WrittenMemory
  <2> QED
    BY <2>1, <1>i, <1>n, WroteKept
<1> QED
  BY <1>1, <1>2, <1>3

\* A read is served with the last version before its timestamp.
LEMMA ReadServedOrder ==
  ASSUME Constants, MvccInv, NEW D, OrderInv(D), MvccInv', NEW t \in Threads, ReadServed(t),
         ts[t] \notin D => ~Misled(t),
         Kept(D)'
  PROVE  OrderInv(D)'
<1>i. TypeOK /\ TypeOK' /\ Books /\ Books' /\ Times /\ Prefix(t)
  BY DEF MvccInv
<1>o. /\ HistRight(D) /\ \A r \in Rows : RowFits(mgr[r], mem[r], Written(r))
      /\ \A u \in Threads : Accessed(D, u) /\ Holds(D, u) /\ Wrote(u)
  BY DEF OrderInv
<1>p. pc'[t] = "use" /\ \A u \in Threads : u # t => pc'[u] = pc[u]
  BY <1>i, PcGoes DEF ReadServed, PC
<1>1. /\ pc[t] = "exec" /\ Len(accesses[t]) < Len(query[t])
      /\ ts[t] >= mgr[Req(t).row]._oldest_wts
      /\ UNCHANGED <<mem, started, ts, all_ts, min_ts, query, ts_ready, accesses, hist>>
  BY DEF ReadServed, Asks, tsVars, Mgr
<1>w. \A s : Written(s)' = Written(s)
  BY <1>1 DEF Written
<1>r. PICK r \in Rows : r = Req(t).row
  BY <1>1, <1>i, ReqOf
<1>T. Req(t)' = Req(t)
  BY <1>1 DEF Req
<1> DEFINE m == [mgr[r] EXCEPT !._max_served_rts = IF ts[t] > @ THEN ts[t] ELSE @]
<1>t. /\ mgr \in [Rows -> RowMvcc] /\ mgr[r] \in RowMvcc /\ cur_row \in [Threads -> Nat]
      /\ mgr[r]._max_served_rts \in Nat /\ mgr[r]._latest_wts \in Nat /\ mgr[r]._prewrite_ts \in Nat
      /\ ts[t] \in Nat /\ Len(mem[r]) \in Nat /\ MaxTxns \in Nat /\ ts[t] > 0
  <2>1. mgr \in [Rows -> RowMvcc] /\ cur_row \in [Threads -> Nat] /\ MaxTxns \in Nat
    BY <1>i DEF TypeOK, Constants
  <2>2. ts[t] > 0
    BY <1>1, <1>i DEF Times
  <2> QED
    BY <2>1, <2>2, <1>i, Managers, Locals DEF Ts
<1>f. RowFits(mgr[r], mem[r], Written(r)) /\ RowSound(mgr[r], Len(mem[r])) /\ Written(r) \in SUBSET Nat
  BY <1>o, <1>i, WrittenType DEF Books
<1> DEFINE Served == /\ \A s \in Rows : Advances(s, {})
                     /\ \A s \in Rows : RowFits(mgr[s], mem[s], Written(s))'
                     /\ ts[t] \notin D => Right(r, ts[t], mem[r][cur_row[t]])'
                     /\ \A u \in Threads : u # t => cur_row'[u] = cur_row[u]
<1>2. ASSUME ts[t] > mgr[r]._latest_wts, ~OlderPrewrite(t, mgr[r]),
             cur_row' = [cur_row EXCEPT ![t] = mgr[r]._latest_row],
             mgr' = [mgr EXCEPT ![r]._max_served_rts = IF ts[t] > @ THEN ts[t] ELSE @]
      PROVE  Served
  <2>1. mgr' = [mgr EXCEPT ![r] = m]
    BY <1>2, <1>t
  <2>2. SameBooks(mgr[r], m) /\ m._max_served_rts >= ts[t] /\ m._max_served_rts >= mgr[r]._max_served_rts
        /\ (m._max_served_rts = ts[t] \/ m._max_served_rts = mgr[r]._max_served_rts)
        /\ m._max_served_rts \in Nat
    BY <1>t DEF SameBooks, RowMvcc
  <2> HIDE DEF m
  <2>3. mgr'[r] = m /\ \A s \in Rows : s # r => mgr'[s] = mgr[s]
    BY <2>1, <1>t
  <2>b. mgr[r]._exists_prewrite => ts[t] <= mgr[r]._prewrite_ts
    BY <1>2, <1>t DEF OlderPrewrite
  <2>4. \A s \in Rows : Advances(s, {})
    <3> TAKE s \in Rows
    <3>1. mgr[s]._latest_wts \in Nat /\ mgr[s]._max_served_rts \in Nat
      BY <1>i, Managers DEF Ts, Constants
    <3> QED
      BY <3>1, <2>2, <2>3 DEF Advances, SameBooks
  <2>5. ASSUME NEW s \in Rows PROVE RowFits(mgr[s], mem[s], Written(s))'
    <3>1. CASE s # r
      <4>1. RowFits(mgr[s], mem[s], Written(s))
        BY <1>o
      <4> QED
        BY <4>1, <3>1, <2>3, <1>1, <1>w
    <3>2. CASE s = r
      <4>1. m._exists_prewrite => m._max_served_rts <= m._prewrite_ts
        BY <2>2, <2>b, <1>f DEF SameBooks, RowFits
      <4>2. RowFits(m, mem[r], Written(r))
        BY <4>1, <2>2, <1>f, ServedFits
      <4> QED
        BY <4>2, <3>2, <2>3, <1>1, <1>w
    <3> QED
      BY <3>1, <3>2
  <2>6. Right(r, ts[t], mem[r][mgr[r]._latest_row])'
    <3>1. IsLast(Written(r), ts[t], mem[r][mgr[r]._latest_row])
      BY <1>2, <2>b, <1>f, <1>t, LatestFits
    <3>2. Settled(mgr'[r], ts[t])
      BY <2>2, <2>3 DEF Settled
    <3>3. mgr'[r]._latest_row = mgr[r]._latest_row
      BY <2>2, <2>3 DEF SameBooks
    <3> QED
      BY <3>1, <3>2, <3>3, <1>1, <1>w DEF Right
  <2>7. cur_row'[t] = mgr'[r]._latest_row
    BY <1>2, <1>t, <2>2, <2>3 DEF SameBooks
  <2>8. Right(r, ts[t], mem[r][cur_row[t]])'
    BY <2>6, <2>7
  <2>9. \A u \in Threads : u # t => cur_row'[u] = cur_row[u]
    BY <1>2, <1>t
  <2> QED
    BY <2>4, <2>5, <2>8, <2>9
<1>3. ASSUME ts[t] <= mgr[r]._latest_wts,
             cur_row' = [cur_row EXCEPT ![t] = SearchVersion(t, mgr[r])],
             mgr' = mgr
      PROVE  Served
  <2>3. ts[t] \notin Written(r)
    BY <1>1, <1>o, NotWritten
  <2>4. \A s \in Rows : Advances(s, {})
    <3> TAKE s \in Rows
    <3>1. mgr[s]._latest_wts \in Nat /\ mgr[s]._max_served_rts \in Nat
      BY <1>i, Managers DEF Ts, Constants
    <3> QED
      BY <3>1, <1>3 DEF Advances
  <2>5. ASSUME NEW s \in Rows PROVE RowFits(mgr[s], mem[s], Written(s))'
    <3>1. RowFits(mgr[s], mem[s], Written(s))
      BY <1>o
    <3> QED
      BY <3>1, <1>3, <1>1, <1>w
  <2>6. ts[t] \notin D => IsLast(Written(r), ts[t], mem[r][SearchVersion(t, mgr[r])])
    <3>1. ts[t] \notin D => ~GoesPast(t, mgr[r])
      BY <1>1, <1>3, <1>r DEF ReadServed, Misled, Searches, Mgr
    <3> QED
      BY <3>1, <1>1, <1>3, <1>f, <1>r, <1>t, <2>3, SearchFits
  <2>7. cur_row'[t] = SearchVersion(t, mgr[r])
    BY <1>3, <1>t
  <2>8. ts[t] \notin D => Right(r, ts[t], mem[r][cur_row[t]])'
    BY <2>6, <2>7, <1>1, <1>3, <1>w DEF Right, Settled
  <2>9. \A u \in Threads : u # t => cur_row'[u] = cur_row[u]
    BY <1>3, <1>t
  <2> QED
    BY <2>4, <2>5, <2>8, <2>9
<1>4. Served
  <2>1. \/ /\ ts[t] > mgr[r]._latest_wts /\ ~OlderPrewrite(t, mgr[r])
           /\ cur_row' = [cur_row EXCEPT ![t] = mgr[r]._latest_row]
           /\ mgr' = [mgr EXCEPT ![r]._max_served_rts = IF ts[t] > @ THEN ts[t] ELSE @]
        \/ /\ ts[t] <= mgr[r]._latest_wts
           /\ cur_row' = [cur_row EXCEPT ![t] = SearchVersion(t, mgr[r])]
           /\ mgr' = mgr
    BY <1>r DEF ReadServed, Mgr
  <2> HIDE DEF Served
  <2> QED
    BY <2>1, <1>2, <1>3
<1>5. KeepsRight({})
  BY <1>4, <1>i, <1>1, AdvancesKeeps
<1>6. HistRight(D)'
  <2>1. started' \in Nat /\ started <= started'
    BY <1>1, <1>i DEF TypeOK, Ts, Constants
  <2>2. \A u \in Threads : pc'[u] \notin {"idle", "commit"} => pc[u] \notin {"idle", "commit"} /\ ts'[u] = ts[u]
    BY <1>1, <1>p
  <2>3. \A e \in hist : e.ts \notin {}
    OBVIOUS
  <2> QED
    BY <2>1, <2>2, <2>3, <1>1, <1>5, <1>i, <1>o, HistKept
<1>7. ASSUME NEW u \in Threads, u # t PROVE Accessed(D, u)' /\ Holds(D, u)' /\ Wrote(u)'
  <2>1. MemKept(u)
    BY <1>1 DEF MemKept
  <2>2. HasRow(u)' => HasRow(u) /\ cur_row'[u] = cur_row[u]
    BY <1>1, <1>4, <1>7, <1>p DEF HasRow
  <2>3. \A s \in Rows : Written(s) \subseteq Written(s)'
    BY <1>w
  <2> QED
    BY <2>1, <2>2, <2>3, <1>1, <1>5, <1>7, <1>p, OthersOrder
<1>8. Accessed(D, t)'
  BY <1>1, <1>5, <1>i, <1>o, AccessedKept
<1>9. Holds(D, t)'
  <2>1. Req(t).type = "RD"
    BY DEF ReadServed, Asks
  <2> QED
    BY <2>1, <1>1, <1>4, <1>r, <1>T DEF Holds, Claimed
<1>10. Wrote(t)'
  <2>1. Len(accesses[t]) \in Nat
    BY <1>i, Locals
  <2> QED
    BY <2>1, <1>1, <1>p, <1>i, <1>o, <1>w, WroteKept
<1> QED
  BY <1>4, <1>6, <1>7, <1>8, <1>9, <1>10 DEF OrderInv

\* The commit: the versions of t are written from now on, and it has read the right ones.
LEMMA FinishOrder ==
  ASSUME Constants, MvccInv, NEW D, OrderInv(D), MvccInv', NEW t \in Threads, Finish(t)
  PROVE  OrderInv(D)'
<1>i. TypeOK /\ TypeOK' /\ Books /\ Times /\ Prefix(t) /\ Owned(t)
  BY DEF MvccInv
<1>o. /\ HistRight(D) /\ \A r \in Rows : RowFits(mgr[r], mem[r], Written(r))
      /\ \A u \in Threads : Accessed(D, u) /\ Holds(D, u) /\ Wrote(u)
  BY DEF OrderInv
<1>p. pc'[t] = "commit" /\ \A u \in Threads : u # t => pc'[u] = pc[u]
  BY <1>i, PcGoes DEF Finish, PC
<1> DEFINE A == accesses[t]
           R == {<<A[i].row, A[i].read>> : i \in DOMAIN A}
           W == {A[i].row : i \in {j \in DOMAIN A : A[j].type = "WR"}}
           e == [ts |-> ts[t], reads |-> R, writes |-> W]
<1>1. /\ pc[t] = "exec" /\ hist' = hist \cup {e}
      /\ UNCHANGED <<mgr, mem, started, ts, all_ts, min_ts, query, cur_row, ts_ready, accesses>>
  BY DEF Finish, tsVars
<1>a. DOMAIN A = 1..Len(A) /\ Len(A) \in Nat /\ A \in Seq(Access) /\ ts[t] \in Nat
  BY <1>i, Locals
<1>t. ts[t] > 0 /\ ts[t] <= started /\ \A u \in Threads : ts[u] = ts[t] => u = t
  BY <1>1, <1>i DEF Times
<1>e. e.ts = ts[t] /\ e.reads = R /\ e.writes = W
  OBVIOUS
<1> HIDE DEF e
<1>2. \A r \in Rows : r \in W => mgr[r]._exists_prewrite /\ mgr[r]._prewrite_ts = ts[t]
                                 /\ ts[t] > mgr[r]._latest_wts
  <2> SUFFICES ASSUME NEW i \in 1..Len(A), A[i].type = "WR"
               PROVE  LET r == A[i].row IN
                        mgr[r]._exists_prewrite /\ mgr[r]._prewrite_ts = ts[t] /\ ts[t] > mgr[r]._latest_wts
    BY <1>a
  <2> QED
    BY <1>i DEF Owned, Owns
<1>w. \A r : \A w : w \in Written(r)' <=> w \in Written(r) \/ (r \in W /\ w = ts[t])
  BY <1>1, <1>e DEF Written
<1> HIDE DEF W, R
<1>3. KeepsRight({})
  <2> SUFFICES ASSUME NEW r \in Rows, NEW n \in Nat, NEW v, Right(r, n, v)
               PROVE  Right(r, n, v)'
    BY DEF KeepsRight
  <2>1. IsLast(Written(r), n, v) /\ Settled(mgr[r], n)
    BY DEF Right
  <2>2. r \in W => n <= ts[t]
    <3> SUFFICES ASSUME r \in W PROVE n <= ts[t]
      OBVIOUS
    <3>1. mgr[r]._exists_prewrite /\ mgr[r]._prewrite_ts = ts[t] /\ ts[t] > mgr[r]._latest_wts
      BY <1>2
    <3>2. mgr[r]._max_served_rts <= ts[t]
      BY <3>1, <1>o DEF RowFits
    <3>3. mgr[r]._latest_wts \in Nat /\ mgr[r]._max_served_rts \in Nat
      BY <1>i, Managers DEF Ts, Constants
    <3> QED
      BY <3>1, <3>2, <3>3, <2>1, <1>a DEF Settled
  <2>3. IsLast(Written(r)', n, v)
    <3>1. v = 0 \/ (v \in Written(r)' /\ v < n)
      BY <2>1, <1>w DEF IsLast
    <3>2. ASSUME NEW w \in Written(r)', w < n PROVE w <= v
      <4>1. w \in Written(r)
        BY <3>2, <2>2, <1>w, <1>a
      <4> QED
        BY <4>1, <3>2, <2>1 DEF IsLast
    <3> QED
      BY <3>1, <3>2 DEF IsLast
  <2> QED
    BY <2>1, <2>3, <1>1 DEF Right
<1>4. ASSUME NEW r \in Rows PROVE RowFits(mgr[r], mem[r], Written(r))'
  <2>1. RowFits(mgr[r], mem[r], Written(r))
    BY <1>o
  <2>2. RowFits(mgr[r], mem[r], Written(r)')
    BY <2>1, <1>2, <1>w, CommitFits
  <2> QED
    BY <2>2, <1>1
<1>5. ASSUME NEW u \in Threads, u # t PROVE Accessed(D, u)' /\ Holds(D, u)' /\ Wrote(u)'
  <2>1. Accessed(D, u)'
    BY <1>1, <1>3, <1>5, <1>p, <1>i, <1>o, AccessedKept
  <2>2. HasRow(u)' = HasRow(u)
    BY <1>1, <1>5, <1>p DEF HasRow
  <2>3. Holds(D, u)'
    BY <2>2, <1>1, <1>3, <1>5, <1>o, HoldsKept
  <2>4. Len(accesses[u]) \in Nat
    BY <1>i, Locals
  <2>5. \A r \in Rows : Written(r) \subseteq Written(r)'
    BY <1>w
  <2>6. Wrote(u)'
    BY <2>4, <2>5, <1>1, <1>5, <1>p, <1>i, <1>o, WroteKept
  <2> QED
    BY <2>1, <2>3, <2>6
<1>6. Accessed(D, t)' /\ Holds(D, t)'
  BY <1>p DEF Accessed, Holds, HasRow
<1>7. Wrote(t)'
  <2> SUFFICES ASSUME NEW i \in 1..Len(A), A[i].type = "WR"
               PROVE  mem[A[i].row][A[i].data] = ts[t] /\ (ts[t] \in Written(A[i].row))'
    BY <1>1 DEF Wrote
  <2>1. PICK r : r = A[i].row
    OBVIOUS
  <2>2. r \in W
    BY <2>1, <1>a DEF W
  <2>3. ts[t] \in Written(r)'
    BY <2>2, <1>w
  <2>4. mem[A[i].row][A[i].data] = ts[t]
    BY <1>o DEF Wrote
  <2> QED
    BY <2>1, <2>3, <2>4, <1>1
<1>8. HistRight(D)'
  <2> SUFFICES ASSUME NEW f \in hist'
               PROVE  /\ f.ts > 0 /\ f.ts <= started'
                      /\ \A u \in Threads : pc'[u] \notin {"idle", "commit"} => f.ts # ts'[u]
                      /\ \A p \in f.reads : p[1] \in f.writes \/ f.ts \notin D => Right(p[1], f.ts, p[2])'
    BY DEF HistRight
  <2>1. CASE f = e
    <3>1. \A u \in Threads : pc'[u] \notin {"idle", "commit"} => f.ts # ts'[u]
      BY <2>1, <1>e, <1>t, <1>p, <1>1
    <3>2. ASSUME NEW p \in f.reads, p[1] \in f.writes \/ f.ts \notin D
          PROVE  Right(p[1], f.ts, p[2])'
      <4>1. PICK i \in 1..Len(A) : p = <<A[i].row, A[i].read>>
        BY <2>1, <1>e, <1>a DEF R
      <4>c. Claimed(D, ts[t], A[i].type)
        <5>1. CASE f.ts \notin D
          BY <5>1, <2>1, <1>e DEF Claimed
        <5>2. CASE p[1] \in f.writes
          <6>1. PICK j \in 1..Len(A) : A[j].type = "WR" /\ A[j].row = A[i].row
            BY <5>2, <4>1, <2>1, <1>e, <1>a DEF W
          <6>2. \A k \in 1..Len(A) : A[k].row = query[t][k].row /\ k \in 1..Len(query[t])
            BY <1>i, <1>a, Locals DEF Prefix
          <6>3. i = j
            BY <6>1, <6>2, <1>i, Locals
          <6> QED
            BY <6>1, <6>3 DEF Claimed
        <5> QED
          BY <5>1, <5>2, <3>2
      <4>2. Right(A[i].row, ts[t], A[i].read)
        BY <4>c, <1>1, <1>o DEF Accessed
      <4>3. A[i].row \in Rows
        BY <1>a, AccessOf
      <4>4. p[1] = A[i].row /\ p[2] = A[i].read /\ f.ts = ts[t]
        BY <4>1, <2>1, <1>e
      <4>5. p[1] \in Rows /\ f.ts \in Nat /\ Right(p[1], f.ts, p[2])
        BY <4>2, <4>3, <4>4, <1>a
      <4> QED
        BY <4>5, <1>3 DEF KeepsRight
    <3> QED
      BY <3>1, <3>2, <2>1, <1>e, <1>t, <1>1
  <2>2. CASE f \in hist
    <3>1. /\ f.ts > 0 /\ f.ts <= started
          /\ \A u \in Threads : pc[u] \notin {"idle", "commit"} => f.ts # ts[u]
          /\ \A p \in f.reads : p[1] \in f.writes \/ f.ts \notin D => Right(p[1], f.ts, p[2])
      BY <2>2, <1>o DEF HistRight
    <3>2. f.ts \in Nat /\ f.reads \in SUBSET (Rows \X Ts)
      BY <2>2, <1>i DEF TypeOK, Ts, Constants
    <3>3. \A p \in f.reads : p[1] \in f.writes \/ f.ts \notin D => Right(p[1], f.ts, p[2])'
      BY <3>1, <3>2, <1>3 DEF KeepsRight
    <3>4. \A u \in Threads : pc'[u] \notin {"idle", "commit"} => f.ts # ts'[u]
      BY <3>1, <1>1, <1>p
    <3> QED
      BY <3>1, <3>3, <3>4, <1>1
  <2> QED
    BY <2>1, <2>2, <1>1
<1> QED
  BY <1>4, <1>5, <1>6, <1>7, <1>8 DEF OrderInv

\* The workload reads its version, or overwrites that of its prewrite.
LEMMA UseRowOrder ==
  ASSUME Constants, MvccInv, NEW D, OrderInv(D), MvccInv', NEW t \in Threads, UseRow(t),
         Kept(D)'
  PROVE  OrderInv(D)'
<1>i. TypeOK /\ TypeOK' /\ Books /\ Times /\ Prefix(t) /\ Given(t)
  BY DEF MvccInv
<1>o. /\ HistRight(D) /\ \A r \in Rows : RowFits(mgr[r], mem[r], Written(r))
      /\ \A u \in Threads : Accessed(D, u) /\ Holds(D, u) /\ Wrote(u)
  BY DEF OrderInv
<1>p. pc'[t] = "exec" /\ \A u \in Threads : u # t => pc'[u] = pc[u]
  BY <1>i, PcGoes DEF UseRow, PC
<1>q. pc[t] = "use" /\ Len(accesses[t]) < Len(query[t])
  BY <1>i DEF UseRow, Prefix
<1>r. PICK r \in Rows : r = Req(t).row
  BY <1>q, <1>i, ReqOf
<1> DEFINE c == cur_row[t]
           a == [row |-> r, type |-> Req(t).type, data |-> c, read |-> mem[r][c]]
           n == Len(accesses[t])
<1>1. /\ accesses' = [accesses EXCEPT ![t] = Append(accesses[t], a)]
      /\ mem' = IF Req(t).type = "WR" THEN [mem EXCEPT ![r][c] = ts[t]] ELSE mem
      /\ cur_row' = [cur_row EXCEPT ![t] = NULL]
      /\ UNCHANGED <<mgr, started, ts, all_ts, min_ts, query, ts_ready, hist>>
  BY <1>r DEF UseRow, tsVars
<1>t. /\ n \in Nat /\ accesses[t] \in Seq(Access) /\ ts[t] \in Nat /\ ts[t] > 0
      /\ mem \in [Rows -> Seq(Ts)] /\ mem[r] \in Seq(Ts) /\ accesses \in [Threads -> Seq(Access)]
      /\ cur_row \in [Threads -> Nat] /\ Len(mem[r]) \in Nat /\ MaxTxns \in Nat
  BY <1>q, <1>i, Locals, Managers DEF TypeOK, Times, Constants
<1>c. c \in 1..Len(mem[r]) /\ (Req(t).type = "WR" => Owns(t, r, c))
  BY <1>q, <1>r, <1>i DEF Given
<1>a. a.row = r /\ a.type = Req(t).type /\ a.data = c /\ a.read = mem[r][c]
  OBVIOUS
<1> HIDE DEF a, c
<1>2. /\ Len(accesses'[t]) = n + 1 /\ accesses'[t][n + 1] = a
      /\ \A i \in 1..n : accesses'[t][i] = accesses[t][i]
      /\ \A u \in Threads : u # t => accesses'[u] = accesses[u] /\ cur_row'[u] = cur_row[u]
  <2>1. accesses'[t] = Append(accesses[t], a)
    BY <1>1, <1>t
  <2> QED
    BY <2>1, <1>1, <1>t
<1>w. \A s : Written(s)' = Written(s)
  BY <1>1 DEF Written
<1>3. \A s \in Rows : \A d \in 1..Len(mem[s]) :
        mem'[s][d] = IF s = r /\ d = c /\ Req(t).type = "WR" THEN ts[t] ELSE mem[s][d]
  BY <1>1, <1>t, <1>c
<1>4. KeepsRight({})
  <2>1. \A s \in Rows : Advances(s, {})
    <3> TAKE s \in Rows
    <3>1. mgr[s]._latest_wts \in Nat /\ mgr[s]._max_served_rts \in Nat
      BY <1>i, Managers DEF Ts, Constants
    <3> QED
      BY <3>1, <1>1 DEF Advances
  <2> QED
    BY <2>1, <1>i, <1>1, AdvancesKeeps
<1>5. HistRight(D)'
  <2>1. started' \in Nat /\ started <= started'
    BY <1>1, <1>i DEF TypeOK, Ts, Constants
  <2>2. \A u \in Threads : pc'[u] \notin {"idle", "commit"} => pc[u] \notin {"idle", "commit"} /\ ts'[u] = ts[u]
    BY <1>1, <1>p, <1>q
  <2>3. \A e \in hist : e.ts \notin {}
    OBVIOUS
  <2> QED
    BY <2>1, <2>2, <2>3, <1>1, <1>4, <1>i, <1>o, HistKept
<1>6. ASSUME NEW s \in Rows PROVE RowFits(mgr[s], mem[s], Written(s))'
  <2>0. RowFits(mgr[s], mem[s], Written(s)) /\ RowSound(mgr[s], Len(mem[s])) /\ Len(mem[s]) \in Nat
    BY <1>o, <1>i, Managers DEF Books
  <2>1. CASE s = r /\ Req(t).type = "WR"
    <3>1. mgr[s]._exists_prewrite /\ PrewriteRow(mgr[s]) = c
      BY <2>1, <1>c DEF Owns
    <3>2. \A d \in 1..Len(mem[s]) : d # PrewriteRow(mgr[s]) => mem'[s][d] = mem[s][d]
      BY <3>1, <1>3
    <3>3. RowFits(mgr[s], mem'[s], Written(s))
      BY <2>0, <3>1, <3>2, <1>t, OverwriteFits
    <3> QED
      BY <3>3, <1>1, <1>w
  <2>2. CASE ~(s = r /\ Req(t).type = "WR")
    <3>1. mem'[s] = mem[s]
      BY <2>2, <1>1, <1>t
    <3> QED
      BY <3>1, <2>0, <1>1, <1>w
  <2> QED
    BY <2>1, <2>2
<1>7. ASSUME NEW u \in Threads, u # t PROVE Accessed(D, u)' /\ Holds(D, u)' /\ Wrote(u)'
  <2>1. MemKept(u)
    <3> SUFFICES ASSUME NEW s \in Rows, NEW d \in 1..Len(mem[s]), mem'[s][d] # mem[s][d]
                 PROVE  /\ mgr'[s]._exists_prewrite /\ d = PrewriteRow(mgr'[s])
                        /\ mgr'[s]._prewrite_ts # ts'[u]
      BY DEF MemKept
    <3>1. s = r /\ d = c /\ Req(t).type = "WR"
      BY <1>3
    <3>2. mgr[r]._exists_prewrite /\ mgr[r]._prewrite_ts = ts[t] /\ PrewriteRow(mgr[r]) = c
      BY <3>1, <1>c DEF Owns
    <3>3. ts[u] # ts[t]
      BY <1>7, <1>t, <1>i DEF Times
    <3> QED
      BY <3>1, <3>2, <3>3, <1>1
  <2>2. HasRow(u)' => HasRow(u) /\ cur_row'[u] = cur_row[u]
    BY <1>1, <1>2, <1>7, <1>p DEF HasRow
  <2>3. \A s \in Rows : Written(s) \subseteq Written(s)'
    BY <1>w
  <2> QED
    BY <2>1, <2>2, <2>3, <1>1, <1>2, <1>4, <1>7, <1>p, OthersOrder
<1>8. Accessed(D, t)'
  <2> SUFFICES ASSUME NEW i \in 1..(n + 1), Claimed(D, ts[t], accesses'[t][i].type)
               PROVE  Right(accesses[t][i].row, ts[t], accesses[t][i].read)'
    BY <1>1, <1>2 DEF Accessed, Claimed
  <2> DEFINE x == IF i = n + 1 THEN a ELSE accesses[t][i]
  <2>1. accesses'[t][i] = x
    BY <1>2, <1>t
  <2>2. x.row \in Rows /\ Right(x.row, ts[t], x.read)
    <3>1. CASE i = n + 1
      <4>1. Right(r, ts[t], mem[r][c])
        BY <3>1, <2>1, <1>a, <1>q, <1>r, <1>o DEF Holds, HasRow, c
      <4> QED
        BY <4>1, <3>1, <1>a
    <3>2. CASE i # n + 1
      <4>1. i \in 1..n
        BY <3>2, <1>t
      <4> QED
        BY <4>1, <3>2, <2>1, <1>q, <1>o, <1>t, AccessOf DEF Accessed
    <3> QED
      BY <3>1, <3>2
  <2>3. PICK s, v : s \in Rows /\ s = x.row /\ v = x.read
    BY <2>2
  <2> HIDE DEF x
  <2>4. PICK k \in Nat : k = ts[t]
    BY <1>t
  <2>5. Right(s, k, v)
    BY <2>2, <2>3, <2>4
  <2>6. Right(s, k, v)'
    BY <2>3, <2>5, <1>4 DEF KeepsRight
  <2>7. s = accesses'[t][i].row /\ v = accesses'[t][i].read /\ k = ts'[t]
    BY <2>1, <2>3, <2>4, <1>1
  <2> QED
    BY <2>6, <2>7
<1>9. Holds(D, t)'
  BY <1>p DEF Holds, HasRow
<1>10. Wrote(t)'
  <2> SUFFICES ASSUME NEW i \in 1..(n + 1), accesses'[t][i].type = "WR"
               PROVE  mem'[accesses'[t][i].row][accesses'[t][i].data] = ts'[t]
    BY <1>2, <1>p DEF Wrote
  <2>1. CASE i = n + 1
    BY <2>1, <1>1, <1>2, <1>3, <1>a, <1>c
  <2>2. CASE i # n + 1
    <3>1. i \in 1..n /\ accesses'[t][i] = accesses[t][i]
      BY <2>2, <1>t, <1>2
    <3> DEFINE b == accesses[t][i]
    <3>2. mem[b.row][b.data] = ts[t]
      BY <3>1, <1>o DEF Wrote
    <3>3. b.row \in Rows /\ b.row = query[t][i].row
      BY <3>1, <1>t, <1>i, AccessOf DEF Prefix
    <3>4. b.row # r
      <4>1. r = query[t][n + 1].row /\ n + 1 \in 1..Len(query[t]) /\ i \in 1..Len(query[t])
        BY <3>1, <1>r, <1>q, <1>i, <1>t, Locals DEF Req
      <4>2. i # n + 1
        BY <2>2
      <4> QED
        BY <4>1, <4>2, <3>3, <1>i, Locals
    <3>5. mem'[b.row] = mem[b.row]
      BY <3>3, <3>4, <1>1, <1>t
    <3> QED
      BY <3>1, <3>2, <3>5, <1>1
  <2> QED
    BY <2>1, <2>2
<1> QED
  BY <1>5, <1>6, <1>7, <1>8, <1>9, <1>10 DEF OrderInv

\* A prewrite starts from the last version before its timestamp.
LEMMA PrewriteServedOrder ==
  ASSUME Constants, MvccInv, NEW D, OrderInv(D), MvccInv', NEW t \in Threads, PrewriteServed(t),
         Kept(D)'
  PROVE  OrderInv(D)'
<1>i. TypeOK /\ TypeOK' /\ Books /\ Times /\ Prefix(t) /\ Owned(t)
  BY DEF MvccInv
<1>o. /\ HistRight(D) /\ \A r \in Rows : RowFits(mgr[r], mem[r], Written(r))
      /\ \A u \in Threads : Accessed(D, u) /\ Holds(D, u) /\ Wrote(u)
  BY DEF OrderInv
<1>p. pc'[t] = "use" /\ \A u \in Threads : u # t => pc'[u] = pc[u]
  BY <1>i, PcGoes DEF PrewriteServed, PC
<1>q. pc[t] = "exec" /\ Len(accesses[t]) < Len(query[t])
  BY DEF PrewriteServed, Asks
<1>r. PICK r \in Rows : r = Req(t).row
  BY <1>q, <1>i, ReqOf
<1>1. /\ ts[t] >= mgr[r]._latest_wts /\ ts[t] >= mgr[r]._max_served_rts /\ ~mgr[r]._exists_prewrite
      /\ UNCHANGED <<started, ts, all_ts, query, ts_ready, accesses, hist>>
  BY <1>r DEF PrewriteServed, tsVars
<1>2. PICK m : /\ m = reserveRow(mgr[r], ts[t], get_min_ts(t), Len(mem[r]))
               /\ mgr' = [mgr EXCEPT ![r] = m]
               /\ mem' = [mem EXCEPT ![r] = CopyLatest(m, mem[r])]
               /\ cur_row' = [cur_row EXCEPT ![t] = PrewriteRow(m)]
  BY <1>r DEF PrewriteServed
<1>3. PICK cells : cells = CopyLatest(m, mem[r])
  OBVIOUS
<1>n. PICK min \in Nat : min = get_min_ts(t)
  BY <1>i, MinTsType
<1>t. /\ mgr \in [Rows -> RowMvcc] /\ mem \in [Rows -> Seq(Ts)] /\ mem[r] \in Seq(Ts)
      /\ cur_row \in [Threads -> Nat] /\ ts[t] \in Ts /\ ts[t] \in Nat /\ mgr[r]._latest_wts \in Nat
      /\ ts[t] > 0 /\ MaxTxns \in Nat /\ Written(r) \in SUBSET Nat
  BY <1>q, <1>i, Managers, Locals, WrittenType DEF TypeOK, Times, Constants
<1>l. ts[t] > mgr[r]._latest_wts
  <2>1. ts[t] # mgr[r]._latest_wts
    BY <1>q, <1>i DEF Times
  <2> QED
    BY <2>1, <1>1, <1>t
<1>s. RowSound(mgr[r], Len(mem[r])) /\ RowFits(mgr[r], mem[r], Written(r))
  BY <1>i, <1>o DEF Books
<1>4. m = reserveRow(mgr[r], ts[t], min, Len(mem[r]))
  BY <1>2, <1>n
<1>5. /\ cells \in Seq(Ts) /\ Len(cells) >= Len(mem[r])
      /\ RowSound(m, Len(cells))
      /\ m._exists_prewrite /\ m._prewrite_ts = ts[t]
      /\ m._latest_wts = mgr[r]._latest_wts /\ m._max_served_rts = mgr[r]._max_served_rts
      /\ \A x \in 1..Len(mem[r]) : x # PrewriteRow(m) => cells[x] = mem[r][x]
  BY <1>1, <1>3, <1>4, <1>l, <1>s, <1>t, reserveRowSound
<1>6. RowFits(m, cells, Written(r)) /\ cells[PrewriteRow(m)] = cells[m._latest_row]
  BY <1>1, <1>3, <1>4, <1>l, <1>s, <1>t, ReserveFits
<1>7. /\ mgr'[r] = m /\ \A s \in Rows : s # r => mgr'[s] = mgr[s]
      /\ mem'[r] = cells /\ \A s \in Rows : s # r => mem'[s] = mem[s]
      /\ cur_row'[t] = PrewriteRow(m) /\ \A u \in Threads : u # t => cur_row'[u] = cur_row[u]
  BY <1>2, <1>3, <1>t
<1>w. \A s : Written(s)' = Written(s)
  BY <1>1 DEF Written
<1>8. KeepsRight({})
  <2>1. \A s \in Rows : Advances(s, {})
    <3> TAKE s \in Rows
    <3>1. mgr[s]._latest_wts \in Nat /\ mgr[s]._max_served_rts \in Nat
      BY <1>i, Managers DEF Ts, Constants
    <3> QED
      BY <3>1, <1>1, <1>5, <1>7 DEF Advances
  <2> QED
    BY <2>1, <1>i, <1>1, AdvancesKeeps
<1>9. HistRight(D)'
  <2>1. started' \in Nat /\ started <= started'
    BY <1>1, <1>i DEF TypeOK, Ts, Constants
  <2>2. \A u \in Threads : pc'[u] \notin {"idle", "commit"} => pc[u] \notin {"idle", "commit"} /\ ts'[u] = ts[u]
    BY <1>1, <1>p, <1>q
  <2>3. \A e \in hist : e.ts \notin {}
    OBVIOUS
  <2> QED
    BY <2>1, <2>2, <2>3, <1>1, <1>8, <1>i, <1>o, HistKept
<1>10. ASSUME NEW s \in Rows PROVE RowFits(mgr[s], mem[s], Written(s))'
  <2>1. CASE s = r
    BY <2>1, <1>6, <1>7, <1>w
  <2>2. CASE s # r
    <3>1. RowFits(mgr[s], mem[s], Written(s))
      BY <1>o
    <3> QED
      BY <3>1, <2>2, <1>7, <1>w
  <2> QED
    BY <2>1, <2>2
<1>11. ASSUME NEW u \in Threads, u # t PROVE Accessed(D, u)' /\ Holds(D, u)' /\ Wrote(u)'
  <2>1. MemKept(u)
    <3>1. ts[u] # ts[t]
      BY <1>11, <1>t, <1>i DEF Times
    <3> QED
      BY <3>1, <1>1, <1>5, <1>7 DEF MemKept
  <2>2. HasRow(u)' => HasRow(u) /\ cur_row'[u] = cur_row[u]
    BY <1>1, <1>7, <1>11, <1>p DEF HasRow
  <2>3. \A s \in Rows : Written(s) \subseteq Written(s)'
    BY <1>w
  <2> QED
    BY <2>1, <2>2, <2>3, <1>1, <1>8, <1>11, <1>p, OthersOrder
<1>12. Accessed(D, t)'
  BY <1>1, <1>8, <1>p, <1>q, <1>i, <1>o, AccessedKept
<1>13. Holds(D, t)'
  <2>1. IsLast(Written(r), ts[t], cells[m._latest_row])
    <3>1. Len(cells) \in Nat
      BY <1>5
    <3>2. ts[t] > m._latest_wts /\ ts[t] <= m._prewrite_ts
      BY <1>5, <1>l, <1>t
    <3>3. RowSound(m, Len(cells)) /\ RowFits(m, cells, Written(r))
      BY <1>5, <1>6
    <3> QED
      BY <3>1, <3>2, <3>3, <1>t, LatestFits
  <2>2. Settled(m, ts[t])
    BY <1>5 DEF Settled
  <2>3. Right(r, ts[t], mem[r][cur_row[t]])'
    BY <2>1, <2>2, <1>1, <1>6, <1>7, <1>w DEF Right
  <2>4. Req(t)' = Req(t)
    BY <1>1 DEF Req
  <2> QED
    BY <2>3, <2>4, <1>r DEF Holds
<1>14. Wrote(t)'
  <2>1. Len(accesses[t]) \in Nat
    BY <1>i, Locals
  <2>2. ASSUME NEW i \in 1..Len(accesses[t]), accesses[t][i].type = "WR"
        PROVE  mem'[accesses[t][i].row] = mem[accesses[t][i].row]
    <3>1. mgr[accesses[t][i].row]._exists_prewrite
      BY <2>2, <1>i DEF Owned, Owns
    <3>2. accesses[t][i].row \in Rows
      BY <1>i, Locals, AccessOf
    <3> QED
      BY <3>1, <3>2, <1>1, <1>7
  <2> QED
    BY <2>1, <2>2, <1>1, <1>p, <1>i, <1>o, <1>w, WroteKept
<1> QED
  BY <1>9, <1>10, <1>11, <1>12, <1>13, <1>14 DEF OrderInv

\* The version x is lost when reserveRow makes q: recycled, or collected because another
\* version is older than min.
Loses(q, x, min) == Crowd(q) \/ (x < q._oldest_wts /\ q._oldest_wts < min)

\* reserveRow loses versions only in these ways,
LEMMA StaysLoses ==
  ASSUME NEW m, NEW q, NEW min, Stays(m, q, min), NEW x, NEW c, Version(m, Valid(m), x, c)
  PROVE  Version(q, Valid(q), x, c) \/ Loses(q, x, min)
<1>1. Version(q, Valid(q), x, c) \/ x < q._oldest_wts
  BY Zenon DEF Stays, Keeps
<1>2. CASE KeepsAll(m, Valid(m), q, Valid(q))
  BY <1>2, Zenon DEF KeepsAll
<1>3. CASE q._oldest_wts < min
  BY <1>1, <1>3 DEF Loses
<1>4. CASE Crowd(q)
  BY <1>4 DEF Loses
<1> QED
  BY <1>2, <1>3, <1>4 DEF Stays, Crowd

\* and collects no version that a transaction from min on may still read.
LEMMA NotLost ==
  ASSUME NEW q \in RowMvcc, NEW cells, NEW W \in SUBSET Nat, RowFits(q, cells, W), ~Crowd(q),
         NEW n \in Nat, NEW min \in Nat, min <= n, NEW x \in Nat, IsLast(W, n, x), MaxTxns \in Nat
  PROVE  ~Loses(q, x, min)
<1> SUFFICES ASSUME x < q._oldest_wts, q._oldest_wts < min PROVE FALSE
  BY DEF Loses
<1>1. q._oldest_wts \in Nat
  BY RowFields
<1>2. Version(q, Valid(q), q._oldest_wts, q._row)
  BY DEF Version
<1>3. q._oldest_wts = 0 \/ q._oldest_wts \in W
  BY <1>2 DEF RowFits
<1> QED
  BY <1>1, <1>3 DEF IsLast

\* A change of the requests or of the reads that were served keeps the versions.
LEMMA SameVersions ==
  ASSUME NEW m, NEW q, SameBooks(m, q), NEW x, NEW c, Version(m, Valid(m), x, c)
  PROVE  Version(q, Valid(q), x, c)
<1>1. Valid(q) = Valid(m)
  BY DEF Valid, SameBooks
<1> QED
  BY <1>1 DEF Version, SameBooks, EntryTs

\* What cleanup makes of the row r that t returns with memory c: its manager and memory.
Buffered(t, r, c, d, reads, pre, m, cells) ==
  /\ d = Done(t, r, c) /\ reads = ServedReads(d, ts[t]) /\ pre = ServedPrewrite(d, ts[t])
  /\ m = AfterBuffer(t, r, d, reads, pre)
  /\ cells = IF pre = {} THEN mem[r] ELSE CopyLatest(m, mem[r])

\* It fits what is written, and who is served stays ahead of the prewrite.
BufferFits(t, r, m, cells, reads, pre) ==
  /\ RowFits(m, cells, Written(r))
  /\ mgr[r]._latest_wts <= m._latest_wts /\ m._latest_wts <= ts[t]
  /\ mgr[r]._max_served_rts <= m._max_served_rts
  /\ pc[t] = "commit" => ts[t] <= m._latest_wts
  /\ \A q \in reads : /\ q.ts <= m._max_served_rts
                      /\ m._exists_prewrite => q.ts <= m._prewrite_ts
  /\ pre # {} => cells[PrewriteRow(m)] = cells[m._latest_row]
  /\ \A x \in 1..Len(mem[r]) :
       cells[x] = mem[r][x] \/ (pre # {} /\ x = PrewriteRow(m))
  /\ \A x, b : Version(mgr[r], Valid(mgr[r]), x, b) =>
       Version(m, Valid(m), x, b) \/ (pre # {} /\ Loses(m, x, get_min_ts(t)))

\* The books of such a row,
LEMMA BufferedSound ==
  ASSUME Constants, MvccInv, NEW t \in Threads, NEW r \in Rows, NEW c, Owns(t, r, c),
         NEW d, NEW reads, NEW pre, NEW m, NEW cells, Buffered(t, r, c, d, reads, pre, m, cells)
  PROVE  Returned(t, r, m, cells, reads, pre)
BY AfterBufferSound DEF Buffered

\* and its versions.
LEMMA AfterBufferFits ==
  ASSUME Constants, MvccInv, NEW D, OrderInv(D), NEW t \in Threads, NEW r \in Rows, NEW c, Owns(t, r, c),
         mem[r][c] = ts[t],
         IF pc[t] = "commit" THEN ts[t] \in Written(r) ELSE ts[t] \notin Written(r),
         NEW d, NEW reads, NEW pre, NEW m, NEW cells, Buffered(t, r, c, d, reads, pre, m, cells)
  PROVE  BufferFits(t, r, m, cells, reads, pre)
<1>b. /\ d = Done(t, r, c) /\ reads = ServedReads(d, ts[t]) /\ pre = ServedPrewrite(d, ts[t])
      /\ m = AfterBuffer(t, r, d, reads, pre)
      /\ cells = IF pre = {} THEN mem[r] ELSE CopyLatest(m, mem[r])
  BY DEF Buffered
<1> SUFFICES /\ RowFits(m, cells, Written(r))
             /\ mgr[r]._latest_wts <= m._latest_wts /\ m._latest_wts <= ts[t]
             /\ mgr[r]._max_served_rts <= m._max_served_rts
             /\ pc[t] = "commit" => ts[t] <= m._latest_wts
             /\ \A q \in reads : /\ q.ts <= m._max_served_rts
                                 /\ m._exists_prewrite => q.ts <= m._prewrite_ts
             /\ pre # {} => cells[PrewriteRow(m)] = cells[m._latest_row]
             /\ \A x \in 1..Len(mem[r]) :
                  cells[x] = mem[r][x] \/ (pre # {} /\ x = PrewriteRow(m))
             /\ \A x, b : Version(mgr[r], Valid(mgr[r]), x, b) =>
                  Version(m, Valid(m), x, b) \/ (pre # {} /\ Loses(m, x, get_min_ts(t)))
  BY DEF BufferFits
<1> DEFINE R == mgr[r]._requests
           x == Max({d._max_served_rts} \cup {q.ts : q \in reads})
           k == [d EXCEPT !._max_served_rts = x, !._requests = @ \ (reads \cup pre)]
           p == CHOOSE q \in pre : TRUE
           min == get_min_ts(t)
           W == Written(r)
<1>i. TypeOK /\ Books
  BY DEF MvccInv
<1>s. RowSound(mgr[r], Len(mem[r])) /\ RowFits(mgr[r], mem[r], W)
  BY <1>i DEF Books, OrderInv
<1>w. /\ mem[r] \in Seq(Ts) /\ Len(mem[r]) \in Nat /\ ts[t] \in Nat /\ ts[t] \in Ts /\ R \in SUBSET ReqEntry
      /\ mgr[r]._max_served_rts \in Ts /\ mgr[r]._max_served_rts \in Nat /\ mgr[r]._latest_wts \in Nat
      /\ MaxTxns \in Nat /\ W \in SUBSET Nat
  BY <1>i, Managers, Locals, WrittenType DEF Ts, Constants
<1>o. /\ mgr[r]._exists_prewrite /\ mgr[r]._prewrite_ts = ts[t] /\ ts[t] > mgr[r]._latest_wts
      /\ c = PrewriteRow(mgr[r])
  BY DEF Owns
<1>d. /\ RowSound(d, Len(mem[r])) /\ ~d._exists_prewrite
      /\ d._requests = mgr[r]._requests /\ d._max_served_rts = mgr[r]._max_served_rts
      /\ d._latest_wts <= ts[t]
  BY <1>b, DoneSound
<1>1. /\ RowFits(d, mem[r], W)
      /\ mgr[r]._latest_wts <= d._latest_wts
      /\ pc[t] = "commit" => ts[t] <= d._latest_wts
      /\ \A y, b : Version(mgr[r], Valid(mgr[r]), y, b) => Version(d, Valid(d), y, b)
  <2>1. CASE pc[t] = "commit"
    <3>1. d = Committed(mgr[r], t, c) /\ ts[t] \in W
      BY <1>b, <2>1 DEF Done
    <3>2. RowFits(d, mem[r], W)
      BY <3>1, <1>s, <1>o, <1>w, CommittedFits
    <3>3. d._latest_wts = ts[t] /\ \A y, b : Version(mgr[r], Valid(mgr[r]), y, b) => Version(d, Valid(d), y, b)
      BY <3>1, <1>s, <1>o, <1>w, CommittedSound
    <3> QED
      BY <3>2, <3>3, <1>o, <1>w
  <2>2. CASE pc[t] # "commit"
    <3>1. d = Dropped(mgr[r]) /\ mgr[r]._prewrite_ts \notin W
      BY <1>b, <2>2, <1>o DEF Done
    <3>2. RowFits(d, mem[r], W)
      BY <3>1, <1>s, <1>o, <1>w, DroppedFits
    <3>3. d._latest_wts = mgr[r]._latest_wts /\ KeepsAll(mgr[r], Valid(mgr[r]), d, Valid(d))
      BY <3>1, <1>s, <1>o, <1>w, DroppedSound
    <3>4. \A y, b : Version(mgr[r], Valid(mgr[r]), y, b) => Version(d, Valid(d), y, b)
      BY <3>3, Zenon DEF KeepsAll
    <3> QED
      BY <3>2, <3>3, <3>4, <2>2, <1>w
  <2> QED
    BY <2>1, <2>2
<1>r. d \in RowMvcc /\ d._latest_wts \in Nat
  BY <1>d, <1>w, RowFields DEF RowSound, Shape
<1>u. /\ reads \cup pre \subseteq R /\ \A y, q \in pre : y = q
      /\ \A y \in pre, q \in reads : q.ts < y.ts
  <2>1. reads \cup pre \subseteq R /\ \A y, q \in pre : y = q
    BY <1>b, <1>d, ServedProperties
  <2>2. \A y \in pre, q \in reads : q.ts < y.ts
    BY <1>b DEF ServedReads, ServedPrewrite
  <2> QED
    BY <2>1, <2>2
<1>t. \A q \in R : q.ts \in Ts /\ q.ts \in Nat /\ q.ts > ts[t]
  <2> TAKE q \in R
  <2>1. q \in ReqEntry
    BY <1>w
  <2>2. q.ts \in Ts /\ q.ts \in Nat
    BY <2>1, <1>w DEF ReqEntry, Ts
  <2>3. mgr[r]._prewrite_ts < q.ts
    BY DEF MvccInv, Requests, RequestRight
  <2> QED
    BY <2>2, <2>3, <1>o
<1>x. /\ x \in Ts /\ x \in Nat /\ d._max_served_rts <= x /\ \A q \in reads : q.ts <= x
      /\ x = d._max_served_rts \/ \E q \in reads : x = q.ts
  <2> DEFINE T == {d._max_served_rts} \cup {q.ts : q \in reads}
  <2>1. T \subseteq Ts /\ T # {}
    BY <1>d, <1>w, <1>u, <1>t
  <2>2. Ts \subseteq Nat /\ IsFiniteSet(Ts)
    BY <1>w, FS_Interval DEF Ts
  <2>3. d._max_served_rts \in T /\ (\A q \in reads : q.ts \in T)
        /\ \A y \in T : y = d._max_served_rts \/ \E q \in reads : y = q.ts
    OBVIOUS
  <2> HIDE DEF T
  <2>4. IsFiniteSet(T)
    BY <2>1, <2>2, FS_Subset
  <2>5. T \subseteq Nat
    BY <2>1, <2>2
  <2>6. Max(T) \in T /\ \A y \in T : y <= Max(T)
    BY <2>1, <2>4, <2>5, MaxProperties
  <2>7. x = Max(T)
    BY DEF T
  <2> HIDE DEF x
  <2> QED
    BY <2>1, <2>2, <2>3, <2>6, <2>7
<1> HIDE DEF x
<1>k. k \in RowMvcc /\ SameBooks(d, k) /\ k._max_served_rts = x
  <2>1. R \ (reads \cup pre) \in SUBSET ReqEntry
    BY <1>w
  <2> QED
    BY <2>1, <1>r, <1>x, <1>d DEF RowMvcc, SameBooks
<1>2. m = IF pre = {} THEN k ELSE reserveRow(k, p.ts, min, Len(mem[r]))
  BY <1>b DEF AfterBuffer, x
<1> HIDE DEF k, p, min
<1>3. RowSound(k, Len(mem[r]))
  BY <1>k, <1>d, SameBooksSound
<1>e. /\ k._latest_wts = d._latest_wts /\ k._latest_row = d._latest_row
      /\ ~k._exists_prewrite
  BY <1>k, <1>d DEF SameBooks
<1>4. RowFits(k, mem[r], W)
  BY <1>1, <1>k, <1>e, ServedFits
<1>v. \A y, b : Version(mgr[r], Valid(mgr[r]), y, b) => Version(k, Valid(k), y, b)
  BY <1>1, <1>k, SameVersions
<1>5. CASE pre = {}
  <2>1. m = k /\ cells = mem[r]
    BY <1>b, <1>5, <1>2
  <2> QED
    BY <2>1, <1>1, <1>4, <1>5, <1>d, <1>e, <1>k, <1>v, <1>x
<1>6. CASE pre # {}
  <2>1. p \in pre /\ p \in R
    BY <1>6, <1>u DEF p
  <2>2. m = reserveRow(k, p.ts, min, Len(mem[r])) /\ cells = CopyLatest(m, mem[r])
    BY <1>b, <1>6, <1>2
  <2>3. min \in Nat
    BY <1>i, MinTsType DEF min
  <2>4. p.ts \in Ts /\ p.ts \in Nat /\ p.ts > k._latest_wts
    BY <2>1, <1>t, <1>d, <1>e, <1>w, <1>r
  <2>5. p.ts >= k._max_served_rts
    <3>1. d._max_served_rts <= ts[t]
      BY <1>d, <1>s, <1>o DEF RowFits
    <3>2. ts[t] < p.ts /\ \A q \in reads : q.ts < p.ts /\ q.ts \in Nat
      BY <2>1, <1>t, <1>u
    <3> QED
      BY <3>1, <3>2, <2>4, <1>x, <1>k, <1>w, <1>d
  <2>6. /\ m._prewrite_ts = p.ts
        /\ m._latest_wts = k._latest_wts /\ m._max_served_rts = k._max_served_rts
        /\ \A y \in 1..Len(mem[r]) : y # PrewriteRow(m) => cells[y] = mem[r][y]
        /\ Stays(k, m, min)
    BY <2>2, <2>3, <2>4, <1>3, <1>e, <1>w, reserveRowSound
  <2>7. RowFits(m, cells, W) /\ cells[PrewriteRow(m)] = cells[m._latest_row]
    BY <2>2, <2>3, <2>4, <2>5, <1>3, <1>4, <1>e, <1>w, ReserveFits
  <2>8. \A q \in reads : q.ts <= m._prewrite_ts
    BY <2>1, <2>6, <1>u, <1>t
  <2>9. \A y, b : Version(mgr[r], Valid(mgr[r]), y, b) =>
          Version(m, Valid(m), y, b) \/ (pre # {} /\ Loses(m, y, get_min_ts(t)))
    BY <2>6, <1>6, <1>v, StaysLoses DEF min
  <2> QED
    BY <2>6, <2>7, <2>8, <2>9, <1>1, <1>6, <1>d, <1>e, <1>k, <1>x
<1> QED
  BY <1>5, <1>6

\* The parts of a step of cleanup: access n of t is returned, with row r and memory c.
Returning(t, n, r, c, d, reads, pre, m, cells) ==
  /\ n \in 1..Len(accesses[t]) /\ r \in Rows
  /\ accesses[t][n].row = r /\ accesses[t][n].data = c /\ accesses[t][n].type = "WR"
  /\ Owns(t, r, c)
  /\ Buffered(t, r, c, d, reads, pre, m, cells)
  /\ mgr'[r] = m /\ \A s \in Rows : s # r => mgr'[s] = mgr[s]
  /\ mem'[r] = cells /\ \A s \in Rows : s # r => mem'[s] = mem[s]
  /\ cur_row' = [u \in Threads |->
       IF \E q \in reads : q.txn = u THEN m._latest_row
       ELSE IF \E q \in pre : q.txn = u THEN PrewriteRow(m) ELSE cur_row[u]]
  /\ ts_ready' = [u \in Threads |-> ts_ready[u] \/ \E q \in reads \cup pre : q.txn = u]
  /\ Len(accesses'[t]) = n - 1
  /\ \A i \in 1..(n - 1) : accesses'[t][i] = accesses[t][i]
  /\ \A u \in Threads : u # t => accesses'[u] = accesses[u]
  /\ min_ts' = IF pre = {} THEN min_ts ELSE get_min_ts(t)

\* Every such step has them.
LEMMA ReturnRowParts ==
  ASSUME Constants, MvccInv, NEW t \in Threads, ReturnRow(t)
  PROVE  \E n, r, c, d, reads, pre, m, cells : Returning(t, n, r, c, d, reads, pre, m, cells)
<1>i. TypeOK /\ Owned(t)
  BY DEF MvccInv
<1> DEFINE n == Max(Unreturned(t))
           a == accesses[t][n]
           r == a.row
           c == a.data
<1>1. /\ Unreturned(t) # {}
      /\ accesses' = [accesses EXCEPT ![t] = SubSeq(accesses[t], 1, n - 1)]
  BY DEF ReturnRow
<1>w. /\ mgr \in [Rows -> RowMvcc] /\ mem \in [Rows -> Seq(Ts)]
      /\ accesses \in [Threads -> Seq(Access)]
      /\ accesses[t] \in Seq(Access) /\ Len(accesses[t]) \in Nat
      /\ DOMAIN accesses[t] = 1..Len(accesses[t])
  BY <1>i, Locals DEF TypeOK
<1>n. n \in 1..Len(accesses[t]) /\ accesses[t][n].type = "WR"
  <2>1. Unreturned(t) \subseteq 1..Len(accesses[t])
    BY <1>w DEF Unreturned
  <2>2. IsFiniteSet(Unreturned(t)) /\ Unreturned(t) \subseteq Nat
    BY <2>1, <1>w, PositionsFinite
  <2>3. n \in Unreturned(t)
    BY <2>2, <1>1, MaxProperties
  <2> QED
    BY <2>1, <2>3 DEF Unreturned
<1>x. PICK d \in {IF pc[t] = "commit" THEN Committed(mgr[r], t, c) ELSE Dropped(mgr[r])} :
        update_buffer(t, r, d)
  BY DEF ReturnRow
<1>y. PICK reads \in {ServedReads(d, ts[t])}, pre \in {ServedPrewrite(d, ts[t])} :
        \E m \in {AfterBuffer(t, r, d, reads, pre)} :
          /\ mgr' = [mgr EXCEPT ![r] = m]
          /\ mem' = IF pre = {} THEN mem ELSE [mem EXCEPT ![r] = CopyLatest(m, mem[r])]
          /\ min_ts' = IF pre = {} THEN min_ts ELSE get_min_ts(t)
          /\ cur_row' = [u \in Threads |->
               IF \E q \in reads : q.txn = u THEN m._latest_row
               ELSE IF \E q \in pre : q.txn = u THEN PrewriteRow(m) ELSE cur_row[u]]
          /\ ts_ready' = [u \in Threads |-> ts_ready[u] \/ \E q \in reads \cup pre : q.txn = u]
  BY <1>x DEF update_buffer
<1>z. PICK m \in {AfterBuffer(t, r, d, reads, pre)} :
        /\ mgr' = [mgr EXCEPT ![r] = m]
        /\ mem' = IF pre = {} THEN mem ELSE [mem EXCEPT ![r] = CopyLatest(m, mem[r])]
        /\ min_ts' = IF pre = {} THEN min_ts ELSE get_min_ts(t)
        /\ cur_row' = [u \in Threads |->
             IF \E q \in reads : q.txn = u THEN m._latest_row
             ELSE IF \E q \in pre : q.txn = u THEN PrewriteRow(m) ELSE cur_row[u]]
        /\ ts_ready' = [u \in Threads |-> ts_ready[u] \/ \E q \in reads \cup pre : q.txn = u]
  BY <1>y
<1>2. d = Done(t, r, c)
  BY <1>x DEF Done
<1> HIDE DEF n
<1>r. r \in Rows
  BY <1>n, <1>w, AccessOf
<1>o. Owns(t, r, c)
  BY <1>n, <1>i DEF Owned
<1>5. /\ Len(accesses'[t]) = n - 1
      /\ \A i \in 1..(n - 1) : accesses'[t][i] = accesses[t][i]
      /\ \A u \in Threads : u # t => accesses'[u] = accesses[u]
  <2> DEFINE z == SubSeq(accesses[t], 1, n - 1)
  <2>1. z \in Seq(Access) /\ Len(z) = n - 1 /\ \A i \in 1..(n - 1) : z[i] = accesses[t][i]
    BY <1>n, <1>w
  <2>2. accesses' = [accesses EXCEPT ![t] = z]
    BY <1>1
  <2> HIDE DEF z
  <2> QED
    BY <2>1, <2>2, <1>w
<1>a. accesses[t][n].row = r /\ accesses[t][n].data = c
  OBVIOUS
<1> HIDE DEF a, r, c
<1> DEFINE cells == IF pre = {} THEN mem[r] ELSE CopyLatest(m, mem[r])
<1>3. /\ mgr'[r] = m /\ \A s \in Rows : s # r => mgr'[s] = mgr[s]
      /\ mem'[r] = cells /\ \A s \in Rows : s # r => mem'[s] = mem[s]
  <2>1. CASE pre = {}
    BY <2>1, <1>z, <1>w, <1>r
  <2>2. CASE pre # {}
    BY <2>2, <1>z, <1>w, <1>r
  <2> QED
    BY <2>1, <2>2
<1>6. reads = ServedReads(d, ts[t]) /\ pre = ServedPrewrite(d, ts[t]) /\ m = AfterBuffer(t, r, d, reads, pre)
  BY <1>y, <1>z
<1>7. cells = IF pre = {} THEN mem[r] ELSE CopyLatest(m, mem[r])
  OBVIOUS
<1> HIDE DEF cells
<1>8. Returning(t, n, r, c, d, reads, pre, m, cells)
  BY <1>2, <1>3, <1>5, <1>6, <1>7, <1>a, <1>n, <1>o, <1>r, <1>z DEF Returning, Buffered
<1> QED
  BY <1>8

\* Returning a row commits or drops its version, and serves who waits with the right one.
LEMMA ReturnRowOrder ==
  ASSUME Constants, MvccInv, NEW D, OrderInv(D), MvccInv', NEW t \in Threads, ReturnRow(t),
         Kept(D)'
  PROVE  OrderInv(D)'
<1>i. TypeOK /\ TypeOK' /\ Books /\ Times /\ Prefix(t) /\ Owned(t)
  BY DEF MvccInv
<1>o. /\ HistRight(D) /\ \A r \in Rows : RowFits(mgr[r], mem[r], Written(r))
      /\ \A u \in Threads : Accessed(D, u) /\ Holds(D, u) /\ Wrote(u)
  BY DEF OrderInv
<1>1. /\ pc[t] \in {"commit", "abort"}
      /\ UNCHANGED <<started, ts, all_ts, pc, query, hist>>
  BY DEF ReturnRow, tsVars
<1>2. PICK n, r, c, d, reads, pre, m, cells : Returning(t, n, r, c, d, reads, pre, m, cells)
  BY ReturnRowParts
<1>3. /\ n \in 1..Len(accesses[t]) /\ r \in Rows
      /\ accesses[t][n].row = r /\ accesses[t][n].data = c /\ accesses[t][n].type = "WR"
      /\ Owns(t, r, c)
      /\ mgr'[r] = m /\ \A s \in Rows : s # r => mgr'[s] = mgr[s]
      /\ mem'[r] = cells /\ \A s \in Rows : s # r => mem'[s] = mem[s]
      /\ Len(accesses'[t]) = n - 1
      /\ \A i \in 1..(n - 1) : accesses'[t][i] = accesses[t][i]
      /\ \A u \in Threads : u # t => accesses'[u] = accesses[u]
  BY <1>2 DEF Returning
<1>4. /\ cur_row' = [u \in Threads |->
           IF \E q \in reads : q.txn = u THEN m._latest_row
           ELSE IF \E q \in pre : q.txn = u THEN PrewriteRow(m) ELSE cur_row[u]]
      /\ ts_ready' = [u \in Threads |-> ts_ready[u] \/ \E q \in reads \cup pre : q.txn = u]
  BY <1>2 DEF Returning
<1>t. /\ ts[t] \in Nat /\ ts[t] > 0 /\ Len(accesses[t]) \in Nat /\ n \in Nat /\ MaxTxns \in Nat
      /\ Written(r) \in SUBSET Nat
  BY <1>1, <1>3, <1>i, Locals, WrittenType DEF Times, Constants
<1>w. \A s : Written(s)' = Written(s)
  BY <1>1 DEF Written
<1>5. /\ RowFits(m, cells, Written(r))
      /\ mgr[r]._latest_wts <= m._latest_wts /\ m._latest_wts <= ts[t]
      /\ mgr[r]._max_served_rts <= m._max_served_rts
      /\ pc[t] = "commit" => ts[t] <= m._latest_wts
      /\ \A q \in reads : /\ q.ts <= m._max_served_rts
                          /\ m._exists_prewrite => q.ts <= m._prewrite_ts
      /\ pre # {} => cells[PrewriteRow(m)] = cells[m._latest_row]
      /\ \A x \in 1..Len(mem[r]) :
           cells[x] = mem[r][x] \/ (pre # {} /\ x = PrewriteRow(m))
  <2>1. mem[r][c] = ts[t] /\ (pc[t] = "commit" => ts[t] \in Written(r))
    BY <1>3, <1>o DEF Wrote
  <2>2. pc[t] # "commit" => ts[t] \notin Written(r)
    BY <1>1, <1>o, NotWritten
  <2>3. IF pc[t] = "commit" THEN ts[t] \in Written(r) ELSE ts[t] \notin Written(r)
    BY <2>1, <2>2
  <2>4. Buffered(t, r, c, d, reads, pre, m, cells)
    BY <1>2 DEF Returning
  <2>5. BufferFits(t, r, m, cells, reads, pre)
    BY <2>1, <2>3, <2>4, <1>3, AfterBufferFits
  <2> QED
    BY <2>5 DEF BufferFits
<1>R. Returned(t, r, m, cells, reads, pre)
  <2>1. Buffered(t, r, c, d, reads, pre, m, cells)
    BY <1>2 DEF Returning
  <2> QED
    BY <2>1, <1>3, BufferedSound
<1>m. /\ RowSound(m, Len(cells)) /\ Len(cells) \in Nat
      /\ reads \cup pre \subseteq mgr[r]._requests
      /\ \A q \in reads : q.type = "R_REQ"
      /\ \A p \in pre : p.type = "P_REQ" /\ m._exists_prewrite /\ m._prewrite_ts = p.ts
      /\ m._latest_wts \in Nat
  BY <1>R, <1>t, RowFields DEF Returned, RowSound, Shape
<1>c. mgr[r]._prewrite_ts = ts[t]
  BY <1>3 DEF Owns
\* Who is served had its request pending at r.
<1>q. ASSUME NEW q \in reads \cup pre
      PROVE  /\ q.txn \in Threads /\ q.txn # t /\ pc[q.txn] = "wait" /\ ~ts_ready[q.txn]
             /\ Req(q.txn).row = r /\ q = Pending(q.txn) /\ q.ts = ts[q.txn]
             /\ ts[q.txn] > m._latest_wts /\ ts[q.txn] \in Nat
  <2>1. RequestRight(q, r)
    BY <1>m, <1>3, <1>q DEF MvccInv, Requests
  <2>2. q.ts = ts[q.txn] /\ mgr[r]._prewrite_ts < q.ts
    BY <2>1 DEF RequestRight, Pending
  <2>3. ts[q.txn] \in Nat
    BY <2>1, <1>i, Locals DEF RequestRight
  <2> QED
    BY <2>1, <2>2, <2>3, <1>1, <1>5, <1>c, <1>m, <1>t DEF RequestRight
<1> DEFINE X == IF pc[t] = "commit" THEN {} ELSE {ts[t]}
<1>6. KeepsRight(X)
  <2>1. \A s \in Rows : Advances(s, X)
    <3> TAKE s \in Rows
    <3>1. mgr[s]._latest_wts \in Nat /\ mgr[s]._max_served_rts \in Nat
      BY <1>i, Managers DEF Ts, Constants
    <3>2. CASE s # r
      <4>1. mgr'[s] = mgr[s]
        BY <3>2, <1>3
      <4> QED
        BY <4>1, <3>1 DEF Advances
    <3>3. CASE s = r
      <4>1. mgr[r]._prewrite_ts \notin X => mgr[r]._prewrite_ts <= m._latest_wts
        BY <1>5, <1>c
      <4> QED
        BY <4>1, <3>3, <1>3, <1>5 DEF Advances
    <3> QED
      BY <3>2, <3>3
  <2> HIDE DEF X
  <2> QED
    BY <2>1, <1>i, <1>1, AdvancesKeeps
<1>x. ASSUME NEW u \in Threads, u # t PROVE ts[u] \notin X
  <2>1. ts[u] # ts[t]
    BY <1>x, <1>t, <1>i DEF Times
  <2> QED
    BY <2>1
<1>7. HistRight(D)'
  <2>1. started' \in Nat /\ started <= started'
    BY <1>1, <1>i DEF TypeOK, Ts, Constants
  <2>2. \A u \in Threads : pc'[u] \notin {"idle", "commit"} => pc[u] \notin {"idle", "commit"} /\ ts'[u] = ts[u]
    BY <1>1
  <2>3. \A e \in hist : e.ts \notin X
    BY <1>1, <1>o DEF HistRight
  <2> HIDE DEF X
  <2> QED
    BY <2>1, <2>2, <2>3, <1>1, <1>6, <1>i, <1>o, HistKept
<1> HIDE DEF X
<1>8. ASSUME NEW s \in Rows PROVE RowFits(mgr[s], mem[s], Written(s))'
  <2>1. CASE s = r
    BY <2>1, <1>3, <1>5, <1>w
  <2>2. CASE s # r
    <3>1. RowFits(mgr[s], mem[s], Written(s))
      BY <1>o
    <3> QED
      BY <3>1, <2>2, <1>3, <1>w
  <2> QED
    BY <2>1, <2>2
<1> DEFINE Srv(u) == \E q \in reads \cup pre : q.txn = u
<1>9. ASSUME NEW u \in Threads, ~\E p \in pre : p.txn = u PROVE MemKept(u)
  <2> SUFFICES ASSUME NEW s \in Rows, NEW y \in 1..Len(mem[s]), mem'[s][y] # mem[s][y]
               PROVE  /\ mgr'[s]._exists_prewrite /\ y = PrewriteRow(mgr'[s])
                      /\ mgr'[s]._prewrite_ts # ts'[u]
    BY DEF MemKept
  <2>1. s = r
    BY <1>3
  <2>2. pre # {} /\ y = PrewriteRow(m)
    BY <2>1, <1>3, <1>5
  <2>3. PICK p \in pre : TRUE
    BY <2>2
  <2>4. m._exists_prewrite /\ m._prewrite_ts = ts[p.txn] /\ p.txn \in Threads /\ p.txn # u
    BY <2>3, <1>9, <1>m, <1>q
  <2>5. ts[p.txn] # ts[u]
    <3>1. ts[p.txn] > 0
      BY <2>3, <1>q, <1>i DEF Times
    <3> QED
      BY <3>1, <2>4, <1>i DEF Times
  <2> QED
    BY <2>1, <2>2, <2>4, <2>5, <1>1, <1>3
<1>10. \A s \in Rows : Written(s) \subseteq Written(s)'
  BY <1>w
<1>11. ASSUME NEW u \in Threads, u # t, ~Srv(u) PROVE Accessed(D, u)' /\ Holds(D, u)' /\ Wrote(u)'
  <2>1. MemKept(u)
    BY <1>9, <1>11
  <2>2. HasRow(u)' => HasRow(u) /\ cur_row'[u] = cur_row[u]
    <3>1. ts_ready'[u] = ts_ready[u] /\ cur_row'[u] = cur_row[u]
      <4>1. ts_ready[u] \in BOOLEAN
        BY <1>i DEF TypeOK
      <4> QED
        BY <4>1, <1>4, <1>11
    <3> QED
      BY <3>1, <1>1 DEF HasRow
  <2> QED
    BY <2>1, <2>2, <1>1, <1>3, <1>6, <1>10, <1>11, <1>x, OthersOrder
<1>12. ASSUME NEW u \in Threads, u # t, Srv(u) PROVE Accessed(D, u)' /\ Wrote(u)'
  <2>1. Accessed(D, u)'
    BY <1>1, <1>3, <1>6, <1>12, <1>x, <1>i, <1>o, AccessedKept
  <2>2. ASSUME NEW i \in 1..Len(accesses[u]), accesses[u][i].type = "WR"
        PROVE  mem'[accesses[u][i].row] = mem[accesses[u][i].row]
    <3>1. mgr[accesses[u][i].row]._prewrite_ts = ts[u]
      BY <2>2 DEF MvccInv, Owned, Owns
    <3>2. accesses[u][i].row \in Rows
      BY <1>i, Locals, AccessOf
    <3>3. ts[u] # ts[t]
      BY <1>12, <1>t, <1>i DEF Times
    <3> QED
      BY <3>1, <3>2, <3>3, <1>c, <1>3
  <2>3. Len(accesses[u]) \in Nat
    BY <1>i, Locals
  <2>4. Wrote(u)'
    BY <2>2, <2>3, <1>1, <1>3, <1>10, <1>12, <1>i, <1>o, WroteKept
  <2> QED
    BY <2>1, <2>4
<1>13. ASSUME NEW u \in Threads, u # t, Srv(u) PROVE Holds(D, u)'
  <2>1. PICK q \in reads \cup pre : q.txn = u
    BY <1>13
  <2>2. Req(u).row = r /\ q.ts = ts[u] /\ ts[u] > m._latest_wts /\ ts[u] \in Nat /\ q = Pending(u)
    BY <2>1, <1>q
  <2>3. Req(u)' = Req(u)
    BY <1>1, <1>3, <1>13 DEF Req
  <2>4. ASSUME Settled(m, ts[u]), m._exists_prewrite => ts[u] <= m._prewrite_ts,
               cells[cur_row'[u]] = cells[m._latest_row]
        PROVE  Holds(D, u)'
    <3>1. IsLast(Written(r), ts[u], cells[m._latest_row])
      BY <2>2, <2>4, <1>5, <1>m, <1>t, LatestFits
    <3>2. Right(r, ts[u], mem[r][cur_row[u]])'
      BY <3>1, <2>4, <1>1, <1>3, <1>w DEF Right
    <3> QED
      BY <3>2, <2>2, <2>3 DEF Holds
  <2>5. CASE q \in reads
    <3>1. Settled(m, ts[u]) /\ (m._exists_prewrite => ts[u] <= m._prewrite_ts)
      BY <2>2, <2>5, <1>5 DEF Settled
    <3>2. cur_row'[u] = m._latest_row
      BY <2>1, <2>5, <1>4
    <3> QED
      BY <3>1, <3>2, <2>4
  <2>6. CASE q \in pre
    <3>1. m._exists_prewrite /\ m._prewrite_ts = ts[u]
      BY <2>2, <2>6, <1>m
    <3>2. ~\E y \in reads : y.txn = u
      <4>1. q.type = "P_REQ"
        BY <2>6, <1>m
      <4>2. \A y \in reads : y.txn = u => y = Pending(u) /\ y.type = "R_REQ"
        BY <1>m, <1>q
      <4> QED
        BY <4>1, <4>2, <2>2
    <3>3. cur_row'[u] = PrewriteRow(m)
      BY <3>2, <2>1, <2>6, <1>4
    <3>4. cells[cur_row'[u]] = cells[m._latest_row]
      BY <3>3, <2>6, <1>5
    <3>5. Settled(m, ts[u])
      BY <3>1 DEF Settled
    <3>6. ts[u] <= m._prewrite_ts
      BY <3>1, <2>2
    <3> QED
      BY <3>4, <3>5, <3>6, <2>4
  <2> QED
    BY <2>5, <2>6
<1>14. Accessed(D, t)' /\ Holds(D, t)'
  BY <1>1 DEF Accessed, Holds, HasRow
<1>15. Wrote(t)'
  <2>1. MemKept(t)
    BY <1>9, <1>q
  <2>2. n - 1 \in Nat /\ n - 1 <= Len(accesses[t])
    BY <1>3, <1>t
  <2>3. /\ Len(accesses'[t]) \in Nat /\ Len(accesses'[t]) <= Len(accesses[t])
        /\ \A i \in 1..Len(accesses'[t]) : accesses'[t][i] = accesses[t][i]
    BY <2>2, <1>3
  <2>4. \A i \in 1..Len(accesses'[t]) : accesses[t][i].type = "WR" =>
          mem'[accesses[t][i].row][accesses[t][i].data] = mem[accesses[t][i].row][accesses[t][i].data]
    BY <2>1, <2>3, WrittenMemory
  <2> QED
    BY <2>3, <2>4, <1>1, <1>10, <1>i, <1>o, WroteKept
<1> QED
  BY <1>7, <1>8, <1>11, <1>12, <1>13, <1>14, <1>15 DEF OrderInv

-----------------------------------------------------------------------------
(***************************************************************************)
(* The order of the timestamps is an invariant                             *)
(***************************************************************************)

\* Nothing is written in the initial state.
LEMMA InitOrder ==
  ASSUME Constants, NEW D, Init
  PROVE  OrderInv(D)
<1>1. hist = {} /\ \A r : Written(r) = {}
  BY DEF Init, Written
<1>2. \A t \in Threads : pc[t] = "idle" /\ accesses[t] = <<>> /\ Len(accesses[t]) = 0
  BY DEF Init
<1>3. ASSUME NEW r \in Rows PROVE RowFits(mgr[r], mem[r], Written(r))
  <2>1. /\ mgr[r]._row = 1 /\ mgr[r]._latest_row = 1 /\ mgr[r]._latest_wts = 0
        /\ mgr[r]._oldest_wts = 0 /\ mgr[r]._exists_prewrite = FALSE
        /\ mgr[r]._write_history = [i \in 1..HIS_LEN |-> NoEntry]
        /\ mem[r][1] = 0
    BY DEF Init
  <2>2. Valid(mgr[r]) = {}
    BY <2>1 DEF Valid, NoEntry
  <2> QED
    BY <2>1, <2>2, <1>1 DEF RowFits, Version
<1>4. \A t \in Threads : Accessed(D, t) /\ Holds(D, t) /\ Wrote(t)
  BY <1>2 DEF Accessed, Holds, HasRow, Wrote
<1> QED
  BY <1>1, <1>3, <1>4 DEF OrderInv, HistRight

\* Nothing changes when no thread takes a step.
LEMMA StutterOrder ==
  ASSUME NEW D, OrderInv(D), UNCHANGED vars
  PROVE  OrderInv(D)'
<1>u. /\ mgr' = mgr /\ mem' = mem /\ started' = started /\ ts' = ts
      /\ pc' = pc /\ query' = query /\ cur_row' = cur_row
      /\ ts_ready' = ts_ready /\ accesses' = accesses /\ hist' = hist
  BY DEF vars
<1>w. \A r : Written(r)' = Written(r)
  BY <1>u DEF Written
<1>r. \A r, n, v : Right(r, n, v) => Right(r, n, v)'
  BY <1>u, <1>w DEF Right, Settled
<1>1. HistRight(D)'
  BY <1>u, <1>r DEF OrderInv, HistRight
<1>2. ASSUME NEW r \in Rows PROVE RowFits(mgr[r], mem[r], Written(r))'
  <2>1. RowFits(mgr[r], mem[r], Written(r))
    BY DEF OrderInv
  <2> QED
    BY <2>1, <1>u, <1>w
<1>3. ASSUME NEW t \in Threads PROVE Accessed(D, t)' /\ Holds(D, t)' /\ Wrote(t)'
  <2>i. Accessed(D, t) /\ Holds(D, t) /\ Wrote(t)
    BY DEF OrderInv
  <2>1. Accessed(D, t)'
    BY <2>i, <1>u, <1>r DEF Accessed, Claimed
  <2>2. Holds(D, t)'
    BY <2>i, <1>u, <1>r DEF Holds, HasRow, Req, Claimed
  <2>3. Wrote(t)'
    BY <2>i, <1>u, <1>w DEF Wrote
  <2> QED
    BY <2>1, <2>2, <2>3
<1> QED
  BY <1>1, <1>2, <1>3 DEF OrderInv

\* No transaction outside D is misled by its search.
Led(D) == \A u \in Threads : ts[u] \notin D => ~Misled(u)

\* Every step keeps the order.
LEMMA NextOrder ==
  ASSUME Constants, MvccInv, NEW D, OrderInv(D), MvccInv', [Next]_vars, Led(D), Kept(D)'
  PROVE  OrderInv(D)'
<1>1. CASE AllDone \/ UNCHANGED vars
  BY <1>1, StutterOrder DEF AllDone
<1>2. ASSUME NEW t \in Threads, Step(t) PROVE OrderInv(D)'
  <2>1. CASE ReadServed(t)
    BY <2>1, ReadServedOrder DEF Led
  <2>2. CASE \E q \in Queries : NewQuery(t, q)
    BY <2>2, NewQueryOrder
  <2>3. CASE AddTs(t) \/ AccessAborts(t) \/ AccessWaits(t) \/ WaitEnds(t) \/ CleanupDone(t)
    BY <2>3, AddTsOrder, AccessAbortsOrder, AccessWaitsOrder, WaitEndsOrder, CleanupDoneOrder
  <2>4. CASE PrewriteServed(t) \/ UseRow(t) \/ Finish(t) \/ ReturnRow(t)
    BY <2>4, PrewriteServedOrder, UseRowOrder, FinishOrder, ReturnRowOrder
  <2> QED
    BY <2>1, <2>2, <2>3, <2>4, <1>2 DEF Step
<1> QED
  BY <1>1, <1>2 DEF Next

\* What is right is the maximum that LastBefore names.
LEMMA RightIsLast ==
  ASSUME Constants, MvccInv, NEW e \in hist, NEW p \in e.reads, Right(p[1], e.ts, p[2])
  PROVE  p[2] = LastBefore(e, p[1])
<1> DEFINE W == Written(p[1])
           S == {0} \cup {f.ts : f \in {g \in hist : g.ts < e.ts /\ p[1] \in g.writes}}
<1>1. IsLast(W, e.ts, p[2])
  BY DEF Right
<1>2. \A n : n \in S <=> n = 0 \/ (n \in W /\ n < e.ts)
  BY DEF Written
<1>3. W \in SUBSET Ts /\ MaxTxns \in Nat
  BY WrittenType DEF MvccInv, Constants
<1>4. S \subseteq 0..MaxTxns /\ 0 \in S
  BY <1>2, <1>3 DEF Ts
<1>5. IsFiniteSet(S) /\ S \subseteq Nat
  <2>1. IsFiniteSet(0..MaxTxns) /\ 0..MaxTxns \subseteq Nat
    BY <1>3, FS_Interval
  <2>2. IsFiniteSet(S)
    <3> HIDE DEF S
    <3> QED
      BY <2>1, <1>4, FS_Subset
  <2> HIDE DEF S
  <2> QED
    BY <2>1, <2>2, <1>4
<1> HIDE DEF S, W
<1>6. Max(S) \in S /\ \A n \in S : n <= Max(S)
  BY <1>4, <1>5, MaxProperties
<1>7. p[2] \in S /\ \A n \in S : n <= p[2]
  <2>1. p[2] \in S
    BY <1>1, <1>2 DEF IsLast
  <2>2. ASSUME NEW n \in S PROVE n <= p[2]
    <3>1. n = 0 \/ (n \in W /\ n < e.ts)
      BY <1>2
    <3>2. p[2] \in Nat
      BY <2>1, <1>5
    <3> QED
      BY <3>1, <3>2, <1>1 DEF IsLast
  <2> QED
    BY <2>1, <2>2
<1>8. p[2] = Max(S)
  <2>1. p[2] \in Nat /\ Max(S) \in Nat
    BY <1>5, <1>6, <1>7
  <2>2. p[2] <= Max(S) /\ Max(S) <= p[2]
    BY <1>6, <1>7
  <2> QED
    BY <2>1, <2>2
<1> QED
  BY <1>8 DEF S, LastBefore

\* So the invariant gives the order that is claimed.
LEMMA OrderInvImplies ==
  ASSUME Constants, MvccInv, NEW D, OrderInv(D)
  PROVE  UpdatesInOrder /\ OrderExcept(D)
<1>1. ASSUME NEW e \in hist, NEW p \in e.reads, p[1] \in e.writes \/ e.ts \notin D
      PROVE  p[2] = LastBefore(e, p[1])
  <2>1. Right(p[1], e.ts, p[2])
    BY <1>1 DEF OrderInv, HistRight
  <2> QED
    BY <2>1, RightIsLast
<1> QED
  BY <1>1 DEF UpdatesInOrder, OrderExcept

\* A committed transaction has read, of every row, what the last transaction before it by
\* timestamp wrote, unless one of two things has happened to it: its search went past
\* the version it should have found, because the_ts does not keep all of a timestamp, or
\* a prewrite was given the memory it was served and had not read yet.  D is any set that
\* contains the transactions to which this has happened; what happens to the others
\* does not matter, nor what happens to a row that the transaction updates.
THEOREM ReadsInOrderCorrect ==
  ASSUME Constants, NEW D
  PROVE  Spec /\ [](\A t \in Threads : ts[t] \notin D => ~Misled(t) /\ ~Overwritten(t))
           => [](UpdatesInOrder /\ OrderExcept(D))
<1> DEFINE N == \A t \in Threads : ts[t] \notin D => ~Misled(t) /\ ~Overwritten(t)
<1>1. Init => OrderInv(D)
  BY InitOrder
<1>2. MvccInv /\ MvccInv' /\ N /\ N' /\ OrderInv(D) /\ [Next]_vars => OrderInv(D)'
  <2> SUFFICES ASSUME MvccInv, MvccInv', N, N', OrderInv(D), [Next]_vars PROVE OrderInv(D)'
    OBVIOUS
  <2>1. Led(D) /\ Kept(D)'
    BY DEF Led, Kept
  <2> QED
    BY <2>1, NextOrder
<1>3. MvccInv /\ OrderInv(D) => UpdatesInOrder /\ OrderExcept(D)
  BY OrderInvImplies
<1>4. Spec => []MvccInv
  BY MvccInvCorrect
<1> HIDE DEF N
<1>5. Spec /\ []N => [](UpdatesInOrder /\ OrderExcept(D))
  BY <1>1, <1>2, <1>3, <1>4, PTL DEF Spec
<1> QED
  BY <1>5 DEF N

\* Of the rows it updates, a committed transaction has always read the last version
\* before it: no update is lost, in any build, whatever the width of the_ts, the length
\* of the history and the progress of min_ts.
THEOREM UpdatesInOrderCorrect ==
  ASSUME Constants
  PROVE  Spec => []UpdatesInOrder
<1> DEFINE D == Nat
<1>1. Init => OrderInv(D)
  BY InitOrder
<1>2. MvccInv /\ MvccInv' /\ OrderInv(D) /\ [Next]_vars => OrderInv(D)'
  <2> SUFFICES ASSUME MvccInv, MvccInv', OrderInv(D), [Next]_vars PROVE OrderInv(D)'
    OBVIOUS
  <2>1. \A t \in Threads : ts[t] \in Nat /\ ts'[t] \in Nat
    BY DEF MvccInv, TypeOK, Ts, Constants
  <2>2. Led(D) /\ Kept(D)'
    BY <2>1 DEF Led, Kept
  <2> HIDE DEF D
  <2> QED
    BY <2>2, NextOrder
<1>3. MvccInv /\ OrderInv(D) => UpdatesInOrder
  BY OrderInvImplies
<1>4. Spec => []MvccInv
  BY MvccInvCorrect
<1> HIDE DEF D
<1> QED
  BY <1>1, <1>2, <1>3, <1>4, PTL DEF Spec

\* When neither happens to anybody, the transactions are serializable in the order of
\* their timestamps.
THEOREM TimestampOrderCorrect ==
  ASSUME Constants
  PROVE  Spec /\ [](\A t \in Threads : ~Misled(t) /\ ~Overwritten(t)) => []TimestampOrder
<1> DEFINE N == \A t \in Threads : ~Misled(t) /\ ~Overwritten(t)
<1>1. Init => OrderInv({})
  BY InitOrder
<1>2. MvccInv /\ MvccInv' /\ N /\ N' /\ OrderInv({}) /\ [Next]_vars => OrderInv({})'
  <2> SUFFICES ASSUME MvccInv, MvccInv', N, N', OrderInv({}), [Next]_vars PROVE OrderInv({})'
    OBVIOUS
  <2>1. Led({}) /\ Kept({})'
    BY DEF Led, Kept
  <2> QED
    BY <2>1, NextOrder
<1>3. MvccInv /\ OrderInv({}) => TimestampOrder
  BY OrderInvImplies DEF OrderExcept, TimestampOrder
<1>4. Spec => []MvccInv
  BY MvccInvCorrect
<1> HIDE DEF N
<1>5. Spec /\ []N => []TimestampOrder
  BY <1>1, <1>2, <1>3, <1>4, PTL DEF Spec
<1> QED
  BY <1>5 DEF N

-----------------------------------------------------------------------------
(***************************************************************************)
(* Which searches go wrong                                                 *)
(***************************************************************************)

\* The search of a reader ends with the last version before it if and only if it does
\* not go past it, in every state that the program can be in: Misled is neither more nor
\* less than what is wrong with the 32 bits of the_ts.
THEOREM SearchIsExact ==
  ASSUME Constants
  PROVE  Spec => [](\A t \in Threads : Searches(t, Mgr(t)) =>
                      (SearchVersion(t, Mgr(t)) = LastOlder(t, Mgr(t)) <=> ~Misled(t)))
<1> DEFINE E == \A t \in Threads : Searches(t, Mgr(t)) =>
                  (SearchVersion(t, Mgr(t)) = LastOlder(t, Mgr(t)) <=> ~Misled(t))
<1>1. MvccInv => E
  <2> SUFFICES ASSUME MvccInv, NEW t \in Threads, Searches(t, Mgr(t))
               PROVE  SearchVersion(t, Mgr(t)) = LastOlder(t, Mgr(t)) <=> ~Misled(t)
    OBVIOUS
  <2>1. TypeOK /\ Books /\ Len(accesses[t]) < Len(query[t])
    BY DEF MvccInv, Searches, Asks
  <2>2. PICK r \in Rows : r = Req(t).row
    BY <2>1, ReqOf
  <2>3. RowSound(mgr[r], Len(mem[r])) /\ Len(mem[r]) \in Nat /\ ts[t] \in Nat
    BY <2>1, Managers, Locals DEF Books
  <2>4. Mgr(t) = mgr[r]
    BY <2>2 DEF Mgr
  <2>5. Misled(t) <=> GoesPast(t, mgr[r])
    BY <2>4 DEF Misled
  <2>6. /\ ~GoesPast(t, mgr[r]) => SearchVersion(t, mgr[r]) = LastOlder(t, mgr[r])
        /\ GoesPast(t, mgr[r]) => SearchVersion(t, mgr[r]) # LastOlder(t, mgr[r])
    BY <2>3, SearchFinds
  <2> QED
    BY <2>4, <2>5, <2>6
<1>2. Spec => []MvccInv
  BY MvccInvCorrect
<1> HIDE DEF E
<1>3. Spec => []E
  BY <1>1, <1>2, PTL
<1> QED
  BY <1>3 DEF E

\* The timestamps fit the_ts: those of TS_CAS do, which counts from 1, as long as there
\* are fewer than 2^32 of them; those of TS_CLOCK do not.
WideTs == \A n \in Ts : n % 2 ^ THE_TS_BITS = n

\* Then no search goes wrong.
THEOREM WideTsLeads ==
  ASSUME Constants, WideTs
  PROVE  Spec => [](\A t \in Threads : ~Misled(t))
<1> DEFINE N == \A t \in Threads : ~Misled(t)
<1>1. MvccInv => N
  <2> SUFFICES ASSUME MvccInv, NEW t \in Threads, Misled(t) PROVE FALSE
    OBVIOUS
  <2>1. TypeOK /\ Len(accesses[t]) < Len(query[t]) /\ MaxTxns \in Nat
    BY DEF MvccInv, Misled, Searches, Asks, Constants
  <2>2. PICK m \in RowMvcc : m = Mgr(t)
    BY <2>1, ReqOf DEF Mgr, TypeOK
  <2>3. PICK i \in Older(t, m), j \in Older(t, m) :
          EntryTs(m, j) <= EntryTs(m, i) /\ EntryTs(m, j) > EntryTs(m, i) % 2 ^ THE_TS_BITS
    BY <2>2 DEF Misled, GoesPast
  <2>4. \A k \in Older(t, m) : EntryTs(m, k) \in Ts /\ EntryTs(m, k) \in Nat
    BY <2>1, RowFields DEF Older, Valid
  <2>5. EntryTs(m, i) % 2 ^ THE_TS_BITS = EntryTs(m, i)
    BY <2>4 DEF WideTs
  <2> QED
    BY <2>3, <2>4, <2>5
<1>2. Spec => []MvccInv
  BY MvccInvCorrect
<1> HIDE DEF N
<1>3. Spec => []N
  BY <1>1, <1>2, PTL
<1> QED
  BY <1>3 DEF N

-----------------------------------------------------------------------------
(***************************************************************************)
(* Which steps overwrite what a reader was served                          *)
(***************************************************************************)

\* No reader outside D is disturbed.
Calm(D) == \A u \in Threads : ts[u] \notin D => ~Disturbed(u)

\* The memory that a reader was served is that of a version.
Pinned(D, t) ==
  ts[t] \notin D /\ HasRow(t) /\ Req(t).type = "RD" =>
    \E x : Version(mgr[Req(t).row], Valid(mgr[Req(t).row]), x, cur_row[t])

\* And the memory of a prewrite is not.
LEMMA PinnedIsKept ==
  ASSUME Constants, MvccInv, NEW t \in Threads, NEW D, ts[t] \notin D, Pinned(D, t)
  PROVE  ~Overwritten(t)
<1> SUFFICES ASSUME HasRow(t), Req(t).type = "RD", mgr[Req(t).row]._exists_prewrite,
                    cur_row[t] = PrewriteRow(mgr[Req(t).row])
             PROVE  FALSE
  BY DEF Overwritten
<1>i. TypeOK /\ Books /\ Prefix(t)
  BY DEF MvccInv
<1>1. PICK r \in Rows : r = Req(t).row
  BY <1>i, ReqOf DEF Prefix, HasRow
<1>2. PICK x : Version(mgr[r], Valid(mgr[r]), x, cur_row[t])
  BY <1>1 DEF Pinned
<1>3. RowSound(mgr[r], Len(mem[r])) /\ Len(mem[r]) \in Nat /\ MaxTxns \in Nat
  BY <1>i, Managers DEF Books, Constants
<1> QED
  BY <1>1, <1>2, <1>3, VersionFacts

\* Steps that leave the versions and what u was served alone.
LEMMA PinnedSame ==
  ASSUME Constants, MvccInv, NEW u \in Threads, NEW D, Pinned(D, u),
         \A r \in Rows : SameBooks(mgr[r], mgr'[r]),
         HasRow(u)' => HasRow(u) /\ cur_row'[u] = cur_row[u] /\ Req(u)' = Req(u) /\ ts'[u] = ts[u]
  PROVE  Pinned(D, u)'
<1> SUFFICES ASSUME (ts[u] \notin D)', HasRow(u)', Req(u)'.type = "RD"
             PROVE  \E x : Version(mgr[Req(u).row], Valid(mgr[Req(u).row]), x, cur_row[u])'
  BY DEF Pinned
<1>1. /\ ts[u] \notin D /\ HasRow(u) /\ Req(u).type = "RD"
      /\ cur_row'[u] = cur_row[u] /\ Req(u)' = Req(u)
  OBVIOUS
<1>i. TypeOK /\ Prefix(u)
  BY DEF MvccInv
<1>2. PICK r \in Rows : r = Req(u).row
  BY <1>1, <1>i, ReqOf DEF Prefix, HasRow
<1>3. PICK x : Version(mgr[r], Valid(mgr[r]), x, cur_row[u])
  BY <1>1, <1>2 DEF Pinned
<1>4. Version(mgr'[r], Valid(mgr'[r]), x, cur_row[u])
  BY <1>3, SameVersions
<1>5. Valid(mgr[r])' = Valid(mgr'[r]) /\ Version(mgr'[r], Valid(mgr'[r]), x, cur_row'[u])
  BY <1>1, <1>4 DEF Valid
<1> QED
  BY <1>1, <1>2, <1>5 DEF Version, EntryTs

\* t leaves the versions alone, and has no row afterwards that it did not have before.
LEMMA QuietPinned ==
  ASSUME Constants, MvccInv, NEW D, \A u \in Threads : Pinned(D, u), NEW t \in Threads,
         \A r \in Rows : SameBooks(mgr[r], mgr'[r]),
         \A u \in Threads : u # t =>
           /\ pc'[u] = pc[u] /\ query'[u] = query[u] /\ accesses'[u] = accesses[u]
           /\ cur_row'[u] = cur_row[u] /\ ts_ready'[u] = ts_ready[u] /\ ts'[u] = ts[u],
         HasRow(t)' => HasRow(t) /\ cur_row'[t] = cur_row[t] /\ Req(t)' = Req(t) /\ ts'[t] = ts[t]
  PROVE  \A u \in Threads : Pinned(D, u)'
<1> SUFFICES ASSUME NEW u \in Threads PROVE Pinned(D, u)'
  OBVIOUS
<1>1. HasRow(u)' => HasRow(u) /\ cur_row'[u] = cur_row[u] /\ Req(u)' = Req(u) /\ ts'[u] = ts[u]
  <2>1. CASE u = t
    BY <2>1
  <2>2. CASE u # t
    BY <2>2 DEF HasRow, Req
  <2> QED
    BY <2>1, <2>2
<1> QED
  BY <1>1, PinnedSame

\* Most steps are like this.
LEMMA QuietStepsPin ==
  ASSUME Constants, MvccInv, NEW D, \A u \in Threads : Pinned(D, u), NEW t \in Threads,
         \/ \E q \in Queries : NewQuery(t, q)
         \/ AddTs(t) \/ AccessAborts(t) \/ AccessWaits(t) \/ WaitEnds(t) \/ UseRow(t)
         \/ Finish(t) \/ CleanupDone(t)
  PROVE  \A u \in Threads : Pinned(D, u)'
<1>i. TypeOK
  BY DEF MvccInv
<1>w. /\ accesses \in [Threads -> Seq(Access)] /\ query \in [Threads -> Queries \cup {<<>>}]
      /\ cur_row \in [Threads -> Nat] /\ ts_ready \in [Threads -> BOOLEAN] /\ ts \in [Threads -> Ts]
  BY <1>i DEF TypeOK
<1> DEFINE Others == \A u \in Threads : u # t =>
             /\ pc'[u] = pc[u] /\ query'[u] = query[u] /\ accesses'[u] = accesses[u]
             /\ cur_row'[u] = cur_row[u] /\ ts_ready'[u] = ts_ready[u] /\ ts'[u] = ts[u]
           Same == \A r \in Rows : SameBooks(mgr[r], mgr'[r])
           Mine == HasRow(t)' => HasRow(t) /\ cur_row'[t] = cur_row[t] /\ Req(t)' = Req(t) /\ ts'[t] = ts[t]
<1>1. ASSUME NEW q \in Queries, NewQuery(t, q) PROVE Same /\ Others /\ Mine
  <2>1. pc'[t] = "publish" /\ \A u \in Threads : u # t => pc'[u] = pc[u]
    BY <1>1, <1>i, PcGoes DEF NewQuery, PC
  <2>2. /\ query' = [query EXCEPT ![t] = q] /\ ts' = [ts EXCEPT ![t] = started + 1]
        /\ UNCHANGED <<mgr, cur_row, ts_ready, accesses>>
    BY <1>1 DEF NewQuery
  <2>3. Same
    BY <2>2, SameBooksSelf
  <2> QED
    BY <2>1, <2>2, <2>3, <1>w DEF HasRow
<1>2. ASSUME AddTs(t) PROVE Same /\ Others /\ Mine
  <2>1. pc'[t] = "exec" /\ \A u \in Threads : u # t => pc'[u] = pc[u]
    BY <1>2, <1>i, PcGoes DEF AddTs, PC
  <2>2. UNCHANGED <<mgr, ts, cur_row, ts_ready, accesses, query>>
    BY <1>2 DEF AddTs
  <2>3. Same
    BY <2>2, SameBooksSelf
  <2> QED
    BY <2>1, <2>2, <2>3 DEF HasRow
<1>3. ASSUME AccessAborts(t) PROVE Same /\ Others /\ Mine
  <2>1. pc'[t] = "abort" /\ \A u \in Threads : u # t => pc'[u] = pc[u]
    BY <1>3, <1>i, PcGoes DEF AccessAborts, PC
  <2>2. UNCHANGED <<mgr, ts, cur_row, ts_ready, accesses, query>>
    BY <1>3 DEF AccessAborts, tsVars
  <2>3. Same
    BY <2>2, SameBooksSelf
  <2> QED
    BY <2>1, <2>2, <2>3 DEF HasRow
<1>4. ASSUME AccessWaits(t) PROVE Same /\ Others /\ Mine
  <2>1. pc'[t] = "wait" /\ \A u \in Threads : u # t => pc'[u] = pc[u]
    BY <1>4, <1>i, PcGoes DEF AccessWaits, PC
  <2>2. ts_ready' = [ts_ready EXCEPT ![t] = FALSE] /\ UNCHANGED <<ts, cur_row, accesses, query>>
    BY <1>4 DEF AccessWaits, tsVars
  <2>3. Same
    BY <1>4, <1>i, AccessWaitsBooks
  <2>4. ~HasRow(t)'
    BY <2>1, <2>2, <1>w DEF HasRow
  <2> QED
    BY <2>1, <2>2, <2>3, <2>4, <1>w
<1>5. ASSUME WaitEnds(t) PROVE Same /\ Others /\ Mine
  <2>1. pc'[t] = "use" /\ \A u \in Threads : u # t => pc'[u] = pc[u]
    BY <1>5, <1>i, PcGoes DEF WaitEnds, PC
  <2>2. /\ pc[t] = "wait" /\ ts_ready[t] /\ ts_ready' = [ts_ready EXCEPT ![t] = FALSE]
        /\ UNCHANGED <<mgr, ts, cur_row, accesses, query>>
    BY <1>5 DEF WaitEnds, tsVars
  <2>3. Same
    BY <2>2, SameBooksSelf
  <2>4. Mine
    BY <2>2 DEF HasRow, Req
  <2>5. Others
    BY <2>1, <2>2, <1>w
  <2> QED
    BY <2>3, <2>4, <2>5
<1>6. ASSUME UseRow(t) PROVE Same /\ Others /\ Mine
  <2>1. pc'[t] = "exec" /\ \A u \in Threads : u # t => pc'[u] = pc[u]
    BY <1>6, <1>i, PcGoes DEF UseRow, PC
  <2>2. cur_row' = [cur_row EXCEPT ![t] = NULL] /\ UNCHANGED <<mgr, ts, ts_ready, query>>
    BY <1>6 DEF UseRow, tsVars
  <2>3. \A u \in Threads : u # t => accesses'[u] = accesses[u]
    BY <1>6, <1>w DEF UseRow, tsVars
  <2>4. Same
    BY <2>2, SameBooksSelf
  <2> QED
    BY <2>1, <2>2, <2>3, <2>4, <1>w DEF HasRow
<1>7. ASSUME Finish(t) PROVE Same /\ Others /\ Mine
  <2>1. pc'[t] = "commit" /\ \A u \in Threads : u # t => pc'[u] = pc[u]
    BY <1>7, <1>i, PcGoes DEF Finish, PC
  <2>2. UNCHANGED <<mgr, ts, cur_row, ts_ready, accesses, query>>
    BY <1>7 DEF Finish, tsVars
  <2>3. Same
    BY <2>2, SameBooksSelf
  <2> QED
    BY <2>1, <2>2, <2>3 DEF HasRow
<1>8. ASSUME CleanupDone(t) PROVE Same /\ Others /\ Mine
  <2>1. pc'[t] = "idle" /\ \A u \in Threads : u # t => pc'[u] = pc[u]
    BY <1>8, <1>i, PcGoes DEF CleanupDone, PC
  <2>2. /\ accesses' = [accesses EXCEPT ![t] = <<>>] /\ query' = [query EXCEPT ![t] = <<>>]
        /\ UNCHANGED <<mgr, ts, cur_row, ts_ready>>
    BY <1>8 DEF CleanupDone, tsVars
  <2>3. Same
    BY <2>2, SameBooksSelf
  <2> QED
    BY <2>1, <2>2, <2>3, <1>w DEF HasRow
<1>9. Same /\ Others /\ Mine
  <2> HIDE DEF Same, Others, Mine
  <2> QED
    BY <1>1, <1>2, <1>3, <1>4, <1>5, <1>6, <1>7, <1>8
<1> QED
  BY <1>9, QuietPinned

\* A version that a reader u of row r still uses is not lost.
LEMMA ReaderKeeps ==
  ASSUME Constants, MvccInv, NEW D, OrderInv(D), NEW u \in Threads, ts[u] \notin D,
         Pinned(D, u), HasRow(u), Req(u).type = "RD",
         NEW r \in Rows, r = Req(u).row,
         NEW m \in RowMvcc, NEW cells, RowFits(m, cells, Written(r)), ~Crowd(m),
         NEW min \in Nat, min <= ts[u],
         \A x, b : Version(mgr[r], Valid(mgr[r]), x, b) => Version(m, Valid(m), x, b) \/ Loses(m, x, min)
  PROVE  \E x : Version(m, Valid(m), x, cur_row[u])
<1>i. TypeOK /\ Books
  BY DEF MvccInv
<1>1. PICK x : Version(mgr[r], Valid(mgr[r]), x, cur_row[u])
  BY DEF Pinned
<1>2. mem[r][cur_row[u]] = x /\ IsLast(Written(r), ts[u], x)
  <2>1. RowFits(mgr[r], mem[r], Written(r)) /\ Holds(D, u)
    BY DEF OrderInv
  <2>2. mem[r][cur_row[u]] = x
    BY <2>1, <1>1 DEF RowFits
  <2> QED
    BY <2>1, <2>2 DEF Holds, Right, Claimed
<1>3. /\ ts[u] \in Nat /\ Written(r) \in SUBSET Nat /\ MaxTxns \in Nat /\ Len(mem[r]) \in Nat
      /\ RowSound(mgr[r], Len(mem[r]))
  BY <1>i, Locals, Managers, WrittenType DEF Constants, Books
<1>4. x \in Nat
  BY <1>1, <1>3, VersionFacts
<1>5. ~Loses(m, x, min)
  BY <1>2, <1>3, <1>4, NotLost
<1> QED
  BY <1>1, <1>5

\* A reader is served with a version.
LEMMA ReadServedPins ==
  ASSUME Constants, MvccInv, NEW D, OrderInv(D), \A u \in Threads : Pinned(D, u), Led(D),
         NEW t \in Threads, ReadServed(t)
  PROVE  \A u \in Threads : Pinned(D, u)'
<1>i. TypeOK /\ Books /\ Times
  BY DEF MvccInv
<1>p. pc'[t] = "use" /\ \A u \in Threads : u # t => pc'[u] = pc[u]
  BY <1>i, PcGoes DEF ReadServed, PC
<1>1. /\ pc[t] = "exec" /\ Len(accesses[t]) < Len(query[t])
      /\ ts[t] >= mgr[Req(t).row]._oldest_wts
      /\ UNCHANGED <<mem, ts, query, ts_ready, accesses>>
  BY DEF ReadServed, Asks, Mgr, tsVars
<1>r. PICK r \in Rows : r = Req(t).row
  BY <1>1, <1>i, ReqOf
<1>T. Req(t)' = Req(t)
  BY <1>1 DEF Req
<1>t. /\ mgr \in [Rows -> RowMvcc] /\ mgr[r] \in RowMvcc /\ cur_row \in [Threads -> Nat]
      /\ ts[t] \in Nat /\ Len(mem[r]) \in Nat /\ MaxTxns \in Nat /\ ts[t] > 0
  BY <1>1, <1>i, Managers, Locals DEF TypeOK, Constants, Times
<1>f. /\ RowFits(mgr[r], mem[r], Written(r)) /\ RowSound(mgr[r], Len(mem[r])) /\ Written(r) \in SUBSET Nat
      /\ ts[t] \notin Written(r)
  BY <1>1, <1>i, WrittenType, NotWritten DEF Books, OrderInv
<1> DEFINE Same == \A s \in Rows : SameBooks(mgr[s], mgr'[s])
           c == cur_row'[t]
<1>2. ASSUME cur_row' = [cur_row EXCEPT ![t] = mgr[r]._latest_row],
             mgr' = [mgr EXCEPT ![r]._max_served_rts = IF ts[t] > @ THEN ts[t] ELSE @]
      PROVE  Same /\ \E x : Version(mgr[r], Valid(mgr[r]), x, c)
  <2> DEFINE m == [mgr[r] EXCEPT !._max_served_rts = IF ts[t] > @ THEN ts[t] ELSE @]
  <2>1. mgr' = [mgr EXCEPT ![r] = m]
    BY <1>2, <1>t
  <2>2. SameBooks(mgr[r], m)
    BY <1>t DEF SameBooks, RowMvcc
  <2> HIDE DEF m
  <2>3. mgr'[r] = m /\ \A s \in Rows : s # r => mgr'[s] = mgr[s]
    BY <2>1, <1>t
  <2>4. Same
    BY <2>2, <2>3, SameBooksSelf
  <2>5. c = mgr[r]._latest_row
    BY <1>2, <1>t
  <2>6. Version(mgr[r], Valid(mgr[r]), mgr[r]._latest_wts, mgr[r]._latest_row)
    BY <1>f DEF RowFits
  <2> HIDE DEF c, Same
  <2> QED
    BY <2>4, <2>5, <2>6
<1>3. ASSUME ts[t] <= mgr[r]._latest_wts,
             cur_row' = [cur_row EXCEPT ![t] = SearchVersion(t, mgr[r])],
             mgr' = mgr
      PROVE  Same /\ (ts[t] \notin D => \E x : Version(mgr[r], Valid(mgr[r]), x, c))
  <2>1. ts[t] \notin D => \E x : Version(mgr[r], Valid(mgr[r]), x, SearchVersion(t, mgr[r]))
    <3>1. ts[t] \notin D => ~GoesPast(t, mgr[r])
      BY <1>1, <1>3, <1>r DEF ReadServed, Misled, Searches, Mgr, Led
    <3> QED
      BY <3>1, <1>1, <1>3, <1>f, <1>r, <1>t, SearchFits
  <2>2. c = SearchVersion(t, mgr[r])
    BY <1>3, <1>t
  <2>3. Same
    BY <1>3, SameBooksSelf
  <2> HIDE DEF c, Same
  <2> QED
    BY <2>1, <2>2, <2>3
<1>4. Same /\ (ts[t] \notin D => \E x : Version(mgr[r], Valid(mgr[r]), x, c))
  <2>1. \/ /\ cur_row' = [cur_row EXCEPT ![t] = mgr[r]._latest_row]
           /\ mgr' = [mgr EXCEPT ![r]._max_served_rts = IF ts[t] > @ THEN ts[t] ELSE @]
        \/ /\ ts[t] <= mgr[r]._latest_wts
           /\ cur_row' = [cur_row EXCEPT ![t] = SearchVersion(t, mgr[r])]
           /\ mgr' = mgr
    BY <1>r DEF ReadServed, Mgr
  <2> HIDE DEF Same, c
  <2> QED
    BY <2>1, <1>2, <1>3
<1>6. Pinned(D, t)'
  <2> SUFFICES ASSUME ts[t] \notin D
               PROVE  \E x : Version(mgr[Req(t).row], Valid(mgr[Req(t).row]), x, cur_row[t])'
    BY <1>1 DEF Pinned
  <2>0. PICK x : Version(mgr[r], Valid(mgr[r]), x, c)
    BY <1>4
  <2>1. Version(mgr'[r], Valid(mgr'[r]), x, c)
    BY <2>0, <1>4, SameVersions
  <2>2. Version(mgr[r], Valid(mgr[r]), x, cur_row[t])'
    BY <2>1 DEF Version, Valid, EntryTs
  <2> QED
    BY <2>2, <1>r, <1>T
<1>7. ASSUME NEW u \in Threads, u # t PROVE Pinned(D, u)'
  <2>1. cur_row'[u] = cur_row[u]
    BY <1>7, <1>t DEF ReadServed
  <2>2. HasRow(u)' => HasRow(u) /\ cur_row'[u] = cur_row[u] /\ Req(u)' = Req(u) /\ ts'[u] = ts[u]
    BY <2>1, <1>1, <1>7, <1>p DEF HasRow, Req
  <2> QED
    BY <2>2, <1>4, PinnedSame
<1> QED
  BY <1>6, <1>7

\* The row r becomes m; u has read access to another row, or keeps its version of r.
LEMMA PinnedAt ==
  ASSUME Constants, MvccInv, NEW u \in Threads, NEW D, Pinned(D, u), NEW r \in Rows, NEW m,
         mgr'[r] = m, \A s \in Rows : s # r => mgr'[s] = mgr[s],
         HasRow(u)' => HasRow(u) /\ cur_row'[u] = cur_row[u] /\ Req(u)' = Req(u) /\ ts'[u] = ts[u],
         ts[u] \notin D /\ HasRow(u) /\ Req(u).type = "RD" /\ Req(u).row = r =>
           \E x : Version(m, Valid(m), x, cur_row[u])
  PROVE  Pinned(D, u)'
<1> SUFFICES ASSUME (ts[u] \notin D)', HasRow(u)', Req(u)'.type = "RD"
             PROVE  \E x : Version(mgr[Req(u).row], Valid(mgr[Req(u).row]), x, cur_row[u])'
  BY DEF Pinned
<1>1. /\ ts[u] \notin D /\ HasRow(u) /\ Req(u).type = "RD"
      /\ cur_row'[u] = cur_row[u] /\ Req(u)' = Req(u)
  OBVIOUS
<1>i. TypeOK /\ Prefix(u)
  BY DEF MvccInv
<1>2. PICK s \in Rows : s = Req(u).row
  BY <1>1, <1>i, ReqOf DEF Prefix, HasRow
<1>3. PICK k : k = mgr'[s]
  OBVIOUS
<1>4. \E x : Version(k, Valid(k), x, cur_row[u])
  <2>1. CASE s = r
    BY <2>1, <1>1, <1>2, <1>3
  <2>2. CASE s # r
    <3>1. k = mgr[s]
      BY <2>2, <1>3
    <3> QED
      BY <3>1, <1>1, <1>2 DEF Pinned
  <2> QED
    BY <2>1, <2>2
<1>5. PICK x : Version(k, Valid(k), x, cur_row[u])
  BY <1>4
<1>6. Version(mgr[s], Valid(mgr[s]), x, cur_row[u])'
  BY <1>1, <1>3, <1>5 DEF Version, Valid, EntryTs
<1> QED
  BY <1>1, <1>2, <1>6

\* reserveRow does not take the version of a reader when there is room.
LEMMA PrewriteServedPins ==
  ASSUME Constants, MvccInv, NEW D, OrderInv(D), MvccInv', \A u \in Threads : Pinned(D, u),
         NEW t \in Threads, PrewriteServed(t),
         Calm(D)'
  PROVE  \A u \in Threads : Pinned(D, u)'
<1>i. TypeOK /\ TypeOK' /\ Books /\ Times
  BY DEF MvccInv
<1>p. pc'[t] = "use" /\ \A u \in Threads : u # t => pc'[u] = pc[u]
  BY <1>i, PcGoes DEF PrewriteServed, PC
<1>q. pc[t] = "exec" /\ Len(accesses[t]) < Len(query[t]) /\ Req(t).type = "WR"
  BY DEF PrewriteServed, Asks
<1>r. PICK r \in Rows : r = Req(t).row
  BY <1>q, <1>i, ReqOf
<1>1. /\ ts[t] >= mgr[r]._latest_wts /\ ts[t] >= mgr[r]._max_served_rts /\ ~mgr[r]._exists_prewrite
      /\ min_ts' = get_min_ts(t)
      /\ UNCHANGED <<started, ts, all_ts, query, ts_ready, accesses, hist>>
  BY <1>r DEF PrewriteServed, tsVars
<1>2. PICK m : /\ m = reserveRow(mgr[r], ts[t], get_min_ts(t), Len(mem[r]))
               /\ mgr' = [mgr EXCEPT ![r] = m]
               /\ cur_row' = [cur_row EXCEPT ![t] = PrewriteRow(m)]
  BY <1>r DEF PrewriteServed
<1>3. PICK cells : cells = CopyLatest(m, mem[r])
  OBVIOUS
<1>n. PICK min \in Nat : min = get_min_ts(t)
  BY <1>i, MinTsType
<1>t. /\ mgr \in [Rows -> RowMvcc] /\ mem[r] \in Seq(Ts)
      /\ cur_row \in [Threads -> Nat] /\ ts[t] \in Ts /\ ts[t] \in Nat /\ mgr[r]._latest_wts \in Nat
      /\ MaxTxns \in Nat /\ Written(r) \in SUBSET Nat
  BY <1>q, <1>i, Managers, Locals, WrittenType DEF TypeOK, Times, Constants
<1>l. ts[t] > mgr[r]._latest_wts
  <2>1. ts[t] # mgr[r]._latest_wts
    BY <1>q, <1>i DEF Times
  <2> QED
    BY <2>1, <1>1, <1>t
<1>s. RowSound(mgr[r], Len(mem[r])) /\ RowFits(mgr[r], mem[r], Written(r))
  BY <1>i DEF Books, OrderInv
<1>4. m = reserveRow(mgr[r], ts[t], min, Len(mem[r]))
  BY <1>2, <1>n
<1>5. RowSound(m, Len(cells)) /\ m._exists_prewrite /\ Stays(mgr[r], m, min)
  BY <1>1, <1>3, <1>4, <1>l, <1>s, <1>t, reserveRowSound
<1>6. RowFits(m, cells, Written(r))
  BY <1>1, <1>3, <1>4, <1>l, <1>s, <1>t, ReserveFits
<1>7. /\ mgr'[r] = m /\ \A s \in Rows : s # r => mgr'[s] = mgr[s]
      /\ \A u \in Threads : u # t => cur_row'[u] = cur_row[u]
  BY <1>2, <1>t
<1>8. m \in RowMvcc
  BY <1>5 DEF RowSound, Shape
<1>9. ASSUME NEW u \in Threads, u # t PROVE Pinned(D, u)'
  <2>1. HasRow(u)' => HasRow(u) /\ cur_row'[u] = cur_row[u] /\ Req(u)' = Req(u) /\ ts'[u] = ts[u]
    BY <1>1, <1>7, <1>9, <1>p DEF HasRow, Req
  <2>2. ASSUME ts[u] \notin D, HasRow(u), Req(u).type = "RD", Req(u).row = r
        PROVE  \E x : Version(m, Valid(m), x, cur_row[u])
    <3>0. HasRow(u)' /\ Req(u)' = Req(u)
      BY <2>2, <1>1, <1>9, <1>p DEF HasRow, Req
    <3>1. ~(min > ts[u]) /\ ts[u] \in Nat /\ ~Crowd(m)
      <4>1. ~Disturbed(u)'
        BY <2>2, <1>1 DEF Calm
      <4>2. ~(min_ts' > ts'[u]) /\ ~Crowded(r)'
        BY <4>1, <3>0, <2>2 DEF Disturbed
      <4>3. ~Crowd(m)
        BY <4>2, <1>5, <1>7 DEF Crowded, Crowd
      <4> QED
        BY <4>2, <4>3, <1>1, <1>i, <1>n, Locals
    <3>2. \A x, b : Version(mgr[r], Valid(mgr[r]), x, b) => Version(m, Valid(m), x, b) \/ Loses(m, x, min)
      BY <1>5, StaysLoses
    <3>3. min <= ts[u]
      BY <3>1
    <3> QED
      BY <2>2, <3>1, <3>2, <3>3, <1>6, <1>8, ReaderKeeps
  <2> QED
    BY <2>1, <2>2, <1>7, PinnedAt
<1>10. Pinned(D, t)'
  <2>1. Req(t)' = Req(t)
    BY <1>1 DEF Req
  <2> QED
    BY <2>1, <1>q DEF Pinned
<1> QED
  BY <1>9, <1>10

\* Nor does update_buffer, and the readers that it serves get the latest version.
LEMMA ReturnRowPins ==
  ASSUME Constants, MvccInv, NEW D, OrderInv(D), MvccInv', \A u \in Threads : Pinned(D, u),
         NEW t \in Threads, ReturnRow(t),
         Calm(D)'
  PROVE  \A u \in Threads : Pinned(D, u)'
<1>i. TypeOK /\ TypeOK' /\ Books /\ Times
  BY DEF MvccInv
<1>o. HistRight(D) /\ \A u \in Threads : Wrote(u)
  BY DEF OrderInv
<1>1. /\ pc[t] \in {"commit", "abort"}
      /\ UNCHANGED <<started, ts, all_ts, pc, query, hist>>
  BY DEF ReturnRow, tsVars
<1>2. PICK n, r, c, d, reads, pre, m, cells : Returning(t, n, r, c, d, reads, pre, m, cells)
  BY ReturnRowParts
<1>3. /\ n \in 1..Len(accesses[t]) /\ r \in Rows
      /\ accesses[t][n].row = r /\ accesses[t][n].data = c /\ accesses[t][n].type = "WR"
      /\ Owns(t, r, c)
      /\ mgr'[r] = m /\ \A s \in Rows : s # r => mgr'[s] = mgr[s]
      /\ \A u \in Threads : u # t => accesses'[u] = accesses[u]
      /\ min_ts' = IF pre = {} THEN min_ts ELSE get_min_ts(t)
  BY <1>2 DEF Returning
<1>4. /\ cur_row' = [u \in Threads |->
           IF \E q \in reads : q.txn = u THEN m._latest_row
           ELSE IF \E q \in pre : q.txn = u THEN PrewriteRow(m) ELSE cur_row[u]]
      /\ ts_ready' = [u \in Threads |-> ts_ready[u] \/ \E q \in reads \cup pre : q.txn = u]
  BY <1>2 DEF Returning
<1>b. Buffered(t, r, c, d, reads, pre, m, cells)
  BY <1>2 DEF Returning
<1>5. /\ RowFits(m, cells, Written(r))
      /\ \A x, b : Version(mgr[r], Valid(mgr[r]), x, b) =>
           Version(m, Valid(m), x, b) \/ (pre # {} /\ Loses(m, x, get_min_ts(t)))
  <2>1. mem[r][c] = ts[t] /\ (pc[t] = "commit" => ts[t] \in Written(r))
    BY <1>3, <1>o DEF Wrote
  <2>2. pc[t] # "commit" => ts[t] \notin Written(r)
    BY <1>1, <1>o, NotWritten
  <2>3. IF pc[t] = "commit" THEN ts[t] \in Written(r) ELSE ts[t] \notin Written(r)
    BY <2>1, <2>2
  <2>5. BufferFits(t, r, m, cells, reads, pre)
    BY <2>1, <2>3, <1>3, <1>b, AfterBufferFits
  <2> QED
    BY <2>5 DEF BufferFits
<1>R. Returned(t, r, m, cells, reads, pre)
  BY <1>3, <1>b, BufferedSound
<1>m. /\ m \in RowMvcc /\ reads \cup pre \subseteq mgr[r]._requests
      /\ \A q \in reads : q.type = "R_REQ"
      /\ \A p \in pre : p.type = "P_REQ" /\ m._exists_prewrite
  BY <1>R DEF Returned
<1>n. PICK min \in Nat : min = get_min_ts(t)
  BY <1>i, MinTsType
<1>q. ASSUME NEW q \in reads \cup pre
      PROVE  /\ q.txn \in Threads /\ q.txn # t /\ pc[q.txn] = "wait"
             /\ Req(q.txn).row = r /\ q = Pending(q.txn)
  <2>1. RequestRight(q, r)
    BY <1>m, <1>3, <1>q DEF MvccInv, Requests
  <2> QED
    BY <2>1, <1>1 DEF RequestRight
<1> DEFINE Srv(u) == \E q \in reads \cup pre : q.txn = u
<1>6. ASSUME NEW u \in Threads, u # t, ~Srv(u) PROVE Pinned(D, u)'
  <2>1. HasRow(u)' => HasRow(u) /\ cur_row'[u] = cur_row[u] /\ Req(u)' = Req(u) /\ ts'[u] = ts[u]
    <3>1. ts_ready'[u] = ts_ready[u] /\ cur_row'[u] = cur_row[u]
      <4>1. ts_ready[u] \in BOOLEAN
        BY <1>i DEF TypeOK
      <4> QED
        BY <4>1, <1>4, <1>6
    <3> QED
      BY <3>1, <1>1, <1>3, <1>6 DEF HasRow, Req
  <2>2. ASSUME ts[u] \notin D, HasRow(u), Req(u).type = "RD", Req(u).row = r
        PROVE  \E x : Version(m, Valid(m), x, cur_row[u])
    <3>1. CASE pre = {}
      BY <2>2, <3>1, <1>5 DEF Pinned
    <3>2. CASE pre # {}
      <4>0. HasRow(u)' /\ Req(u)' = Req(u)
        <5>1. ts_ready[u] => ts_ready'[u]
          BY <1>4
        <5> QED
          BY <5>1, <2>2, <1>1, <1>3, <1>6 DEF HasRow, Req
      <4>d. ~(min_ts' > ts'[u]) /\ ~Crowded(r)'
        <5>1. ~Disturbed(u)'
          BY <2>2, <1>1 DEF Calm
        <5> QED
          BY <5>1, <4>0, <2>2 DEF Disturbed
      <4>1. ~(min > ts[u]) /\ ts[u] \in Nat
        BY <4>d, <3>2, <1>1, <1>3, <1>i, <1>n, Locals
      <4>2. \A x, b : Version(mgr[r], Valid(mgr[r]), x, b) => Version(m, Valid(m), x, b) \/ Loses(m, x, min)
        BY <1>5, <1>n
      <4>3. min <= ts[u]
        BY <4>1
      <4>4. ~Crowd(m)
        BY <4>d, <3>2, <1>3, <1>m DEF Crowded, Crowd
      <4> QED
        BY <2>2, <4>2, <4>3, <4>4, <1>3, <1>5, <1>m, ReaderKeeps
    <3> QED
      BY <3>1, <3>2
  <2> QED
    BY <2>1, <2>2, <1>3, PinnedAt
<1>7. ASSUME NEW u \in Threads, u # t, Srv(u) PROVE Pinned(D, u)'
  <2>1. PICK q \in reads \cup pre : q.txn = u
    BY <1>7
  <2>2. Req(u).row = r /\ q = Pending(u)
    BY <2>1, <1>q
  <2>3. Req(u)' = Req(u)
    BY <1>1, <1>3, <1>7 DEF Req
  <2>4. CASE q \in reads
    <3>1. cur_row'[u] = m._latest_row
      BY <2>1, <2>4, <1>4
    <3>2. Version(m, Valid(m), m._latest_wts, m._latest_row)
      BY <1>5 DEF RowFits
    <3>3. PICK x : Version(mgr[r], Valid(mgr[r]), x, cur_row[u])'
      BY <3>1, <3>2, <1>3 DEF Version, Valid, EntryTs
    <3> QED
      BY <3>3, <2>2, <2>3 DEF Pinned
  <2>5. CASE q \in pre
    <3>1. q.type = "P_REQ"
      BY <2>5, <1>m
    <3>2. Req(u).type # "RD"
      BY <3>1, <2>2 DEF Pending
    <3> QED
      BY <3>2, <2>3 DEF Pinned
  <2> QED
    BY <2>4, <2>5
<1>8. Pinned(D, t)'
  BY <1>1 DEF Pinned, HasRow
<1> QED
  BY <1>6, <1>7, <1>8

\* Every step keeps what the readers were served.
LEMMA NextPins ==
  ASSUME Constants, MvccInv, NEW D, OrderInv(D), MvccInv', \A u \in Threads : Pinned(D, u), [Next]_vars,
         Led(D),
         Calm(D)'
  PROVE  \A u \in Threads : Pinned(D, u)'
<1>1. CASE AllDone \/ UNCHANGED vars
  <2>1. UNCHANGED <<mgr, ts, pc, query, accesses, ts_ready, cur_row>>
    BY <1>1 DEF AllDone, vars
  <2>2. \A r \in Rows : SameBooks(mgr[r], mgr'[r])
    BY <2>1, SameBooksSelf
  <2>3. ASSUME NEW u \in Threads PROVE Pinned(D, u)'
    <3>1. HasRow(u)' => HasRow(u) /\ cur_row'[u] = cur_row[u] /\ Req(u)' = Req(u) /\ ts'[u] = ts[u]
      BY <2>1 DEF HasRow, Req
    <3> QED
      BY <3>1, <2>2, PinnedSame
  <2> QED
    BY <2>3
<1>2. ASSUME NEW t \in Threads, Step(t) PROVE \A u \in Threads : Pinned(D, u)'
  <2>1. CASE ReadServed(t)
    BY <2>1, ReadServedPins
  <2>2. CASE PrewriteServed(t)
    BY <2>2, PrewriteServedPins
  <2>3. CASE ReturnRow(t)
    BY <2>3, ReturnRowPins
  <2>4. CASE \/ \E q \in Queries : NewQuery(t, q)
             \/ AddTs(t) \/ AccessAborts(t) \/ AccessWaits(t) \/ WaitEnds(t) \/ UseRow(t)
             \/ Finish(t) \/ CleanupDone(t)
    BY <2>4, QuietStepsPin
  <2> QED
    BY <2>1, <2>2, <2>3, <2>4, <1>2 DEF Step
<1> QED
  BY <1>1, <1>2 DEF Next

\* A reader is disturbed when its search goes past the version it should find, or when,
\* before it has read the version it was served, min_ts passes it or a prewrite is
\* reserved while the history of the row has no room for another version.  Nothing else
\* disturbs it: a committed transaction that was not disturbed, as all that are not in D,
\* has read what the last transaction before it by timestamp wrote, and its version was
\* not overwritten, whatever has happened to the others.
THEOREM CalmReadsInOrder ==
  ASSUME Constants, NEW D
  PROVE  Spec /\ [](\A t \in Threads : ts[t] \notin D => ~Disturbed(t))
           => [](UpdatesInOrder /\ OrderExcept(D)
                 /\ \A t \in Threads : ts[t] \notin D => ~Overwritten(t))
<1> DEFINE C == \A t \in Threads : ts[t] \notin D => ~Disturbed(t)
           K == \A t \in Threads : ts[t] \notin D => ~Overwritten(t)
           P == \A t \in Threads : Pinned(D, t)
<1>1. Init => P /\ OrderInv(D)
  BY InitOrder DEF Init, Pinned, HasRow
<1>2. MvccInv /\ P => K
  BY PinnedIsKept
<1>3. MvccInv /\ MvccInv' /\ C /\ C' /\ P /\ OrderInv(D) /\ [Next]_vars => P'
  BY NextPins DEF Led, Calm, Disturbed
<1>4. MvccInv /\ MvccInv' /\ C /\ K' /\ OrderInv(D) /\ [Next]_vars => OrderInv(D)'
  BY NextOrder DEF Led, Kept, Disturbed
<1>5. MvccInv /\ OrderInv(D) => UpdatesInOrder /\ OrderExcept(D)
  BY OrderInvImplies
<1>6. Spec => []MvccInv
  BY MvccInvCorrect
<1> HIDE DEF C, K, P
<1>7. Spec /\ []C => [](UpdatesInOrder /\ OrderExcept(D) /\ K)
  BY <1>1, <1>2, <1>3, <1>4, <1>5, <1>6, PTL DEF Spec
<1> QED
  BY <1>7 DEF C, K

=============================================================================
