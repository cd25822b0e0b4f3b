--------------------------- MODULE SequenceLemmas ---------------------------
(***************************************************************************)
(* What the list operations of the models do, element by element: the      *)
(* facts about InsertAt, RemoveAt and the tail of a sequence that the      *)
(* proofs about lock tables use.  What the largest and the least number of *)
(* a set are, and the orders of a set, for the proofs about validation.    *)
(***************************************************************************)
EXTENDS Integers, SequencesExt, SequenceTheorems, FiniteSetTheorems, WellFoundedInduction, TLAPS

\* InsertAt makes room for e at position p and shifts the elements behind it:
\* what Row_lock::lock_get does to the waiter list.
LEMMA InsertAtProperties ==
  ASSUME NEW S, NEW s \in Seq(S), NEW p \in 1..(Len(s) + 1), NEW e \in S
  PROVE  /\ InsertAt(s, p, e) \in Seq(S)
         /\ Len(InsertAt(s, p, e)) = Len(s) + 1
         /\ \A i \in 1..(Len(s) + 1) :
              InsertAt(s, p, e)[i] = IF i < p THEN s[i] ELSE IF i = p THEN e ELSE s[i - 1]
<1> DEFINE a == SubSeq(s, 1, p - 1)
           b == SubSeq(s, p, Len(s))
<1>1. a \in Seq(S) /\ Len(a) = p - 1 /\ \A i \in 1..(p - 1) : a[i] = s[i]
  BY SubSeqProperties, Z3
<1>2. b \in Seq(S) /\ Len(b) = Len(s) - p + 1 /\ \A i \in 1..(Len(s) - p + 1) : b[i] = s[p + i - 1]
  BY SubSeqProperties, Z3
<1> DEFINE c == Append(a, e)
<1>4. InsertAt(s, p, e) = c \o b
  BY <1>1, AppendIsConcat DEF InsertAt
<1> HIDE DEF a, b
<1>3. c \in Seq(S) /\ Len(c) = p /\ c[p] = e /\ \A i \in 1..(p - 1) : c[i] = s[i]
  BY <1>1, AppendProperties
<1> HIDE DEF c
<1>5. /\ c \o b \in Seq(S)
      /\ Len(c \o b) = Len(c) + Len(b)
      /\ \A i \in 1..(Len(c) + Len(b)) :
           (c \o b)[i] = IF i <= Len(c) THEN c[i] ELSE b[i - Len(c)]
  BY <1>2, <1>3, ConcatProperties
<1>6. ASSUME NEW i \in 1..(Len(s) + 1)
      PROVE  (c \o b)[i] = IF i < p THEN s[i] ELSE IF i = p THEN e ELSE s[i - 1]
  <2>1. CASE i < p
    BY <1>2, <1>3, <1>5, <2>1
  <2>2. CASE i = p
    BY <1>2, <1>3, <1>5, <2>2
  <2>3. CASE i > p
    <3>1. (c \o b)[i] = b[i - p]
      BY <1>2, <1>3, <1>5, <2>3
    <3>2. b[i - p] = s[p + (i - p) - 1]
      BY <1>2, <2>3
    <3> QED
      BY <3>1, <3>2, <2>3
  <2>4. i \in Int /\ p \in Int
    BY LenProperties
  <2> QED
    BY <1>2, <1>3, <1>5, <2>1, <2>2, <2>3, <2>4
<1> QED
  BY <1>2, <1>3, <1>4, <1>5, <1>6

\* Element by element:
LEMMA InsertAtElement ==
  ASSUME NEW S, NEW s \in Seq(S), NEW p \in 1..(Len(s) + 1), NEW e \in S,
         NEW k \in 1..(Len(s) + 1)
  PROVE  InsertAt(s, p, e)[k] = IF k < p THEN s[k] ELSE IF k = p THEN e ELSE s[k - 1]
BY InsertAtProperties, SMTT(30)

\* InsertAt adds one element,
LEMMA InsertAtLen ==
  ASSUME NEW S, NEW s \in Seq(S), NEW p \in 1..(Len(s) + 1), NEW e \in S
  PROVE  Len(InsertAt(s, p, e)) = Len(s) + 1
BY InsertAtProperties

\* e, at position p;
LEMMA InsertAtNew ==
  ASSUME NEW S, NEW s \in Seq(S), NEW p \in 1..(Len(s) + 1), NEW e \in S
  PROVE  InsertAt(s, p, e)[p] = e
<1> DEFINE v == InsertAt(s, p, e)
<1>1. \A i \in 1..(Len(s) + 1) : v[i] = IF i < p THEN s[i] ELSE IF i = p THEN e ELSE s[i - 1]
  BY InsertAtProperties
<1> HIDE DEF v
<1>2. v[p] = e
  BY <1>1, LenProperties
<1> QED
  BY <1>2 DEF v

\* it keeps the elements of s,
LEMMA InsertAtOld ==
  ASSUME NEW S, NEW s \in Seq(S), NEW p \in 1..(Len(s) + 1), NEW e \in S,
         NEW i \in 1..Len(s)
  PROVE  InsertAt(s, p, e)[IF i < p THEN i ELSE i + 1] = s[i]
<1> DEFINE v == InsertAt(s, p, e)
<1>5. \A k \in 1..(Len(s) + 1) : v[k] = IF k < p THEN s[k] ELSE IF k = p THEN e ELSE s[k - 1]
  BY InsertAtElement
<1> HIDE DEF v
<1> DEFINE n == Len(s)
<1>1. \A k \in 1..(n + 1) : v[k] = IF k < p THEN s[k] ELSE IF k = p THEN e ELSE s[k - 1]
  BY <1>5
<1>2. n \in Nat /\ p \in 1..(n + 1) /\ i \in 1..n
  BY LenProperties
<1> HIDE DEF n
<1>3. CASE i < p
  BY <1>1, <1>2, <1>3 DEF v
<1>4. CASE i >= p
  <2>1. v[i + 1] = s[i]
    BY <1>1, <1>2, <1>4
  <2> QED
    BY <2>1, <1>2, <1>4 DEF v
<1> QED
  BY <1>2, <1>3, <1>4

\* and it adds no other.
LEMMA InsertAtOther ==
  ASSUME NEW S, NEW s \in Seq(S), NEW p \in 1..(Len(s) + 1), NEW e \in S,
         NEW j \in 1..(Len(s) + 1), j # p
  PROVE  \E i \in 1..Len(s) : /\ InsertAt(s, p, e)[j] = s[i]
                              /\ (j < p /\ i = j) \/ (j > p /\ i = j - 1)
<1> DEFINE v == InsertAt(s, p, e)
<1>6. \A k \in 1..(Len(s) + 1) : v[k] = IF k < p THEN s[k] ELSE IF k = p THEN e ELSE s[k - 1]
  BY InsertAtElement
<1> HIDE DEF v
<1> DEFINE n == Len(s)
<1>1. v[j] = IF j < p THEN s[j] ELSE IF j = p THEN e ELSE s[j - 1]
  BY <1>6
<1>2. n \in Nat /\ p \in 1..(n + 1) /\ j \in 1..(n + 1)
  BY LenProperties
<1> HIDE DEF n
<1>3. CASE j < p
  <2>1. v[j] = s[j] /\ j \in 1..n
    BY <1>1, <1>2, <1>3
  <2> QED
    BY <2>1, <1>3 DEF v, n
<1>4. CASE j > p
  <2>1. v[j] = s[j - 1] /\ j - 1 \in 1..n
    BY <1>1, <1>2, <1>4
  <2> QED
    BY <2>1, <1>4 DEF v, n
<1>5. j < p \/ j > p
  <2>1. j \in Int /\ p \in Int
    BY <1>2
  <2> QED
    BY <2>1
<1> QED
  BY <1>3, <1>4, <1>5

\* RemoveAt closes the gap an element leaves, as LIST_REMOVE does when
\* Row_lock::lock_release takes a transaction off the waiter list.
LEMMA RemoveAtProperties ==
  ASSUME NEW S, NEW s \in Seq(S), NEW k \in 1..Len(s)
  PROVE  /\ RemoveAt(s, k) \in Seq(S)
         /\ Len(RemoveAt(s, k)) = Len(s) - 1
         /\ \A i \in 1..(Len(s) - 1) :
              RemoveAt(s, k)[i] = IF i < k THEN s[i] ELSE s[i + 1]
<1> DEFINE a == SubSeq(s, 1, k - 1)
           b == SubSeq(s, k + 1, Len(s))
<1>1. a \in Seq(S) /\ Len(a) = k - 1 /\ \A i \in 1..(k - 1) : a[i] = s[i]
  BY SubSeqProperties, Z3
<1>2. b \in Seq(S) /\ Len(b) = Len(s) - k /\ \A i \in 1..(Len(s) - k) : b[i] = s[k + i]
  BY SubSeqProperties, Z3
<1>3. RemoveAt(s, k) = a \o b
  BY DEF RemoveAt
<1> HIDE DEF a, b
<1>4. /\ a \o b \in Seq(S)
      /\ Len(a \o b) = Len(a) + Len(b)
      /\ \A i \in 1..(Len(a) + Len(b)) :
           (a \o b)[i] = IF i <= Len(a) THEN a[i] ELSE b[i - Len(a)]
  BY <1>1, <1>2, ConcatProperties
<1>5. ASSUME NEW i \in 1..(Len(s) - 1)
      PROVE  (a \o b)[i] = IF i < k THEN s[i] ELSE s[i + 1]
  <2>1. CASE i < k
    BY <1>1, <1>2, <1>4, <2>1
  <2>2. CASE i >= k
    <3>1. (a \o b)[i] = b[i - (k - 1)]
      BY <1>1, <1>2, <1>4, <2>2
    <3>2. b[i - (k - 1)] = s[k + (i - (k - 1))]
      BY <1>2, <2>2
    <3> QED
      BY <3>1, <3>2, <2>2
  <2>3. i \in Int /\ k \in Int
    BY LenProperties
  <2> QED
    BY <1>1, <1>2, <1>4, <2>1, <2>2, <2>3
<1> QED
  BY <1>1, <1>2, <1>3, <1>4, <1>5

\* What is left of a list when its first n elements are taken off, as the
\* promotion loop of Row_lock::lock_release does with LIST_GET_HEAD.
LEMMA DropProperties ==
  ASSUME NEW S, NEW s \in Seq(S), NEW n \in 0..Len(s)
  PROVE  /\ SubSeq(s, n + 1, Len(s)) \in Seq(S)
         /\ Len(SubSeq(s, n + 1, Len(s))) = Len(s) - n
         /\ \A i \in 1..(Len(s) - n) : SubSeq(s, n + 1, Len(s))[i] = s[n + i]
  OBVIOUS

-----------------------------------------------------------------------------
(***************************************************************************)
(* Sets of natural numbers: tids, timestamps, positions                    *)
(***************************************************************************)

\* A set of natural numbers has a least element.
LEMMA LeastNat ==
  ASSUME NEW T, T \subseteq Nat, T # {}
  PROVE  \E x \in T : \A y \in T : x <= y
<1> DEFINE R == OpToRel(<, Nat)
<1>1. IsWellFoundedOn(R, Nat)
  BY NatLessThanWellFounded
<1>2. \A x, y \in Nat : x < y => <<x, y>> \in R
  BY DEF OpToRel
<1> HIDE DEF R
<1>3. PICK x \in T : \A y \in T : ~(<<y, x>> \in R)
  BY <1>1, WFMin
<1>4. \A y \in T : ~(y < x)
  BY <1>2, <1>3, Zenon
<1> QED
  BY <1>4

\* The first k numbers of f are bounded.
Bounded(f, k) == \E n \in Nat : \A i \in 1..k : f[i] <= n

LEMMA BoundedUpTo ==
  ASSUME NEW L \in Nat, NEW f \in [1..L -> Nat]
  PROVE  Bounded(f, L)
<1> DEFINE T == {k \in 0..L : ~Bounded(f, k)}
<1>1. SUFFICES ASSUME T # {} PROVE FALSE
  OBVIOUS
<1>2. PICK k \in T : \A j \in T : k <= j
  <2>1. T \subseteq Nat
    OBVIOUS
  <2> HIDE DEF T
  <2> QED
    BY <1>1, <2>1, LeastNat
<1>3. k \in 0..L /\ ~Bounded(f, k)
  OBVIOUS
<1>4. k # 0
  BY <1>3 DEF Bounded
<1>5. k - 1 \in 0..L /\ ~(k <= k - 1)
  BY <1>3, <1>4
<1>6. Bounded(f, k - 1)
  BY <1>2, <1>5
<1>7. PICK n \in Nat : \A i \in 1..(k - 1) : f[i] <= n
  BY <1>6 DEF Bounded
<1>8. k \in 1..L /\ f[k] \in Nat
  BY <1>3, <1>4
<1> DEFINE m == n + f[k]
<1>9. ASSUME NEW i \in 1..k PROVE f[i] <= m
  <2>1. CASE i = k
    BY <1>8, <2>1
  <2>2. CASE i # k
    <3>1. i \in 1..(k - 1) /\ i \in 1..L
      BY <1>8, <2>2
    <3>2. f[i] <= n /\ f[i] \in Nat
      BY <1>7, <3>1
    <3> QED
      BY <1>8, <3>2
  <2> QED
    BY <2>1, <2>2
<1>10. m \in Nat
  BY <1>8
<1> QED
  BY <1>3, <1>9, <1>10 DEF Bounded

\* A finite set of natural numbers is bounded,
LEMMA FiniteIsBounded ==
  ASSUME NEW S, S \subseteq Nat, IsFiniteSet(S)
  PROVE  \E n \in Nat : \A x \in S : x <= n
<1>1. PICK L \in Nat : ExistsSurjection(1..L, S)
  BY FS_NatSurjection
<1>2. PICK f \in [1..L -> S] : \A x \in S : \E i \in 1..L : f[i] = x
  BY <1>1 DEF ExistsSurjection, Surjection
<1>3. f \in [1..L -> Nat]
  BY <1>2
<1>4. PICK n \in Nat : \A i \in 1..L : f[i] <= n
  BY <1>3, BoundedUpTo DEF Bounded
<1> QED
  BY <1>2, <1>4

\* so that Max is its largest element.
LEMMA MaxProperties ==
  ASSUME NEW S, S \subseteq Nat, S # {}, IsFiniteSet(S)
  PROVE  Max(S) \in S /\ Max(S) \in Nat /\ \A x \in S : x <= Max(S)
<1> DEFINE U == {n \in Nat : \A x \in S : x <= n}
<1>1. U # {} /\ U \subseteq Nat
  BY FiniteIsBounded
<1>2. PICK m \in U : \A n \in U : m <= n
  BY <1>1, LeastNat
<1>3. m \in Nat /\ \A x \in S : x <= m
  BY <1>2
<1>4. m \in S
  <2> SUFFICES ASSUME m \notin S PROVE FALSE
    OBVIOUS
  <2>1. PICK y \in S : TRUE
    OBVIOUS
  <2>2. m > 0 /\ m - 1 \in Nat
    BY <1>3, <2>1
  <2>3. \A x \in S : x <= m - 1
    BY <1>3, <2>2
  <2>4. m - 1 \in U
    BY <2>2, <2>3
  <2> HIDE DEF U
  <2>5. m <= m - 1
    BY <1>2, <2>4
  <2> QED
    BY <1>3, <2>5
<1>5. \E x \in S : \A y \in S : x >= y
  BY <1>3, <1>4
<1>6. Max(S) \in S /\ \A y \in S : Max(S) >= y
  BY <1>5 DEF Max
<1> QED
  BY <1>6

\* What a function takes its values from is finite when its domain is.
LEMMA RangeFinite ==
  ASSUME NEW S, IsFiniteSet(S), NEW f, DOMAIN f = S
  PROVE  IsFiniteSet({f[x] : x \in S})
<1> DEFINE T == {f[x] : x \in S}
           g == [x \in S |-> f[x]]
<1>1. g \in Surjection(S, T)
  BY DEF Surjection
<1> HIDE DEF T, g
<1>2. IsFiniteSet(T)
  BY <1>1, FS_Surjection
<1> QED
  BY <1>2 DEF T

\* A set of positions is finite.
LEMMA PositionsFinite ==
  ASSUME NEW n \in Nat, NEW P, P \subseteq 1..n
  PROVE  IsFiniteSet(P) /\ P \in SUBSET Nat
<1>1. IsFiniteSet(1..n)
  BY FS_Interval
<1>2. IsFiniteSet(P)
  BY <1>1, FS_Subset
<1> QED
  BY <1>2

\* SetToSeqs(P) has the sequences that name every element of P once: the orders in
\* which a validation may visit the writes among the accesses.
LEMMA SetToSeqsProperties ==
  ASSUME NEW P, P \in SUBSET Nat, IsFiniteSet(P), NEW ws \in SetToSeqs(P)
  PROVE  /\ ws \in Seq(Nat) /\ Len(ws) \in Nat
         /\ \A k \in 1..Len(ws) : ws[k] \in P
         /\ \A j, k \in 1..Len(ws) : ws[j] = ws[k] => j = k
         /\ \A p \in P : \E k \in 1..Len(ws) : ws[k] = p
<1>3. Cardinality(P) \in Nat
  BY FS_CardinalityType
<1> DEFINE D == 1..Cardinality(P)
<1>4. ws \in [D -> P] /\ \A i, j \in D : i # j => ws[i] # ws[j]
  BY DEF SetToSeqs
<1>5. ws \in [D -> Nat]
  <2> HIDE DEF D
  <2> QED
    BY <1>4
<1>6. ws \in Seq(Nat) /\ Len(ws) = Cardinality(P)
  BY <1>3, <1>5
<1>7. ws \in Surjection(D, P)
  <2>1. ws \in Injection(D, P)
    BY <1>4, Zenon DEF Injection, IsInjective
  <2>2. Cardinality(D) = Cardinality(P)
    BY <1>3, FS_Interval
  <2> HIDE DEF D
  <2> QED
    BY <2>1, <2>2, FS_Injection
<1>8. \A p \in P : \E k \in D : ws[k] = p
  BY <1>7 DEF Surjection
<1> QED
  BY <1>3, <1>4, <1>6, <1>8

=============================================================================
