------------------------------ MODULE MCTicToc ------------------------------
(***************************************************************************)
(* TicToc for TLC.                                                         *)
(***************************************************************************)
EXTENDS TicToc, TLC

Symmetry == Permutations(Threads)

\* All queries of two different rows.
AllQueries ==
  {q \in {<<a, b>> : a, b \in Request} : q[1].row # q[2].row}

\* Rows as the loader leaves them.
Loaded == {[r \in Rows |-> NoWord]}

\* Also rows that have been written and read before: a younger and an older
\* version, a lease that fills a delta of one bit.
Used ==
  LET w(wts, delta) == [wts |-> wts, delta |-> delta, lock |-> FALSE] IN
  Loaded \cup {<<w(1, 0), w(2, 1)>>, <<w(3, 1), w(0, 0)>>}

\* "no-wait" with every option that ends an attempt early, and with none.
Options ==
  {[no_wait |-> TRUE, pre_abort |-> TRUE, bounded |-> TRUE],
   [no_wait |-> TRUE, pre_abort |-> FALSE, bounded |-> FALSE]}

Plain == {[no_wait |-> TRUE, pre_abort |-> FALSE, bounded |-> FALSE]}

\* Two rows of which the second is the younger, and three transactions: one reads
\* both rows, and two read one and write the other.
OlderYounger ==
  LET w(wts, delta) == [wts |-> wts, delta |-> delta, lock |-> FALSE] IN
  {<<w(2, 0), w(3, 1)>>}
ThreeQueries ==
  LET rd(r) == [row |-> r, type |-> "RD"]
      wr(r) == [row |-> r, type |-> "WR"]
  IN  {<<rd(1), rd(2)>>, <<rd(1), wr(2)>>, <<rd(2), wr(1)>>}

=============================================================================
