------------------------------- MODULE MCMVCC -------------------------------
(***************************************************************************)
(* MVCC for TLC: transactions that read or write one row.                  *)
(***************************************************************************)
EXTENDS MVCC

ReadOrWrite == {<<[row |-> 1, type |-> "RD"]>>, <<[row |-> 1, type |-> "WR"]>>}

=============================================================================
