----------------------------- MODULE MCTwoPhase -----------------------------
(***************************************************************************)
(* TwoPhase for TLC.  The configurations MCTwoPhase_*.cfg choose the       *)
(* algorithms, the threads, the rows and the bounds; rows are model        *)
(* values, threads are numbers because their timestamps are made of them.  *)
(***************************************************************************)
EXTENDS TwoPhase

=============================================================================
