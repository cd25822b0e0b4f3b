------------------------------- MODULE MCSilo -------------------------------
(***************************************************************************)
(* Silo for TLC.  The configurations MCSilo_*.cfg choose the threads, the  *)
(* rows and the parameters of the run.                                     *)
(***************************************************************************)
EXTENDS Silo, TLC

Symmetry == Permutations(Threads)

\* The default locking with pre_abort and without a bound on spinning: transactions
\* that others have overtaken after pre_abort looked lock, fail and retry.
PreAborting == {[no_wait |-> TRUE, pre_abort |-> TRUE, bounded |-> FALSE]}

\* validation_lock = "waiting".
Waiting == {[no_wait |-> FALSE, pre_abort |-> TRUE, bounded |-> FALSE]}

\* Bounded spinning without pre_abort.
BoundedOnly == {[no_wait |-> TRUE, pre_abort |-> FALSE, bounded |-> TRUE]}

=============================================================================
