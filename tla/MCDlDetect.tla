----------------------------- MODULE MCDlDetect -----------------------------
(***************************************************************************)
(* DlDetect for TLC, with the same query for a thread each time: the first *)
(* two lock two rows in opposite orders, one of them to find no room for   *)
(* a third row, and the last thread wants one of the rows.                 *)
(***************************************************************************)
EXTENDS DlDetect

CONSTANTS r1, r2

Query == [t \in Threads |-> CASE t = 0 -> <<r1, r2>>
                              [] t = 1 -> <<r2, r1, r2>>
                              [] OTHER -> <<r1>>]

\* A transaction asks for the rows of its query in their order; then it commits.
FollowsQuery(t) ==
  pc[t] = "run" =>
    LET n == Len(accesses[t]) IN
    IF n < Len(Query[t])
    THEN IF pc'[t] = "cleanup" THEN rc'[t] = "Abort" ELSE req'[t].row = Query[t][n + 1]
    ELSE pc'[t] = "cleanup" /\ rc'[t] = "RCOK"

MCNext == \E t \in Threads : DlStep(t) /\ FollowsQuery(t)

MCFairSpec == DlInit /\ [][MCNext]_<<vars, dlVars>> /\ DlFairness

=============================================================================
