------------------------------ MODULE SerialDB ------------------------------
(***************************************************************************)
(* What every concurrency control algorithm of DBx1000 promises a          *)
(* transaction at ISOLATION_LEVEL SERIALIZABLE: transactions take effect   *)
(* one at a time.  A transaction that commits has read exactly the values  *)
(* the database held at the instant of its commit, and at that instant all *)
(* its writes are applied together.  A transaction that aborts is not      *)
(* visible at all.                                                         *)
(*                                                                         *)
(* The detailed modules implement this specification under a refinement    *)
(* mapping, TwoPhase (NO_WAIT, WAIT_DIE, DL_DETECT) the first of them.     *)
(***************************************************************************)
EXTENDS Naturals

CONSTANTS Workers,   \* the worker threads, one transaction at a time each
          Rows,      \* the rows of the database
          Val,       \* the values a row can hold
          InitVal    \* the value the loader stores in every row

VARIABLES db,        \* db[r]: the committed value of row r
          outcome    \* outcome[t]: what the transaction t has just committed

vars == <<db, outcome>>

\* The read set and the write set of a committed transaction, or NoOutcome.
NoOutcome == [reads |-> {}, writes |-> {}, valid |-> FALSE]
Outcome(rd, wr) == [reads |-> rd, writes |-> wr, valid |-> TRUE]

Pairs == Rows \X Val

TypeOK ==
  /\ db \in [Rows -> Val]
  /\ outcome \in [Workers -> [reads: SUBSET Pairs, writes: SUBSET Pairs, valid: BOOLEAN]]

Init ==
  /\ db = [r \in Rows |-> InitVal]
  /\ outcome = [t \in Workers |-> NoOutcome]

\* The transaction of t, which read the rows R and wrote the rows W, commits:
\* what it read is what the database holds, what it wrote is what the database
\* holds from now on, and nothing else changes.  (The second conjunct follows
\* from the others; it tells TLC early which steps are no commits.)
Commit(t) ==
  /\ ~outcome[t].valid
  /\ outcome'[t].valid
  /\ db' \in [Rows -> Val]
  /\ \E R, W \in SUBSET Rows :
       /\ outcome' = [outcome EXCEPT ![t] =
                        Outcome({<<r, db[r]>> : r \in R}, {<<r, db'[r]>> : r \in W})]
       /\ \A r \in Rows \ W : db'[r] = db[r]

\* The worker t moves on; the effects of its transaction are there already.
Retire(t) ==
  /\ outcome[t].valid
  /\ outcome' = [outcome EXCEPT ![t] = NoOutcome]
  /\ UNCHANGED db

Next == \E t \in Workers : Commit(t) \/ Retire(t)

Spec == Init /\ [][Next]_vars

=============================================================================
