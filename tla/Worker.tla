------------------------------- MODULE Worker -------------------------------
(***************************************************************************)
(* What the worker threads (thread_t) of every build have in common: one   *)
(* transaction at a time each, and timestamps from one counter.            *)
(***************************************************************************)
EXTENDS Integers

CONSTANTS Threads,   \* the worker threads, each with one txn_man
          NoTxn,     \* no transaction: a NULL owner, a latch that is free
          MaxTxns    \* BOUND on the transactions all threads run

VARIABLES
  timestamp,   \* the counter behind Manager::get_ts
  pc           \* where each thread is

Goto(t, where) == pc' = [pc EXCEPT ![t] = where]

=============================================================================
