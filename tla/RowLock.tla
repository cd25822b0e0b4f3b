------------------------------ MODULE RowLock -------------------------------
(***************************************************************************)
(* The decisions of Row_lock (concurrency_control/row_lock.cpp), the lock  *)
(* each row_t carries under NO_WAIT, WAIT_DIE and DL_DETECT, as operators  *)
(* on its fields.  Both methods run entirely under the row's latch.        *)
(*                                                                         *)
(* The owner list is a set (the code only searches it and counts it), the  *)
(* waiter list a sequence of entries, its first element waiters_head.      *)
(***************************************************************************)
EXTENDS Naturals, Sequences

\* LOCK_NONE, LOCK_SH and LOCK_EX.
LockMode == {"NONE", "SH", "EX"}

\* A mutant: two exclusive locks exclude each other, but not readers.
conflict_lock_WritersOnly(l1, l2) == l1 = "EX" /\ l2 = "EX"

conflict_lock(l1, l2) ==
  /\ l1 # "NONE" /\ l2 # "NONE"
  /\ l1 = "EX" \/ l2 = "EX"

-----------------------------------------------------------------------------
(***************************************************************************)
(* lock_get                                                                *)
(***************************************************************************)

\* lock_get finds the request of t in conflict: with the mode the row is
\* locked in, in WAIT_DIE with a younger transaction at the head of the
\* waiters, in DL_DETECT with anyone who waits.
Conflict(alg, lt, w, mode, t, ts) ==
  \/ conflict_lock(lt, mode)
  \/ alg = "WAIT_DIE" /\ w # <<>> /\ ts[t] < ts[w[1].txn]
  \/ alg = "DL_DETECT" /\ w # <<>>

\* A mutant: t waits when some owner is younger, not when all are.
CanWait_AnyOwner(alg, o, t, ts) ==
  \/ alg = "DL_DETECT"
  \/ alg = "WAIT_DIE" /\ \E u \in o : ~(ts[u] < ts[t])

\* A request in conflict may wait; otherwise its transaction aborts.
CanWait(alg, o, t, ts) ==
  \/ alg = "DL_DETECT"
  \/ alg = "WAIT_DIE" /\ \A u \in o : ~(ts[u] < ts[t])

\* p is where the entry of t goes in the waiter list: at the tail, in
\* WAIT_DIE before the first waiter that is not younger than t.
WaitPosition(alg, w, t, ts, p) ==
  IF alg = "WAIT_DIE"
  THEN /\ \A i \in 1..(p - 1) : ts[t] < ts[w[i].txn]
       /\ p <= Len(w) => ~(ts[t] < ts[w[p].txn])
  ELSE p = Len(w) + 1

-----------------------------------------------------------------------------
(***************************************************************************)
(* lock_release                                                            *)
(***************************************************************************)

\* The mode of the row when the i-th waiter is considered: the mode left by
\* the owners for the first, the mode of its predecessor for the others,
\* because every promotion stores entry->type in lock_type.
ModeBefore(lt, w, i) == IF i = 1 THEN lt ELSE w[i - 1].type

\* A mutant: only an empty lock promotes, and only the head.
Promoted_HeadOnly(lt, w, n) ==
  n = IF lt = "NONE" /\ w # <<>> THEN 1 ELSE 0

\* n waiters join the owners: the head of the list as long as it is compatible.
Promoted(lt, w, n) ==
  /\ \A i \in 1..n : ~conflict_lock(ModeBefore(lt, w, i), w[i].type)
  /\ n < Len(w) => conflict_lock(ModeBefore(lt, w, n + 1), w[n + 1].type)

=============================================================================
