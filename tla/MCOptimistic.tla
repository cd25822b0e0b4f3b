---------------------------- MODULE MCOptimistic ----------------------------
(***************************************************************************)
(* The optimistic builds of DBx1000, TICTOC and SILO, for TLC.             *)
(*                                                                         *)
(* CC_ALG is chosen when the program is built, here in MCInit.  Both       *)
(* builds have the same parameters (config) and start their transactions   *)
(* in the same way (started).  The other variables of TicToc, which this   *)
(* module extends, are not touched in the build for SILO, and those of     *)
(* Silo are NotBuilt in the one for TICTOC.                                *)
(***************************************************************************)
EXTENDS MCTicToc

CONSTANTS Val, InitVal, MAX_ROW_PER_TXN, NotBuilt

VARIABLES build, silo_data, tid, locked, silo_pc, req, silo_v, silo_copy, silo_accesses,
  cur_tid, silo_write_set, silo_num_locks, silo_idx, silo_spins, order, base

siloVars == <<silo_data, tid, locked, silo_pc, req, silo_v, silo_copy, silo_accesses,
              cur_tid, silo_write_set, silo_num_locks, silo_idx, silo_spins, order, base>>
\* What TicToc does not share with Silo.
onlyTicTocVars == <<word, data, pc, txn, query, v, copy, accesses, write_set, commit_wts,
                    num_locks, idx, spins, hist>>
allVars == <<build, config, started, onlyTicTocVars, siloVars>>

Silo == INSTANCE Silo WITH
  data <- silo_data, pc <- silo_pc, v <- silo_v, copy <- silo_copy, accesses <- silo_accesses,
  write_set <- silo_write_set, num_locks <- silo_num_locks, idx <- silo_idx, spins <- silo_spins

NoSilo ==
  /\ silo_data = NotBuilt /\ tid = NotBuilt /\ locked = NotBuilt /\ silo_pc = NotBuilt
  /\ req = NotBuilt /\ silo_v = NotBuilt /\ silo_copy = NotBuilt /\ silo_accesses = NotBuilt
  /\ cur_tid = NotBuilt /\ silo_write_set = NotBuilt /\ silo_num_locks = NotBuilt
  /\ silo_idx = NotBuilt /\ silo_spins = NotBuilt /\ order = NotBuilt /\ base = NotBuilt

MCInit ==
  /\ Init
  /\ \/ build = "TICTOC" /\ NoSilo
     \/ build = "SILO" /\ Silo!Init /\ word \in Loaded

Thread(t) ==
  \/ build = "TICTOC" /\ Step(t) /\ UNCHANGED <<build, siloVars>>
  \/ build = "SILO" /\ Silo!Step(t) /\ UNCHANGED <<build, onlyTicTocVars>>

Running == IF build = "SILO" THEN silo_pc ELSE pc
AllEnded == started = MaxTxns /\ \A t \in Threads : Running[t] = "idle"

MCNext == (AllEnded /\ UNCHANGED allVars) \/ \E t \in Threads : Thread(t)

\* The operating system keeps scheduling every thread, as in each FairSpec.
MCFairSpec == MCInit /\ [][MCNext]_allVars /\ \A t \in Threads : WF_allVars(Thread(t))

-----------------------------------------------------------------------------
(***************************************************************************)
(* Properties, besides those of TicToc                                     *)
(***************************************************************************)

\* SILO: the type invariant, with the bound on the rounds of bounded spinning.
SiloTypeOK == build = "SILO" => Silo!TypeOK

\* SILO: with pre_abort and bounded spinning, which leave validate_silo early, as
\* without them, the transactions that commit are equivalent to a serial execution of
\* the same transactions in the order in which they were validated.
SiloSerializable == build = "SILO" => Silo!Serializable

\* Every transaction ends, committed or aborted: no thread keeps releasing and
\* retrying its locks for ever, because write sets are locked in the order of the
\* keys, and no lock bit stays behind on which the others would wait.
EveryTxnEnds == <>AllEnded

=============================================================================
