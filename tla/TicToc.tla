------------------------------- MODULE TicToc -------------------------------
(***************************************************************************)
(* The optimistic algorithm TICTOC of DBx1000, with ATOMIC_WORD: the word  *)
(* of a row holds the timestamp its version was written at (wts), how far  *)
(* beyond it the version has been read (delta; wts + delta is the rts, the *)
(* end of the lease) and a lock bit.                                       *)
(*                                                                         *)
(*   Row_tictoc::access         copies a row without locking it;           *)
(*   txn_man::validate_tictoc   locks the rows it writes, computes a       *)
(*                              commit timestamp after all leases of these *)
(*                              rows, extends the leases of the rows it    *)
(*                              has read up to it, and writes.             *)
(*                                                                         *)
(* A step is one access to shared memory, or to rows that nobody else can  *)
(* change.  Every transaction writes its own number into both words of the *)
(* rows it writes, so that a version is known by its writer and a torn     *)
(* copy by two different words.  Writing a row takes two steps and copying *)
(* it one: a copy that overlaps with the write is torn, whichever of the   *)
(* two is interrupted.  Memory is sequentially consistent.                 *)
(***************************************************************************)
EXTENDS Naturals, SequencesExt

CONSTANTS Threads,     \* the worker threads
          Rows,        \* the primary keys of the rows
          Queries,     \* the queries considered: sequences of Request
          Configs,     \* the parameters considered, see Config
          InitWords,   \* the words of the rows at the start, functions on Rows
          RTS_LEN,     \* bits of delta (15 in the code)
          SpinRounds,  \* rounds after which bounded_backoff_function gives up
          MaxTxns      \* BOUND on the transactions all threads run

\* validation_lock = "no-wait", pre_abort, and the macro BOUNDED_SPINNING.
Config == [no_wait: BOOLEAN, pre_abort: BOOLEAN, bounded: BOOLEAN]
Request == [row: Rows, type: {"RD", "WR"}]

RTS_SIZE == 2 ^ RTS_LEN
Word == [wts: Nat, delta: 0..(RTS_SIZE - 1), lock: BOOLEAN]
rts(w) == w.wts + w.delta

\* ycsb_query_t::gen_requests names no row twice.
ASSUME TicTocAssumption ==
  /\ Rows \subseteq Nat
  /\ Configs \subseteq Config
  /\ RTS_LEN \in Nat /\ RTS_SIZE \in Nat \ {0} /\ SpinRounds \in Nat /\ MaxTxns \in Nat
  /\ \A q \in Queries : /\ q \in Seq(Request)
                        /\ \A i, j \in 1..Len(q) : q[i].row = q[j].row => i = j
  /\ InitWords \subseteq [Rows -> [wts: Nat, delta: 0..(RTS_SIZE - 1), lock: {FALSE}]]

VARIABLES
  config,       \* the parameters of this run
  word,         \* _ts_word of each row
  data,         \* the two words of data of each row
  pc,           \* where each thread is
  started,      \* how many transactions have been started
  txn,          \* the number of the transaction a thread runs
  query,        \* its requests
  v,            \* the word access, try_lock or try_renew has loaded
  copy,         \* what access has copied
  accesses,     \* txn_man::accesses
  write_set,    \* the indexes of the writes in accesses, in locking order
  commit_wts,   \* the commit timestamp
  num_locks,    \* the local variable of validate_tictoc
  idx,          \* how far the current loop of validate_tictoc has come
  spins,        \* how often bounded_backoff_function has been called
  hist          \* history: the committed transactions, as they were decided

rowVars == <<word, data>>
queryVars == <<config, started, txn, query>>
accessVars == <<v, copy, accesses>>
validateVars == <<write_set, commit_wts, num_locks, idx, spins>>
vars == <<config, word, data, pc, started, txn, query, v, copy, accesses, write_set,
          commit_wts, num_locks, idx, spins, hist>>

-----------------------------------------------------------------------------
Txn == 0..MaxTxns        \* 0 is the loader
Words == Txn \X Txn
Access == [row: Rows, type: {"RD", "WR"}, wts: Nat, rts: Nat, data: Words]
Entry == [txn: Txn, ts: Nat, reads: SUBSET (Rows \X Txn), writes: SUBSET Rows]

NoWord == [wts |-> 0, delta |-> 0, lock |-> FALSE]
NoCopy == <<0, 0>>

PC == {"idle", "exec", "copy", "reload", "pre", "lock", "cas", "unlock", "again",
       "renew", "renewcas", "stamp", "write1", "write2", "release", "abort"}

TypeOK ==
  /\ config \in Configs
  /\ word \in [Rows -> Word]
  /\ data \in [Rows -> Words]
  /\ pc \in [Threads -> PC]
  /\ started \in Txn
  /\ txn \in [Threads -> Txn]
  /\ query \in [Threads -> Queries \cup {<<>>}]
  /\ v \in [Threads -> Word]
  /\ copy \in [Threads -> Words]
  /\ accesses \in [Threads -> Seq(Access)]
  /\ write_set \in [Threads -> Seq(Nat)]
  /\ commit_wts \in [Threads -> Nat]
  /\ num_locks \in [Threads -> Nat]
  /\ idx \in [Threads -> Nat]
  /\ spins \in [Threads -> 0..SpinRounds]
  /\ hist \in Seq(Entry)

\* Row_tictoc::init leaves 0 in the word; other start words stand for rows that
\* transactions have already read and written.
Init ==
  /\ config \in Configs
  /\ word \in InitWords
  /\ data = [r \in Rows |-> NoCopy]
  /\ pc = [t \in Threads |-> "idle"]
  /\ started = 0
  /\ txn = [t \in Threads |-> 0]
  /\ query = [t \in Threads |-> <<>>]
  /\ v = [t \in Threads |-> NoWord]
  /\ copy = [t \in Threads |-> NoCopy]
  /\ accesses = [t \in Threads |-> <<>>]
  /\ write_set = [t \in Threads |-> <<>>]
  /\ commit_wts = [t \in Threads |-> 0]
  /\ num_locks = [t \in Threads |-> 0]
  /\ idx = [t \in Threads |-> 0]
  /\ spins = [t \in Threads |-> 0]
  /\ hist = <<>>

Goto(t, where) == pc' = [pc EXCEPT ![t] = where]

-----------------------------------------------------------------------------
(***************************************************************************)
(* thread_t::run, txn_man::get_row and Row_tictoc::access                  *)
(***************************************************************************)

\* thread_t::run starts a query, new or retried.
NewQuery(t, q) ==
  /\ pc[t] = "idle"
  /\ started < MaxTxns
  /\ started' = started + 1
  /\ txn' = [txn EXCEPT ![t] = started + 1]
  /\ query' = [query EXCEPT ![t] = q]
  /\ Goto(t, "exec")
  /\ UNCHANGED <<config, rowVars, accessVars, validateVars, hist>>

\* Every query has been run.
AllDone ==
  /\ started = MaxTxns /\ \A t \in Threads : pc[t] = "idle"
  /\ UNCHANGED vars

\* The request get_row is called with.
Req(t) == query[t][Len(accesses[t]) + 1]

\* A mutant: access does not wait for the lock bit.
LoadWord_Locked(t) ==
  /\ pc[t] = "exec"
  /\ Len(accesses[t]) < Len(query[t])
  /\ v' = [v EXCEPT ![t] = word[Req(t).row]]
  /\ Goto(t, "copy")
  /\ UNCHANGED <<queryVars, rowVars, copy, accesses, validateVars, hist>>

\* access finds the word unlocked; otherwise it spins.
LoadWord(t) ==
  /\ pc[t] = "exec"
  /\ Len(accesses[t]) < Len(query[t])
  /\ ~word[Req(t).row].lock
  /\ v' = [v EXCEPT ![t] = word[Req(t).row]]
  /\ Goto(t, "copy")
  /\ UNCHANGED <<queryVars, rowVars, copy, accesses, validateVars, hist>>

CopyRow(t) ==
  /\ pc[t] = "copy"
  /\ copy' = [copy EXCEPT ![t] = data[Req(t).row]]
  /\ Goto(t, "reload")
  /\ UNCHANGED <<queryVars, rowVars, v, accesses, validateVars, hist>>

\* The word is the same as before the copy, up to its lease.
SameWord(t, w) == w.wts = v[t].wts /\ w.lock = v[t].lock

\* The copy is good and recorded with the timestamps of the word loaded first, or
\* it is made again.
ReloadWord(t) ==
  /\ pc[t] = "reload"
  /\ IF SameWord(t, word[Req(t).row])
     THEN /\ accesses' = [accesses EXCEPT ![t] = Append(@,
               [row |-> Req(t).row, type |-> Req(t).type,
                wts |-> v[t].wts, rts |-> rts(v[t]), data |-> copy[t]])]
     ELSE UNCHANGED accesses
  /\ v' = [v EXCEPT ![t] = NoWord]
  /\ copy' = [copy EXCEPT ![t] = NoCopy]
  /\ Goto(t, "exec")
  /\ UNCHANGED <<queryVars, rowVars, validateVars, hist>>

-----------------------------------------------------------------------------
(***************************************************************************)
(* txn_man::validate_tictoc: the commit timestamp and the locks            *)
(***************************************************************************)
OfType(t, type) == {i \in DOMAIN accesses[t] : accesses[t][i].type = type}
read_set(t) == SetToSortSeq(OfType(t, "RD"), LAMBDA i, j : i < j)
Acc(t, k) == accesses[t][write_set[t][k]]

\* A mutant: the write set is locked in the order of access, unsorted.
LockOrder_Unsorted(t, ws) == \A j, k \in DOMAIN ws : j < k => ws[j] < ws[k]

\* The write set is sorted by primary key, unless spinning is bounded.
LockOrder(t, ws) ==
  \A j, k \in DOMAIN ws : j < k =>
    IF config.bounded /\ config.no_wait THEN ws[j] < ws[k]
    ELSE accesses[t][ws[j]].row < accesses[t][ws[k]].row

\* After all versions that were read, and after the leases of those replaced.
FirstTimestamp(t) ==
  Max({0} \cup {accesses[t][i].wts : i \in OfType(t, "RD")}
          \cup {accesses[t][i].rts + 1 : i \in OfType(t, "WR")})

\* finish(RCOK) calls validate_tictoc.
StartValidate(t) ==
  /\ pc[t] = "exec"
  /\ Len(accesses[t]) = Len(query[t])
  /\ \E ws \in SetToSeqs(OfType(t, "WR")) :
       /\ LockOrder(t, ws)
       /\ write_set' = [write_set EXCEPT ![t] = ws]
  /\ commit_wts' = [commit_wts EXCEPT ![t] = FirstTimestamp(t)]
  /\ Goto(t, IF config.pre_abort THEN "pre" ELSE "lock")
  /\ UNCHANGED <<queryVars, rowVars, accessVars, num_locks, idx, spins, hist>>

\* A row that was written since it was read, unless its new version has been
\* read up to the commit timestamp, is a reason to give up early.
Hopeless(t, a) ==
  /\ word[a.row].wts # a.wts
  /\ a.type = "WR" \/ commit_wts[t] > rts(word[a.row])

\* The rows in the order pre_abort looks at them.
PreOrder(t) == write_set[t] \o read_set(t)

\* pre_abort, before the first attempt to lock and before every other one.
PreAbort(t) ==
  /\ pc[t] \in {"pre", "again"}
  /\ config.pre_abort
  /\ idx[t] < Len(accesses[t])
  /\ IF Hopeless(t, accesses[t][PreOrder(t)[idx[t] + 1]])
     THEN idx' = [idx EXCEPT ![t] = 0] /\ Goto(t, "abort")
     ELSE idx' = [idx EXCEPT ![t] = @ + 1] /\ UNCHANGED pc
  /\ UNCHANGED <<queryVars, rowVars, accessVars, write_set, commit_wts, num_locks, spins, hist>>

PreDone(t) ==
  /\ pc[t] = "pre"
  /\ idx[t] = Len(accesses[t])
  /\ idx' = [idx EXCEPT ![t] = 0]
  /\ Goto(t, "lock")
  /\ UNCHANGED <<queryVars, rowVars, accessVars, write_set, commit_wts, num_locks, spins, hist>>

\* try_lock or lock loads the word of the next row of the write set.
TryLock(t) ==
  LET r == Acc(t, num_locks[t] + 1).row IN
  /\ pc[t] = "lock"
  /\ num_locks[t] < Len(write_set[t])
  /\ ~word[r].lock
  /\ v' = [v EXCEPT ![t] = word[r]]
  /\ Goto(t, "cas")
  /\ UNCHANGED <<queryVars, rowVars, copy, accesses, validateVars, hist>>

\* A mutant: the lock is counted only after the timestamp was found unchanged.
LockRow_CountsLate(t) ==
  LET a == Acc(t, num_locks[t] + 1) IN
  /\ pc[t] = "cas"
  /\ word[a.row] = v[t]
  /\ word' = [word EXCEPT ![a.row].lock = TRUE]
  /\ v' = [v EXCEPT ![t] = NoWord]
  /\ IF word[a.row].wts # a.wts
     THEN Goto(t, "abort") /\ UNCHANGED num_locks
     ELSE Goto(t, "lock") /\ num_locks' = [num_locks EXCEPT ![t] = @ + 1]
  /\ UNCHANGED <<queryVars, data, copy, accesses, write_set, commit_wts, idx, spins, hist>>

\* compare_exchange finds the word as it was loaded and sets the bit; then the
\* timestamp, which no one else can change any more, is compared.
LockRow(t) ==
  LET a == Acc(t, num_locks[t] + 1) IN
  /\ pc[t] = "cas"
  /\ word[a.row] = v[t]
  /\ word' = [word EXCEPT ![a.row].lock = TRUE]
  /\ v' = [v EXCEPT ![t] = NoWord]
  /\ num_locks' = [num_locks EXCEPT ![t] = @ + 1]
  /\ Goto(t, IF word[a.row].wts # a.wts THEN "abort" ELSE "lock")
  /\ UNCHANGED <<queryVars, data, copy, accesses, write_set, commit_wts, idx, spins, hist>>

\* Another transaction holds the bit, or has changed the word since it was
\* loaded, be it only its lease.  try_lock fails.  lock(), whose loop condition
\* ends in a comma and a zero, returns as if it had got the bit.
LockFails(t) ==
  LET a == Acc(t, num_locks[t] + 1) IN
  /\ \/ pc[t] = "lock" /\ num_locks[t] < Len(write_set[t]) /\ word[a.row].lock
     \/ pc[t] = "cas" /\ word[a.row] # v[t]
  /\ v' = [v EXCEPT ![t] = NoWord]
  /\ IF config.no_wait
     THEN Goto(t, "unlock") /\ UNCHANGED num_locks
     ELSE /\ num_locks' = [num_locks EXCEPT ![t] = @ + 1]
          /\ Goto(t, IF word[a.row].wts # a.wts THEN "abort" ELSE "lock")
  /\ UNCHANGED <<queryVars, rowVars, copy, accesses, write_set, commit_wts, idx, spins, hist>>

\* release of the next row that was locked, on the way to another attempt or to
\* the abort.
Unlock(t) ==
  /\ pc[t] \in {"unlock", "abort"}
  /\ idx[t] < num_locks[t]
  /\ word' = [word EXCEPT ![Acc(t, idx[t] + 1).row].lock = FALSE]
  /\ idx' = [idx EXCEPT ![t] = @ + 1]
  /\ UNCHANGED <<queryVars, data, pc, accessVars, write_set, commit_wts, num_locks, spins, hist>>

\* All are released.  num_locks is reset by pre_abort only.
Unlocked(t) ==
  /\ pc[t] = "unlock"
  /\ idx[t] = num_locks[t]
  /\ idx' = [idx EXCEPT ![t] = 0]
  /\ num_locks' = [num_locks EXCEPT ![t] = IF config.pre_abort THEN 0 ELSE @]
  /\ Goto(t, "again")
  /\ UNCHANGED <<queryVars, rowVars, accessVars, write_set, commit_wts, spins, hist>>

\* The back-off is exhausted, or the loop starts anew.
Retry(t) ==
  LET exhausted == config.bounded /\ spins[t] >= SpinRounds IN
  /\ pc[t] = "again"
  /\ config.pre_abort => idx[t] = Len(accesses[t])
  /\ idx' = [idx EXCEPT ![t] = 0]
  /\ num_locks' = [num_locks EXCEPT ![t] = IF exhausted THEN @ ELSE 0]
  /\ spins' = [spins EXCEPT ![t] = IF config.bounded /\ ~exhausted THEN @ + 1 ELSE @]
  /\ Goto(t, IF exhausted THEN "abort" ELSE "lock")
  /\ UNCHANGED <<queryVars, rowVars, accessVars, write_set, commit_wts, hist>>

-----------------------------------------------------------------------------
(***************************************************************************)
(* txn_man::validate_tictoc: the leases of the rows read, and the writes   *)
(***************************************************************************)

\* A mutant: leases extended since the rows were read are not looked at.
FinalTimestamp_AsRead(t) == commit_wts[t]

\* Nobody extends the lease of a locked row: the final commit timestamp.
FinalTimestamp(t) ==
  Max({commit_wts[t]} \cup {rts(word[Acc(t, k).row]) + 1 : k \in DOMAIN write_set[t]})

AllLocked(t) ==
  /\ pc[t] = "lock"
  /\ num_locks[t] = Len(write_set[t])
  /\ commit_wts' = [commit_wts EXCEPT ![t] = FinalTimestamp(t)]
  /\ Goto(t, "renew")
  /\ UNCHANGED <<queryVars, rowVars, accessVars, write_set, num_locks, idx, spins, hist>>

\* The reads that the loop over the read set, which has come as far as idx, has left
\* to renew, and the next one.
ReadsLeft(t) == {i \in OfType(t, "RD") : i > idx[t]}
NextRead(t) == CHOOSE i \in ReadsLeft(t) : \A j \in ReadsLeft(t) : i <= j
RdAcc(t) == accesses[t][NextRead(t)]

Renewed(t) == idx' = [idx EXCEPT ![t] = NextRead(t)] /\ Goto(t, "renew")
NotRenewed(t) == idx' = [idx EXCEPT ![t] = 0] /\ Goto(t, "abort")

\* The lease seen by access is long enough: no shared access at all.
LeaseSuffices(t) ==
  /\ pc[t] = "renew"
  /\ ReadsLeft(t) # {}
  /\ RdAcc(t).rts >= commit_wts[t]
  /\ Renewed(t)
  /\ UNCHANGED <<queryVars, rowVars, accessVars, write_set, commit_wts, num_locks, spins, hist>>

\* try_renew up to its first exchange.
TryRenew(t) ==
  LET a == RdAcc(t)
      w == word[a.row]
  IN
  /\ pc[t] = "renew"
  /\ ReadsLeft(t) # {}
  /\ a.rts < commit_wts[t]
  /\ \/ /\ w.wts = a.wts /\ w.delta >= commit_wts[t] - a.wts
        /\ Renewed(t) /\ UNCHANGED v
     \/ /\ ~(w.wts = a.wts /\ w.delta >= commit_wts[t] - a.wts)
        /\ w.lock \/ w.wts # a.wts
        /\ NotRenewed(t) /\ UNCHANGED v
     \/ /\ ~w.lock /\ w.wts = a.wts /\ w.delta < commit_wts[t] - a.wts
        /\ v' = [v EXCEPT ![t] = w]
        /\ Goto(t, "renewcas") /\ UNCHANGED idx
  /\ UNCHANGED <<queryVars, rowVars, copy, accesses, write_set, commit_wts, num_locks, spins, hist>>

\* A mutant: no rebase.
NewWord_NoRebase(t, a) == [wts |-> a.wts, delta |-> commit_wts[t] - a.wts, lock |-> FALSE]

\* v2: the lease up to the commit timestamp.  If it does not fit into delta, the
\* version moves to a later wts (rebase).
NewWord(t, a) ==
  LET delta_rts == commit_wts[t] - a.wts IN
  [wts |-> a.wts + (delta_rts - (delta_rts % RTS_SIZE)), delta |-> delta_rts % RTS_SIZE, lock |-> FALSE]

rebase(t, a) == commit_wts[t] - a.wts >= RTS_SIZE

\* compare_exchange of try_renew.  When it fails, the loop goes on with the word
\* it has found and with the v2 it has, unless the row is locked or written, or
\* delta is larger than the whole rts asked for.
RenewCas(t) ==
  LET a == RdAcc(t)
      w == word[a.row]
  IN
  /\ pc[t] = "renewcas"
  /\ \/ /\ w = v[t]
        /\ word' = [word EXCEPT ![a.row] = NewWord(t, a)]
        /\ v' = [v EXCEPT ![t] = NoWord]
        /\ Renewed(t)
     \/ /\ w # v[t]
        /\ rebase(t, a) \/ w.lock \/ NewWord(t, a).wts # w.wts
        /\ v' = [v EXCEPT ![t] = NoWord]
        /\ NotRenewed(t)
        /\ UNCHANGED word
     \/ /\ w # v[t]
        /\ ~(rebase(t, a) \/ w.lock \/ NewWord(t, a).wts # w.wts)
        /\ IF commit_wts[t] < w.delta
           THEN Renewed(t) /\ v' = [v EXCEPT ![t] = NoWord]
           ELSE v' = [v EXCEPT ![t] = w] /\ UNCHANGED <<idx, pc>>
        /\ UNCHANGED word
  /\ UNCHANGED <<queryVars, data, copy, accesses, write_set, commit_wts, num_locks, spins, hist>>

\* All leases reach the commit timestamp: the transaction commits.
Decide(t) ==
  /\ pc[t] = "renew"
  /\ ReadsLeft(t) = {}
  /\ hist' = Append(hist,
       [txn |-> txn[t], ts |-> commit_wts[t],
        reads |-> {<<accesses[t][i].row, accesses[t][i].data[1]>> : i \in DOMAIN accesses[t]},
        writes |-> {accesses[t][i].row : i \in OfType(t, "WR")}])
  /\ idx' = [idx EXCEPT ![t] = 0]
  /\ Goto(t, "stamp")
  /\ UNCHANGED <<queryVars, rowVars, accessVars, write_set, commit_wts, num_locks, spins>>

\* A mutant: the word is stored without its lock bit.
StampRow_Unlocks(t) ==
  /\ pc[t] = "stamp"
  /\ idx[t] < Len(write_set[t])
  /\ word' = [word EXCEPT ![Acc(t, idx[t] + 1).row] =
                [wts |-> commit_wts[t], delta |-> 0, lock |-> FALSE]]
  /\ Goto(t, "write1")
  /\ UNCHANGED <<queryVars, data, accessVars, validateVars, hist>>

\* A mutant: the new version keeps the wts of the old one.
StampRow_KeepsWts(t) ==
  /\ pc[t] = "stamp"
  /\ idx[t] < Len(write_set[t])
  /\ word' = [word EXCEPT ![Acc(t, idx[t] + 1).row].delta = 0]
  /\ Goto(t, "write1")
  /\ UNCHANGED <<queryVars, data, accessVars, validateVars, hist>>

\* write_data stores the new timestamps, the lock bit still set,
StampRow(t) ==
  /\ pc[t] = "stamp"
  /\ idx[t] < Len(write_set[t])
  /\ word' = [word EXCEPT ![Acc(t, idx[t] + 1).row] =
                [wts |-> commit_wts[t], delta |-> 0, lock |-> @.lock]]
  /\ Goto(t, "write1")
  /\ UNCHANGED <<queryVars, data, accessVars, validateVars, hist>>

\* copies the row, word by word,
WriteWord(t) ==
  LET r == Acc(t, idx[t] + 1).row IN
  /\ \/ pc[t] = "write1" /\ data' = [data EXCEPT ![r][1] = txn[t]] /\ Goto(t, "write2")
     \/ pc[t] = "write2" /\ data' = [data EXCEPT ![r][2] = txn[t]] /\ Goto(t, "release")
  /\ UNCHANGED <<queryVars, word, accessVars, validateVars, hist>>

\* and validate_tictoc releases it.
ReleaseRow(t) ==
  /\ pc[t] = "release"
  /\ word' = [word EXCEPT ![Acc(t, idx[t] + 1).row].lock = FALSE]
  /\ idx' = [idx EXCEPT ![t] = @ + 1]
  /\ Goto(t, "stamp")
  /\ UNCHANGED <<queryVars, data, accessVars, write_set, commit_wts, num_locks, spins, hist>>

\* cleanup: the transaction is over, and its local variables are gone.
Cleanup(t) ==
  /\ \/ pc[t] = "stamp" /\ idx[t] = Len(write_set[t])
     \/ pc[t] = "abort" /\ idx[t] = num_locks[t]
  /\ accesses' = [accesses EXCEPT ![t] = <<>>]
  /\ write_set' = [write_set EXCEPT ![t] = <<>>]
  /\ commit_wts' = [commit_wts EXCEPT ![t] = 0]
  /\ num_locks' = [num_locks EXCEPT ![t] = 0]
  /\ idx' = [idx EXCEPT ![t] = 0]
  /\ spins' = [spins EXCEPT ![t] = 0]
  /\ txn' = [txn EXCEPT ![t] = 0]
  /\ query' = [query EXCEPT ![t] = <<>>]
  /\ Goto(t, "idle")
  /\ UNCHANGED <<config, started, rowVars, v, copy, hist>>

-----------------------------------------------------------------------------
Step(t) ==
  \/ \E q \in Queries : NewQuery(t, q)
  \/ LoadWord(t) \/ CopyRow(t) \/ ReloadWord(t)
  \/ StartValidate(t) \/ PreAbort(t) \/ PreDone(t)
  \/ TryLock(t) \/ LockRow(t) \/ LockFails(t) \/ Unlock(t) \/ Unlocked(t) \/ Retry(t)
  \/ AllLocked(t) \/ LeaseSuffices(t) \/ TryRenew(t) \/ RenewCas(t) \/ Decide(t)
  \/ StampRow(t) \/ WriteWord(t) \/ ReleaseRow(t) \/ Cleanup(t)

Next == AllDone \/ \E t \in Threads : Step(t)

Spec == Init /\ [][Next]_vars

\* The operating system keeps scheduling every thread.
FairSpec == Spec /\ \A t \in Threads : WF_vars(Step(t))

-----------------------------------------------------------------------------
(***************************************************************************)
(* Properties                                                              *)
(***************************************************************************)

\* The serial order TicToc promises: by commit timestamp, and among equal ones as
\* they were decided.
Before(i, j) == hist[i].ts < hist[j].ts \/ (hist[i].ts = hist[j].ts /\ i < j)

\* The transaction whose version of row r stands when those before it have run, in
\* the order lt on the first n entries of hist.
LastWriter(lt(_, _), I, j, r) ==
  LET W == {i \in I : lt(i, j) /\ r \in hist[i].writes} IN
  IF W = {} THEN 0 ELSE hist[CHOOSE i \in W : \A k \in W \ {i} : lt(k, i)].txn

\* validate_tictoc gives every transaction a place in time: it has read, of each
\* row, the version its commit timestamp entitles it to, the last one written at
\* that time or before.
TimestampOrder ==
  \A j \in DOMAIN hist : \A p \in hist[j].reads :
    p[2] = LastWriter(Before, DOMAIN hist, j, p[1])

\* ISOLATION_LEVEL SERIALIZABLE: some serial order of the committed transactions
\* explains what each of them has read.
Serializable ==
  \/ TimestampOrder
  \/ \E s \in SetToSeqs(DOMAIN hist) :
       LET lt(i, j) == \E k, l \in DOMAIN s : k < l /\ s[k] = i /\ s[l] = j IN
       \A j \in DOMAIN hist : \A p \in hist[j].reads :
         p[2] = LastWriter(lt, DOMAIN hist, j, p[1])

\* Row_tictoc::access never hands out a torn copy, although write_data publishes
\* the new timestamps before it copies the row.
NoTornRead ==
  \A t \in Threads : \A i \in DOMAIN accesses[t] :
    accesses[t][i].data[1] = accesses[t][i].data[2]

\* A row that is not locked holds the version of the committed transaction with
\* the latest timestamp: no update is lost, an abort leaves nothing behind, and
\* moving a wts by a rebase does not make an old version look new.
RowIsLatest ==
  \A r \in Rows : ~word[r].lock =>
    LET W == {i \in DOMAIN hist : r \in hist[i].writes}
        last == CHOOSE i \in W : \A k \in W \ {i} : Before(k, i)
    IN  IF W = {} THEN data[r] = NoCopy
        ELSE data[r] = <<hist[last].txn, hist[last].txn>> /\ word[r].wts >= hist[last].ts

\* A wts names a version: a row that is unlocked and has the wts it was read under
\* has the contents that were read.  Validation compares nothing else.
WtsNamesVersion ==
  \A t \in Threads : \A i \in DOMAIN accesses[t] :
    LET a == accesses[t][i] IN
    ~word[a.row].lock /\ word[a.row].wts = a.wts => data[a.row] = a.data

\* The rows t has locked and not yet unlocked.
Holds(t) ==
  LET rows(m, n) == {Acc(t, k).row : k \in m..n} IN
  CASE pc[t] \in {"lock", "cas", "renew", "renewcas"} -> rows(1, num_locks[t])
    [] pc[t] \in {"unlock", "abort"} -> rows(idx[t] + 1, num_locks[t])
    [] pc[t] \in {"stamp", "write1", "write2", "release"} -> rows(idx[t] + 1, Len(write_set[t]))
    [] OTHER -> {}

\* The lock bit of a row is set exactly while one transaction counts it among the
\* rows it has to release; extending a lease never sets or clears it.
LockBit ==
  \A r \in Rows :
    /\ word[r].lock <=> \E t \in Threads : r \in Holds(t)
    /\ \A t, u \in Threads : r \in Holds(t) /\ r \in Holds(u) => t = u

=============================================================================
