-------------------------------- MODULE Silo --------------------------------
(***************************************************************************)
(* The optimistic algorithm SILO of DBx1000, with ATOMIC_WORD: every row   *)
(* has one word that holds the tid of the transaction that wrote it last   *)
(* and a lock bit.                                                         *)
(*                                                                         *)
(*   Row_silo::access         copies a row without locking it, and again   *)
(*                            until the word was unlocked and the same     *)
(*                            before and after the copy;                   *)
(*   the workload             changes its private copies;                  *)
(*   txn_man::validate_silo   locks the rows it is going to write, checks  *)
(*                            that nothing it has read has changed, picks  *)
(*                            a tid, copies its rows back and unlocks      *)
(*                            them one after the other.                    *)
(*                                                                         *)
(* A step is one access to shared memory.  A row has two words of data, so *)
(* that a copy can be torn.  Memory is sequentially consistent here.       *)
(*                                                                         *)
(* The variables order and base are history: they record the transactions  *)
(* in the order in which they had locked all they write, and serve to      *)
(* state that this order is a serial one.                                  *)
(***************************************************************************)
EXTENDS Naturals, SequencesExt

CONSTANTS Threads,          \* the worker threads
          Rows,             \* the primary keys of the rows
          Val, InitVal,     \* the values of a word, and the loaded one
          Configs,          \* the parameters considered, see Config
          MAX_ROW_PER_TXN,  \* size of txn_man::accesses
          SpinRounds,       \* rounds after which bounded_backoff_function gives up
          MaxTxns           \* BOUND on the transactions all threads run

\* validation_lock = "no-wait", pre_abort, and the macro BOUNDED_SPINNING.
Config == [no_wait: BOOLEAN, pre_abort: BOOLEAN, bounded: BOOLEAN]

ASSUME SiloAssumption ==
  /\ Rows \subseteq Nat /\ Rows # {}
  /\ InitVal \in Val
  /\ Configs \subseteq Config
  /\ MAX_ROW_PER_TXN \in Nat
  /\ SpinRounds \in Nat
  /\ MaxTxns \in Nat

VARIABLES
  config,      \* the parameters of this run
  data,        \* data[r]: the two words of row r
  tid,         \* _tid_word of each row without its lock bit
  locked,      \* LOCK_BIT of _tid_word
  pc,          \* where each thread is
  started,     \* how many transactions have been started
  req,         \* the row and the access type get_row is called with
  v,           \* the tid Row_silo::access or try_lock has loaded first
  copy,        \* the words it has copied so far
  accesses,    \* txn_man::accesses
  cur_tid,     \* txn_man::_cur_tid
  write_set,   \* the indexes of the writes in accesses, in locking order
  num_locks,   \* the local variable of validate_silo
  idx,         \* how far the current loop of validate_silo has come
  spins,       \* how often bounded_backoff_function has been called
  order, base  \* history, see above

rowVars == <<data, tid, locked>>
accessVars == <<req, v, copy>>
validateVars == <<write_set, num_locks, idx, spins>>
history == <<order, base>>
vars == <<config, data, tid, locked, pc, started, req, v, copy, accesses, cur_tid,
          write_set, num_locks, idx, spins, order, base>>

-----------------------------------------------------------------------------
Words == Val \X Val

\* Access: what was read, under which tid, and what a write leaves there.
Access == [row: Rows, type: {"RD", "WR"}, tid: Nat, read: Words, val: Words]
Request == [row: Rows, type: {"RD", "WR"}]
NoRequest == [row |-> CHOOSE r \in Rows : TRUE, type |-> "RD"]
NoCopy == <<InitVal, InitVal>>

\* A transaction in the history: pending until it is validated, decided until
\* its writes are in place, or aborted.
Entry == [txn: Threads, st: {"pending", "decided", "finished", "aborted"},
          reads: SUBSET (Rows \X Words), writes: SUBSET (Rows \X Words)]

PC == {"idle", "exec", "load", "copy1", "copy2", "reload", "pre", "lock", "cas", "unlock",
       "validate", "write1", "write2", "store", "release", "abort"}

TypeOK ==
  /\ config \in Configs
  /\ data \in [Rows -> Words]
  /\ tid \in [Rows -> Nat]
  /\ locked \in [Rows -> BOOLEAN]
  /\ pc \in [Threads -> PC]
  /\ started \in 0..MaxTxns
  /\ req \in [Threads -> Request]
  /\ v \in [Threads -> Nat]
  /\ copy \in [Threads -> Words]
  /\ accesses \in [Threads -> Seq(Access)]
  /\ cur_tid \in [Threads -> Nat]
  /\ write_set \in [Threads -> Seq(Nat)]
  /\ num_locks \in [Threads -> Nat]
  /\ idx \in [Threads -> Nat]
  /\ spins \in [Threads -> 0..SpinRounds]
  /\ order \in Seq(Entry)
  /\ base \in [Rows -> Words]

Init ==
  /\ config \in Configs
  /\ data = [r \in Rows |-> NoCopy]
  /\ tid = [r \in Rows |-> 0]
  /\ locked = [r \in Rows |-> FALSE]
  /\ pc = [t \in Threads |-> "idle"]
  /\ started = 0
  /\ req = [t \in Threads |-> NoRequest]
  /\ v = [t \in Threads |-> 0]
  /\ copy = [t \in Threads |-> NoCopy]
  /\ accesses = [t \in Threads |-> <<>>]
  /\ cur_tid = [t \in Threads |-> 0]
  /\ write_set = [t \in Threads |-> <<>>]
  /\ num_locks = [t \in Threads |-> 0]
  /\ idx = [t \in Threads |-> 0]
  /\ spins = [t \in Threads |-> 0]
  /\ order = <<>>
  /\ base = [r \in Rows |-> NoCopy]

-----------------------------------------------------------------------------
(***************************************************************************)
(* The history                                                             *)
(***************************************************************************)
Counts(e) == e.st \in {"decided", "finished"}
Ended(e) == e.st \in {"finished", "aborted"}
Writes(e, r) == \E p \in e.writes : p[1] = r
LeftBy(e, r) == (CHOOSE p \in e.writes : p[1] = r)[2]

\* The database db after those of the first n transactions of the history h that
\* commit, run one by one: a row holds what the last of them to write it left there.
After(db, h, n) ==
  [r \in Rows |-> LET W == {i \in 1..n : Counts(h[i]) /\ Writes(h[i], r)} IN
                  IF W = {} THEN db[r] ELSE LeftBy(h[Max(W)], r)]

Replay(n) == After(base, order, n)

\* The history becomes h; what can no longer change is moved to base.
Record(h) ==
  \E n \in 0..Len(h) :
    /\ \A i \in 1..n : Ended(h[i])
    /\ n < Len(h) => ~Ended(h[n + 1])
    /\ order' = SubSeq(h, n + 1, Len(h))
    /\ base' = After(base, h, n)

\* The entry of the transaction t is running.
Mine(t, e) == e.txn = t /\ ~Ended(e)
SetState(t, st) == [i \in DOMAIN order |-> IF Mine(t, order[i]) THEN [order[i] EXCEPT !.st = st]
                                           ELSE order[i]]

ReadPairs(t) == {<<accesses[t][i].row, accesses[t][i].read>> : i \in DOMAIN accesses[t]}
WritePairs(t) ==
  {<<accesses[t][i].row, accesses[t][i].val>> : i \in {j \in DOMAIN accesses[t] : accesses[t][j].type = "WR"}}

-----------------------------------------------------------------------------
(***************************************************************************)
(* txn_man::get_row and Row_silo::access                                   *)
(***************************************************************************)
Goto(t, where) == pc' = [pc EXCEPT ![t] = where]

\* thread_t::run starts a query, new or retried.
NewQuery(t) ==
  /\ pc[t] = "idle"
  /\ started < MaxTxns
  /\ started' = started + 1
  /\ Goto(t, "exec")
  /\ UNCHANGED <<config, rowVars, accessVars, accesses, cur_tid, validateVars, history>>

\* Every query of the thread has been run.
AllDone ==
  /\ started = MaxTxns /\ \A t \in Threads : pc[t] = "idle"
  /\ UNCHANGED vars

\* get_row returns NULL when accesses is full; the workload aborts.
RowBufferFull(t) ==
  /\ pc[t] = "exec"
  /\ Len(accesses[t]) >= MAX_ROW_PER_TXN
  /\ accesses' = [accesses EXCEPT ![t] = <<>>]
  /\ Goto(t, "idle")
  /\ UNCHANGED <<config, rowVars, started, accessVars, cur_tid, validateVars, history>>

GetRow(t, r, type) ==
  /\ pc[t] = "exec"
  /\ Len(accesses[t]) < MAX_ROW_PER_TXN
  /\ \A i \in DOMAIN accesses[t] : accesses[t][i].row # r
  /\ req' = [req EXCEPT ![t] = [row |-> r, type |-> type]]
  /\ Goto(t, "load")
  /\ UNCHANGED <<config, rowVars, started, v, copy, accesses, cur_tid, validateVars, history>>

\* The word is not locked; otherwise access spins.
LoadWord(t) ==
  /\ pc[t] = "load"
  /\ ~locked[req[t].row]
  /\ v' = [v EXCEPT ![t] = tid[req[t].row]]
  /\ Goto(t, "copy1")
  /\ UNCHANGED <<config, rowVars, started, req, copy, accesses, cur_tid, validateVars, history>>

\* The row is copied word by word.
CopyWord(t) ==
  /\ \/ /\ pc[t] = "copy1"
        /\ copy' = [copy EXCEPT ![t][1] = data[req[t].row][1]]
        /\ Goto(t, "copy2")
     \/ /\ pc[t] = "copy2"
        /\ copy' = [copy EXCEPT ![t][2] = data[req[t].row][2]]
        /\ Goto(t, "reload")
  /\ UNCHANGED <<config, rowVars, started, req, v, accesses, cur_tid, validateVars, history>>

\* A mutant: only the lock bit is looked at after the copy.
SameWord_LockOnly(t) == ~locked[req[t].row]

\* The word has not changed since it was loaded.
SameWord(t) == ~locked[req[t].row] /\ tid[req[t].row] = v[t]

\* The copy is good.  The transaction records the access and, if it is a write,
\* changes its private copy to w.
ReadDone(t, w) ==
  /\ pc[t] = "reload"
  /\ SameWord(t)
  /\ accesses' = [accesses EXCEPT ![t] = Append(@,
       [row |-> req[t].row, type |-> req[t].type, tid |-> v[t], read |-> copy[t],
        val |-> IF req[t].type = "WR" THEN <<w, w>> ELSE copy[t]])]
  /\ req' = [req EXCEPT ![t] = NoRequest]
  /\ v' = [v EXCEPT ![t] = 0]
  /\ copy' = [copy EXCEPT ![t] = NoCopy]
  /\ Goto(t, "exec")
  /\ UNCHANGED <<config, rowVars, started, cur_tid, validateVars, history>>

\* The row may have been written in the meantime: once more.
ReadAgain(t) ==
  /\ pc[t] = "reload"
  /\ ~SameWord(t)
  /\ v' = [v EXCEPT ![t] = 0]
  /\ copy' = [copy EXCEPT ![t] = NoCopy]
  /\ Goto(t, "load")
  /\ UNCHANGED <<config, rowVars, started, req, accesses, cur_tid, validateVars, history>>

-----------------------------------------------------------------------------
(***************************************************************************)
(* txn_man::validate_silo                                                  *)
(***************************************************************************)
Acc(t, k) == accesses[t][write_set[t][k]]

\* The write set is sorted by primary key, unless spinning is bounded: then
\* nobody waits for ever, and the order of access will do.
LockOrder(t, ws) ==
  \A j, k \in DOMAIN ws : j < k =>
    IF config.bounded THEN ws[j] < ws[k]
    ELSE accesses[t][ws[j]].row < accesses[t][ws[k]].row

\* finish(RCOK) calls validate_silo.
StartValidate(t) ==
  /\ pc[t] = "exec"
  /\ LET W == {i \in DOMAIN accesses[t] : accesses[t][i].type = "WR"} IN
       \E ws \in SetToSeqs(W) :
         /\ LockOrder(t, ws)
         /\ write_set' = [write_set EXCEPT ![t] = ws]
  /\ Goto(t, IF config.pre_abort THEN "pre" ELSE "lock")
  /\ UNCHANGED <<config, rowVars, started, accessVars, accesses, cur_tid, num_locks, idx, spins, history>>

\* Some row has another tid than the one it was read under.  The code compares
\* the rows one by one; a tid that differs once does so ever after.
Stale(t) == \E i \in DOMAIN accesses[t] : tid[accesses[t][i].row] # accesses[t][i].tid

\* pre_abort: a transaction that is bound to fail does not even lock.
PreAbort(t) ==
  /\ pc[t] = "pre"
  /\ Goto(t, IF Stale(t) THEN "abort" ELSE "lock")
  /\ UNCHANGED <<config, rowVars, started, accessVars, accesses, cur_tid, validateVars, history>>

\* try_lock or lock loads the word of the next row of the write set, which is not
\* locked.
TryLock(t) ==
  LET a == Acc(t, num_locks[t] + 1) IN
  /\ pc[t] = "lock"
  /\ num_locks[t] < Len(write_set[t])
  /\ ~locked[a.row]
  /\ v' = [v EXCEPT ![t] = tid[a.row]]
  /\ Goto(t, "cas")
  /\ UNCHANGED <<config, rowVars, started, req, copy, accesses, cur_tid, validateVars, history>>

\* A mutant: the lock is counted only after the tid was found unchanged.
LockRow_CountsLate(t) ==
  LET a == Acc(t, num_locks[t] + 1) IN
  /\ pc[t] = "cas"
  /\ ~locked[a.row] /\ tid[a.row] = v[t]
  /\ locked' = [locked EXCEPT ![a.row] = TRUE]
  /\ v' = [v EXCEPT ![t] = 0]
  /\ IF tid[a.row] # a.tid
     THEN Goto(t, "abort") /\ UNCHANGED num_locks
     ELSE Goto(t, "lock") /\ num_locks' = [num_locks EXCEPT ![t] = @ + 1]
  /\ UNCHANGED <<config, data, tid, started, req, copy, accesses, cur_tid, write_set, idx, spins, history>>

\* A mutant: the bit is set by a plain store instead of a compare_exchange.
LockRow_Store(t) ==
  LET a == Acc(t, num_locks[t] + 1) IN
  /\ pc[t] = "cas"
  /\ locked' = [locked EXCEPT ![a.row] = TRUE]
  /\ v' = [v EXCEPT ![t] = 0]
  /\ num_locks' = [num_locks EXCEPT ![t] = @ + 1]
  /\ Goto(t, IF tid[a.row] # a.tid THEN "abort" ELSE "lock")
  /\ UNCHANGED <<config, data, tid, started, req, copy, accesses, cur_tid, write_set, idx, spins, history>>

\* compare_exchange finds the word as it was loaded and sets the bit; then the
\* tid, which no one else can change any more, is compared.
LockRow(t) ==
  LET a == Acc(t, num_locks[t] + 1) IN
  /\ pc[t] = "cas"
  /\ ~locked[a.row] /\ tid[a.row] = v[t]
  /\ locked' = [locked EXCEPT ![a.row] = TRUE]
  /\ v' = [v EXCEPT ![t] = 0]
  /\ num_locks' = [num_locks EXCEPT ![t] = @ + 1]
  /\ Goto(t, IF tid[a.row] # a.tid THEN "abort" ELSE "lock")
  /\ UNCHANGED <<config, data, tid, started, req, copy, accesses, cur_tid, write_set, idx, spins, history>>

\* Another transaction holds the bit, or has changed the word since it was
\* loaded.  try_lock fails and all locks are given back.  lock(), whose loop
\* condition ends in a comma and a zero, returns as if it had got the bit.
LockFails(t) ==
  LET a == Acc(t, num_locks[t] + 1) IN
  /\ \/ pc[t] = "lock" /\ num_locks[t] < Len(write_set[t]) /\ locked[a.row]
     \/ pc[t] = "cas" /\ ~(~locked[a.row] /\ tid[a.row] = v[t])
  /\ v' = [v EXCEPT ![t] = 0]
  /\ IF config.no_wait
     THEN Goto(t, "unlock") /\ UNCHANGED num_locks
     ELSE /\ num_locks' = [num_locks EXCEPT ![t] = @ + 1]
          /\ Goto(t, IF tid[a.row] # a.tid THEN "abort" ELSE "lock")
  /\ UNCHANGED <<config, rowVars, started, req, copy, accesses, cur_tid, write_set, idx, spins, history>>

\* Row_silo::release of the next row that was locked, on the way to another
\* attempt or to the abort.
Unlock(t) ==
  /\ pc[t] \in {"unlock", "abort"}
  /\ idx[t] < num_locks[t]
  /\ locked' = [locked EXCEPT ![Acc(t, idx[t] + 1).row] = FALSE]
  /\ idx' = [idx EXCEPT ![t] = @ + 1]
  /\ UNCHANGED <<config, data, tid, pc, started, accessVars, accesses, cur_tid, write_set, num_locks, spins, history>>

\* A mutant: one round too many before the back-off counts as exhausted.
Retry_OneMore(t) ==
  LET exhausted == config.bounded /\ spins[t] > SpinRounds
      fails == (config.pre_abort /\ Stale(t)) \/ exhausted
  IN
  /\ pc[t] = "unlock"
  /\ idx[t] = num_locks[t]
  /\ idx' = [idx EXCEPT ![t] = 0]
  /\ num_locks' = [num_locks EXCEPT ![t] = IF fails /\ ~config.pre_abort THEN @ ELSE 0]
  /\ spins' = [spins EXCEPT ![t] = IF config.bounded /\ ~fails THEN @ + 1 ELSE @]
  /\ Goto(t, IF fails THEN "abort" ELSE "lock")
  /\ UNCHANGED <<config, rowVars, started, accessVars, accesses, cur_tid, write_set, history>>

\* All locks are given back: abort, because a row has changed (pre_abort) or the
\* back-off is exhausted, or try again.  Only pre_abort resets num_locks before
\* an abort.
Retry(t) ==
  LET exhausted == config.bounded /\ spins[t] >= SpinRounds
      fails == (config.pre_abort /\ Stale(t)) \/ exhausted
  IN
  /\ pc[t] = "unlock"
  /\ idx[t] = num_locks[t]
  /\ idx' = [idx EXCEPT ![t] = 0]
  /\ num_locks' = [num_locks EXCEPT ![t] = IF fails /\ ~config.pre_abort THEN @ ELSE 0]
  /\ spins' = [spins EXCEPT ![t] = IF config.bounded /\ ~fails THEN @ + 1 ELSE @]
  /\ Goto(t, IF fails THEN "abort" ELSE "lock")
  /\ UNCHANGED <<config, rowVars, started, accessVars, accesses, cur_tid, write_set, history>>

\* The whole write set is locked, and the reads are validated next.
AllLocked(t) ==
  /\ pc[t] = "lock"
  /\ num_locks[t] = Len(write_set[t])
  /\ Goto(t, "validate")
  /\ Record(Append(order, [txn |-> t, st |-> "pending", reads |-> ReadPairs(t), writes |-> WritePairs(t)]))
  /\ UNCHANGED <<config, rowVars, started, accessVars, accesses, cur_tid, validateVars>>

\* A mutant: a row that is being written by another transaction passes.
Valid_IgnoresLock(t, a) == tid[a.row] = a.tid

\* Row_silo::validate, for a row that is only read.
Valid(t, a) == ~locked[a.row] /\ tid[a.row] = a.tid

\* The next row of the read set.
NextRead(t, i) ==
  /\ i \in DOMAIN accesses[t] /\ i > idx[t] /\ accesses[t][i].type = "RD"
  /\ \A j \in DOMAIN accesses[t] : j > idx[t] /\ accesses[t][j].type = "RD" => i <= j

ValidateRead(t) ==
  /\ pc[t] = "validate"
  /\ \E i \in DOMAIN accesses[t] :
       /\ NextRead(t, i)
       /\ IF Valid(t, accesses[t][i])
          THEN idx' = [idx EXCEPT ![t] = i] /\ UNCHANGED pc
          ELSE idx' = [idx EXCEPT ![t] = 0] /\ Goto(t, "abort")
  /\ UNCHANGED <<config, rowVars, started, accessVars, accesses, cur_tid, write_set, num_locks, spins, history>>

\* A mutant: the new tid need not be larger than the ones of the rows.
NextTid_OwnOnly(t) == cur_tid[t] + 1

\* A tid larger than the last one of this thread and than all it has seen.
NextTid(t) ==
  LET seen == {accesses[t][i].tid : i \in DOMAIN accesses[t]}
      max_tid == Max(seen \cup {0})
  IN  IF max_tid > cur_tid[t] THEN max_tid + 1 ELSE cur_tid[t] + 1

\* The rows of the write set are validated too, and the transaction commits.
ValidateWrites(t) ==
  /\ pc[t] = "validate"
  /\ ~\E i \in DOMAIN accesses[t] : NextRead(t, i)
  /\ IF \A k \in DOMAIN write_set[t] : tid[Acc(t, k).row] = Acc(t, k).tid
     THEN /\ cur_tid' = [cur_tid EXCEPT ![t] = NextTid(t)]
          /\ Goto(t, "write1")
          /\ Record(SetState(t, "decided"))
     ELSE /\ Goto(t, "abort")
          /\ UNCHANGED <<cur_tid, history>>
  /\ idx' = [idx EXCEPT ![t] = 0]
  /\ UNCHANGED <<config, rowVars, started, accessVars, accesses, write_set, num_locks, spins>>

\* Row_silo::write copies the next row of the write set back, word by word,
WriteWord(t) ==
  LET a == Acc(t, idx[t] + 1) IN
  /\ idx[t] < Len(write_set[t])
  /\ \/ pc[t] = "write1" /\ data' = [data EXCEPT ![a.row][1] = a.val[1]] /\ Goto(t, "write2")
     \/ pc[t] = "write2" /\ data' = [data EXCEPT ![a.row][2] = a.val[2]] /\ Goto(t, "store")
  /\ UNCHANGED <<config, tid, locked, started, accessVars, accesses, cur_tid, validateVars, history>>

\* and stores the new tid, with the lock bit set;
StoreTid(t) ==
  LET r == Acc(t, idx[t] + 1).row IN
  /\ pc[t] = "store"
  /\ tid' = [tid EXCEPT ![r] = cur_tid[t]]
  /\ locked' = [locked EXCEPT ![r] = TRUE]
  /\ Goto(t, "release")
  /\ UNCHANGED <<config, data, started, accessVars, accesses, cur_tid, validateVars, history>>

\* release clears the bit.
ReleaseRow(t) ==
  /\ pc[t] = "release"
  /\ locked' = [locked EXCEPT ![Acc(t, idx[t] + 1).row] = FALSE]
  /\ idx' = [idx EXCEPT ![t] = @ + 1]
  /\ Goto(t, "write1")
  /\ UNCHANGED <<config, data, tid, started, accessVars, accesses, cur_tid, write_set, num_locks, spins, history>>

\* cleanup: the transaction is over, and its local variables are gone.
Cleanup(t) ==
  /\ accesses' = [accesses EXCEPT ![t] = <<>>]
  /\ write_set' = [write_set EXCEPT ![t] = <<>>]
  /\ num_locks' = [num_locks EXCEPT ![t] = 0]
  /\ idx' = [idx EXCEPT ![t] = 0]
  /\ spins' = [spins EXCEPT ![t] = 0]
  /\ Goto(t, "idle")
  /\ UNCHANGED <<config, rowVars, started, accessVars, cur_tid>>

Commit(t) ==
  /\ pc[t] = "write1"
  /\ idx[t] = Len(write_set[t])
  /\ Record(SetState(t, "finished"))
  /\ Cleanup(t)

Abort(t) ==
  /\ pc[t] = "abort"
  /\ idx[t] = num_locks[t]
  /\ Record(SetState(t, "aborted"))
  /\ Cleanup(t)

-----------------------------------------------------------------------------
Step(t) ==
  \/ NewQuery(t) \/ RowBufferFull(t)
  \/ \E r \in Rows, type \in {"RD", "WR"} : GetRow(t, r, type)
  \/ LoadWord(t) \/ CopyWord(t) \/ (\E w \in Val : ReadDone(t, w)) \/ ReadAgain(t)
  \/ StartValidate(t) \/ PreAbort(t)
  \/ TryLock(t) \/ LockRow(t) \/ LockFails(t) \/ Unlock(t) \/ Retry(t) \/ AllLocked(t)
  \/ ValidateRead(t) \/ ValidateWrites(t)
  \/ WriteWord(t) \/ StoreTid(t) \/ ReleaseRow(t)
  \/ Commit(t) \/ Abort(t)

Next == AllDone \/ \E t \in Threads : Step(t)

Spec == Init /\ [][Next]_vars

\* The operating system keeps scheduling every thread.
FairSpec == Spec /\ \A t \in Threads : WF_vars(Step(t))

-----------------------------------------------------------------------------
(***************************************************************************)
(* Properties                                                              *)
(***************************************************************************)

\* validate_silo lets a transaction commit only if it is serializable: those that
\* it has decided to commit have read what running them one by one, in the order
\* in which they had locked their write sets, would have given them.
Serializable ==
  \A i \in DOMAIN order : Counts(order[i]) =>
    \A p \in order[i].reads : p[2] = Replay(i - 1)[p[1]]

\* Row_silo::write installs every committed write and nothing else: a row that is
\* not locked holds what this serial execution leaves in it, with no lost update,
\* nothing of an aborted transaction and no half-written row.
DataIsReplay ==
  LET db == Replay(Len(order)) IN \A r \in Rows : ~locked[r] => data[r] = db[r]

\* Row_silo::access never hands out a torn copy, not even to a transaction that
\* will abort: as every write makes the two words of a row equal, they are equal
\* in every copy.
NoTornRead ==
  \A t \in Threads : \A i \in DOMAIN accesses[t] :
    accesses[t][i].read[1] = accesses[t][i].read[2]

\* A tid names a version, which is all that Row_silo::validate relies on: if a row
\* is unlocked and still has the tid it was read under, it still has the contents
\* that were read; no two versions of a row ever get the same tid.
TidNamesVersion ==
  \A t \in Threads : \A i \in DOMAIN accesses[t] :
    LET a == accesses[t][i] IN
    ~locked[a.row] /\ tid[a.row] = a.tid => data[a.row] = a.read

\* What Row_silo::release and Row_silo::write assert: whoever unlocks or overwrites
\* a row finds its lock bit set, and a row only ever gets a larger tid.
AssertsHold ==
  \A t \in Threads :
    LET r == Acc(t, idx[t] + 1).row IN
    /\ pc[t] \in {"unlock", "abort"} /\ idx[t] < num_locks[t] => locked[r]
    /\ pc[t] = "release" => locked[r]
    /\ pc[t] = "store" => locked[r] /\ cur_tid[t] > tid[r]

\* The rows t has locked and not yet unlocked.
Holds(t) ==
  LET rows(n) == {Acc(t, k).row : k \in (idx[t] + 1)..n} IN
  CASE pc[t] \in {"lock", "cas", "validate"} -> {Acc(t, k).row : k \in 1..num_locks[t]}
    [] pc[t] \in {"unlock", "abort"} -> rows(num_locks[t])
    [] pc[t] \in {"write1", "write2", "store", "release"} -> rows(Len(write_set[t]))
    [] OTHER -> {}

\* The lock bit of a row is set exactly while one transaction counts it among the
\* num_locks rows it has to release: no bit is left behind by an abort or a retry,
\* and none is cleared under another transaction.
LockBit ==
  \A r \in Rows :
    /\ locked[r] <=> \E t \in Threads : r \in Holds(t)
    /\ \A t, u \in Threads : r \in Holds(t) /\ r \in Holds(u) => t = u

=============================================================================
