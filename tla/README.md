# A verification project for DBx1000

DBx1000 is a main-memory database built to compare concurrency control
algorithms. One worker thread per core runs transactions of a benchmark (YCSB or
TPC-C) one after the other; the algorithm (`CC_ALG`) is chosen when the program is
compiled. What can go wrong is in the few hundred lines in which threads meet: row
locks, version words, validation, retries.

The modules here are written from the source. An action is one step between two
points where another thread can interfere; what the code does in one go is one
action, with its guards, its early returns and its trailing updates.

## 1. Inventory

| Component | State | Operations | Meets the others by |
|---|---|---|---|
| Row lock (`row_lock.cpp`) | `lock_type`, owner list, waiter list, latch | `lock_get`, `lock_release` | sets `lock_ready` of the `txn_man` it promotes |
| Transaction manager (`txn.cpp`, `row.cpp`) | `accesses`, `row_cnt`, `wr_cnt`, flags, timestamp | `get_row`, `return_row`, `cleanup`, `finish` | the spin loop on `lock_ready` / `lock_abort` |
| Worker (`thread.cpp`) | abort buffer, current query | `run` | timestamps for the transaction |
| Timestamp manager (`manager.cpp`) | clock or counter, `all_ts` | `get_ts`, `get_min_ts`, `add_ts` | read by every thread |
| Deadlock detector (`dl_detect.cpp`) | wait-for lists per thread | `add_dep`, `detect_cycle`, `clear_dep` | sets `lock_abort` of a victim |
| Silo (`silo.cpp`, `row_silo.cpp`) | tid word with a lock bit per row | `access`, `validate_silo`, `lock`, `try_lock`, `write`, `release` | the tid word |
| TicToc (`tictoc.cpp`, `row_tictoc.cpp`) | `wts`/`rts` word per row | `access`, `validate_tictoc`, `try_renew`, `write_data` | the timestamp word |
| OCC (`occ.cpp`, `row_occ.cpp`) | history and active set, or a timestamp and a latch per row | `access`, `validate`, `write` | row latches, or a global critical section |
| MVCC (`row_mvcc.cpp`) | versions, their memory, pending requests, one reserved prewrite | `access`, `reserveRow`, `update_buffer` | wakes readers and writers by `ts_ready`; versions are used by pointer |
| Basic T/O (`row_ts.cpp`) | the same lists without versions | `access` | (not in the build file's list) |
| Partition locks (`plock.cpp`) | owner and waiters per partition | `lock`, `unlock` | the counter `ready_part` |
| VLL, Hekaton | | | (do not compile, see section 7) |
| Hash and B-tree index | bucket chains, nodes, latches | read, insert, delete | latches |
| Workloads | queries | sequences of `get_row` calls | |
| Allocators, statistics, parser, start-up | | | |

What is hard here: flags that one thread sets for another which may just be giving
up (locks), copies made without a lock (Silo, TicToc, OCC), state kept from an
earlier wait or an earlier transaction of the same `txn_man`, aborts that must undo
exactly what was done so far, and retries whose termination nobody guarantees but an
ordering of locks. `PROJECT.json` lists these hazards line by line.

What makes the parts correct:

* every algorithm: what commits is serializable, what aborts leaves no trace;
* locks: the table and the transactions agree who holds what, no conflicting
  owners, nobody is forgotten in a waiter list, no cycle of waiters under WAIT_DIE,
  every wait ends under DL_DETECT;
* optimistic algorithms: a version word really names a version, no copy is torn,
  no lock bit is leaked or cleared under another transaction, validation ends;
* multi-version: an update starts from the last version before it; a reader finds the
  version its timestamp entitles it to until it is done, and recycling does not
  remove it;
* worker: there is always room for a query that aborts.

## 2. Modules

| Module | Models |
|---|---|
| `SerialDB` | the promise of every algorithm: transactions take effect one at a time |
| `RowLock` | the decisions of `lock_get` and `lock_release`, as operators |
| `TwoPhase` | NO_WAIT, WAIT_DIE and DL_DETECT: worker, transaction manager, row locks |
| `DlDetect` | `TwoPhase` with the graph and the search of the deadlock detector |
| `Silo` | Silo with `ATOMIC_WORD`: optimistic copies and `validate_silo` |
| `TicToc` | TicToc with `ATOMIC_WORD`: timestamp words, leases and `validate_tictoc` |
| `MVCC` | `Row_mvcc`: versions and their memory, prewrites, pending requests, `get_min_ts` |
| `Worker` | what `Occ` and `Plock` share: threads, the counter of timestamps, where a thread is |
| `Occ` | OCC with validation per row (waiting or bounded) and central validation |
| `Plock` | HSTORE's partition locks |
| `MCTwoPhase`, `MCDlDetect`, `MCSilo`, `MCTicToc`, `MCMVCC` | these for TLC, with the `.cfg` files of the same name |
| `MCOptimistic` | the builds for TICTOC and SILO, one of which is chosen in the initial state; it extends `MCTicToc` and instantiates `Silo` |
| `MCBuilds` | MVCC, OCC and HSTORE, in the same way; it extends `Occ` and `Plock` and instantiates `MVCC` with four sets of bounds |
| `SequenceLemmas` | what `InsertAt`, `RemoveAt`, `SubSeq`, `SetToSeqs` and `Max` give; least numbers and bounds |
| `TwoPhaseProofs` | types, room in the abort buffer, the lock table, no lost wake-up, wait-die order, isolation |
| `DlDetectProofs` | that the recorded edges stay complete and true, types of the searches; what carries over from `TwoPhaseProofs` |
| `SiloProofs` | lock bits, assertions, tids and untorn copies of Silo |
| `TicTocProofs` | types, lock bits, untorn copies, timestamps that name versions, rows that are up to date, the order of commit timestamps and what breaks it |
| `OccProofs` | types, the serial order of OCC with validation per row, disjoint writers under both validations |
| `MVCCProofs` | types, the books on versions and memory, ownership of prewrites, no lost wake-up, the version search, the order of timestamps and what breaks it |
| `PlockProofs` | ownership, bookkeeping and the order of waits in HSTORE |

### TwoPhase

`owners`, `waiters` and `lock_type` are the fields of each `Row_lock`; `ts`,
`lock_ready`, `lock_abort`, `accesses` those of each `txn_man`; `buffered` counts the
abort buffer of each worker; `pc` is where a thread is. `cc_alg` is a variable that
never changes, so that one run covers several builds.

* `NewQuery`, `RetryQuery`: the head of the loop of `thread_t::run`, with the
  timestamp only where the code sets one.
* `LockGranted`, `LockWait`, `LockDenied`: the three outcomes of `lock_get`, each
  one critical section under the row's latch.
* `StartWaiting`, `WaitGranted`, `WaitAborted`, `Timeout`, `GiveUp`: the spin loop of
  `row_t::get_row`, with the stores and loads of the two flags as separate steps.
* `DetectDeadlock`: what the detector does to others, storing `lock_abort`. Which
  thread becomes the victim is left open here: any thread may, so the model has
  more behaviours than the detector allows; `DlDetect` has the detector itself.
* `RecordAccess`, `WriteRow`, `Finish`: the rest of `get_row`, a write in place, the
  end of the workload's code. `RowBufferFull`: `accesses` is full.
* `RestoreRow`, `ReturnRow`, `CleanupDone`: `cleanup`, row by row in reverse order.

Abstractions: a latch is mutual exclusion, memory is sequentially consistent, the
owner list is a set, a row holds one value. Timestamps are those of `TS_CLOCK`,
`clock * g_thread_cnt + thread`; two threads may read the same clock, the clock may
stand still. The requests of a transaction are arbitrary, but it asks for a row once:
both query generators remove duplicates. `lock_abort`, which only the spin loop
reads, is also cleared when the loop is left; the code clears it on the way into the
next one, with the same effect.

### Silo

`tid` and `locked` are the two parts of `_tid_word`; `data` has two words per row so
that a copy can be torn. Each action accesses shared memory once, except where a
comment argues that more makes no difference: a transaction that compares several
tids (`Stale`) compares values that never come back, and the holder of a lock bit is
the only one who changes the word. `config` holds `validation_lock`, `pre_abort` and
`BOUNDED_SPINNING` and never changes.

* `GetRow`, `LoadWord`, `CopyWord`, `ReadDone`, `ReadAgain`: `Row_silo::access`.
* `StartValidate`, `PreAbort`: the sets, the sort and the early abort.
* `TryLock`, `LockRow`, `LockFails`, `Unlock`, `Retry`: the locking loop;
  `LockFails` also has `Row_silo::lock` as it is compiled.
* `AllLocked`, `ValidateRead`, `ValidateWrites`: validation and the new tid.
* `WriteWord`, `StoreTid`, `ReleaseRow`, `Commit`, `Abort`: the end.

`order` and `base` are history: they record the transactions in the order in which
they had locked their write sets, the serial order Silo claims. A spinning reader is
a disabled `LoadWord`. The model is sequentially consistent: that the copy is not
moved before the first load or after the second one is up to the fences in
`Row_silo::access` and not checked. The workload changes its private copy, as TPC-C
does; YCSB writes to the shared row (see the hazards).

### DlDetect

`DlDetect` extends `TwoPhase`; its steps are those of `TwoPhase` joined with what the
detector does, and the steps of a search. `txnids` and `dep_added` are local to the
wait of a thread, `dependency` is the shared graph, `detect` the `DetectData` and the
call stack of `nextNode`.

* `LockWaitEdges`: the end of `lock_get`, which records whom the wait is for.
* `StartDetect`: a turn of the spin loop, `add_dep` the first time and the call of
  `detect_cycle`. `EnterNode`, `FollowEdge`: `nextNode` reads the graph node by node,
  each under its own latch, while others change it. `StoreVictim`: the end.
* `CleanupClears`: `clear_dep` at the end of `cleanup`. `detect_cycle` compares the id
  of its victim before it stores; a search that has done so when the victim ends
  (`compared`) stores all the same, and may abort the thread's next transaction.

A transaction id is a thread and a count. Ids of ended transactions never match
again, so they are taken out of all lists when their transaction ends (`Forget`).
The order in which `nextNode` looks at its edges is left open. There are no time-outs
here: `g_timeout` is a parameter, and the question is whether the detector does its
work without it (`TwoPhase` has the time-outs). The comparison of an id with its lower 32 bits (`dl_detect.cpp:88`) is
exact as long as ids are below 2^31; beyond, no loop is ever closed, which is the
mutant of `WaitEnds`.

### TicToc

`word` of a row is `_ts_word`: `wts`, the difference `delta` to the read timestamp in
`RTS_LEN` bits, and the lock bit. `data` has two words per row, each the number of the
transaction that wrote it. The copy of a row is one step between two loads of the word,
overwriting it is two: a copy can be torn.

* `LoadWord`, `CopyRow`, `ReloadWord`: `Row_tictoc::access`.
* `StartValidate`, `PreAbort`, `PreDone`: the sets, the sort, the commit timestamp and
  the early abort. `TryLock`, `LockRow`, `LockFails`, `Unlocked`, `Retry`: the locks.
* `FinalTimestamp` (in `AllLocked`), `NextRead`, `LeaseSuffices`, `NotRenewed`, `TryRenew`,
  `RenewCas`: the leases of the read set. `rebase` is the case in which the difference
  does not fit in its bits and `wts` has to move.
* `Decide`, `StampRow`, `WriteWord`, `ReleaseRow`, `Cleanup`: the end; the order in
  which `write_data` stores the word and the data is that of the code.

### MVCC

`mgr[r]` is the `Row_mvcc` of a row: the history of versions with their slots, the
latest version, the reserved prewrite, the pending requests. A transaction gets a
version *by pointer*: `mem` is the memory the versions are in, so that a version that
is recycled under a reader changes what the reader sees. `all_ts` and `min_ts` are
those of the timestamp manager.

* `NewQuery`, `AddTs`: the timestamp and, a step later, its publication.
* `AccessAborts`, `AccessWaits`, `ReadServed`, `PrewriteServed`: the four outcomes of
  `Row_mvcc::access` for a request; `SearchVersion` is its loop over the history, a
  recursive function with `Look` as one turn of the loop. `reserveRow` with `Gc`, `UnusedSlot`, `Recycle`
  and `Double` makes room. `WaitEnds`, `UseRow`, `Finish`: the transaction.
* `ReturnRow`: W_REQ or XP_REQ with `update_buffer`, which serves waiting requests.

Two parameters come from the build. `THE_TS_BITS` is the width of `the_ts`, in which the
search keeps the best timestamp so far (32 bits), measured against the timestamps of the
model, which are 1, 2, 3 and so on. Under `TS_CLOCK` every timestamp is larger than
whatever `the_ts` can hold, so that each comparison with `the_ts` is true; that is
`THE_TS_BITS = 0`. Under `TS_CAS` timestamps fit for the first 2^32 transactions, which is
any width the timestamps of the model fit in. `FirstTs` is what `Manager::init` leaves in
`all_ts`: UINT64_MAX, a number larger than every timestamp.

`Occ`, `Plock` and `MVCC` draw timestamps from a counter: what matters to them is the
order, and that a thread draws its timestamp before it does anything with it. `TwoPhase`,
where a timestamp of `TS_CLOCK` that is drawn later may be the smaller one (the same clock,
a lower thread number) and that of a retried query is an old one, has them as the code
computes them. Under `TS_CLOCK` this could also happen in the other three, but only
between transactions that draw theirs within one tick of the clock.

### Occ

`mode` is the form of validation. Per row, `LatchRow` takes the latches of the row set,
sorted by `LatchOrder`, and compares `wts` with the start of the transaction, `TakeEndTs` draws
`end_ts`, `StartCopy` and `EndCopy` write a row, `ReleaseLatch` releases. Bounded
spinning gives up a latch (`TryLatchFails`). Central validation is `Enter` (the
critical section in which a transaction looks at the history and joins the active
set) and `Leave`.

### Plock

`owner`, `waiters` are those of each `PartMan`, `ready_part` that of each `txn_man`;
`parts`, `asked` and `released` the progress of `Plock::lock` and of the unlock loops.
`LockGranted`, `LockQueued`, `LockRefused`: `PartMan::lock`. `HandOver`, `LeaveQueue`:
`PartMan::unlock`. `LockEnds`: the spin on `ready_part`.

## 3. Runs

| Run | Instance | Shows |
|---|---|---|
| `locks` | 3 threads, 2 rows, NO_WAIT and WAIT_DIE | `LockTable`, `LockCompatibility`, `WaitDie`, `NoLostWakeup` |
| `serial` | 2 threads, 2 rows, 2 values, all three algorithms | `TypeOK`, `AbortBufferHasRoom`, `Isolation`; implements `SerialDB` (`Serializable`) |
| `wait` | 3 threads, 2 rows, WAIT_DIE and DL_DETECT, fair, no time-outs | every wait ends (`WaitEnds`), by the detector or by wait-die; the recorded edges stay complete (`EdgesStayComplete`) and true (`EdgesStayTrue`); `LockTable`, `DlTypeOK` |
| `silo` | 3 transactions on 2 threads, 2 rows of 2 words, `pre_abort` | `Serializable`, `DataIsReplay`, `NoTornRead`, `TidNamesVersion`, `AssertsHold`, `LockBit` |
| `optimistic` | TICTOC: 2 transactions on 2 rows, all pairs of queries of 2 rows, a delta of 1 bit; SILO: 2 transactions on 2 rows of 2 words; all options and none, fair | TICTOC: `TypeOK`, `TimestampOrder`, `NoTornRead`, `RowIsLatest`, `WtsNamesVersion`, `LockBit`; SILO: `SiloTypeOK`, `SiloSerializable`; both: `EveryTxnEnds` |
| `builds` | MVCC: 3 transactions on 3 threads and 1 row, the same on 2 rows, 5 transactions on 2 threads and 1 row, 4 with timestamps that fit `the_ts`; OCC: 3 transactions, 2 rows, three forms; HSTORE: 3 transactions, 2 partitions; fair | MVCC: `UpdatesInOrder`, `ReadsInOrder`, `NoLostWakeup`, `OwnsPrewrite`, `HistoryIsSound`; OCC: `EndTsOrder`, `WritersDisjoint`; HSTORE: `OwnsWhatItUses`, `BooksBalance`, `WaitForOlder`; all: `MCTypeOK`, `EveryTxnEnds` |
| `nobuffer`, `silo_waiting`, `silo_bounded`, `tictoc_lease`, `mvcc_recycle`, `mvcc_search` | | disagreements, section 6 |

Bounds. Three threads make a waiter list of two, where insertion order and partial
promotion show; two rows make deadlocks, write skew and rollback of more than one
row possible. `MaxClock` bounds the clock. It is 1 in every run: all threads read the same
clock, and their numbers make different timestamps of it, of which a later one may be
the smaller. Timestamps that grow, and a retried query that goes back to an older one,
are not in the runs; `WaitDieCorrect` covers them for every bound. `locks` has no waiters
that give up; `wait` and `NoLostWakeupCorrect` have. An abort buffer of one slot is full
after one abort.
In `silo` three transactions on two threads let one thread commit twice while the
other is in the middle of a copy or of its validation, which is what reused tids and
torn copies take; in `optimistic` `SpinRounds = 1` (the code gives up after four
rounds) makes both the retry and the end of the back-off happen.
In `wait` each thread repeats one query (`Query` in `MCDlDetect`): two threads lock the
two rows in opposite orders, one of them to abort for lack of room after that, and the
third wants one of the rows. This makes deadlocks, searches that start outside the
loop they find, waiter lists of two, and a victim that ends before the store reaches
it. All requests are writes.
In `optimistic` one bit for the delta makes every second renewal a rebase (the code has 15
bits); rows start with a used and with an unused word. Two transactions suffice for
write skew, torn copies and renewals of a locked row, and cannot shorten each other's
lease, which takes three (`tictoc_lease`): `TimestampOrder` of TicToc is false without
that bound, and `TimestampOrderCorrect` says under which condition it holds. The options
are `pre_abort` with bounded spinning, the default, and neither; `silo` has `pre_abort`
alone, and bounded spinning alone is `silo_bounded`.
In `builds` a history of one slot (the code starts with four) is full from the second
version on, so that collection, recycling and doubling all happen, to readers and
writers; one of three slots, with two threads and five transactions, is searched after
it was filled out of order. `FirstTs = 100` is larger than all timestamps of a run, so
that `min_ts` passes transactions of threads that have not published a timestamp, as in
the code. `THE_TS_BITS` is 0, as `TS_CLOCK` makes it, and 8 in one of the four, as
`TS_CAS` does. Readers do meet recycling, a `min_ts` that is ahead of them and searches
that go wrong in this run: the variable `disturbed` of `MCBuilds` records to whom it
happened, `ReadsInOrder` is about all others and `UpdatesInOrder` about everyone. Three
HSTORE transactions make queues of two and a transaction that waits in two queues.
`mvcc_recycle` and `mvcc_search` have the four slots of the code; the former has
timestamps that fit, so that it shows recycling alone, and the latter does not fill
the history, so that it shows the search alone.

Fairness. `WF(Step(t))` for every thread: the operating system runs it again and
again, in `Silo`, `TicToc`, `MVCC`, `Occ`, `Plock` and `DlDetect` alike. In `DlDetect`
it includes that a spinning thread searches again and again, as its loop does. No
fairness between actions of one thread is assumed. `EveryTxnEnds` needs the lock order
of `validate_silo` and `validate_tictoc`; with an unsorted write set two transactions
can release and retry in step for ever. The latches of OCC are taken in the order of
the keys, and are spin locks: a thread that waits for one is disabled.

Each property has a mutant, a plausible mistake in the code that it catches; the
definitions marked "A mutant" are used for that and nowhere else.

## 4. What is proved

For every number of threads, rows and values, every size of the buffers and every
algorithm, from `TwoPhaseAssumption` alone:

* `TypeCorrect`. The invariant is `TypeOK /\ Shape`; `Shape` says that `cleanup`'s
  loop variable stays within `accesses`, without which `RestoreRow` would read a row
  that was never recorded.
* `AbortBufferCorrect`: an aborting query finds a slot.
* `LockTableCorrect`, `LockCompatibilityCorrect`, `NoLostWakeupCorrect`. None of the
  three is inductive alone: a release promotes by looking at `lock_type` (which must
  tell the truth about the owners), hands the lock to the threads in the list (which
  must be the pending ones), and stops at the first conflict (which is why the head
  of a list conflicts). The invariant `LockIndInv` is their conjunction with
  `TypeOK`, `Shape` and `DistinctRows` (a transaction holds a row once, or a release
  would drop a lock still in use). The proof has one lemma per kind of step:
  `GrantStep`, `WaitStep`, `PromoteStep`, `ReleaseStep`, and `QuietStep` for what
  does not touch a lock.
* `WaitDieCorrect`, under the assumption `abort_buffer_enable`: the invariant
  `WaitDieInv` adds `Stamped`, that whoever runs has a timestamp of its own thread,
  so that no two are equal (`GetTsInjective`). Without the buffer the statement is
  false, which `nobuffer` shows.
* `IsolationCorrect`: on top of `LockIndInv`, no one else can write or roll back a
  row a transaction holds.
* `SerializableCorrect`: `TwoPhase` implements `SerialDB`, for all three algorithms.
  `finish(RCOK)` is the commit of the abstract transaction and the end of `cleanup` its
  retirement; every other step, `WriteRow` and `RestoreRow` included, leaves the
  abstract database alone, because the mapping takes for each row the value that was
  there before whoever is writing it. The invariant `SerialInv` needs, besides
  `LockIndInv` and `Isolation`, that a row whose rollback is done but whose lock is not
  yet returned is as the transaction found it (`Undone`), so that returning it changes
  nothing, and that what was only read has not been written (`ReadsKept`), so that a
  commit installs its writes and nothing else.

For HSTORE, for every set of threads, every finite set of partitions and every set
of queries that name no partition twice (`PlockAssumption`):

* `PlockOwnership`, `PlockBooksBalance`, `PlockWaitForOlder`, `PlockTypes`. That a
  running transaction owns its partitions cannot be seen from the owners: all
  `Plock::lock` looks at is that `ready_part` is 0. The invariant `IInv` therefore
  says that `ready_part` is the number of queues the transaction is in (`Counts`, a
  cardinality that every insertion, hand-over and departure changes by one), that it
  is known exactly at the partitions it has asked for and not released (`Table`), how
  far it has come (`Counters`), that timestamps differ (`Stamps`), and that every wait
  is for an older transaction (`WaitForOlder`: a hand-over to the first waiter keeps
  it only because queues are in timestamp order). One lemma per action.

For the detector: a step of `DlDetect` is by its definition one of `TwoPhase` with what
the detector does besides, or leaves the variables of `TwoPhase` alone
(`DetectorInTwoPhase`), so that the lock table, the compatibility of owners and the
absence of lost wake-ups carry over (`DetectorLockTable`), and serializability as well
(`DetectorSerializable`). What is particular to the detector is proved on top of
`LockIndInv`:
`EdgesStayCompleteCorrect`: while a transaction waits, its recorded edges name
everyone it waits for. A waiter records its edges once, while the lock goes on
changing hands, so the invariant `EdgesInv` speaks of those who may yet own the lock:
each waiter not giving up has recorded every conflicting waiter before it and, if it
conflicts with the mode of the lock, every owner (`Covered`). A promotion keeps this
because the lock takes the mode of the promoted, and clearing the edges of an ended
transaction does because it neither owns nor waits.
`EdgesStayTrueCorrect` is the other direction: an edge that is followed, also one of an
earlier wait that nobody has removed, leads from a running transaction to one that is in
its way or that is already giving its locks back. The invariant `TruthInv` says so of each
waiter at its place in the list (`TrueAt`), and of a transaction that does not wait that
all its edges lead to transactions that are ending: locks are given back only at the
end, so whoever was in the way of a lock it has got is ending, or the edge is gone.
`DlTypeCorrect` is about the searches: removing an ended transaction from a search that
is under way leaves one that can go on, and the choice of a victim in a loop has
exactly one answer (a least number of locks, by the least element of a set of numbers).

For Silo, for every number of threads, rows, values and transactions, and for the
parameters that `Sound` allows (no-wait validation, and `pre_abort` if spinning is
bounded; the runs `silo_waiting` and `silo_bounded` show that the statements are false
without): `LockBitCorrect`, `AssertsHoldCorrect`, `TidNamesVersionCorrect`,
`NoTornReadCorrect`, `SerializableCorrect`, `DataIsReplayCorrect` and `TypeCorrect`. The
invariant `SiloInv` has four layers, each resting on the ones
before it:

* `Shape`: how far `validate_silo` has come; the write set names different rows, and
  `idx` and `num_locks` stay within it.
* `BitInv`: the lock bits and the rows from some position to `num_locks` (`Held`)
  agree, and no row is held twice. Every step keeps the bits, sets one that is clear or
  clears one it holds.
* `TidInv`: what was read is not newer than the row, and what is going to be stored is
  newer. The latter survives the steps of others only because the row is held; that
  the new tid exceeds all that were read needs that a finite set of numbers has a
  maximum (`NextTidLarger`, by the least counterexample).
* `DataInv`: a row that no one has begun to overwrite (`Dirty`) and that has the tid of
  a copy has the contents of the copy, also of a copy half taken; and its two words are
  equal. A row that was touched has a new tid or is dirty (`RowStep`), so what is
  known of a copy is never falsified.

Serializability rests on all four. `After(db, h, n)` is the database that the committed
ones among the first `n` transactions of a history leave: a row has what the last of
them to write it left there (`AfterLast`, `AfterAgree`, `AfterTail`, `AfterTrim`). The
invariant `HistInv` relates the history, the rows and the threads; `Owns` are the rows
whose new tid a transaction has yet to store.

* `Entries`: a thread has one running entry while it validates or writes, and the entry
  has the reads and writes of its accesses.
* `Latest`: nobody later in the history writes a row a transaction still owns, because
  two transactions that both have locked their write sets write different rows.
* `ReadsGood`: what a committed transaction has read is what those before it leave, and
  none before it that may still commit writes it; so far as `validate_silo` has come,
  the same of one that validates. The second half is what keeps a later decision of an
  earlier transaction from changing the past: a row that is read is validated as not
  locked, and whoever comes earlier in the history has all its locks.
* `Newer`: a transaction later in the history that commits a write to a row read by one
  that validates has given it a larger tid, or holds it. This is why a tid that has
  not changed shows that nobody came in between (`GoodRead`).
* `Stored`: a row holds what the history leaves in it, unless its writer has yet to
  store the tid.

There is a lemma for each way the history changes: `HistAppend` (the write set is
locked), `HistDecide` (validation succeeds), `HistKept` (everything else: `HistCopies`,
`HistStoreTid`, `HistValidateRead`, `HistEnds`, `HistQuiet`) and `HistTrim` (the history
is cut at the front).

For TicToc, under the same condition `Sound` on the parameters and
`TicTocAssumption` (the lease has room for at least one value, a query names a row
once, as both generators ensure): `LockBitCorrect`, `NoTornReadCorrect`,
`WtsNamesVersionCorrect` and `RowIsLatestCorrect`; `TypeCorrect` needs no condition. The
invariant `TicTocInv` adds to `TypeOK`:

* `Shape`: how far `validate_tictoc` has come, as for Silo; here also where the
  renewals of the read set are.
* `BitInv`: lock bits and `Held` agree. A renewal is an exchange of the whole word, lock
  bit included; it can only succeed on an unlocked word and puts an unlocked one there.
* `WtsInv`: a `wts` only grows. What was read is not newer than the row, a rebase
  included, and the commit timestamp comes after the lease of every row that is still to
  be written. The shortened lease of `tictoc_lease` does no harm here: the lease of a row
  that is written is read again after it is locked.
* `DataInv`: as long as a row has the `wts` it was read under, nobody is overwriting it
  (`Dirty`) and it has the contents that were read, also for a copy just made; a row
  nobody is overwriting is whole. `write_data` stores the new word before the contents,
  so whoever copies in between finds another `wts` at the second load.
* `VersionInv`: the contents of a row are those of the committed transaction with the
  largest timestamp among those that wrote it, which is at most `wts` (a rebase moves
  `wts` on without a new version), or that transaction is still writing it.

That transactions commit in the order of their timestamps is false in general
(`tictoc_lease`). The theorems say that one line is to blame, and nothing else:

* `OnlyStaleRenewalsShorten`: a lease becomes shorter only by an exchange of `try_renew`
  that has found the row with a lease beyond its own commit timestamp and goes on to
  replace it (`StaleRenewal`; the comparison at `row_tictoc.cpp:161` should have ended
  the loop).
* `TimestampOrderCorrect`: every execution in which no renewal is in that state is
  serializable in the order of the commit timestamps (`TimestampOrder /\ Serializable`).
* `UpdatesInTimestampOrder`: so is every execution of transactions that write all they
  read, for they renew nothing.

The invariant is `LeaseInv`, and it is needed because a reader and a later writer never
meet: what keeps them in order is the lease the reader leaves behind. `Covered(r, n)`:
the lease of `r` reaches `n`, or someone who has committed a write of `r` at `n` or later
is about to replace it; so nobody will commit a write of `r` before `n` any more.
`Stands(r, x, m, n)`: the version of `r` that `x` wrote was there at `m` and has no
successor up to `n`. Both hold of every access for the lease it was read under
(`AccessInv`), of the read set at the commit timestamp as far as validation has renewed it
(`RenewedInv`), of every row nobody is overwriting for its own lease (`RowInv`) and of all
reads of committed transactions (`HistInv`). A rebase moves `wts` without a new version, so
`Stands` names versions by their writers and not by `wts`. `LeaseInv` was
checked with TLC first, on the steps without a stale renewal: three transactions with
`RTS_LEN` 15 (434,115 states) and 1 (413,389), and two with queries of up to two rows
(724,010).

For OCC, for any workload, any threads and both validations (`Constants`: the form of
validation is one of the three, queries are lists of requests, `NoTxn` is no thread):

* `EndTsOrderCorrect`: validation per row is serializable in the order of `end_ts`. The
  invariant `OccInv` has to connect two clocks: a transaction compares `wts` of its rows
  with its *start*, while the serial order is that of the *ends*. `Stamps`: no start and
  no end is ahead of the counter. `Versions`: a row has the version, and the `wts`, of the
  last transaction by `end_ts` that wrote it, or that transaction has passed validation
  and is yet to write it. `Read`: what was read is still the last version, or one has
  been added since the start of the reader, which the comparison of `wts` will find; the
  rows it has latched already passed that comparison. `Place` and `Latched` say where
  validation is and which latches it has: they are what keeps others from adding a
  version between the comparison and the drawing of `end_ts`.
* `WritersDisjointCorrect`: for central validation the reason is `Listed`: whoever writes
  is in the active list, and has compared its rows with those that were in it before.
* `TypeCorrect`, with finitely many threads and a natural bound on transactions (`Finite`):
  `TypeOK` bounds every timestamp by `2 * MaxTxns`, which is no inductive bound by itself.
  `Count` is: the counter plus the transactions that may still take an `end_ts` (`Open`)
  is at most twice the transactions started. `Bounds` carries the bound from the counter
  to rows, `wts`, accesses and the history, through the sort before validation.

For MVCC (`Constants`: finitely many threads, queries that name a row once, a history of
at least one slot, natural numbers for the bounds, 2 to the power of `THE_TS_BITS` a
positive number, which the provers cannot work out): `OwnsPrewriteCorrect`,
`NoLostWakeupCorrect`, `HistoryIsSoundCorrect`, `TypeCorrect`. They are proved together,
because `update_buffer` finds the next prewrite by comparing timestamps, `reserveRow`
finds memory by the same timestamps, and both are right only if a timestamp belongs
to one transaction. `MvccInv` has, besides `TypeOK`,

* `Books`, per row: no two slots share memory with each other or with `_row` (`Memory`);
  the valid slots are `_num_versions` many, of different timestamps, all above
  `_oldest_wts` and the youngest at `_latest_wts` (`Versions`); a slot that is reserved and
  not valid is the prewrite's, which is younger than every version (`Reserved`,
  `Prewrite`). `GcSound`, `UnusedSlotSound`, `RecycleSound`,
  `DoubleSound` show that each way to make room keeps the books and leaves a free slot,
  `reserveRowSound` puts them together, `CommittedSound` and `DroppedSound` follow a write
  and an abort, and `SearchVersionSound` that the search always ends at a version that
  is there;
* `Times`: timestamps are handed out once, and no version has the timestamp of a
  transaction that has not committed;
* per thread `Prefix` (its accesses are a prefix of its query), `Given` and `Owned` (a
  transaction that has been given a row for writing is the one of the prewrite),
  `Waiting` (whoever waits and has not been served has its request at the row),
  and per row `Requests` (requests are for transactions that wait, and wait for the
  prewrite). `AfterBufferSound` is the step of `update_buffer`.

Which versions transactions see is a question of its own: `TimestampOrder` is false of the
default build, for two reasons (`mvcc_search`, `mvcc_recycle`). The theorems say what is
true of it all the same, without an assumption on the width of `the_ts`, and that there is no
third reason:

* `UpdatesInOrderCorrect`, without any condition: of every row it updates, a committed
  transaction has read the last version before it. No update is lost.
* `ReadsInOrderCorrect`: of the rows it only reads, too, unless one of two things has
  happened to it. It was `Misled`: its search went past the version it should have
  found, because what `the_ts` keeps of the timestamp is less than that of a version in
  a higher slot. Or it was `Overwritten`: it has been given a version, has not read it
  yet, and the memory is now that of a prewrite. The theorem is stated for any set `D`
  of transactions that contains those to whom this happens; what happens to one of `D`
  does no harm to the others, because readers leave nothing behind but a timestamp.
* `TimestampOrderCorrect` is the case of an empty `D`: executions in which nobody is misled
  or overwritten are serializable in the order of the timestamps.
* `SearchIsExact`: in a reachable state the search gives the last version before the
  reader if and only if the reader is not `Misled`. The condition is thus not a way to
  say "unless it goes wrong", it is a relation between timestamps and slots.
  `WideTsLeads`: it never comes about when timestamps fit `the_ts` (`WideTs`), which holds
  of `TS_CAS` up to 2^32 transactions and never of `TS_CLOCK`.
* `CalmReadsInOrder` replaces `Overwritten` by its causes, what the run `builds` checks:
  `min_ts` is past a reader (a thread draws its timestamp before it publishes it, and
  counts as infinitely young before its first one), or a prewrite is reserved in a history
  that is full and as long as there are threads, so that `reserveRow` may have recycled
  (`Crowded`).

`TimestampOrder` is about transactions that have committed, and is far from inductive: a
transaction commits without validation, so that what it has read must be right when it
is read and stay right. `OrderInv(D)` says why, on top of `MvccInv`:

* `RowFits`, per row: the memory of a version holds what its timestamp says, every version
  is that of a committed transaction, and of those from `_oldest_wts` on none is missing
  but the prewrite of one that is just committing; no read younger than the prewrite was
  served.
* `Right(r, n, v)`: `v` is the last version of `r` before `n`, and it will stay the last
  one (`Settled`), because `n` is not younger than the latest version, than a read that
  was served, or is the prewrite itself: `access` refuses any later prewrite before `n`.
  This is claimed of all that a transaction outside `D` reads, and of what any
  transaction reads in order to update it (`Claimed`): of what was read (`Accessed`), of
  what may still be read through the pointer (`Holds`) and of what committed transactions
  have read (`HistRight`).
* `Wrote`: a prewrite holds the timestamp of its writer, until that returns it.

Every step keeps `OrderInv(D)` if it misleads and overwrites no transaction outside `D`
(one lemma per action, `NewQueryOrder` to `ReturnRowOrder`). An update needs neither
condition: it is given a copy of the latest version, which is no search, in memory that
is its own, which `OwnsPrewrite` says. The search is a loop that may leave the version it
looks for again: `Finds` says what it has after `k` slots, before the newest older version,
at it, and past it; `LookFinds` is one turn, `SearchFinds` the whole, and `SearchFits`
concludes that a reader who is not misled gets the last version before it. For
`CalmReadsInOrder` a reader outside `D` is `Pinned`: its pointer is to a version of the row.
`Stays` says what `reserveRow` loses: nothing, unless it recycles, or versions below
another one that is older than `min_ts`. And a transaction that `min_ts` has not passed
does not read from those (`NotLost`), since it reads the last version before it.
`OrderInv` and `Pinned` were checked with TLC before the proof.

Only model-checked: `TimestampOrder` of TicToc without the condition of the theorem, which
is false in general (`tictoc_lease`) and holds in its run because of the bound of two
transactions; and the liveness properties, which are out of the prover's reach together
with `ENABLED`, with recursive operators and with the library's induction rules. `MCTypeOK`
joins the type invariants of three components, each of them a theorem, and `SiloTypeOK` and
`SiloSerializable` are those of `Silo`, proved in `SiloProofs`. `UpdatesInOrder`,
`ReadsInOrder`, `OwnsPrewrite`, `NoLostWakeup` and `HistoryIsSound` of the run `builds` are those
of `MVCC`, which `MVCCProofs` proves, for each of its four instances; for `ReadsInOrder`,
`D` is the set of those that will ever be in `disturbed`.

## 5. Plan

1. The perfect hash index with `maintain_indexes`: the chain of a bucket under
   inserts at the head and deletes at the tail, and the first insert into a partition.
2. A statement about WAIT_DIE under an endless stream of younger readers, for which
   timestamps must be unbounded.

## 6. Findings

* `nobuffer`: with `abort_buffer_enable=false` no WAIT_DIE transaction gets a
  timestamp, and transactions wait for owners that are not younger.
* `silo_waiting`: a misplaced parenthesis makes the loop of `Row_silo::lock` end at
  once; `validation_lock = "waiting"` does not exclude anyone. `Row_tictoc::lock` has
  the same line (`row_tictoc.cpp:236`); `LockFails` of `TicToc` models it, and the
  runs use `no-wait`.
* `silo_bounded`: bounded spinning without `pre_abort` releases locks twice.
* `tictoc_lease`: the loop of `try_renew` compares a read timestamp with a difference
  of timestamps, and repeats its exchange with the word computed for the first
  attempt: a renewal can shorten the lease another transaction has just taken.
  Three transactions then commit in no serial order. `TicTocProofs` shows that this
  exchange is the only cause.
* `mvcc_search`: `the_ts` of the version search in `Row_mvcc::access` has 32 bits
  (`row_mvcc.cpp:169`). In the default build (`CMakeLists.txt:35`,
  `variant_config/config-2optimised.h:124`), as in 19 of the 22 configurations that name
  a `TS_ALLOC`, timestamps are those of `TS_CLOCK` (`manager.cpp:55`) and never fit. The search then
  ends with the older version in the highest slot instead of the youngest one, and a
  reader that is between two versions commits with a wrong one. Updates are not
  affected (`UpdatesInOrderCorrect`).
* `mvcc_recycle`: readers use versions by pointer, and a full history gives the memory
  of its oldest version to the next writer whoever reads it, once the history is as
  long as there are threads.
  `MVCCProofs` shows that a reader commits with a wrong version for no other reason than
  these two, or a `min_ts` that is ahead of a transaction that still reads.

Two comments the models disagree with, without a run of their own: `row_lock.h:37`
says the head of the waiters is the oldest transaction (under WAIT_DIE it is the
youngest, as the assertion at `row_lock.cpp:229` has it), and `row_mvcc.h` says that a
row has at most four versions (a history is doubled when it is full of prewrites and
versions in use).

Places that look wrong without a run of their own, and are modelled as written or left to
the hazards: central validation compares a timestamp with a count of commits, so that it
does not promise a serial order (`Occ` states `WritersDisjoint` for it, `EndTsOrder` only for
validation per row, the default); the latch variant of `Row_tictoc::write_data` under
`WRITE_PERMISSION_LOCK`, which no configuration selects, clears the lock bit before it
copies.

## 7. Not modelled

* VLL and Hekaton do not compile at this commit (an undeclared mutex; a temporary
  bound to a reference by `compare_exchange_weak`, and `access` called with one
  argument too many), so there is no behaviour to be faithful to. Basic timestamp
  ordering is not in the build file's list of algorithms.
* The indexes. The hash indexes are read-mostly: after loading, transactions change
  them only in the four configurations with `TPCC_ALL_TXN`, through
  `maintain_indexes`. No configuration selects the B-tree.
* `ISOLATION_LEVEL` other than SERIALIZABLE, the latch variants of Silo, TicToc and
  MVCC (a latch in place of an atomic flag), `TICTOC_MV`: not selected.
* Statistics, parameters, loaders, random queries, allocators, table layout: sequential
  code, or I/O.
* `libs/`: vendored, about three fifths of the repository's C++ lines; the variant
  configurations, mostly preprocessor definitions, are another eighth. The share of
  all lines the map names is small for this reason, while the files of
  `concurrency_control/` that are built, and the parts of `system/` and
  `storage/row.cpp` that drive them, are covered almost throughout.

The `status` and `note` of each component in `PROJECT.json` say so one by one.
