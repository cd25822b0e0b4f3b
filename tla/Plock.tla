------------------------------- MODULE Plock --------------------------------
(***************************************************************************)
(* The partition locks of DBx1000 (CC_ALG HSTORE): a transaction locks all *)
(* partitions it accesses before it runs and releases them afterwards.     *)
(*                                                                         *)
(* PartMan::lock grants a free partition, queues a transaction that is     *)
(* younger than the owner and refuses an older one.  A transaction does    *)
(* not wait where it is queued: it asks for its other partitions, too, and *)
(* then spins on ready_part, the number of queues it is in, which the      *)
(* threads that release partitions count down.  On a refusal it leaves the *)
(* partitions and the queues it has taken so far.                          *)
(*                                                                         *)
(* PartMan::lock and PartMan::unlock run under the latch of the partition  *)
(* and are one step each.                                                  *)
(***************************************************************************)
EXTENDS Worker, FiniteSets, SequencesExt

CONSTANTS Parts,      \* the partitions
          PartLists   \* the part_to_access of the queries

\* No query names a partition twice (ycsb_query.cpp and tpcc_query.cpp test it).
ASSUME PlockAssumption ==
  /\ IsFiniteSet(Parts)
  /\ NoTxn \notin Threads
  /\ \A l \in PartLists : /\ l \in Seq(Parts)
                          /\ \A k, n \in 1..Len(l) : l[k] = l[n] => k = n
  /\ MaxTxns \in Nat

VARIABLES
  owner,        \* PartMan::owner
  waiters,      \* PartMan::waiters, the first waiter_cnt entries
  ready_part,   \* txn_man::ready_part
  ts,           \* txn_man::timestamp
  parts,        \* part_to_access of the current query
  asked,        \* how many of parts it has asked for: i in Plock::lock
  released      \* how many it has released again: the counter of the unlock loops

plockVars == <<owner, waiters, ready_part, ts, timestamp, parts, pc, asked, released>>
tableVars == <<owner, waiters, ready_part>>
queryVars == <<ts, timestamp, parts>>

PlockTypeOK ==
  /\ owner \in [Parts -> Threads \cup {NoTxn}]
  /\ waiters \in [Parts -> Seq(Threads)]
  /\ ready_part \in [Threads -> Int]
  /\ ts \in [Threads -> Nat]
  /\ timestamp \in Nat
  /\ parts \in [Threads -> PartLists \cup {<<>>}]
  /\ pc \in [Threads -> {"idle", "lock", "run", "undo", "unlock"}]
  /\ asked \in [Threads -> Nat]
  /\ released \in [Threads -> Nat]

PlockInit ==
  /\ owner = [p \in Parts |-> NoTxn]
  /\ waiters = [p \in Parts |-> <<>>]
  /\ ready_part = [t \in Threads |-> 0]
  /\ ts = [t \in Threads |-> 0]
  /\ timestamp = 0
  /\ parts = [t \in Threads |-> <<>>]
  /\ pc = [t \in Threads |-> "idle"]
  /\ asked = [t \in Threads |-> 0]
  /\ released = [t \in Threads |-> 0]

-----------------------------------------------------------------------------
(***************************************************************************)
(* thread_t::run                                                           *)
(***************************************************************************)

\* A new or retried query, always with a new timestamp.
NewPartQuery(t, l) ==
  /\ pc[t] = "idle"
  /\ timestamp < MaxTxns
  /\ timestamp' = timestamp + 1
  /\ ts' = [ts EXCEPT ![t] = timestamp + 1]
  /\ parts' = [parts EXCEPT ![t] = l]
  /\ asked' = [asked EXCEPT ![t] = 0]
  /\ released' = [released EXCEPT ![t] = 0]
  /\ Goto(t, "lock")
  /\ UNCHANGED tableVars

\* run_txn, which accesses rows of the partitions without any other lock.
RunTxn(t) ==
  /\ pc[t] = "run"
  /\ Goto(t, "unlock")
  /\ UNCHANGED <<tableVars, queryVars, asked, released>>

\* Every query has been run.
PlockEnded == timestamp = MaxTxns /\ \A t \in Threads : pc[t] = "idle"
PlockAllDone == PlockEnded /\ UNCHANGED plockVars

-----------------------------------------------------------------------------
(***************************************************************************)
(* Plock::lock and PartMan::lock                                           *)
(***************************************************************************)
AsksPart(t) == pc[t] = "lock" /\ asked[t] < Len(parts[t])
Wanted(t) == parts[t][asked[t] + 1]

\* The partition is free.
LockGranted(t) ==
  /\ AsksPart(t)
  /\ owner[Wanted(t)] = NoTxn
  /\ owner' = [owner EXCEPT ![Wanted(t)] = t]
  /\ asked' = [asked EXCEPT ![t] = @ + 1]
  /\ UNCHANGED <<waiters, ready_part, queryVars, pc, released>>

\* A mutant: new waiters go to the end of the list.
Position_Last(w, t, p) == p = Len(w) + 1

\* p is where t goes in the waiters w: behind the last one that is older.
Position(w, t, p) ==
  /\ \A n \in p..Len(w) : ~(ts[t] > ts[w[n]])
  /\ p > 1 => ts[t] > ts[w[p - 1]]

\* A mutant: the counter is not told of the second and later queues.
LockQueued_CountsOnce(t) ==
  /\ AsksPart(t)
  /\ owner[Wanted(t)] # NoTxn /\ ts[owner[Wanted(t)]] < ts[t]
  /\ \E p \in 1..(Len(waiters[Wanted(t)]) + 1) :
       /\ Position(waiters[Wanted(t)], t, p)
       /\ waiters' = [waiters EXCEPT ![Wanted(t)] = InsertAt(@, p, t)]
  /\ ready_part' = [ready_part EXCEPT ![t] = 1]
  /\ asked' = [asked EXCEPT ![t] = @ + 1]
  /\ UNCHANGED <<owner, queryVars, pc, released>>

\* An older transaction owns it: t is queued and goes on with its next partition.
LockQueued(t) ==
  /\ AsksPart(t)
  /\ owner[Wanted(t)] # NoTxn /\ ts[owner[Wanted(t)]] < ts[t]
  /\ \E p \in 1..(Len(waiters[Wanted(t)]) + 1) :
       /\ Position(waiters[Wanted(t)], t, p)
       /\ waiters' = [waiters EXCEPT ![Wanted(t)] = InsertAt(@, p, t)]
  /\ ready_part' = [ready_part EXCEPT ![t] = @ + 1]
  /\ asked' = [asked EXCEPT ![t] = @ + 1]
  /\ UNCHANGED <<owner, queryVars, pc, released>>

\* A younger one owns it: Abort.
LockRefused(t) ==
  /\ AsksPart(t)
  /\ owner[Wanted(t)] # NoTxn /\ ~(ts[owner[Wanted(t)]] < ts[t])
  /\ Goto(t, "undo")
  /\ UNCHANGED <<tableVars, queryVars, asked, released>>

\* All partitions have been asked for and ready_part is seen to be 0.
LockEnds(t) ==
  /\ pc[t] = "lock" /\ asked[t] = Len(parts[t])
  /\ ready_part[t] <= 0
  /\ Goto(t, "run")
  /\ UNCHANGED <<tableVars, queryVars, asked, released>>

-----------------------------------------------------------------------------
(***************************************************************************)
(* PartMan::unlock, for each partition asked for                           *)
(***************************************************************************)
Releases(t) == pc[t] \in {"undo", "unlock"} /\ released[t] < asked[t]
Left(t) == parts[t][released[t] + 1]

\* t owns it; the first waiter, if any, takes over and has a queue less to wait in.
HandOver(t) ==
  LET w == waiters[Left(t)] IN
  /\ Releases(t)
  /\ owner[Left(t)] = t
  /\ \/ /\ w = <<>>
        /\ owner' = [owner EXCEPT ![Left(t)] = NoTxn]
        /\ UNCHANGED <<waiters, ready_part>>
     \/ /\ w # <<>>
        /\ owner' = [owner EXCEPT ![Left(t)] = w[1]]
        /\ waiters' = [waiters EXCEPT ![Left(t)] = SubSeq(w, 2, Len(w))]
        /\ ready_part' = [ready_part EXCEPT ![w[1]] = @ - 1]
  /\ released' = [released EXCEPT ![t] = @ + 1]
  /\ UNCHANGED <<queryVars, pc, asked>>

\* A mutant: a transaction that gives up stays in the queue.
LeaveQueue_Stays(t) ==
  /\ Releases(t)
  /\ owner[Left(t)] # t
  /\ ready_part' = [ready_part EXCEPT ![t] = @ - 1]
  /\ released' = [released EXCEPT ![t] = @ + 1]
  /\ UNCHANGED <<owner, waiters, queryVars, pc, asked>>

\* t is one of the waiters.
LeaveQueue(t) ==
  LET w == waiters[Left(t)] IN
  /\ Releases(t)
  /\ owner[Left(t)] # t
  /\ \E k \in 1..Len(w) :
       /\ w[k] = t
       /\ waiters' = [waiters EXCEPT ![Left(t)] = RemoveAt(w, k)]
  /\ ready_part' = [ready_part EXCEPT ![t] = @ - 1]
  /\ released' = [released EXCEPT ![t] = @ + 1]
  /\ UNCHANGED <<owner, queryVars, pc, asked>>

\* All are released.
UnlockEnds(t) ==
  /\ pc[t] \in {"undo", "unlock"} /\ released[t] = asked[t]
  /\ Goto(t, "idle")
  /\ UNCHANGED <<tableVars, queryVars, asked, released>>

-----------------------------------------------------------------------------
PlockStep(t) ==
  \/ \E l \in PartLists : NewPartQuery(t, l)
  \/ LockGranted(t) \/ LockQueued(t) \/ LockRefused(t) \/ LockEnds(t)
  \/ RunTxn(t)
  \/ HandOver(t) \/ LeaveQueue(t) \/ UnlockEnds(t)

PlockNext == PlockAllDone \/ \E t \in Threads : PlockStep(t)

PlockSpec == PlockInit /\ [][PlockNext]_plockVars

\* The operating system keeps scheduling every thread.
PlockFairSpec == PlockSpec /\ \A t \in Threads : WF_plockVars(PlockStep(t))

-----------------------------------------------------------------------------
(***************************************************************************)
(* Properties                                                              *)
(***************************************************************************)

\* The partitions t has asked for and not released yet, and those it waits for.
Held(t) == {parts[t][k] : k \in (released[t] + 1)..asked[t]}
Waits(w, t) == \E k \in 1..Len(w) : w[k] = t
Queued(t) == {p \in Parts : Waits(waiters[p], t)}

\* A transaction that runs owns every partition it accesses, although it never
\* looks at the owners again after it was queued: all it has seen is that a counter
\* other threads change was 0.
OwnsWhatItUses ==
  \A t \in Threads : pc[t] = "run" =>
    \A k \in 1..Len(parts[t]) : owner[parts[t][k]] = t

\* The books of the lock table: ready_part is the number of queues a transaction is
\* in, whatever others hand over to it while it is still asking or giving up, and a
\* transaction is known exactly at the partitions it has asked for and not released.
\* PartMan::unlock and Plock::lock assert parts of this (assert(find),
\* ready_part >= 0, ready_part == 0 after an abort).
BooksBalance ==
  /\ \A t \in Threads : ready_part[t] = Cardinality(Queued(t))
  /\ \A t \in Threads : \A p \in Parts : (owner[p] = t \/ p \in Queued(t)) <=> p \in Held(t)

\* Nobody ever waits for a younger transaction, so no cycle of waits can arise: the
\* owner of a partition is older than its waiters, and each waiter older than the
\* next (assert in PartMan::unlock), although a new owner is never compared with
\* those that wait; and a free partition has no waiters.
Ordered(w) == \A k, n \in 1..Len(w) : k < n => ts[w[k]] < ts[w[n]]
WaitForOlder ==
  \A p \in Parts :
    /\ \A k \in 1..Len(waiters[p]) : owner[p] # NoTxn /\ ts[owner[p]] < ts[waiters[p][k]]
    /\ Ordered(waiters[p])

=============================================================================
