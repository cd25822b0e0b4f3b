------------------------------ MODULE DlDetect ------------------------------
(***************************************************************************)
(* The deadlock detector of DBx1000 (concurrency_control/dl_detect), in    *)
(* the program that uses it: TwoPhase with the graph of waits and the      *)
(* search the spinning threads run on it, in place of the free choice of a *)
(* victim.  A thread spins without a time-out: g_timeout is longer than    *)
(* any wait considered.                                                    *)
(*                                                                         *)
(* A transaction id is that of its thread together with a count, which     *)
(* tells an edge to a transaction that has ended from one to the next of   *)
(* the same thread.  Here an edge is the thread alone: what still names a  *)
(* transaction when it ends is removed (Forget), which is what the         *)
(* comparison of ids makes of it in the code.                              *)
(***************************************************************************)
EXTENDS TwoPhase

CONSTANT NoTxn   \* no node is to be entered, or no victim has been found

ASSUME DlAssumption == NoTxn \notin Threads

VARIABLES
  txnids,      \* the edges lock_get has recorded for the wait of each thread
  dep_added,   \* the local variable of row_t::get_row
  dependency,  \* DL_detect::dependency, one DepThd for each thread
  detect       \* DetectData and the stack of nextNode, of a thread that searches

dlVars == <<txnids, dep_added, dependency, detect>>

\* txnid is the id of the current transaction of the thread, not -1.
DepThd == [adj: SUBSET Threads, txnid: BOOLEAN, num_locks: Nat]
NoDep == [adj |-> {}, txnid |-> FALSE, num_locks |-> 0]

\* A call of nextNode: its node, the edges it has copied and not looked at yet,
\* the locks its transaction holds, and whether that transaction has not ended.
Frame == [node: Threads, edges: SUBSET Threads, locks: Nat, current: BOOLEAN]

\* A search: its calls of nextNode, whose nodes are recStack, the visited nodes, the
\* node to be entered next, and the victim if a loop was found.
Search == [stack: Seq(Frame), visited: SUBSET Threads,
           next: Threads \cup {NoTxn}, victim: Threads \cup {NoTxn}]
NoSearch == [stack |-> <<>>, visited |-> {}, next |-> NoTxn, victim |-> NoTxn]

DlInit ==
  /\ Init
  /\ txnids = [t \in Threads |-> {}]
  /\ dep_added = [t \in Threads |-> FALSE]
  /\ dependency = [t \in Threads |-> NoDep]
  /\ detect = [t \in Threads |-> NoSearch]

-----------------------------------------------------------------------------
(***************************************************************************)
(* The search.  Only entering a node, looking at an edge and the store at  *)
(* the end touch what others can see; what a search does in between is     *)
(* part of the step before.                                                *)
(***************************************************************************)

\* The calls left when those that have no edge to look at have returned.
Unwound(s) ==
  SubSeq(s, 1, CHOOSE n \in 0..Len(s) : /\ n > 0 => s[n].edges # {}
                                        /\ \A i \in (n + 1)..Len(s) : s[i].edges = {})

\* The search goes on at the node u, or with the next edge, or is over.
SearchOn(s, visited, u) ==
  IF u = NoTxn /\ Unwound(s) = <<>> THEN NoSearch
  ELSE [stack |-> IF u = NoTxn THEN Unwound(s) ELSE s, visited |-> visited,
        next |-> u, victim |-> NoTxn]

\* A loop back to the k-th call of s: as the calls return, the first one with fewer
\* locks than those before it becomes min_txnid.
Victim(s, k) ==
  CHOOSE i \in k..Len(s) : \A j \in k..Len(s) :
    s[i].locks < s[j].locks \/ (s[i].locks = s[j].locks /\ j <= i)

\* A mutant: the victim is the place of the transaction in the search.
LoopFound_Place(s, k) ==
  IF s[Victim(s, k)].current THEN [NoSearch EXCEPT !.victim = Victim(s, k)] ELSE NoSearch

\* The search is over but for the store, unless the transaction to be aborted has
\* ended already.
LoopFound(s, k) ==
  LET v == s[Victim(s, k)] IN
  IF v.current THEN [NoSearch EXCEPT !.victim = v.node] ELSE NoSearch

\* What a search makes of the end of the transaction of t: no edge leads to it any
\* more, entering it fails, and it does not become a victim.
Forget(d, t) ==
  LET s == [i \in 1..Len(d.stack) |->
              [d.stack[i] EXCEPT !.edges = @ \ {t}, !.current = @ /\ d.stack[i].node # t]]
  IN CASE d.victim = t -> NoSearch
       [] d.victim \notin {t, NoTxn} -> d
       [] d.victim = NoTxn /\ d.next = t -> SearchOn(s, d.visited \cup {t}, NoTxn)
       [] OTHER -> SearchOn(s, d.visited, d.next)

-----------------------------------------------------------------------------
(***************************************************************************)
(* The edges                                                               *)
(***************************************************************************)

\* A mutant: only the owners are recorded, not the waiters.
WaitsFor_Owners(w, r, mode) == owners[r]

\* Whom a request behind the waiters w of r waits for: those of them and those
\* owners it is in conflict with.
WaitsFor(w, r, mode) ==
  {w[i].txn : i \in {j \in 1..Len(w) : conflict_lock(mode, w[j].type)}}
  \cup (IF conflict_lock(mode, lock_type[r]) THEN owners[r] ELSE {})

\* lock_get records the edges when it returns WAIT.
LockWaitEdges(t, r, type) ==
  /\ LockWait(t, r, type)
  /\ txnids' = [txnids EXCEPT ![t] =
       IF cc_alg = "DL_DETECT" THEN WaitsFor(waiters[r], r, Mode(type)) ELSE {}]
  /\ UNCHANGED <<dep_added, dependency, detect>>

\* The spin loop ends, which it never does within a search, and its local variables
\* with it.
LeaveSpinning(t) ==
  /\ detect[t] = NoSearch
  /\ WaitGranted(t) \/ WaitAborted(t)
  /\ txnids' = [txnids EXCEPT ![t] = {}]
  /\ dep_added' = [dep_added EXCEPT ![t] = FALSE]
  /\ UNCHANGED <<dependency, detect>>

\* A mutant: clear_dep forgets the id and keeps the edges.
CleanupClears_KeepsEdges(t) ==
  /\ CleanupDone(t)
  /\ txnids' = [u \in Threads |-> txnids[u] \ {t}]
  /\ dependency' = [u \in Threads |->
        IF u = t THEN [NoDep EXCEPT !.adj = dependency[t].adj]
                 ELSE [dependency[u] EXCEPT !.adj = @ \ {t}]]
  /\ \E compared \in SUBSET {u \in Threads : detect[u].victim = t} :
       detect' = [u \in Threads |->
                    IF u \in compared THEN detect[u] ELSE Forget(detect[u], t)]
  /\ UNCHANGED dep_added

\* cleanup ends with clear_dep.  A search that has compared the id of its victim t
\* before will still store, and abort the next transaction of the thread.
CleanupClears(t) ==
  /\ CleanupDone(t)
  /\ txnids' = [u \in Threads |-> txnids[u] \ {t}]
  /\ dependency' = [u \in Threads |->
        IF u = t THEN NoDep ELSE [dependency[u] EXCEPT !.adj = @ \ {t}]]
  /\ \E compared \in SUBSET {u \in Threads : detect[u].victim = t} :
       detect' = [u \in Threads |->
                    IF u \in compared THEN detect[u] ELSE Forget(detect[u], t)]
  /\ UNCHANGED dep_added

\* What nextNode copies of the node u under its latch.
Enter(u, dep) ==
  [node |-> u, edges |-> dep.adj, locks |-> dep.num_locks, current |-> TRUE]

\* What the graph has for t once its present wait is in it.  The edges of earlier
\* waits stay until the transaction ends.
add_dep(t) ==
  IF dep_added[t] THEN dependency[t]
  ELSE [adj |-> dependency[t].adj \cup txnids[t], txnid |-> TRUE,
        num_locks |-> Len(accesses[t])]

\* One turn of the spin loop that has lasted for g_dl_loop_detect: add_dep, the first
\* time in this wait, and detect_cycle, which enters the node of t, no one else's.
StartDetect(t) ==
  /\ cc_alg = "DL_DETECT"
  /\ pc[t] = "waiting" /\ detect[t] = NoSearch
  /\ ~lock_ready[t] /\ ~lock_abort[t]
  /\ dep_added' = [dep_added EXCEPT ![t] = TRUE]
  /\ dependency' = [dependency EXCEPT ![t] = add_dep(t)]
  /\ detect' = [detect EXCEPT ![t] = SearchOn(<<Enter(t, add_dep(t))>>, {t}, NoTxn)]
  /\ UNCHANGED <<vars, txnids>>

\* nextNode enters a node, unless the id is stale by then.
EnterNode(t) ==
  LET d == detect[t]
      u == d.next
  IN
  /\ u # NoTxn
  /\ detect' = [detect EXCEPT ![t] =
       SearchOn(IF dependency[u].txnid THEN Append(d.stack, Enter(u, dependency[u]))
                                       ELSE d.stack,
                d.visited \cup {u}, NoTxn)]
  /\ UNCHANGED <<vars, txnids, dep_added, dependency>>

\* A mutant: the id of the edge, of which 32 bits are left, is never that of the node.
Closes_Truncated(s, k, u) == FALSE

\* The edge to u leads back to the k-th call of s, and is not stale.
Closes(s, k, u) == s[k].node = u /\ dependency[u].txnid

\* nextNode looks at an edge of its node: it closes a loop, leads to a new node, or
\* is passed over.
FollowEdge(t) ==
  LET d == detect[t]
      n == Len(d.stack)
  IN
  /\ n > 0 /\ d.next = NoTxn
  /\ \E u \in d.stack[n].edges :
       LET rest == [d.stack EXCEPT ![n].edges = @ \ {u}] IN
       \/ \E k \in 1..n :
            /\ Closes(d.stack, k, u)
            /\ detect' = [detect EXCEPT ![t] = LoopFound(d.stack, k)]
       \/ /\ \A k \in 1..n : ~Closes(d.stack, k, u)
          /\ u \notin d.visited /\ dependency[u].txnid
          /\ detect' = [detect EXCEPT ![t] = SearchOn(rest, d.visited, u)]
       \/ /\ \A k \in 1..n : ~Closes(d.stack, k, u)
          /\ u \in d.visited \/ ~dependency[u].txnid
          /\ detect' = [detect EXCEPT ![t] = SearchOn(rest, d.visited, NoTxn)]
  /\ UNCHANGED <<vars, txnids, dep_added, dependency>>

\* detect_cycle stores to lock_abort of the victim; whether the victim still waits by
\* then is not looked at, and a store to one that does not has no effect.
StoreVictim(t) ==
  \E u \in Threads :
    /\ detect[t].victim = u
    /\ \/ DetectDeadlock(t, u)
       \/ pc[u] \notin {"enqueued", "waiting"} /\ UNCHANGED vars
    /\ detect' = [detect EXCEPT ![t] = NoSearch]
    /\ UNCHANGED <<txnids, dep_added, dependency>>

-----------------------------------------------------------------------------
\* The steps of TwoPhase that do not concern the detector.
Elsewhere(t) ==
  \/ NewQuery(t) \/ RetryQuery(t)
  \/ RowBufferFull(t)
  \/ \E r \in Rows, type \in {"RD", "WR"} : LockGranted(t, r, type) \/ LockDenied(t, r, type)
  \/ StartWaiting(t)
  \/ RecordAccess(t)
  \/ \E i \in 1..Len(accesses[t]), v \in Val : WriteRow(t, i, v)
  \/ Finish(t) \/ GiveUp(t)
  \/ RestoreRow(t) \/ ReturnRow(t)

DlStep(t) ==
  \/ Elsewhere(t) /\ UNCHANGED dlVars
  \/ \E r \in Rows, type \in {"RD", "WR"} : LockWaitEdges(t, r, type)
  \/ LeaveSpinning(t) \/ CleanupClears(t)
  \/ StartDetect(t) \/ EnterNode(t) \/ FollowEdge(t) \/ StoreVictim(t)

DlNext == \E t \in Threads : DlStep(t)

DlSpec == DlInit /\ [][DlNext]_<<vars, dlVars>>

\* The operating system keeps scheduling every thread, and a spinning thread searches
\* again and again.
DlFairness == \A t \in Threads : WF_<<vars, dlVars>>(DlStep(t))

-----------------------------------------------------------------------------
(***************************************************************************)
(* Properties                                                              *)
(***************************************************************************)

\* The edges, the graph and the searches have their types: a search enters threads
\* only, and a victim is one.
DlTypeOK ==
  /\ TypeOK
  /\ txnids \in [Threads -> SUBSET Threads]
  /\ dep_added \in [Threads -> BOOLEAN]
  /\ dependency \in [Threads -> DepThd]
  /\ detect \in [Threads -> Search]

\* The edges are recorded once, when the wait begins, while owners release the lock
\* and waiters are promoted or give up.  Whoever is in the way of a spinning waiter at
\* any later time is still among the transactions recorded for it: no deadlock has an
\* edge the detector cannot know.
EdgesStayComplete ==
  cc_alg = "DL_DETECT" =>
    \A r \in Rows : \A i \in 1..Len(waiters[r]) :
      LET w == waiters[r] IN
      pc[w[i].txn] # "giveup" =>
        WaitsFor(SubSeq(w, 1, i - 1), r, w[i].type) \subseteq txnids[w[i].txn]

\* The edges t has in the graph or is about to add to it.
Edges(t) == dependency[t].adj \cup txnids[t]

\* u is in the way of t: it owns or waits for a lock t waits for, before t and in
\* conflict with it.
InTheWay(u, t) ==
  \E r \in Rows : \E i \in 1..Len(waiters[r]) :
    /\ waiters[r][i].txn = t
    /\ u \in WaitsFor(SubSeq(waiters[r], 1, i - 1), r, waiters[r][i].type)

\* The transaction of t has committed or aborted and is returning its rows.
Ending(t) == pc[t] \in {"cleanup", "undone"}

\* An edge is taken out of the graph only when one of its two transactions ends, so
\* that those of earlier waits are still there in a later one.  Yet whoever an edge of
\* a running transaction leads to is in its way or is returning its rows: a loop of
\* edges is a deadlock unless one of its transactions is ending already.
EdgesStayTrue ==
  cc_alg = "DL_DETECT" =>
    \A t \in Threads : ~Ending(t) =>
      \A u \in Edges(t) : InTheWay(u, t) \/ Ending(u)

=============================================================================
