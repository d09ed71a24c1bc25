------------------------------- MODULE TestPath --------------------------------
(***************************************************************************)
(* The parallel search of OmpSCR's c_testPath.c: is there a path from      *)
(* source to target?  A team of threads shares a stack of nodes to explore.*)
(* The search ends when some thread meets the target, or when all threads  *)
(* are counted as waiting.                                                 *)
(*                                                                         *)
(* The omp critical sections are atomic steps.  Everything else runs       *)
(* outside of them; the loop tests read num_waiting and found without      *)
(* synchronization, one after the other, and so in a step each.  The order *)
(* of a node's list of successors (without duplicates, tg_add_arc) is left *)
(* open.                                                                   *)
(***************************************************************************)
EXTENDS Integers, Sequences, FiniteSets

CONSTANTS Nodes,
          Threads,   \* the team of the parallel region, nthreads in number
          Graphs,    \* the graphs to search, each a set of successors per node
          source,
          TG_NULLID

ASSUME TestPathAssumption ==
    /\ Graphs \subseteq [Nodes -> SUBSET Nodes] /\ source \in Nodes /\ TG_NULLID \notin Nodes
    /\ IsFiniteSet(Nodes) /\ IsFiniteSet(Threads) /\ Threads # {}

VARIABLES graph,
          target,
          pool,         \* the stack, its top at the end
          searched,     \* nodes that have been pushed because of an arc to them
          found,
          num_waiting,
          waiting,      \* the private variables of each thread
          next,
          at            \* where each thread is

vars == <<graph, target, pool, searched, found, num_waiting, waiting, next, at>>

nthreads == Cardinality(Threads)

Init ==
    /\ graph \in Graphs /\ target \in Nodes
    /\ pool = <<source>>
    /\ searched = {} /\ found = FALSE
    /\ num_waiting = 0
    /\ waiting = [t \in Threads |-> FALSE]
    /\ next = [t \in Threads |-> TG_NULLID]
    /\ at = [t \in Threads |-> "work"]

(* The two tests of the outer loop.                                        *)
WorkUntilAllWait(t) ==
    /\ at[t] = "work"
    /\ at' = [at EXCEPT ![t] = IF num_waiting # nthreads THEN "work on" ELSE "end"]
    /\ UNCHANGED <<graph, target, pool, searched, found, num_waiting, waiting, next>>

WorkUntilFound(t) ==
    /\ at[t] = "work on"
    /\ at' = [at EXCEPT ![t] = IF ~found THEN "get" ELSE "end"]
    /\ UNCHANGED <<graph, target, pool, searched, found, num_waiting, waiting, next>>

(* The tests of the inner loop.                                            *)
GetUntilAllWait(t) ==
    /\ at[t] = "get"
    /\ at' = [at EXCEPT ![t] =
                  IF next[t] = TG_NULLID /\ num_waiting # nthreads THEN "get on" ELSE "process"]
    /\ UNCHANGED <<graph, target, pool, searched, found, num_waiting, waiting, next>>

GetUntilFound(t) ==
    /\ at[t] = "get on"
    /\ at' = [at EXCEPT ![t] = IF ~found THEN "pop" ELSE "process"]
    /\ UNCHANGED <<graph, target, pool, searched, found, num_waiting, waiting, next>>

(* Faulty variant: does not count the thread as waiting.                   *)
Pop_Uncounted(t) ==
    /\ at[t] = "pop"
    /\ at' = [at EXCEPT ![t] = "get"]
    /\ \/ /\ pool # <<>>
          /\ next' = [next EXCEPT ![t] = pool[Len(pool)]]
          /\ pool' = SubSeq(pool, 1, Len(pool) - 1)
          /\ waiting' = [waiting EXCEPT ![t] = FALSE]
          /\ UNCHANGED num_waiting
       \/ /\ pool = <<>>
          /\ waiting' = [waiting EXCEPT ![t] = TRUE]
          /\ UNCHANGED <<num_waiting, pool, next>>
    /\ UNCHANGED <<graph, target, searched, found>>

(* Faulty variant: a thread that gets a node is still counted as waiting.  *)
Pop_StillWaiting(t) ==
    /\ at[t] = "pop"
    /\ at' = [at EXCEPT ![t] = "get"]
    /\ \/ /\ pool # <<>>
          /\ next' = [next EXCEPT ![t] = pool[Len(pool)]]
          /\ pool' = SubSeq(pool, 1, Len(pool) - 1)
          /\ UNCHANGED <<waiting, num_waiting>>
       \/ /\ pool = <<>>
          /\ waiting' = [waiting EXCEPT ![t] = TRUE]
          /\ num_waiting' = IF waiting[t] THEN num_waiting ELSE num_waiting + 1
          /\ UNCHANGED <<pool, next>>
    /\ UNCHANGED <<graph, target, searched, found>>

(* The first critical section: take a node, or be counted as waiting.      *)
Pop(t) ==
    /\ at[t] = "pop"
    /\ at' = [at EXCEPT ![t] = "get"]
    /\ \/ /\ pool # <<>>
          /\ next' = [next EXCEPT ![t] = pool[Len(pool)]]
          /\ pool' = SubSeq(pool, 1, Len(pool) - 1)
          /\ waiting' = [waiting EXCEPT ![t] = FALSE]
          /\ num_waiting' = IF waiting[t] THEN num_waiting - 1 ELSE num_waiting
       \/ /\ pool = <<>>
          /\ waiting' = [waiting EXCEPT ![t] = TRUE]
          /\ num_waiting' = IF waiting[t] THEN num_waiting ELSE num_waiting + 1
          /\ UNCHANGED <<pool, next>>
    /\ UNCHANGED <<graph, target, searched, found>>

(* Faulty variant: looks at the successors first.                          *)
Process_SinkFirst(t) ==
    /\ at[t] = "process"
    /\ IF next[t] # TG_NULLID /\ graph[next[t]] # {}
       THEN IF next[t] = target
            THEN /\ found' = TRUE /\ next' = [next EXCEPT ![t] = TG_NULLID]
                 /\ at' = [at EXCEPT ![t] = "work"]
            ELSE /\ at' = [at EXCEPT ![t] = "push"] /\ UNCHANGED <<found, next>>
       ELSE /\ next' = [next EXCEPT ![t] = TG_NULLID]
            /\ at' = [at EXCEPT ![t] = "work"]
            /\ UNCHANGED found
    /\ UNCHANGED <<graph, target, pool, searched, num_waiting, waiting>>

(* What becomes of the node outside of the critical sections: nothing if   *)
(* there is none, or it has no successors.                                 *)
Process(t) ==
    /\ at[t] = "process"
    /\ IF next[t] # TG_NULLID /\ next[t] # target /\ graph[next[t]] # {}
       THEN /\ at' = [at EXCEPT ![t] = "push"]
            /\ UNCHANGED <<found, next>>
       ELSE /\ found' = (found \/ next[t] = target)
            /\ next' = [next EXCEPT ![t] = TG_NULLID]
            /\ at' = [at EXCEPT ![t] = "work"]
    /\ UNCHANGED <<graph, target, pool, searched, num_waiting, waiting>>

(* The orders in which the elements of S may be listed.                    *)
Orders(S) == {s \in [1 .. Cardinality(S) -> S] : \A v \in S : \E i \in DOMAIN s : s[i] = v}

(* Faulty variant: does not mark what it pushes.                           *)
Push_Unmarked(t) ==
    /\ at[t] = "push"
    /\ \E new \in Orders(graph[next[t]] \ searched) : pool' = pool \o new
    /\ next' = [next EXCEPT ![t] = TG_NULLID]
    /\ at' = [at EXCEPT ![t] = "work"]
    /\ UNCHANGED <<graph, target, searched, found, num_waiting, waiting>>

(* The second critical section: push the successors that are new.          *)
Push(t) ==
    /\ at[t] = "push"
    /\ \E new \in Orders(graph[next[t]] \ searched) : pool' = pool \o new
    /\ searched' = searched \cup graph[next[t]]
    /\ next' = [next EXCEPT ![t] = TG_NULLID]
    /\ at' = [at EXCEPT ![t] = "work"]
    /\ UNCHANGED <<graph, target, found, num_waiting, waiting>>

Worker(t) == \/ WorkUntilAllWait(t) \/ WorkUntilFound(t)
             \/ GetUntilAllWait(t) \/ GetUntilFound(t)
             \/ Pop(t) \/ Process(t) \/ Push(t)

AllEnded == \A t \in Threads : at[t] = "end"

(* The parallel region is over and found is printed.                       *)
Report == AllEnded /\ UNCHANGED vars

Next == Report \/ \E t \in Threads : Worker(t)

Spec == Init /\ [][Next]_vars

(* A critical section is a step that can always be taken, so that it is    *)
(* enough that every thread keeps running.                                 *)
FairSpec == Spec /\ \A t \in Threads : WF_vars(Worker(t))

-------------------------------------------------------------------------------
(* Properties.                                                             *)

(* There is a path to v: every set that holds the source and is closed     *)
(* under successors holds v.                                               *)
Closed(S) == source \in S /\ \A u \in S : graph[u] \subseteq S

Reachable(v) == \A S \in SUBSET Nodes : Closed(S) => v \in S

(* What is printed ("Test if there exist a path between two given nodes",  *)
(* c_testPath.c) is right, although threads end at different times and     *)
(* after reads without synchronization.                                    *)
AnswerIsRight == AllEnded => (found <=> Reachable(target))

InPool == {pool[i] : i \in DOMAIN pool}

Held == {next[t] : t \in Threads} \ {TG_NULLID}

(* "ALL WORKERS ARE WAITING": then there is no work, in the pool or in a   *)
(* thread's hands, and there will be none; nobody ends before that unless  *)
(* the target is found.                                                    *)
NoWorkAbandoned ==
    /\ num_waiting = nthreads => InPool = {} /\ Held = {}
    /\ \A t \in Threads : at[t] = "end" => found \/ num_waiting = nthreads

(* "PUSH ONLY NON-EXPLORED NODES": no node is in work twice, although the  *)
(* source is not marked when it is pushed.                                 *)
NoNodeTwice ==
    /\ \A i, j \in DOMAIN pool : pool[i] = pool[j] => i = j
    /\ \A t \in Threads : next[t] \notin InPool
    /\ \A t, u \in Threads : next[t] = next[u] /\ next[t] # TG_NULLID => t = u

(* The search ends: the threads that spin on an empty pool do not keep each*)
(* other from noticing.                                                    *)
Termination == <>AllEnded

(* The invariant that the proofs rest on.                                  *)

TypeOK ==
    /\ graph \in Graphs /\ target \in Nodes
    /\ pool \in Seq(Nodes) /\ searched \subseteq Nodes
    /\ found \in BOOLEAN /\ num_waiting \in 0 .. nthreads
    /\ waiting \in [Threads -> BOOLEAN]
    /\ next \in [Threads -> Nodes \cup {TG_NULLID}]
    /\ at \in [Threads -> {"work", "work on", "get", "get on", "pop", "process", "push", "end"}]

Waiting == {t \in Threads : waiting[t]}

(* A waiting thread has no node, and only these places go with a node.     *)
ThreadsOK == \A t \in Threads :
    /\ next[t] # TG_NULLID => at[t] \in {"get", "process", "push"} /\ ~waiting[t]
    /\ at[t] = "push" => next[t] \notin {TG_NULLID, target}

InWork == InPool \cup Held

(* Only nodes that can be reached are ever touched.                        *)
Sound ==
    /\ \A v \in InWork \cup searched : Reachable(v)
    /\ found => Reachable(target)

(* A node that has been seen is in work, or all its successors are seen.   *)
Complete == \A v \in searched \cup {source} :
    \/ v \in InWork
    \/ v = target /\ found
    \/ v # target /\ graph[v] \subseteq searched

(* As long as the source is in work and not marked, it is the only work.   *)
FirstNode ==
    /\ InWork \subseteq searched \cup {source}
    /\ source \in InWork \ searched => InWork = {source}

IndInv ==
    /\ TypeOK /\ ThreadsOK
    /\ num_waiting = Cardinality(Waiting)
    /\ Waiting = Threads => pool = <<>>
    /\ \A t \in Threads : at[t] = "end" => found \/ Waiting = Threads
    /\ Sound /\ Complete
    /\ FirstNode /\ NoNodeTwice

===============================================================================
