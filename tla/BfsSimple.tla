------------------------------- MODULE BfsSimple -------------------------------
(***************************************************************************)
(* The breadth-first search of graph500 over MPI (bfs_simple.c): every     *)
(* rank owns some of the vertices, scans its queue of the current level    *)
(* and sends edges to the owners of their targets in coalesced messages.   *)
(* A message of length 0 says that its sender is done for this level.      *)
(* While a rank waits, it polls: it handles messages that have come, and   *)
(* notices that its own sends are complete.                                *)
(*                                                                         *)
(* MPI keeps the order of messages between two ranks and nothing else: a   *)
(* receive from any source may match the first message of any sender.  A   *)
(* send may complete as soon as it is buffered, and need not before it is  *)
(* received.  The bitmap of visited vertices is left out, since it is      *)
(* written together with pred.                                             *)
(***************************************************************************)
EXTENDS Naturals, SequencesExt

CONSTANTS Size,             \* ranks
          NumVertices,      \* g.nglobalverts
          CoalescingSize,   \* coalescing_size: edges in a message
          column,           \* g.column: the edges of each vertex
          Root,
          NotVisited        \* -1 in pred

Ranks == 0 .. Size - 1
Vertices == 0 .. NumVertices - 1
VERTEX_OWNER(v) == v % Size

ASSUME BfsAssumption ==
    /\ Size \in Nat \ {0} /\ CoalescingSize \in Nat \ {0} /\ NumVertices \in Nat
    /\ Root \in Vertices /\ NotVisited \notin Vertices
    /\ column \in [Vertices -> Seq(Vertices)]

VARIABLES
    pred,
    oldq, newq,      \* each rank's queues of this level and of the next
    i,               \* index into oldq
    edges,           \* edges of oldq[i] not yet scanned
    outgoing,        \* the coalescing buffers, by rank and destination
    active,          \* outgoing_reqs_active
    net,             \* messages on their way, by sender and receiver
    num_ranks_done,
    offset,          \* the loop counter of the flush
    at               \* where each rank is in its level

scanVars == <<oldq, i, edges>>
sendVars == <<outgoing, active, net>>
vars == <<pred, oldq, newq, i, edges, outgoing, active, net, num_ranks_done, offset, at>>

NoMessages == [r \in Ranks |-> [d \in Ranks |-> <<>>]]

Init ==
    /\ pred = [v \in Vertices |-> IF v = Root THEN Root ELSE NotVisited]
    /\ oldq = [r \in Ranks |-> IF VERTEX_OWNER(Root) = r THEN <<Root>> ELSE <<>>]
    /\ newq = [r \in Ranks |-> <<>>]
    /\ i = [r \in Ranks |-> 1]
    /\ edges = [r \in Ranks |-> <<>>]
    /\ outgoing = NoMessages
    /\ active = [r \in Ranks |-> [d \in Ranks |-> FALSE]]
    /\ net = NoMessages
    /\ num_ranks_done = [r \in Ranks |-> 1]     \* "I never send to myself"
    /\ offset = [r \in Ranks |-> 1]
    /\ at = [r \in Ranks |-> "scan"]

Goto(r, where) == at' = [at EXCEPT ![r] = where]

(* Faulty variant: does not look whether the target was visited.           *)
Reach_Again(st, e) ==
    [pred |-> [st.pred EXCEPT ![e.tgt] = e.src], newq |-> Append(st.newq, e.tgt)]

(* Process one edge whose target this rank owns.                           *)
Reach(st, e) ==
    IF st.pred[e.tgt] # NotVisited
    THEN st
    ELSE [pred |-> [st.pred EXCEPT ![e.tgt] = e.src], newq |-> Append(st.newq, e.tgt)]

ReachAll(r, es) ==
    LET st == FoldLeft(Reach, [pred |-> pred, newq |-> newq[r]], es)
    IN  /\ pred' = st.pred
        /\ newq' = [newq EXCEPT ![r] = st.newq]

(* MPI_Isend of a buffer: the message is on its way, and the buffer must   *)
(* be left alone until the request is complete.                            *)
Isend(r, d, m) ==
    /\ net' = [net EXCEPT ![r][d] = Append(@, m)]
    /\ active' = [active EXCEPT ![r][d] = TRUE]

-------------------------------------------------------------------------------
(* Scanning the queue of this level.                                       *)

src(r) == oldq[r][i[r]]
owner(r) == VERTEX_OWNER(Head(edges[r]))

BeginVertex(r) ==
    /\ at[r] = "scan" /\ i[r] <= Len(oldq[r])
    /\ edges' = [edges EXCEPT ![r] = column[src(r)]]
    /\ Goto(r, "edges")
    /\ UNCHANGED <<pred, oldq, newq, i, sendVars, num_ranks_done, offset>>

LocalEdge(r) ==
    /\ at[r] = "edges" /\ edges[r] # <<>> /\ owner(r) = r
    /\ ReachAll(r, <<[tgt |-> Head(edges[r]), src |-> src(r)]>>)
    /\ edges' = [edges EXCEPT ![r] = Tail(@)]
    /\ UNCHANGED <<oldq, i, sendVars, num_ranks_done, offset, at>>

Coalesce(r) ==
    LET d == owner(r)
        buf == Append(outgoing[r][d], [tgt |-> Head(edges[r]), src |-> src(r)])
    IN  /\ IF Len(buf) = CoalescingSize
           THEN Isend(r, d, buf) /\ outgoing' = [outgoing EXCEPT ![r][d] = <<>>]
           ELSE outgoing' = [outgoing EXCEPT ![r][d] = buf] /\ UNCHANGED <<net, active>>
        /\ edges' = [edges EXCEPT ![r] = Tail(@)]
        /\ UNCHANGED <<pred, oldq, newq, i, num_ranks_done, offset, at>>

RemoteEdge(r) ==
    /\ at[r] = "edges" /\ edges[r] # <<>> /\ owner(r) # r
    /\ ~active[r][owner(r)]
    /\ Coalesce(r)

EndVertex(r) ==
    /\ at[r] = "edges" /\ edges[r] = <<>>
    /\ i' = [i EXCEPT ![r] = @ + 1]
    /\ Goto(r, "scan")
    /\ UNCHANGED <<pred, oldq, newq, edges, sendVars, num_ranks_done, offset>>

EndScan(r) ==
    /\ at[r] = "scan" /\ i[r] > Len(oldq[r])
    /\ Goto(r, "flush")
    /\ UNCHANGED <<pred, newq, scanVars, sendVars, num_ranks_done, offset>>

-------------------------------------------------------------------------------
(* Flushing the buffers and telling every other rank that this one is done. *)

dest(r) == (r + offset[r]) % Size

FlushBuffer(r) ==
    /\ at[r] = "flush" /\ offset[r] < Size
    /\ outgoing[r][dest(r)] # <<>> /\ ~active[r][dest(r)]
    /\ Isend(r, dest(r), outgoing[r][dest(r)])
    /\ outgoing' = [outgoing EXCEPT ![r][dest(r)] = <<>>]
    /\ UNCHANGED <<pred, newq, scanVars, num_ranks_done, offset, at>>

(* Faulty variant: tells the destination before the last edges are sent.   *)
SignalDone_Early(r) ==
    /\ at[r] = "flush" /\ offset[r] < Size /\ ~active[r][dest(r)]
    /\ Isend(r, dest(r), <<>>)
    /\ Goto(r, "signalled")
    /\ UNCHANGED <<pred, newq, scanVars, outgoing, num_ranks_done, offset>>

SignalDone(r) ==
    /\ at[r] = "flush" /\ offset[r] < Size
    /\ outgoing[r][dest(r)] = <<>> /\ ~active[r][dest(r)]
    /\ Isend(r, dest(r), <<>>)
    /\ Goto(r, "signalled")
    /\ UNCHANGED <<pred, newq, scanVars, outgoing, num_ranks_done, offset>>

NextDestination(r) ==
    /\ at[r] = "signalled" /\ ~active[r][dest(r)]
    /\ offset' = [offset EXCEPT ![r] = @ + 1]
    /\ Goto(r, "flush")
    /\ UNCHANGED <<pred, newq, scanVars, sendVars, num_ranks_done>>

EndFlush(r) ==
    /\ at[r] = "flush" /\ offset[r] = Size
    /\ Goto(r, "wait")
    /\ UNCHANGED <<pred, newq, scanVars, sendVars, num_ranks_done, offset>>

AllAreDone(r) ==
    /\ at[r] = "wait" /\ num_ranks_done[r] = Size
    /\ Goto(r, "allreduce")
    /\ UNCHANGED <<pred, newq, scanVars, sendVars, num_ranks_done, offset>>

(* MPI_Allreduce returns when all ranks have called it.                    *)
Allreduce ==
    /\ \A r \in Ranks : at[r] = "allreduce"
    /\ IF \A r \in Ranks : newq[r] = <<>>
       THEN /\ at' = [r \in Ranks |-> "end"]
            /\ UNCHANGED <<oldq, newq, i, num_ranks_done, offset>>
       ELSE /\ at' = [r \in Ranks |-> "scan"]
            /\ oldq' = newq
            /\ newq' = [r \in Ranks |-> <<>>]
            /\ i' = [r \in Ranks |-> 1]
            /\ num_ranks_done' = [r \in Ranks |-> 1]
            /\ offset' = [r \in Ranks |-> 1]
    /\ UNCHANGED <<pred, edges, sendVars>>

-------------------------------------------------------------------------------
(* CHECK_MPI_REQS: between two vertices, and in every loop that waits.     *)

Polls(r) ==
    \/ at[r] = "scan" /\ i[r] <= Len(oldq[r])
    \/ at[r] = "edges" /\ edges[r] # <<>> /\ owner(r) # r /\ active[r][owner(r)]
    \/ at[r] \in {"flush", "signalled"} /\ offset[r] < Size /\ active[r][dest(r)]
    \/ at[r] = "wait"

recvreq_active(r) == num_ranks_done[r] < Size

(* Faulty variant: while it waits for a send of its own, it only tests that*)
(* send and handles no message.                                            *)
Receive_NotWhileSending(r) ==
    /\ at[r] \in {"scan", "wait"} /\ Polls(r) /\ recvreq_active(r)
    /\ \E s \in Ranks :
          /\ net[s][r] # <<>>
          /\ net' = [net EXCEPT ![s][r] = Tail(@)]
          /\ ReachAll(r, Head(net[s][r]))
          /\ num_ranks_done' =
                [num_ranks_done EXCEPT ![r] = IF Head(net[s][r]) = <<>> THEN @ + 1 ELSE @]
    /\ UNCHANGED <<scanVars, outgoing, active, offset, at>>

Receive(r) ==
    /\ Polls(r) /\ recvreq_active(r)
    /\ \E s \in Ranks :
          /\ net[s][r] # <<>>
          /\ net' = [net EXCEPT ![s][r] = Tail(@)]
          /\ ReachAll(r, Head(net[s][r]))
          /\ num_ranks_done' =
                [num_ranks_done EXCEPT ![r] = IF Head(net[s][r]) = <<>> THEN @ + 1 ELSE @]
    /\ UNCHANGED <<scanVars, outgoing, active, offset, at>>

Complete(r, d) ==
    /\ Polls(r) /\ active[r][d]
    /\ active' = [active EXCEPT ![r][d] = FALSE]
    /\ UNCHANGED <<pred, newq, scanVars, outgoing, net, num_ranks_done, offset, at>>

-------------------------------------------------------------------------------
scan(r) == BeginVertex(r) \/ LocalEdge(r) \/ RemoteEdge(r) \/ EndVertex(r) \/ EndScan(r)

flush(r) == FlushBuffer(r) \/ SignalDone(r) \/ NextDestination(r) \/ EndFlush(r)

CHECK_MPI_REQS(r) == Receive(r) \/ \E d \in Ranks : Complete(r, d)

Ended == \A r \in Ranks : at[r] = "end"

Finished == Ended /\ UNCHANGED vars

Next ==
    \/ \E r \in Ranks : scan(r) \/ flush(r) \/ AllAreDone(r) \/ CHECK_MPI_REQS(r)
    \/ Allreduce
    \/ Finished

Spec == Init /\ [][Next]_vars

(* Ranks run, messages arrive, and a send completes at the latest when its *)
(* message has been received.                                              *)
Fairness ==
    /\ WF_vars(Allreduce)
    /\ \A r \in Ranks :
          /\ WF_vars(scan(r) \/ flush(r) \/ AllAreDone(r))
          /\ WF_vars(Receive(r))
          /\ \A d \in Ranks : WF_vars(net[r][d] = <<>> /\ Complete(r, d))

FairSpec == Spec /\ Fairness

-------------------------------------------------------------------------------
(* Properties.                                                             *)

(* No message crosses the end of a level: a rank that has left the loop    *)
(* for a level gets nothing more in it, whichever sender's messages it     *)
(* handled first, has nothing left to send, and knows that everybody has   *)
(* scanned the whole level.                                                *)
LevelsDoNotOverlap ==
    \A r \in Ranks : at[r] \in {"allreduce", "end"} =>
        \A s \in Ranks \ {r} :
            /\ net[s][r] = <<>> /\ outgoing[s][r] = <<>>
            /\ at[s] # "edges" /\ (at[s] = "scan" => i[s] > Len(oldq[s]))
            /\ ~active[r][s]

(* What the ranks compute together is a level-synchronous search: a vertex *)
(* of the next level counts as visited when all ranks have finished this   *)
(* one.  In particular pred is a breadth-first tree, and the search ends   *)
(* only when the last level was empty on every rank.                       *)
Level(q) == UNION {ToSet(q[r]) : r \in Ranks}

LevelSearch == INSTANCE LevelBfs WITH
    Neighbours <- [v \in Vertices |-> ToSet(column[v])],
    pred <- [v \in Vertices |-> IF v \in Level(newq) THEN NotVisited ELSE pred[v]],
    frontier <- Level(oldq),
    ended <- Ended

ImplementsLevelBfs == LevelSearch!Spec

(* No cycle of ranks that wait for their sends, for their neighbours'      *)
(* messages or for the end of the level: the search ends on every rank.    *)
Termination == <>Ended

===============================================================================
