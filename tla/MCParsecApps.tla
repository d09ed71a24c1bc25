----------------------------- MODULE MCParsecApps -----------------------------
(* Two programs that have nothing in common, canneal and ferret, checked   *)
(* in one run: either one runs and the other has ended.                    *)
EXTENDS Annealer, FerretPipeline

CONSTANTS t1, t2

(* Of the elements, 0 and 1 are connected.                                 *)
MCNeighbours == [e \in Elements |-> IF e < 2 THEN {1 - e} ELSE {}]

(* No number of steps on the command line. *)
MCUntilConverged == -1

CannealEnded ==
    /\ at = [t \in Threads |-> "end"]
    /\ present_loc = [e \in Elements |-> e]
    /\ keep_going_flag = TRUE /\ arrived = {}
    /\ a = [t \in Threads |-> 0] /\ b = a
    /\ toRead = [t \in Threads |-> {}]
    /\ seen = [t \in Threads |-> ATOMIC_NULL] /\ val = seen
    /\ good = [t \in Threads |-> 0] /\ bad = good /\ moves = good
    /\ steps = [t \in Threads |-> NumberTempSteps]

(* There were no images.                                                   *)
FerretEnded ==
    /\ doing = [w \in Workers |-> "end"]
    /\ data = [q \in Queues |-> [k \in 0 .. DEPTH - 1 |-> NoImage]]
    /\ head = [q \in Queues |-> 0] /\ tail = head
    /\ end_count = [q \in Queues |-> prod_threads(q)]
    /\ empty = [q \in Queues |-> {}] /\ full = empty
    /\ holds = [w \in Workers |-> NoImage]
    /\ cnt_enqueue = 0 /\ cnt_dequeue = 0 /\ written = {}

InitApps == \/ Init /\ FerretEnded
            \/ CannealEnded /\ FerretInit

EndApps == AllEnded /\ PoolsJoined /\ UNCHANGED <<vars, ferretVars>>

NextApps ==
    \/ (\E t \in Threads : Run(t)) /\ UNCHANGED ferretVars
    \/ FerretNext /\ UNCHANGED vars
    \/ EndApps

SpecApps ==
    InitApps /\ [][NextApps]_<<vars, ferretVars>> /\ Fairness /\ FerretFairness

(* canneal alone, without a number of steps.                               *)
SpecCanneal == Init /\ FerretEnded /\ [][NextApps]_<<vars, ferretVars>> /\ Fairness

===============================================================================
