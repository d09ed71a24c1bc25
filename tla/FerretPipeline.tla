---------------------------- MODULE FerretPipeline ----------------------------
(***************************************************************************)
(* The pipeline of ferret (ferret-pthreads.c) over its queues (queue.c):   *)
(* one thread loads images, several threads in each of the middle stages   *)
(* take an image from the queue before them and pass the result on, and    *)
(* one thread writes the results.  t_seg, t_extract, t_vec and t_rank      *)
(* differ only in what they compute.                                       *)
(*                                                                         *)
(* A queue is an array with one spare slot, a mutex and two condition      *)
(* variables.  Everything a thread does with a queue it does with the      *)
(* mutex, which it gives up at the end or to wait: one step reaches from   *)
(* getting the mutex to giving it up.  A thread that is woken gets the     *)
(* mutex again and looks again.                                            *)
(***************************************************************************)
EXTENDS Integers, FiniteSets, Sequences

CONSTANTS NStages,      \* middle stages: 4
          NThreads,     \* NTHREAD_SEG and so on, all the same
          DEPTH,        \* slots of a queue
          MaxImages,    \* bound: images found in the query directory
          NoImage

(* With DEPTH = 1 the spare slot is the only one, and every enqueue waits. *)
ASSUME FerretAssumption ==
    /\ NStages \in Nat /\ NThreads \in Nat \ {0} /\ MaxImages \in Nat
    /\ DEPTH \in Nat /\ DEPTH > 1
    /\ NoImage \notin 1 .. MaxImages

(* A thread is its stage and its number there; queue q leads from stage q  *)
(* to stage q + 1.                                                         *)
Load == <<0, 1>>
Out == <<NStages + 1, 1>>
Middle == (1 .. NStages) \X (1 .. NThreads)
Workers == {Load, Out} \cup Middle
Queues == 0 .. NStages
Images == 1 .. MaxImages

Before(w) == w[1] - 1
After(w) == w[1]
ProducersOf(q) == {w \in Workers : After(w) = q}
ConsumersOf(q) == {w \in Workers : Before(w) = q}
prod_threads(q) == IF q = 0 THEN 1 ELSE NThreads

VARIABLES
    data, head, tail, end_count,    \* of each queue
    empty, full,                    \* threads asleep on its condition variables
    holds,                          \* the image each thread works on
    doing,                          \* what each thread does next
    cnt_enqueue, cnt_dequeue,
    written                         \* images whose results are in the output

queueVars == <<data, head, tail, end_count, empty, full>>
countVars == <<cnt_enqueue, cnt_dequeue, written>>
ferretVars == <<queueVars, holds, doing, countVars>>

FerretInit ==
    /\ data = [q \in Queues |-> [k \in 0 .. DEPTH - 1 |-> NoImage]]
    /\ head = [q \in Queues |-> 0]
    /\ tail = [q \in Queues |-> 0]
    /\ end_count = [q \in Queues |-> 0]
    /\ empty = [q \in Queues |-> {}]
    /\ full = [q \in Queues |-> {}]
    /\ holds = [w \in Workers |-> NoImage]
    /\ doing = [w \in Workers |-> IF w = Load THEN "load" ELSE "dequeue"]
    /\ cnt_enqueue = 0
    /\ cnt_dequeue = 0
    /\ written = {}

Does(w, what) == doing' = [doing EXCEPT ![w] = what]

(* pthread_cond_signal: one of the sleeping threads wakes up, if any.      *)
Signal(cond, q) ==
    IF cond[q] = {} THEN cond' = cond
    ELSE \E w \in cond[q] : cond' = [cond EXCEPT ![q] = @ \ {w}]

Broadcast(cond, q) == cond' = [cond EXCEPT ![q] = {}]

Sleep(cond, q, w) == cond' = [cond EXCEPT ![q] = @ \cup {w}]

Following(k) == IF k + 1 = DEPTH THEN 0 ELSE k + 1

(* Faulty variant: no spare slot.                                          *)
IsFull_NoSpare(q) == FALSE

IsFull(q) == head[q] = (tail[q] - 1 + DEPTH) % DEPTH

IsEmpty(q) == tail[q] = head[q]

-------------------------------------------------------------------------------
(* scan_dir finds some number of images.                                   *)
file_helper ==
    /\ doing[Load] = "load" /\ cnt_enqueue < MaxImages
    /\ cnt_enqueue' = cnt_enqueue + 1
    /\ holds' = [holds EXCEPT ![Load] = cnt_enqueue + 1]
    /\ Does(Load, "enqueue")
    /\ UNCHANGED <<queueVars, cnt_dequeue, written>>

EndLoad ==
    /\ doing[Load] = "load"
    /\ Does(Load, "terminate")
    /\ UNCHANGED <<queueVars, holds, countVars>>

EnqueueWait(w) ==
    LET q == After(w)
    IN  /\ doing[w] = "enqueue" /\ w \notin full[q] /\ IsFull(q)
        /\ Sleep(full, q, w)
        /\ UNCHANGED <<data, head, tail, end_count, empty, holds, doing, countVars>>

enqueue(w) ==
    LET q == After(w)
    IN  /\ doing[w] = "enqueue" /\ w \notin full[q] /\ ~IsFull(q)
        /\ data' = [data EXCEPT ![q][head[q]] = holds[w]]
        /\ head' = [head EXCEPT ![q] = Following(@)]
        /\ Signal(empty, q)
        /\ holds' = [holds EXCEPT ![w] = NoImage]
        /\ Does(w, IF w = Load THEN "load" ELSE "dequeue")
        /\ UNCHANGED <<tail, end_count, full, countVars>>

DequeueWait(w) ==
    LET q == Before(w)
    IN  /\ doing[w] = "dequeue" /\ w \notin empty[q]
        /\ IsEmpty(q) /\ end_count[q] < prod_threads(q)
        /\ Sleep(empty, q, w)
        /\ UNCHANGED <<data, head, tail, end_count, full, holds, doing, countVars>>

(* Faulty variant: ends as soon as one producer has ended.                 *)
DequeueEnd_First(w) ==
    LET q == Before(w)
    IN  /\ doing[w] = "dequeue" /\ w \notin empty[q]
        /\ IsEmpty(q) /\ end_count[q] > 0
        /\ Broadcast(empty, q)
        /\ Does(w, IF w = Out THEN "end" ELSE "terminate")
        /\ UNCHANGED <<data, head, tail, end_count, full, holds, countVars>>

DequeueEnd(w) ==
    LET q == Before(w)
    IN  /\ doing[w] = "dequeue" /\ w \notin empty[q]
        /\ IsEmpty(q) /\ end_count[q] = prod_threads(q)
        /\ Broadcast(empty, q)
        /\ Does(w, IF w = Out THEN "end" ELSE "terminate")
        /\ UNCHANGED <<data, head, tail, end_count, full, holds, countVars>>

dequeue(w) ==
    LET q == Before(w)
    IN  /\ doing[w] = "dequeue" /\ w \notin empty[q] /\ ~IsEmpty(q)
        /\ holds' = [holds EXCEPT ![w] = data[q][tail[q]]]
        /\ tail' = [tail EXCEPT ![q] = Following(@)]
        /\ Signal(full, q)
        /\ Does(w, IF w = Out THEN "write" ELSE "enqueue")
        /\ UNCHANGED <<data, head, end_count, empty, countVars>>

(* t_out, after its dequeue.                                               *)
Write ==
    /\ doing[Out] = "write"
    /\ written' = written \cup {holds[Out]}
    /\ cnt_dequeue' = cnt_dequeue + 1
    /\ holds' = [holds EXCEPT ![Out] = NoImage]
    /\ Does(Out, "dequeue")
    /\ UNCHANGED <<queueVars, cnt_enqueue>>

(* Faulty variant: wakes nobody.                                           *)
queue_signal_terminate_Silent(w) ==
    LET q == After(w)
    IN  /\ doing[w] = "terminate"
        /\ end_count' = [end_count EXCEPT ![q] = @ + 1]
        /\ Does(w, "end")
        /\ UNCHANGED <<data, head, tail, empty, full, holds, countVars>>

queue_signal_terminate(w) ==
    LET q == After(w)
    IN  /\ doing[w] = "terminate"
        /\ end_count' = [end_count EXCEPT ![q] = @ + 1]
        /\ Broadcast(empty, q)
        /\ Does(w, "end")
        /\ UNCHANGED <<data, head, tail, full, holds, countVars>>

(* POSIX allows pthread_cond_wait to return for no reason.                 *)
SpuriousWakeup(q) ==
    /\ \/ \E w \in empty[q] : empty' = [empty EXCEPT ![q] = @ \ {w}] /\ UNCHANGED full
       \/ \E w \in full[q] : full' = [full EXCEPT ![q] = @ \ {w}] /\ UNCHANGED empty
    /\ UNCHANGED <<data, head, tail, end_count, holds, doing, countVars>>

t_load == file_helper \/ EndLoad \/ EnqueueWait(Load) \/ enqueue(Load) \/ queue_signal_terminate(Load)

t_middle(w) ==
    \/ DequeueWait(w) \/ DequeueEnd(w) \/ dequeue(w)
    \/ EnqueueWait(w) \/ enqueue(w) \/ queue_signal_terminate(w)

t_out == DequeueWait(Out) \/ DequeueEnd(Out) \/ dequeue(Out) \/ Write

FerretThreads == t_load \/ t_out \/ \E w \in Middle : t_middle(w)

FerretNext == FerretThreads \/ \E q \in Queues : SpuriousWakeup(q)

FerretSpec == FerretInit /\ [][FerretNext]_ferretVars

(* tpool_join of all the pools.                                            *)
PoolsJoined == \A w \in Workers : doing[w] = "end"

(* The scheduler lets every thread run.                                    *)
FerretFairness ==
    /\ WF_ferretVars(t_load)
    /\ WF_ferretVars(t_out)
    /\ \A w \in Middle : WF_ferretVars(t_middle(w))

-------------------------------------------------------------------------------
(* Properties.                                                             *)

Contents(q) ==
    [k \in 1 .. (head[q] - tail[q] + DEPTH) % DEPTH |-> data[q][(tail[q] + k - 1) % DEPTH]]

Pipe(q) == INSTANCE Channel WITH
    Msgs <- Images,
    Writers <- ProducersOf(q),
    Readers <- ConsumersOf(q),
    Capacity <- DEPTH - 1,
    chan <- Contents(q),
    closed <- {w \in ProducersOf(q) : doing[w] = "end"},
    ended <- {w \in ConsumersOf(q) : doing[w] \in {"terminate", "end"}}

(* Every step of every thread is a step of bounded first-in first-out      *)
(* channels: no index confuses full and empty, nothing is lost, doubled or *)
(* invented when head and tail wrap around, and a stage is told the end    *)
(* only when all the threads before it have ended and the queue is empty.  *)
QueuesAreChannels ==
    [][\A q \in Queues : [Pipe(q)!Next]_(Pipe(q)!vars)]_ferretVars

(* ferret-pthreads.c asserts at the end of t_out that as many images were  *)
(* written as were loaded; in fact each was written exactly once, and no   *)
(* thread is left with one in its hands.                                   *)
EveryImageWritten ==
    doing[Out] = "end" =>
        /\ cnt_dequeue = cnt_enqueue
        /\ written = 1 .. cnt_enqueue
        /\ \A w \in Workers : holds[w] = NoImage

(* One signal per image and a broadcast at the end are enough for every    *)
(* thread to end, so that main can join the pools.                         *)
EveryPoolEnds == <>PoolsJoined

===============================================================================
