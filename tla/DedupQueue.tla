------------------------------ MODULE DedupQueue ------------------------------
(***************************************************************************)
(* One synchronized queue of dedup (queue.c) between the threads of two    *)
(* pipeline stages.  A sending thread gathers items in a private ring      *)
(* buffer and hands them over in batches (queue_enqueue), drains the rest  *)
(* when its own input has ended and then terminates the queue; a receiving *)
(* thread fetches batches (queue_dequeue) until the queue reports the end. *)
(*                                                                         *)
(* The mutex, the two condition variables and every iteration of the two   *)
(* copy loops are modelled: between pthread_mutex_lock and _unlock a call  *)
(* is a sequence of steps of the mutex's owner.  pthread_cond_wait may     *)
(* return without a signal.                                                *)
(***************************************************************************)
EXTENDS RingBuffer, FiniteSets

CONSTANTS Producers,    \* the sending threads, nProducers of them
          Consumers,    \* the receiving threads
          NoOne,        \* the mutex is free
          Quota,        \* Quota[p]: how many items p's own input gives
          QueueSize,    \* QUEUE_SIZE
          InsertLimit,  \* ITEM_PER_INSERT: room in a sender's private buffer
          FetchLimit    \* ITEM_PER_FETCH: room in a receiver's private buffer

ASSUME QueueAssumption ==
    /\ NoOne \notin Producers \cup Consumers
    /\ Producers \cap Consumers = {}
    /\ IsFiniteSet(Producers) /\ Producers # {}
    /\ Quota \in [Producers -> Nat]
    /\ QueueSize \in Nat \ {0}
    /\ InsertLimit \in Nat \ {0}
    /\ FetchLimit \in Nat \ {0}

(* <<p, k>> is the k-th item of producer p.                                 *)
Items == UNION {{p} \X (1 .. Quota[p]) : p \in Producers}

VARIABLES
    buf,          \* que->buf
    nTerminated,  \* que->nTerminated
    owner,        \* the thread that holds que->mutex
    moved,        \* i of the copy loop of the mutex's owner
    notFull,      \* the producers asleep on que->notFull
    notEmpty,     \* the consumers asleep on que->notEmpty
    send_buf,     \* send_buf[p]: p's private ring buffer
    recv_buf,     \* recv_buf[c]: c's private ring buffer
    made,         \* made[p]: how many items p has put in send_buf
    consumed,     \* the items the receiving stage has taken up for work
    stopped       \* producers that terminated the queue, consumers told -1

vars == <<buf, nTerminated, owner, moved, notFull, notEmpty,
          send_buf, recv_buf, made, consumed, stopped>>

queueVars == <<buf, nTerminated, owner, moved, notFull, notEmpty>>

(* Faulty variant: one producer short.                                    *)
queue_isTerminated_Early == nTerminated + 1 >= Cardinality(Producers)

queue_isTerminated == nTerminated = Cardinality(Producers)

(* A producer calls queue_enqueue when its private buffer is full, and,    *)
(* once its input has ended, until the private buffer is empty.            *)
MustEnqueue(p) ==
    \/ ringbuffer_isFull(send_buf[p])
    \/ made[p] = Quota[p] /\ ~ringbuffer_isEmpty(send_buf[p])

(* A consumer calls queue_dequeue when its private buffer is empty.        *)
MustDequeue(c) == c \notin stopped /\ ringbuffer_isEmpty(recv_buf[c])

Init ==
    /\ buf = ringbuffer_init(QueueSize)
    /\ nTerminated = 0
    /\ owner = NoOne /\ moved = 0
    /\ notFull = {} /\ notEmpty = {}
    /\ send_buf = [p \in Producers |-> ringbuffer_init(InsertLimit)]
    /\ recv_buf = [c \in Consumers |-> ringbuffer_init(FetchLimit)]
    /\ made = [p \in Producers |-> 0]
    /\ consumed = {}
    /\ stopped = {}

-------------------------------------------------------------------------------
(* The threads between their calls.                                        *)

(* A stage thread puts one finished item into its private send buffer.     *)
Produce(p) ==
    /\ owner # p
    /\ ~MustEnqueue(p) /\ made[p] < Quota[p]
    /\ made' = [made EXCEPT ![p] = @ + 1]
    /\ send_buf' = [send_buf EXCEPT ![p] = ringbuffer_insert(@, <<p, made[p] + 1>>)]
    /\ UNCHANGED <<queueVars, recv_buf, consumed, stopped>>

(* A stage thread takes one item out of its private receive buffer.        *)
Consume(c) ==
    /\ owner # c
    /\ ~ringbuffer_isEmpty(recv_buf[c])
    /\ recv_buf' = [recv_buf EXCEPT ![c] = ringbuffer_remove(@)]
    /\ consumed' = consumed \cup {Oldest(recv_buf[c])}
    /\ UNCHANGED <<queueVars, send_buf, made, stopped>>

-------------------------------------------------------------------------------
(* queue_enqueue.                                                          *)

EnqLock(p) ==
    /\ owner = NoOne /\ p \notin notFull /\ MustEnqueue(p)
    /\ owner' = p /\ moved' = 0
    /\ UNCHANGED <<buf, nTerminated, notFull, notEmpty, send_buf, recv_buf, made, consumed, stopped>>

(* The queue is full: sleep, which releases the mutex.  A woken thread     *)
(* takes the mutex again and looks again (EnqLock).                        *)
EnqWait(p) ==
    /\ owner = p /\ moved = 0 /\ ringbuffer_isFull(buf)
    /\ notFull' = notFull \cup {p}
    /\ owner' = NoOne
    /\ UNCHANGED <<buf, nTerminated, moved, notEmpty, send_buf, recv_buf, made, consumed, stopped>>

(* Faulty variant: copies although the queue is full.                     *)
EnqMove_Overwrite(p) ==
    /\ owner = p
    /\ moved < InsertLimit /\ ~ringbuffer_isEmpty(send_buf[p])
    /\ buf' = ringbuffer_insert(buf, Oldest(send_buf[p]))
    /\ send_buf' = [send_buf EXCEPT ![p] = ringbuffer_remove(@)]
    /\ moved' = moved + 1
    /\ UNCHANGED <<nTerminated, owner, notFull, notEmpty, recv_buf, made, consumed, stopped>>

EnqMove(p) ==
    /\ owner = p
    /\ moved < InsertLimit /\ ~ringbuffer_isFull(buf) /\ ~ringbuffer_isEmpty(send_buf[p])
    /\ buf' = ringbuffer_insert(buf, Oldest(send_buf[p]))
    /\ send_buf' = [send_buf EXCEPT ![p] = ringbuffer_remove(@)]
    /\ moved' = moved + 1
    /\ UNCHANGED <<nTerminated, owner, notFull, notEmpty, recv_buf, made, consumed, stopped>>

(* pthread_cond_signal wakes one sleeper, if there is one.                 *)
Signal(waiters, waiters_new) ==
    IF waiters = {} THEN waiters_new = {} ELSE \E t \in waiters : waiters_new = waiters \ {t}

(* Faulty variant: `if' instead of `while' around pthread_cond_wait, so   *)
(* that a call may find the queue full and move nothing.                  *)
EnqDone_If(p) ==
    /\ owner = p
    /\ moved = InsertLimit \/ ringbuffer_isFull(buf) \/ ringbuffer_isEmpty(send_buf[p])
    /\ IF moved > 0 THEN Signal(notEmpty, notEmpty') ELSE UNCHANGED notEmpty
    /\ owner' = NoOne
    /\ UNCHANGED <<buf, nTerminated, moved, notFull, send_buf, recv_buf, made, consumed, stopped>>

(* Faulty variant: does not signal the consumers.                         *)
EnqDone_NoSignal(p) ==
    /\ owner = p
    /\ \/ moved > 0 /\ (moved = InsertLimit \/ ringbuffer_isFull(buf))
       \/ ringbuffer_isEmpty(send_buf[p])
    /\ owner' = NoOne
    /\ UNCHANGED <<buf, nTerminated, moved, notFull, notEmpty, send_buf, recv_buf, made, consumed, stopped>>

(* The copy loop has ended: signal if it moved anything, and unlock.       *)
EnqDone(p) ==
    /\ owner = p
    /\ \/ moved > 0 /\ (moved = InsertLimit \/ ringbuffer_isFull(buf))
       \/ ringbuffer_isEmpty(send_buf[p])
    /\ IF moved > 0 THEN Signal(notEmpty, notEmpty') ELSE UNCHANGED notEmpty
    /\ owner' = NoOne
    /\ UNCHANGED <<buf, nTerminated, moved, notFull, send_buf, recv_buf, made, consumed, stopped>>

(* Faulty variant: terminates before the private buffer is drained.       *)
Terminate_Undrained(p) ==
    /\ owner = NoOne /\ p \notin stopped
    /\ made[p] = Quota[p]
    /\ nTerminated' = nTerminated + 1
    /\ stopped' = stopped \cup {p}
    /\ notEmpty' = IF queue_isTerminated' THEN {} ELSE notEmpty
    /\ UNCHANGED <<buf, owner, moved, notFull, send_buf, recv_buf, made, consumed>>

(* Faulty variant: does not wake the consumers.                           *)
Terminate_NoBroadcast(p) ==
    /\ owner = NoOne /\ p \notin stopped
    /\ made[p] = Quota[p] /\ ringbuffer_isEmpty(send_buf[p])
    /\ nTerminated' = nTerminated + 1
    /\ stopped' = stopped \cup {p}
    /\ UNCHANGED <<buf, owner, moved, notFull, notEmpty, send_buf, recv_buf, made, consumed>>

(* queue_terminate, one critical section.                                  *)
Terminate(p) ==
    /\ owner = NoOne /\ p \notin stopped
    /\ made[p] = Quota[p] /\ ringbuffer_isEmpty(send_buf[p])
    /\ nTerminated' = nTerminated + 1
    /\ stopped' = stopped \cup {p}
    /\ notEmpty' = IF queue_isTerminated' THEN {} ELSE notEmpty
    /\ UNCHANGED <<buf, owner, moved, notFull, send_buf, recv_buf, made, consumed>>

-------------------------------------------------------------------------------
(* queue_dequeue.                                                          *)

DeqLock(c) ==
    /\ owner = NoOne /\ c \notin notEmpty /\ MustDequeue(c)
    /\ owner' = c /\ moved' = 0
    /\ UNCHANGED <<buf, nTerminated, notFull, notEmpty, send_buf, recv_buf, made, consumed, stopped>>

DeqWait(c) ==
    /\ owner = c /\ moved = 0 /\ ringbuffer_isEmpty(buf) /\ ~queue_isTerminated
    /\ notEmpty' = notEmpty \cup {c}
    /\ owner' = NoOne
    /\ UNCHANGED <<buf, nTerminated, moved, notFull, send_buf, recv_buf, made, consumed, stopped>>

(* Faulty variant: reports the end although items are left.               *)
DeqEnd_NotEmpty(c) ==
    /\ owner = c /\ moved = 0 /\ queue_isTerminated
    /\ stopped' = stopped \cup {c}
    /\ owner' = NoOne
    /\ UNCHANGED <<buf, nTerminated, moved, notFull, notEmpty, send_buf, recv_buf, made, consumed>>

(* Empty and terminated: queue_dequeue returns -1 and the stage ends.      *)
DeqEnd(c) ==
    /\ owner = c /\ moved = 0 /\ ringbuffer_isEmpty(buf) /\ queue_isTerminated
    /\ stopped' = stopped \cup {c}
    /\ owner' = NoOne
    /\ UNCHANGED <<buf, nTerminated, moved, notFull, notEmpty, send_buf, recv_buf, made, consumed>>

DeqMove(c) ==
    /\ owner = c
    /\ moved < FetchLimit /\ ~ringbuffer_isEmpty(buf) /\ ~ringbuffer_isFull(recv_buf[c])
    /\ recv_buf' = [recv_buf EXCEPT ![c] = ringbuffer_insert(@, Oldest(buf))]
    /\ buf' = ringbuffer_remove(buf)
    /\ moved' = moved + 1
    /\ UNCHANGED <<nTerminated, owner, notFull, notEmpty, send_buf, made, consumed, stopped>>

(* Faulty variant: does not signal the producers.                         *)
DeqDone_NoSignal(c) ==
    /\ owner = c
    /\ \/ moved > 0 /\ (moved = FetchLimit \/ ringbuffer_isEmpty(buf))
       \/ ringbuffer_isFull(recv_buf[c])
    /\ owner' = NoOne
    /\ UNCHANGED <<buf, nTerminated, moved, notFull, notEmpty, send_buf, recv_buf, made, consumed, stopped>>

DeqDone(c) ==
    /\ owner = c
    /\ \/ moved > 0 /\ (moved = FetchLimit \/ ringbuffer_isEmpty(buf))
       \/ ringbuffer_isFull(recv_buf[c])
    /\ IF moved > 0 THEN Signal(notFull, notFull') ELSE UNCHANGED notFull
    /\ owner' = NoOne
    /\ UNCHANGED <<buf, nTerminated, moved, notEmpty, send_buf, recv_buf, made, consumed, stopped>>

-------------------------------------------------------------------------------

(* pthread_cond_wait may return although nobody signalled.                 *)
SpuriousWakeup ==
    /\ \/ \E p \in notFull : notFull' = notFull \ {p} /\ UNCHANGED notEmpty
       \/ \E c \in notEmpty : notEmpty' = notEmpty \ {c} /\ UNCHANGED notFull
    /\ UNCHANGED <<buf, nTerminated, owner, moved, send_buf, recv_buf, made, consumed, stopped>>

Producer(p) == \/ Produce(p) \/ EnqLock(p) \/ EnqWait(p) \/ EnqMove(p)
               \/ EnqDone(p) \/ Terminate(p)

Consumer(c) == \/ Consume(c) \/ DeqLock(c) \/ DeqWait(c) \/ DeqEnd(c)
               \/ DeqMove(c) \/ DeqDone(c)

(* Every thread has returned from its stage function and can be joined.    *)
AllStopped == stopped = Producers \cup Consumers

Joined == AllStopped /\ UNCHANGED vars

Next == \/ \E p \in Producers : Producer(p)
        \/ \E c \in Consumers : Consumer(c)
        \/ SpuriousWakeup
        \/ Joined

Spec == Init /\ [][Next]_vars

(* The scheduler runs every thread that can run.  The mutex is not fair,   *)
(* so a thread that wants it is only sure to get it if it asks again and   *)
(* again while it is free.                                                 *)
Fairness == /\ \A p \in Producers : /\ WF_vars(Producer(p))
                                    /\ SF_vars(EnqLock(p)) /\ SF_vars(Terminate(p))
            /\ \A c \in Consumers : WF_vars(Consumer(c)) /\ SF_vars(DeqLock(c))

FairSpec == Spec /\ Fairness

-------------------------------------------------------------------------------
(* Properties.                                                             *)

TypeOK ==
    /\ buf \in RingBuffers(Items, QueueSize)
    /\ nTerminated \in 0 .. Cardinality(Producers)
    /\ owner \in Producers \cup Consumers \cup {NoOne}
    /\ moved \in Nat
    /\ notFull \subseteq Producers
    /\ notEmpty \subseteq Consumers
    /\ send_buf \in [Producers -> RingBuffers(Items, InsertLimit)]
    /\ recv_buf \in [Consumers -> RingBuffers(Items, FetchLimit)]
    /\ made \in [Producers -> Nat]
    /\ consumed \subseteq Items
    /\ stopped \subseteq Producers \cup Consumers

(* Every item made so far, and every place it may be in.                   *)
Made == UNION {{p} \X (1 .. made[p]) : p \in Producers}

Buffers == {buf} \cup {send_buf[p] : p \in Producers} \cup {recv_buf[c] : c \in Consumers}

Held(rb) == {Contents(rb)[i] : i \in 1 .. Count(rb)}

(* No item is lost, duplicated or overwritten on its way: the items not    *)
(* yet consumed are exactly those the buffers hold, each of them once.     *)
ExactlyOnce ==
    /\ UNION {Held(rb) : rb \in Buffers} = Made \ consumed
    /\ \A rb \in Buffers : Cardinality(Held(rb)) = Count(rb)
    /\ \A p \in Producers : Held(send_buf[p]) \cap Held(buf) = {}
    /\ \A c \in Consumers : Held(recv_buf[c]) \cap Held(buf) = {}
    /\ \A c, d \in Consumers : c # d => Held(recv_buf[c]) \cap Held(recv_buf[d]) = {}

(* A stage is told that its input has ended only after every sender has    *)
(* handed over everything it made: no item is left behind in the queue or  *)
(* in a private send buffer (the return of -1, queue.c:58-63).             *)
EndOfStreamIsFinal ==
    stopped \cap Consumers # {} =>
        /\ Producers \subseteq stopped
        /\ ringbuffer_isEmpty(buf)
        /\ \A p \in Producers : made[p] = Quota[p] /\ ringbuffer_isEmpty(send_buf[p])

(* The assertions of queue_isTerminated and queue_enqueue (queue.c:33, 88):*)
(* nobody hands items to a queue that has been terminated.                 *)
NoEnqueueAfterTerminate ==
    /\ nTerminated = Cardinality(stopped \cap Producers)
    /\ owner \in Producers => ~queue_isTerminated

(* The assertions behind every call (r>=1 after queue_enqueue, chunk!=NULL *)
(* after queue_dequeue; encoder.c:424-425, 438-439): a call that does not  *)
(* report the end moves at least one item.                                 *)
NoEmptyBatch ==
    [][/\ \A p \in Producers : EnqDone(p) => moved > 0
       /\ \A c \in Consumers : DeqDone(c) => moved > 0]_vars

(* No lost wakeup for a sleeping consumer.  enqueue signals one consumer   *)
(* for a whole batch, so a consumer may sleep on although items are left:  *)
(* then another one is awake and will call again; and none sleeps once the *)
(* queue is terminated.                                                    *)
NoStrandedConsumer ==
    notEmpty # {} /\ owner = NoOne =>
        /\ ~queue_isTerminated
        /\ ~ringbuffer_isEmpty(buf) => Consumers \ (notEmpty \cup stopped) # {}

(* No lost wakeup for a sleeping producer.  dequeue signals one producer   *)
(* for a whole batch, even when it empties the queue: then another one is  *)
(* awake and about to enqueue, so that a later dequeue signals the rest.   *)
NoStrandedProducer ==
    notFull # {} /\ owner = NoOne /\ ringbuffer_isEmpty(buf) =>
        \E p \in Producers \ notFull : MustEnqueue(p)

(* Every thread returns from its stage function, so that Encode can join   *)
(* it (encoder.c:1513-1521): no wakeup is lost, no thread waits forever.   *)
Termination == <>AllStopped

(* The queue is a bounded first-in first-out channel, and ends as one.     *)
Stream == INSTANCE Channel WITH
              Msgs <- Items, Writers <- Producers, Readers <- Consumers,
              Capacity <- QueueSize,
              chan <- Contents(buf), closed <- stopped \cap Producers,
              ended <- stopped \cap Consumers

ImplementsChannel == Stream!Spec

-------------------------------------------------------------------------------
(* The inductive invariant behind the theorems of DedupQueueProofs.        *)

(* No buffer hands out a slot that nobody has written.                     *)
Filled ==
    /\ Contents(buf) \in Seq(Items)
    /\ \A p \in Producers : Contents(send_buf[p]) \in Seq(Items)
    /\ \A c \in Consumers : Contents(recv_buf[c]) \in Seq(Items)

(* What a producer has still to do says where it can be.                   *)
ProducerPhase ==
    \A p \in Producers :
        /\ made[p] <= Quota[p]
        /\ p \in stopped => made[p] = Quota[p] /\ ringbuffer_isEmpty(send_buf[p])
        /\ p \in notFull => owner # p /\ MustEnqueue(p)
        /\ owner = p =>
              /\ p \notin stopped
              /\ moved = 0 => MustEnqueue(p)
              /\ moved > 0 => ~ringbuffer_isEmpty(buf)

ConsumerPhase ==
    \A c \in Consumers :
        /\ c \in stopped => queue_isTerminated /\ ringbuffer_isEmpty(buf)
        /\ c \in notEmpty => owner # c /\ MustDequeue(c)
        /\ owner = c =>
              /\ c \notin stopped
              /\ moved = 0 => ringbuffer_isEmpty(recv_buf[c])

(* The no-stranded invariants, also while a thread owns the mutex: only    *)
(* between its first move and its signal may they be broken.               *)
ConsumersServed ==
    notEmpty # {} =>
        /\ ~queue_isTerminated
        /\ ~ringbuffer_isEmpty(buf) /\ ~(owner \in Producers /\ moved > 0) =>
              Consumers \ (notEmpty \cup stopped) # {}

ProducersServed ==
    notFull # {} /\ ringbuffer_isEmpty(buf) /\ ~(owner \in Consumers /\ moved > 0) =>
        \E p \in Producers \ notFull : MustEnqueue(p)

IndInv ==
    /\ TypeOK /\ Filled
    /\ nTerminated = Cardinality(stopped \cap Producers)
    /\ ProducerPhase /\ ConsumerPhase
    /\ ConsumersServed /\ ProducersServed

===============================================================================
