--------------------------- MODULE DedupQueueProofs ---------------------------
(***************************************************************************)
(* The queue of dedup for every number of threads, every queue and batch   *)
(* size and every amount of work: IndInv is inductive, and with it no      *)
(* wakeup is lost, the end of the stream is final, and the queue           *)
(* implements Channel; Once is inductive on top of it, and no item is lost *)
(* or duplicated.                                                          *)
(***************************************************************************)
EXTENDS DedupQueue, FiniteSetTheorems, FunctionTheorems, TLAPS

-------------------------------------------------------------------------------
(* The ring buffer of queue.h is a bounded first-in first-out sequence:    *)
(* for every capacity n and every position of head and tail, the index     *)
(* arithmetic of queue.h implements Append, Head and Tail.                 *)

(* Both wrap-around formulas of queue.h, without the modulus.              *)
LEMMA IsFullByCases ==
    ASSUME NEW S, NEW n \in Nat \ {0}, NEW rb \in RingBuffers(S, n)
    PROVE  ringbuffer_isFull(rb) <=> IF rb.tail = 0 THEN rb.head = n ELSE rb.head = rb.tail - 1
<1>1. rb.tail \in 0 .. n /\ rb.head \in 0 .. n /\ rb.size = n + 1
  BY DEF RingBuffers
<1>2. CASE rb.tail = 0
  <2>1. rb.tail - 1 + rb.size = n
    BY <1>1, <1>2
  <2>2. n % (n + 1) = n
    BY SMT
  <2> QED
    BY <1>1, <1>2, <2>1, <2>2 DEF ringbuffer_isFull
<1>3. CASE rb.tail # 0
  <2>1. (rb.tail - 1 + rb.size) % rb.size = rb.tail - 1
    BY <1>1, <1>3
  <2> QED
    BY <1>1, <1>3, <2>1 DEF ringbuffer_isFull
<1> QED
  BY <1>2, <1>3

(* Full means n elements, empty means none, and there are never more.      *)
LEMMA CountBounds ==
    ASSUME NEW S, NEW n \in Nat \ {0}, NEW rb \in RingBuffers(S, n)
    PROVE  /\ Count(rb) \in 0 .. n
           /\ ringbuffer_isFull(rb) <=> Count(rb) = n
           /\ ringbuffer_isEmpty(rb) <=> Count(rb) = 0
<1>1. rb.tail \in 0 .. n /\ rb.head \in 0 .. n /\ rb.size = n + 1
  BY DEF RingBuffers
<1> QED
  BY <1>1, IsFullByCases DEF Count, ringbuffer_isEmpty

(* A successful ringbuffer_insert appends its argument.                    *)
THEOREM InsertAppends ==
    ASSUME NEW S, NEW n \in Nat \ {0}, NEW rb \in RingBuffers(S, n),
           NEW x \in S, ~ringbuffer_isFull(rb)
    PROVE  /\ ringbuffer_insert(rb, x) \in RingBuffers(S, n)
           /\ Contents(ringbuffer_insert(rb, x)) = Append(Contents(rb), x)
           /\ ~ringbuffer_isEmpty(ringbuffer_insert(rb, x))
<1> DEFINE new == ringbuffer_insert(rb, x)
<1>1. /\ rb.tail \in 0 .. n /\ rb.head \in 0 .. n /\ rb.size = n + 1
      /\ rb.data \in [0 .. n -> S \cup {Unset}]
      /\ rb = [head |-> rb.head, tail |-> rb.tail, size |-> rb.size, data |-> rb.data]
  BY DEF RingBuffers
<1>2. /\ new.tail = rb.tail /\ new.size = rb.size
      /\ new.head = Advance(rb, rb.head)
      /\ new.data = [rb.data EXCEPT ![rb.head] = x]
  BY <1>1 DEF ringbuffer_insert, RingBuffers
<1>3. new \in RingBuffers(S, n)
  <2>1. Advance(rb, rb.head) \in 0 .. n
    BY <1>1 DEF Advance
  <2>2. [rb.data EXCEPT ![rb.head] = x] \in [0 .. n -> S \cup {Unset}]
    BY <1>1
  <2> QED
    BY <1>1, <2>1, <2>2 DEF ringbuffer_insert, RingBuffers
<1>4. Count(new) = Count(rb) + 1
  <2>1. Count(rb) # n /\ rb.tail = new.tail /\ rb.size = new.size
    BY <1>2, CountBounds
  <2>2. CASE rb.head = n
    BY <1>1, <1>2, <2>1, <2>2 DEF Count, Advance
  <2>3. CASE rb.head # n
    <3>1. new.head = rb.head + 1 /\ rb.head + 1 \in 0 .. n
      BY <1>1, <1>2, <2>3 DEF Advance
    <3>2. rb.tail # rb.head + 1
      BY <1>1, <2>1 DEF Count
    <3>3. CASE rb.tail <= rb.head
      BY <1>1, <2>1, <3>1, <3>3 DEF Count
    <3>4. CASE ~(rb.tail <= rb.head)
      BY <1>1, <2>1, <3>1, <3>2, <3>4 DEF Count
    <3> QED
      BY <3>3, <3>4
  <2> QED
    BY <2>2, <2>3
<1>5. Count(rb) \in 0 .. n
  BY CountBounds
<1>6. ASSUME NEW i \in 1 .. Count(rb)
      PROVE  new.data[SlotOf(new, i)] = rb.data[SlotOf(rb, i)]
  <2>1. SlotOf(new, i) = SlotOf(rb, i)
    BY <1>2 DEF SlotOf
  <2>2. SlotOf(rb, i) \in 0 .. n /\ SlotOf(rb, i) # rb.head
    BY <1>1, <1>5 DEF SlotOf, Count
  <2> QED
    BY <1>1, <1>2, <2>1, <2>2
<1>7. new.data[SlotOf(new, Count(rb) + 1)] = x
  <2>1. SlotOf(new, Count(rb) + 1) = rb.head
    BY <1>1, <1>2, <1>5 DEF SlotOf, Count
  <2> QED
    BY <1>1, <1>2, <2>1
<1>8. Append(Contents(rb), x) =
          [i \in 1 .. Count(rb) + 1 |-> IF i = Count(rb) + 1 THEN x ELSE rb.data[SlotOf(rb, i)]]
  <2>1. Len(Contents(rb)) = Count(rb)
    BY <1>5 DEF Contents
  <2> QED
    BY <1>5, <2>1 DEF Contents
<1>9. Contents(new) = Append(Contents(rb), x)
  BY <1>4, <1>5, <1>6, <1>7, <1>8 DEF Contents
<1>10. ~ringbuffer_isEmpty(new)
  BY <1>3, <1>4, <1>5, CountBounds
<1> QED
  BY <1>3, <1>9, <1>10

(* ringbuffer_remove on a non-empty buffer returns and drops the oldest.   *)
THEOREM RemoveTakesOldest ==
    ASSUME NEW S, NEW n \in Nat \ {0}, NEW rb \in RingBuffers(S, n),
           ~ringbuffer_isEmpty(rb)
    PROVE  /\ ringbuffer_remove(rb) \in RingBuffers(S, n)
           /\ Contents(rb) # <<>>
           /\ Oldest(rb) = Head(Contents(rb))
           /\ Contents(ringbuffer_remove(rb)) = Tail(Contents(rb))
<1> DEFINE new == ringbuffer_remove(rb)
<1>1. /\ rb.tail \in 0 .. n /\ rb.head \in 0 .. n /\ rb.size = n + 1
      /\ rb.data \in [0 .. n -> S \cup {Unset}]
  BY DEF RingBuffers
<1>2. /\ new.head = rb.head /\ new.size = rb.size
      /\ new.tail = Advance(rb, rb.tail) /\ new.data = rb.data
  BY <1>1 DEF ringbuffer_remove, RingBuffers
<1>3. new \in RingBuffers(S, n)
  BY <1>1 DEF ringbuffer_remove, RingBuffers, Advance
<1>4. Count(rb) \in 1 .. n /\ Count(new) = Count(rb) - 1
  BY <1>1, <1>2, CountBounds DEF Count, Advance, ringbuffer_isEmpty
<1>5. Contents(rb) # <<>> /\ Oldest(rb) = Head(Contents(rb))
  BY <1>1, <1>4 DEF Contents, Oldest, SlotOf
<1>6. ASSUME NEW i \in 1 .. Count(new)
      PROVE  SlotOf(new, i) = SlotOf(rb, i + 1)
  BY <1>1, <1>2, <1>4 DEF SlotOf, Advance
<1>7. Tail(Contents(rb)) = [i \in 1 .. Count(rb) - 1 |-> rb.data[SlotOf(rb, i + 1)]]
  <2>1. Len(Contents(rb)) = Count(rb)
    BY <1>4 DEF Contents
  <2> QED
    BY <1>4, <2>1 DEF Contents
<1>8. Contents(new) = Tail(Contents(rb))
  BY <1>2, <1>4, <1>6, <1>7 DEF Contents
<1> QED
  BY <1>3, <1>5, <1>8

-------------------------------------------------------------------------------
(* The queue.                                                              *)

USE QueueAssumption

LEMMA InitRing ==
    ASSUME NEW n \in Nat \ {0}
    PROVE  /\ ringbuffer_init(n) \in RingBuffers(Items, n)
           /\ ringbuffer_isEmpty(ringbuffer_init(n))
           /\ Contents(ringbuffer_init(n)) = <<>>
  BY DEF ringbuffer_init, RingBuffers, ringbuffer_isEmpty, Contents, Count

(* An item that leaves a buffer was put there by a producer.               *)
LEMMA OldestIsItem ==
    ASSUME NEW n \in Nat \ {0}, NEW rb \in RingBuffers(Items, n),
           Contents(rb) \in Seq(Items), ~ringbuffer_isEmpty(rb)
    PROVE  Oldest(rb) \in Items
<1>1. Contents(rb) # <<>> /\ Oldest(rb) = Head(Contents(rb))
  BY RemoveTakesOldest
<1> QED
  BY <1>1

(* Inserting an item, or removing one, keeps a buffer filled with items.   *)
LEMMA StaysFilled ==
    ASSUME NEW n \in Nat \ {0}, NEW rb \in RingBuffers(Items, n), Contents(rb) \in Seq(Items)
    PROVE  /\ \A x \in Items : ~ringbuffer_isFull(rb) =>
                 Contents(ringbuffer_insert(rb, x)) \in Seq(Items)
           /\ ~ringbuffer_isEmpty(rb) => Contents(ringbuffer_remove(rb)) \in Seq(Items)
<1>1. ASSUME NEW x \in Items, ~ringbuffer_isFull(rb)
      PROVE  Contents(ringbuffer_insert(rb, x)) \in Seq(Items)
  <2>1. Contents(ringbuffer_insert(rb, x)) = Append(Contents(rb), x)
    BY <1>1, InsertAppends
  <2> QED
    BY <2>1
<1>2. ASSUME ~ringbuffer_isEmpty(rb)
      PROVE  Contents(ringbuffer_remove(rb)) \in Seq(Items)
  <2>1. Contents(ringbuffer_remove(rb)) = Tail(Contents(rb)) /\ Contents(rb) # <<>>
    BY <1>2, RemoveTakesOldest
  <2> QED
    BY <2>1
<1> QED
  BY <1>1, <1>2

LEMMA FullIsNotEmpty ==
    ASSUME NEW n \in Nat \ {0}, NEW rb \in RingBuffers(Items, n), ringbuffer_isFull(rb)
    PROVE  ~ringbuffer_isEmpty(rb)
  BY CountBounds

LEMMA NewItem ==
    ASSUME TypeOK, ProducerPhase, NEW p \in Producers, Produce(p)
    PROVE  <<p, made[p] + 1>> \in Items
<1>1. made[p] + 1 \in 1 .. Quota[p]
  BY DEF Produce, ProducerPhase, TypeOK
<1>2. <<p, made[p] + 1>> \in {p} \X (1 .. Quota[p])
  BY <1>1
<1> QED
  BY <1>2 DEF Items

-------------------------------------------------------------------------------

LEMMA InitEstablishes == Init => IndInv
<1> SUFFICES ASSUME Init PROVE IndInv
  OBVIOUS
<1>1. TypeOK
  <2>1. Cardinality(Producers) \in Nat
    BY FS_CardinalityType
  <2> QED
    BY <2>1, InitRing DEF Init, TypeOK
<1>2. Filled
  <2>1. /\ Contents(buf) = <<>>
        /\ \A p \in Producers : Contents(send_buf[p]) = <<>>
        /\ \A c \in Consumers : Contents(recv_buf[c]) = <<>>
    BY InitRing DEF Init
  <2>2. <<>> \in Seq(Items)
    OBVIOUS
  <2> QED
    BY <2>1, <2>2 DEF Filled
<1>3. nTerminated = Cardinality(stopped \cap Producers)
  BY FS_EmptySet DEF Init
<1>4. ProducerPhase
  BY DEF Init, ProducerPhase
<1>5. ConsumerPhase /\ ConsumersServed /\ ProducersServed
  BY DEF Init, ConsumerPhase, ConsumersServed, ProducersServed
<1> QED
  BY <1>1, <1>2, <1>3, <1>4, <1>5 DEF IndInv

LEMMA TypeOKStep == IndInv /\ [Next]_vars => TypeOK'
<1> SUFFICES ASSUME IndInv, [Next]_vars PROVE TypeOK'
  OBVIOUS
<1> USE DEF IndInv, TypeOK
<1>1. ASSUME NEW p \in Producers, Produce(p) PROVE TypeOK'
  <2>1. ~ringbuffer_isFull(send_buf[p])
    BY <1>1 DEF Produce, MustEnqueue
  <2>2. ringbuffer_insert(send_buf[p], <<p, made[p] + 1>>) \in RingBuffers(Items, InsertLimit)
    BY <1>1, <2>1, NewItem, InsertAppends
  <2> QED
    BY <1>1, <2>2 DEF Produce, queueVars
<1>2. ASSUME NEW p \in Producers, EnqLock(p) \/ EnqWait(p) PROVE TypeOK'
  BY <1>2 DEF EnqLock, EnqWait
<1>3. ASSUME NEW p \in Producers, EnqMove(p) PROVE TypeOK'
  <2>1. Oldest(send_buf[p]) \in Items
    BY <1>3, OldestIsItem DEF EnqMove, Filled
  <2>2. ringbuffer_insert(buf, Oldest(send_buf[p])) \in RingBuffers(Items, QueueSize)
    BY <1>3, <2>1, InsertAppends DEF EnqMove
  <2>3. ringbuffer_remove(send_buf[p]) \in RingBuffers(Items, InsertLimit)
    BY <1>3, RemoveTakesOldest DEF EnqMove
  <2> QED
    BY <1>3, <2>2, <2>3 DEF EnqMove
<1>4. ASSUME NEW p \in Producers, EnqDone(p) PROVE TypeOK'
  BY <1>4 DEF EnqDone, Signal
<1>5. ASSUME NEW p \in Producers, Terminate(p) PROVE TypeOK'
  <2>1. /\ IsFiniteSet(stopped \cap Producers)
        /\ IsFiniteSet((stopped \cap Producers) \cup {p})
    BY FS_Subset, FS_AddElement
  <2>2. p \notin stopped \cap Producers
    BY <1>5 DEF Terminate
  <2>3. nTerminated' = Cardinality((stopped \cap Producers) \cup {p})
    BY <1>5, <2>1, <2>2, FS_AddElement DEF Terminate
  <2>4. nTerminated' \in 0 .. Cardinality(Producers)
    <3>1. (stopped \cap Producers) \cup {p} \subseteq Producers
      OBVIOUS
    <3>2. Cardinality((stopped \cap Producers) \cup {p}) <= Cardinality(Producers)
      BY <3>1, FS_Subset
    <3>3. Cardinality((stopped \cap Producers) \cup {p}) \in Nat /\ Cardinality(Producers) \in Nat
      BY <2>1, FS_CardinalityType
    <3> QED
      BY <2>3, <3>2, <3>3
  <2> QED
    BY <1>5, <2>4 DEF Terminate
<1>6. ASSUME NEW c \in Consumers, Consume(c) PROVE TypeOK'
  <2>1. Oldest(recv_buf[c]) \in Items
    BY <1>6, OldestIsItem DEF Consume, Filled
  <2>2. ringbuffer_remove(recv_buf[c]) \in RingBuffers(Items, FetchLimit)
    BY <1>6, RemoveTakesOldest DEF Consume
  <2> QED
    BY <1>6, <2>1, <2>2 DEF Consume, queueVars
<1>7. ASSUME NEW c \in Consumers, DeqLock(c) \/ DeqWait(c) \/ DeqEnd(c) PROVE TypeOK'
  BY <1>7 DEF DeqLock, DeqWait, DeqEnd
<1>8. ASSUME NEW c \in Consumers, DeqMove(c) PROVE TypeOK'
  <2>1. Oldest(buf) \in Items
    BY <1>8, OldestIsItem DEF DeqMove, Filled
  <2>2. ringbuffer_insert(recv_buf[c], Oldest(buf)) \in RingBuffers(Items, FetchLimit)
    BY <1>8, <2>1, InsertAppends DEF DeqMove
  <2>3. ringbuffer_remove(buf) \in RingBuffers(Items, QueueSize)
    BY <1>8, RemoveTakesOldest DEF DeqMove
  <2> QED
    BY <1>8, <2>2, <2>3 DEF DeqMove
<1>9. ASSUME NEW c \in Consumers, DeqDone(c) PROVE TypeOK'
  BY <1>9 DEF DeqDone, Signal
<1>10. CASE SpuriousWakeup \/ Joined \/ UNCHANGED vars
  BY <1>10 DEF SpuriousWakeup, Joined, vars
<1> QED
  BY <1>1, <1>2, <1>3, <1>4, <1>5, <1>6, <1>7, <1>8, <1>9, <1>10
     DEF Next, Producer, Consumer

LEMMA FilledStep == IndInv /\ [Next]_vars => Filled'
<1> SUFFICES ASSUME IndInv, [Next]_vars PROVE Filled'
  OBVIOUS
<1> USE DEF IndInv, TypeOK, Filled
<1>1. ASSUME NEW p \in Producers, Produce(p) PROVE Filled'
  <2>1. ~ringbuffer_isFull(send_buf[p])
    BY <1>1 DEF Produce, MustEnqueue
  <2>2. Contents(ringbuffer_insert(send_buf[p], <<p, made[p] + 1>>)) \in Seq(Items)
    BY <1>1, <2>1, NewItem, StaysFilled
  <2> QED
    BY <1>1, <2>2 DEF Produce, queueVars
<1>2. ASSUME NEW p \in Producers, EnqMove(p) PROVE Filled'
  <2>1. Oldest(send_buf[p]) \in Items
    BY <1>2, OldestIsItem DEF EnqMove
  <2>2. Contents(ringbuffer_insert(buf, Oldest(send_buf[p]))) \in Seq(Items)
    BY <1>2, <2>1, StaysFilled DEF EnqMove
  <2>3. Contents(ringbuffer_remove(send_buf[p])) \in Seq(Items)
    BY <1>2, StaysFilled DEF EnqMove
  <2> QED
    BY <1>2, <2>2, <2>3 DEF EnqMove
<1>3. ASSUME NEW c \in Consumers, Consume(c) PROVE Filled'
  <2>1. Contents(ringbuffer_remove(recv_buf[c])) \in Seq(Items)
    BY <1>3, StaysFilled DEF Consume
  <2> QED
    BY <1>3, <2>1 DEF Consume, queueVars
<1>4. ASSUME NEW c \in Consumers, DeqMove(c) PROVE Filled'
  <2>1. Oldest(buf) \in Items
    BY <1>4, OldestIsItem DEF DeqMove
  <2>2. Contents(ringbuffer_insert(recv_buf[c], Oldest(buf))) \in Seq(Items)
    BY <1>4, <2>1, StaysFilled DEF DeqMove
  <2>3. Contents(ringbuffer_remove(buf)) \in Seq(Items)
    BY <1>4, StaysFilled DEF DeqMove
  <2> QED
    BY <1>4, <2>2, <2>3 DEF DeqMove
<1>5. ASSUME UNCHANGED <<buf, send_buf, recv_buf>> PROVE Filled'
  BY <1>5
<1> QED
  BY <1>1, <1>2, <1>3, <1>4, <1>5
     DEF Next, Producer, Consumer, EnqLock, EnqWait, EnqDone, Terminate, DeqLock, DeqWait,
         DeqEnd, DeqDone, SpuriousWakeup, Joined, vars

(* nTerminated counts the producers that have terminated the queue.        *)
LEMMA CountStep ==
    IndInv /\ [Next]_vars => (nTerminated = Cardinality(stopped \cap Producers))'
<1> SUFFICES ASSUME IndInv, [Next]_vars
             PROVE  nTerminated' = Cardinality(stopped' \cap Producers)
  OBVIOUS
<1> USE DEF IndInv
<1>1. ASSUME NEW p \in Producers, Terminate(p)
      PROVE  nTerminated' = Cardinality(stopped' \cap Producers)
  <2>1. IsFiniteSet(stopped \cap Producers)
    BY FS_Subset
  <2>2. stopped' \cap Producers = (stopped \cap Producers) \cup {p} /\ p \notin stopped \cap Producers
    BY <1>1 DEF Terminate
  <2> QED
    BY <1>1, <2>1, <2>2, FS_AddElement DEF Terminate
<1>2. ASSUME NEW c \in Consumers, DeqEnd(c)
      PROVE  nTerminated' = Cardinality(stopped' \cap Producers)
  <2>1. stopped' \cap Producers = stopped \cap Producers
    BY <1>2 DEF DeqEnd
  <2> QED
    BY <1>2, <2>1 DEF DeqEnd
<1>3. ASSUME UNCHANGED <<nTerminated, stopped>>
      PROVE  nTerminated' = Cardinality(stopped' \cap Producers)
  BY <1>3
<1> QED
  BY <1>1, <1>2, <1>3
     DEF Next, Producer, Consumer, Produce, EnqLock, EnqWait, EnqMove, EnqDone, Consume,
         DeqLock, DeqWait, DeqMove, DeqDone, SpuriousWakeup, Joined, vars, queueVars

(* All producers have terminated exactly when the counter has reached      *)
(* nProducers.                                                             *)
LEMMA TerminatedMeansAll ==
    ASSUME nTerminated = Cardinality(stopped \cap Producers)
    PROVE  queue_isTerminated <=> Producers \subseteq stopped
<1>1. stopped \cap Producers \subseteq Producers
  OBVIOUS
<1>2. /\ IsFiniteSet(stopped \cap Producers)
      /\ Cardinality(stopped \cap Producers) = Cardinality(Producers)
            => stopped \cap Producers = Producers
  BY <1>1, FS_Subset
<1>3. Producers \subseteq stopped => stopped \cap Producers = Producers
  OBVIOUS
<1> QED
  BY <1>2, <1>3 DEF queue_isTerminated

(* A producer that calls queue_enqueue has something to hand over.         *)
LEMMA MustEnqueueIsNotEmpty ==
    ASSUME TypeOK, NEW p \in Producers, MustEnqueue(p)
    PROVE  ~ringbuffer_isEmpty(send_buf[p])
  BY FullIsNotEmpty DEF MustEnqueue, TypeOK

LEMMA ProducerPhaseStep == IndInv /\ [Next]_vars => ProducerPhase'
<1> SUFFICES ASSUME IndInv, [Next]_vars, NEW q \in Producers
             PROVE  /\ made'[q] <= Quota[q]
                    /\ q \in stopped' => made'[q] = Quota[q] /\ ringbuffer_isEmpty(send_buf'[q])
                    /\ q \in notFull' => owner' # q /\ MustEnqueue(q)'
                    /\ owner' = q =>
                          /\ q \notin stopped'
                          /\ moved' = 0 => MustEnqueue(q)'
                          /\ moved' > 0 => ~ringbuffer_isEmpty(buf')
  BY DEF ProducerPhase
<1> DEFINE Phase ==
        /\ made'[q] <= Quota[q]
        /\ q \in stopped' => made'[q] = Quota[q] /\ ringbuffer_isEmpty(send_buf'[q])
        /\ q \in notFull' => owner' # q /\ MustEnqueue(q)'
        /\ owner' = q =>
              /\ q \notin stopped'
              /\ moved' = 0 => MustEnqueue(q)'
              /\ moved' > 0 => ~ringbuffer_isEmpty(buf')
<1> USE DEF IndInv, TypeOK, ProducerPhase
<1>1. ASSUME NEW p \in Producers, Produce(p) PROVE Phase
  <2>1. made'[p] \in Nat /\ made'[p] <= Quota[p] /\ p \notin stopped /\ p \notin notFull
    BY <1>1 DEF Produce
  <2>2. CASE q = p
    BY <1>1, <2>1, <2>2 DEF Produce, queueVars
  <2>3. CASE q # p
    BY <1>1, <2>3 DEF Produce, queueVars, MustEnqueue
  <2> QED
    BY <2>2, <2>3
<1>2. ASSUME NEW p \in Producers, EnqLock(p) PROVE Phase
  <2>1. p \notin stopped
    BY <1>2, MustEnqueueIsNotEmpty DEF EnqLock
  <2> QED
    BY <1>2, <2>1 DEF EnqLock, MustEnqueue
<1>3. ASSUME NEW p \in Producers, EnqWait(p) PROVE Phase
  BY <1>3 DEF EnqWait, MustEnqueue
<1>4. ASSUME NEW p \in Producers, EnqMove(p) PROVE Phase
  <2>1. ~ringbuffer_isEmpty(buf') /\ moved' > 0 /\ owner' = p /\ p \notin stopped'
    BY <1>4, OldestIsItem, InsertAppends DEF EnqMove, Filled
  <2>2. CASE q = p
    BY <1>4, <2>1, <2>2 DEF EnqMove
  <2>3. CASE q # p
    BY <1>4, <2>1, <2>3 DEF EnqMove, MustEnqueue
  <2> QED
    BY <2>2, <2>3
<1>5. ASSUME NEW p \in Producers, EnqDone(p) PROVE Phase
  BY <1>5 DEF EnqDone, MustEnqueue
<1>6. ASSUME NEW p \in Producers, Terminate(p) PROVE Phase
  BY <1>6, MustEnqueueIsNotEmpty DEF Terminate, MustEnqueue
<1>7. ASSUME NEW c \in Consumers, Consume(c) PROVE Phase
  BY <1>7 DEF Consume, queueVars, MustEnqueue
<1>8. ASSUME NEW c \in Consumers, DeqLock(c) \/ DeqWait(c) \/ DeqEnd(c) \/ DeqMove(c)
      PROVE  Phase
  BY <1>8 DEF DeqLock, DeqWait, DeqEnd, DeqMove, MustEnqueue
<1>9. ASSUME NEW c \in Consumers, DeqDone(c) PROVE Phase
  <2>1. notFull' \subseteq notFull
    BY <1>9 DEF DeqDone, Signal
  <2> QED
    BY <1>9, <2>1 DEF DeqDone, MustEnqueue
<1>10. CASE SpuriousWakeup
  <2>1. notFull' \subseteq notFull
    BY <1>10 DEF SpuriousWakeup
  <2> QED
    BY <1>10, <2>1 DEF SpuriousWakeup, MustEnqueue
<1>11. CASE Joined \/ UNCHANGED vars
  BY <1>11 DEF Joined, vars, MustEnqueue
<1> QED
  BY <1>1, <1>2, <1>3, <1>4, <1>5, <1>6, <1>7, <1>8, <1>9, <1>10, <1>11
     DEF Next, Producer, Consumer

LEMMA ConsumerPhaseStep == IndInv /\ [Next]_vars => ConsumerPhase'
<1> SUFFICES ASSUME IndInv, [Next]_vars, NEW d \in Consumers
             PROVE  /\ d \in stopped' => queue_isTerminated' /\ ringbuffer_isEmpty(buf')
                    /\ d \in notEmpty' => owner' # d /\ MustDequeue(d)'
                    /\ owner' = d =>
                          /\ d \notin stopped'
                          /\ moved' = 0 => ringbuffer_isEmpty(recv_buf'[d])
  BY DEF ConsumerPhase
<1> DEFINE Phase ==
        /\ d \in stopped' => queue_isTerminated' /\ ringbuffer_isEmpty(buf')
        /\ d \in notEmpty' => owner' # d /\ MustDequeue(d)'
        /\ owner' = d =>
              /\ d \notin stopped'
              /\ moved' = 0 => ringbuffer_isEmpty(recv_buf'[d])
<1> USE DEF IndInv, TypeOK, ConsumerPhase, queue_isTerminated
<1>1. ASSUME NEW p \in Producers, Produce(p) \/ EnqLock(p) \/ EnqWait(p) PROVE Phase
  BY <1>1 DEF Produce, EnqLock, EnqWait, queueVars, MustDequeue
<1>2. ASSUME NEW p \in Producers, EnqMove(p) PROVE Phase
  <2>1. ~queue_isTerminated
    BY <1>2, TerminatedMeansAll DEF EnqMove, ProducerPhase
  <2> QED
    BY <1>2, <2>1 DEF EnqMove, MustDequeue
<1>3. ASSUME NEW p \in Producers, EnqDone(p) PROVE Phase
  <2>1. notEmpty' \subseteq notEmpty
    BY <1>3 DEF EnqDone, Signal
  <2> QED
    BY <1>3, <2>1 DEF EnqDone, MustDequeue
<1>4. ASSUME NEW p \in Producers, Terminate(p) PROVE Phase
  <2>1. ~queue_isTerminated /\ notEmpty' \subseteq notEmpty
    BY <1>4, TerminatedMeansAll DEF Terminate
  <2> QED
    BY <1>4, <2>1 DEF Terminate, MustDequeue
<1>5. ASSUME NEW c \in Consumers, Consume(c) PROVE Phase
  BY <1>5 DEF Consume, queueVars, MustDequeue
<1>6. ASSUME NEW c \in Consumers, DeqLock(c) PROVE Phase
  BY <1>6 DEF DeqLock, MustDequeue
<1>7. ASSUME NEW c \in Consumers, DeqWait(c) PROVE Phase
  BY <1>7 DEF DeqWait, MustDequeue
<1>8. ASSUME NEW c \in Consumers, DeqEnd(c) PROVE Phase
  BY <1>8 DEF DeqEnd, MustDequeue
<1>9. ASSUME NEW c \in Consumers, DeqMove(c) PROVE Phase
  <2>1. stopped \cap Consumers = {}
    BY <1>9 DEF DeqMove
  <2> QED
    BY <1>9, <2>1 DEF DeqMove, MustDequeue
<1>10. ASSUME NEW c \in Consumers, DeqDone(c) PROVE Phase
  BY <1>10 DEF DeqDone, MustDequeue
<1>11. CASE SpuriousWakeup
  <2>1. notEmpty' \subseteq notEmpty
    BY <1>11 DEF SpuriousWakeup
  <2> QED
    BY <1>11, <2>1 DEF SpuriousWakeup, MustDequeue
<1>12. CASE Joined \/ UNCHANGED vars
  BY <1>12 DEF Joined, vars, MustDequeue
<1> QED
  BY <1>1, <1>2, <1>3, <1>4, <1>5, <1>6, <1>7, <1>8, <1>9, <1>10, <1>11, <1>12
     DEF Next, Producer, Consumer

LEMMA ConsumersServedStep == IndInv /\ [Next]_vars => ConsumersServed'
<1> SUFFICES ASSUME IndInv, [Next]_vars PROVE ConsumersServed'
  OBVIOUS
<1> USE DEF IndInv, TypeOK, ConsumersServed, queue_isTerminated
<1>1. ASSUME NEW p \in Producers, Produce(p) PROVE ConsumersServed'
  BY <1>1 DEF Produce, queueVars
<1>2. ASSUME NEW p \in Producers, EnqLock(p) PROVE ConsumersServed'
  BY <1>2 DEF EnqLock
<1>3. ASSUME NEW p \in Producers, EnqWait(p) PROVE ConsumersServed'
  BY <1>3 DEF EnqWait
<1>4. ASSUME NEW p \in Producers, EnqMove(p) PROVE ConsumersServed'
  BY <1>4 DEF EnqMove
<1>5. ASSUME NEW p \in Producers, EnqDone(p) PROVE ConsumersServed'
  <2>1. moved > 0
    BY <1>5, MustEnqueueIsNotEmpty DEF EnqDone, ProducerPhase
  <2>2. CASE notEmpty = {}
    BY <1>5, <2>1, <2>2 DEF EnqDone, Signal
  <2>3. CASE notEmpty # {}
    <3>1. PICK c \in notEmpty : notEmpty' = notEmpty \ {c}
      BY <1>5, <2>1, <2>3 DEF EnqDone, Signal
    <3>2. c \in Consumers \ (notEmpty' \cup stopped)
      BY <3>1 DEF ConsumerPhase, MustDequeue
    <3> QED
      BY <1>5, <2>3, <3>2 DEF EnqDone
  <2> QED
    BY <2>2, <2>3
<1>6. ASSUME NEW p \in Producers, Terminate(p) PROVE ConsumersServed'
  <2>1. CASE queue_isTerminated'
    BY <1>6, <2>1 DEF Terminate
  <2>2. CASE ~queue_isTerminated'
    <3>1. notEmpty' = notEmpty
      BY <1>6, <2>2 DEF Terminate
    <3>2. owner = NoOne /\ owner' = NoOne /\ buf' = buf /\ stopped' = stopped \cup {p}
      BY <1>6 DEF Terminate
    <3>3. Consumers \ (notEmpty' \cup stopped') = Consumers \ (notEmpty \cup stopped)
      BY <3>1, <3>2
    <3> QED
      BY <2>2, <3>1, <3>2, <3>3
  <2> QED
    BY <2>1, <2>2
<1>7. ASSUME NEW c \in Consumers, Consume(c) PROVE ConsumersServed'
  BY <1>7 DEF Consume, queueVars
<1>8. ASSUME NEW c \in Consumers, DeqLock(c) \/ DeqWait(c) \/ DeqEnd(c) PROVE ConsumersServed'
  BY <1>8 DEF DeqLock, DeqWait, DeqEnd
<1>9. ASSUME NEW c \in Consumers, DeqMove(c) PROVE ConsumersServed'
  BY <1>9 DEF DeqMove
<1>10. ASSUME NEW c \in Consumers, DeqDone(c) PROVE ConsumersServed'
  <2>1. c \notin stopped /\ c \notin notEmpty
    BY <1>10 DEF DeqDone, ConsumerPhase
  <2> QED
    BY <1>10, <2>1 DEF DeqDone
<1>11. CASE SpuriousWakeup
  BY <1>11 DEF SpuriousWakeup
<1>12. CASE Joined \/ UNCHANGED vars
  BY <1>12 DEF Joined, vars
<1> QED
  BY <1>1, <1>2, <1>3, <1>4, <1>5, <1>6, <1>7, <1>8, <1>9, <1>10, <1>11, <1>12
     DEF Next, Producer, Consumer

LEMMA ProducersServedStep == IndInv /\ [Next]_vars => ProducersServed'
<1> SUFFICES ASSUME IndInv, [Next]_vars PROVE ProducersServed'
  OBVIOUS
<1> USE DEF IndInv, TypeOK, ProducersServed
<1>1. ASSUME NEW p \in Producers, Produce(p) PROVE ProducersServed'
  <2>1. \A r \in Producers : MustEnqueue(r) => MustEnqueue(r)'
    BY <1>1 DEF Produce, MustEnqueue, queueVars
  <2> QED
    BY <1>1, <2>1 DEF Produce, queueVars
<1>2. ASSUME NEW p \in Producers, EnqLock(p) PROVE ProducersServed'
  BY <1>2 DEF EnqLock, MustEnqueue
<1>3. ASSUME NEW p \in Producers, EnqWait(p) PROVE ProducersServed'
  BY <1>3, FullIsNotEmpty DEF EnqWait
<1>4. ASSUME NEW p \in Producers, EnqMove(p) PROVE ProducersServed'
  BY <1>4, OldestIsItem, InsertAppends DEF EnqMove, Filled
<1>5. ASSUME NEW p \in Producers, EnqDone(p) PROVE ProducersServed'
  BY <1>5, MustEnqueueIsNotEmpty DEF EnqDone, ProducerPhase
<1>6. ASSUME NEW p \in Producers, Terminate(p) PROVE ProducersServed'
  BY <1>6 DEF Terminate, MustEnqueue
<1>7. ASSUME NEW c \in Consumers, Consume(c) PROVE ProducersServed'
  BY <1>7 DEF Consume, queueVars, MustEnqueue
<1>8. ASSUME NEW c \in Consumers, DeqLock(c) \/ DeqWait(c) \/ DeqEnd(c) PROVE ProducersServed'
  BY <1>8 DEF DeqLock, DeqWait, DeqEnd, MustEnqueue
<1>9. ASSUME NEW c \in Consumers, DeqMove(c) PROVE ProducersServed'
  BY <1>9 DEF DeqMove
<1>10. ASSUME NEW c \in Consumers, DeqDone(c) PROVE ProducersServed'
  <2>1. CASE moved > 0
    <3>1. CASE notFull = {}
      BY <1>10, <2>1, <3>1 DEF DeqDone, Signal
    <3>2. CASE notFull # {}
      <4>1. PICK p \in notFull : notFull' = notFull \ {p}
        BY <1>10, <2>1, <3>2 DEF DeqDone, Signal
      <4>2. p \in Producers \ notFull' /\ MustEnqueue(p)'
        BY <1>10, <4>1 DEF DeqDone, ProducerPhase, MustEnqueue
      <4> QED
        BY <4>2
    <3> QED
      BY <3>1, <3>2
  <2>2. CASE ~(moved > 0)
    BY <1>10, <2>2 DEF DeqDone, MustEnqueue
  <2> QED
    BY <2>1, <2>2
<1>11. CASE SpuriousWakeup
  BY <1>11 DEF SpuriousWakeup, MustEnqueue
<1>12. CASE Joined \/ UNCHANGED vars
  BY <1>12 DEF Joined, vars, MustEnqueue
<1> QED
  BY <1>1, <1>2, <1>3, <1>4, <1>5, <1>6, <1>7, <1>8, <1>9, <1>10, <1>11, <1>12
     DEF Next, Producer, Consumer

-------------------------------------------------------------------------------

(* IndInv holds in every reachable state.                                  *)
THEOREM IndInvHolds == Spec => []IndInv
<1>1. IndInv /\ [Next]_vars => IndInv'
  BY TypeOKStep, FilledStep, CountStep, ProducerPhaseStep, ConsumerPhaseStep,
     ConsumersServedStep, ProducersServedStep DEF IndInv
<1> QED
  BY <1>1, InitEstablishes, PTL DEF Spec

(* Every variable keeps its type: every buffer stays a well-formed ring of *)
(* its own size, and nTerminated never exceeds nProducers (queue.c:42).    *)
THEOREM TypesHold == Spec => []TypeOK
  BY IndInvHolds, PTL DEF IndInv

(* queue_dequeue reports the end only when nothing is left anywhere on the *)
(* sending side.                                                           *)
THEOREM EndOfStream == Spec => []EndOfStreamIsFinal
<1>1. IndInv => EndOfStreamIsFinal
  BY TerminatedMeansAll DEF IndInv, EndOfStreamIsFinal, ConsumerPhase, ProducerPhase
<1> QED
  BY <1>1, IndInvHolds, PTL

(* The assertions of queue.c hold: nobody enqueues after the last          *)
(* terminate.                                                              *)
THEOREM TerminateIsLast == Spec => []NoEnqueueAfterTerminate
<1>1. IndInv => NoEnqueueAfterTerminate
  BY TerminatedMeansAll DEF IndInv, NoEnqueueAfterTerminate, ProducerPhase
<1> QED
  BY <1>1, IndInvHolds, PTL

(* No wakeup is lost: while a consumer sleeps before a non-empty queue,    *)
(* another one is awake, and none sleeps once the queue is terminated.     *)
THEOREM ConsumersNotStranded == Spec => []NoStrandedConsumer
<1>1. IndInv => NoStrandedConsumer
  BY DEF IndInv, NoStrandedConsumer, ConsumersServed
<1> QED
  BY <1>1, IndInvHolds, PTL

(* No wakeup is lost: while a producer sleeps before an empty queue,       *)
(* another one is awake and about to enqueue.                              *)
THEOREM ProducersNotStranded == Spec => []NoStrandedProducer
<1>1. IndInv => NoStrandedProducer
  BY DEF IndInv, NoStrandedProducer, ProducersServed
<1> QED
  BY <1>1, IndInvHolds, PTL

(* A call of queue_enqueue or queue_dequeue moves at least one item.       *)
THEOREM BatchesAreNotEmpty == Spec => NoEmptyBatch
<1> DEFINE Moves == /\ \A p \in Producers : EnqDone(p) => moved > 0
                    /\ \A c \in Consumers : DeqDone(c) => moved > 0
<1>1. ASSUME IndInv PROVE Moves
  <2>1. ASSUME NEW p \in Producers, EnqDone(p) PROVE moved > 0
    BY <1>1, <2>1, MustEnqueueIsNotEmpty DEF IndInv, EnqDone, ProducerPhase, TypeOK
  <2>2. ASSUME NEW c \in Consumers, DeqDone(c) PROVE moved > 0
    BY <1>1, <2>2, FullIsNotEmpty DEF IndInv, DeqDone, ConsumerPhase, TypeOK
  <2> QED
    BY <2>1, <2>2
<1> QED
  BY <1>1, IndInvHolds, PTL DEF NoEmptyBatch

-------------------------------------------------------------------------------

LEMMA InitImplements == Init => Stream!Init
  BY InitRing DEF Init, Stream!Init

(* Inserting into the ring is Send, removing from it is Receive, the       *)
(* producers' terminate is Close, a return of -1 is End; no other step     *)
(* changes what the queue holds.                                           *)
LEMMA StepImplements == IndInv /\ [Next]_vars => [Stream!Next]_(Stream!vars)
<1> SUFFICES ASSUME IndInv, [Next]_vars PROVE [Stream!Next]_(Stream!vars)
  OBVIOUS
<1> USE DEF IndInv, TypeOK
<1>1. ASSUME NEW p \in Producers, EnqMove(p) PROVE Stream!Send
  <2>1. Oldest(send_buf[p]) \in Items
    BY <1>1, OldestIsItem DEF EnqMove, Filled
  <2>2. Contents(buf') = Append(Contents(buf), Oldest(send_buf[p]))
    BY <1>1, <2>1, InsertAppends DEF EnqMove
  <2>3. Len(Contents(buf)) < QueueSize
    <3>1. Count(buf) \in 0 .. QueueSize /\ Count(buf) # QueueSize
      BY <1>1, CountBounds DEF EnqMove
    <3>2. Len(Contents(buf)) = Count(buf)
      BY <3>1 DEF Contents
    <3> QED
      BY <3>1, <3>2
  <2>4. stopped \cap Producers # Producers /\ stopped' = stopped
    BY <1>1 DEF EnqMove, ProducerPhase
  <2> QED
    BY <2>1, <2>2, <2>3, <2>4 DEF Stream!Send
<1>2. ASSUME NEW c \in Consumers, DeqMove(c) PROVE Stream!Receive
  BY <1>2, RemoveTakesOldest DEF DeqMove, Stream!Receive
<1>3. ASSUME NEW p \in Producers, Terminate(p) PROVE Stream!Close(p)
  BY <1>3 DEF Terminate, Stream!Close
<1>4. ASSUME NEW c \in Consumers, DeqEnd(c) PROVE Stream!End(c)
  <2>1. stopped \cap Producers = Producers
    BY <1>4, TerminatedMeansAll DEF DeqEnd
  <2>2. Contents(buf) = <<>>
    <3>1. Count(buf) = 0
      BY <1>4, CountBounds DEF DeqEnd
    <3> QED
      BY <3>1 DEF Contents
  <2> QED
    BY <1>4, <2>1, <2>2 DEF DeqEnd, Stream!End
<1>5. ASSUME UNCHANGED <<buf, stopped>> PROVE UNCHANGED Stream!vars
  BY <1>5 DEF Stream!vars
<1> QED
  BY <1>1, <1>2, <1>3, <1>4, <1>5
     DEF Next, Producer, Consumer, Produce, EnqLock, EnqWait, EnqDone, Consume, DeqLock,
         DeqWait, DeqDone, SpuriousWakeup, Joined, vars, queueVars, Stream!Next

(* The queue of queue.c implements the bounded first-in first-out channel. *)
THEOREM QueueImplementsChannel == Spec => ImplementsChannel
  BY InitImplements, StepImplements, IndInvHolds, PTL
     DEF Spec, ImplementsChannel, Stream!Spec

-------------------------------------------------------------------------------
(* What a ring holds, as a set: an item more when one is inserted, an item *)
(* less when the oldest is removed.                                        *)
Distinct(rb) ==
    \A i, j \in 1 .. Count(rb) : Contents(rb)[i] = Contents(rb)[j] => i = j

LEMMA CountIsLen ==
    ASSUME NEW n \in Nat \ {0}, NEW rb \in RingBuffers(Items, n), Contents(rb) \in Seq(Items)
    PROVE  Len(Contents(rb)) = Count(rb) /\ Count(rb) \in Nat
<1>1. Count(rb) \in Nat
  BY CountBounds
<1> QED
  BY <1>1 DEF Contents

LEMMA HeldIsCounted ==
    ASSUME NEW n \in Nat \ {0}, NEW rb \in RingBuffers(Items, n), Distinct(rb)
    PROVE  Cardinality(Held(rb)) = Count(rb)
<1>1. Count(rb) \in Nat
  BY CountBounds
<1> DEFINE f == [k \in 1 .. Count(rb) |-> Contents(rb)[k]]
<1>2. f \in Bijection(1 .. Count(rb), Held(rb))
  BY DEF Distinct, Held, Bijection, Injection, Surjection, IsInjective
<1> HIDE DEF f
<1> QED
  BY <1>1, <1>2, FS_CountingElements DEF ExistsBijection

LEMMA InsertHolds ==
    ASSUME NEW n \in Nat \ {0}, NEW rb \in RingBuffers(Items, n), Contents(rb) \in Seq(Items),
           Distinct(rb), NEW x \in Items, ~ringbuffer_isFull(rb), x \notin Held(rb)
    PROVE  /\ Held(ringbuffer_insert(rb, x)) = Held(rb) \cup {x}
           /\ Distinct(ringbuffer_insert(rb, x))
<1>1. PICK new \in RingBuffers(Items, n) : /\ new = ringbuffer_insert(rb, x)
                                           /\ Contents(new) = Append(Contents(rb), x)
  BY InsertAppends
<1>2. Len(Contents(rb)) = Count(rb) /\ Count(rb) \in Nat
  BY CountIsLen
<1>3. Contents(new) \in Seq(Items)
  BY <1>1
<1>4. Count(new) = Count(rb) + 1
  BY <1>1, <1>2, <1>3, CountIsLen
<1>5. /\ \A k \in 1 .. Count(rb) : Contents(new)[k] = Contents(rb)[k]
      /\ Contents(new)[Count(rb) + 1] = x
  BY <1>1, <1>2
<1>6. \A k \in 1 .. Count(new) : k \in 1 .. Count(rb) \/ k = Count(rb) + 1
  BY <1>2, <1>4
<1>7. \A k \in 1 .. Count(rb) : k \in 1 .. Count(new) /\ Count(rb) + 1 \in 1 .. Count(new)
  BY <1>2, <1>4
<1>8. Count(rb) + 1 \in 1 .. Count(new)
  BY <1>2, <1>4
<1>9. Held(new) = Held(rb) \cup {x}
  <2>1. Held(new) \subseteq Held(rb) \cup {x}
    BY <1>5, <1>6 DEF Held
  <2>2. Held(rb) \cup {x} \subseteq Held(new)
    BY <1>5, <1>7, <1>8 DEF Held
  <2> QED
    BY <2>1, <2>2
<1>10. Distinct(new)
  BY <1>5, <1>6 DEF Distinct, Held
<1> QED
  BY <1>1, <1>9, <1>10

LEMMA RemoveHolds ==
    ASSUME NEW n \in Nat \ {0}, NEW rb \in RingBuffers(Items, n), Contents(rb) \in Seq(Items),
           Distinct(rb), ~ringbuffer_isEmpty(rb)
    PROVE  /\ Held(ringbuffer_remove(rb)) = Held(rb) \ {Oldest(rb)}
           /\ Oldest(rb) \in Held(rb)
           /\ Distinct(ringbuffer_remove(rb))
<1>1. PICK new \in RingBuffers(Items, n) : /\ new = ringbuffer_remove(rb)
                                           /\ Contents(rb) # <<>>
                                           /\ Oldest(rb) = Head(Contents(rb))
                                           /\ Contents(new) = Tail(Contents(rb))
  BY RemoveTakesOldest
<1>2. Len(Contents(rb)) = Count(rb) /\ Count(rb) \in Nat
  BY CountIsLen
<1>3. Contents(new) \in Seq(Items) /\ Len(Contents(new)) = Count(rb) - 1
  BY <1>1, <1>2
<1>4. Count(new) = Count(rb) - 1 /\ Count(rb) # 0
  BY <1>1, <1>2, <1>3, CountIsLen
<1>5. /\ \A k \in 1 .. Count(new) : Contents(new)[k] = Contents(rb)[k + 1]
      /\ Oldest(rb) = Contents(rb)[1]
  BY <1>1, <1>2, <1>4
<1>6. \A k \in 1 .. Count(rb) : k = 1 \/ (k - 1 \in 1 .. Count(new) /\ (k - 1) + 1 = k)
  BY <1>2, <1>4
<1>7. \A k \in 1 .. Count(new) : k + 1 \in 1 .. Count(rb) /\ k + 1 # 1
  BY <1>2, <1>4
<1>8. 1 \in 1 .. Count(rb)
  BY <1>2, <1>4
<1>9. Held(new) = Held(rb) \ {Oldest(rb)}
  <2>1. ASSUME NEW k \in 1 .. Count(new)
        PROVE  Contents(new)[k] \in Held(rb) /\ Contents(new)[k] # Oldest(rb)
    BY <1>5, <1>7, <1>8 DEF Held, Distinct
  <2>2. ASSUME NEW k \in 1 .. Count(rb), Contents(rb)[k] # Oldest(rb)
        PROVE  Contents(rb)[k] \in Held(new)
    <3>1. k - 1 \in 1 .. Count(new) /\ (k - 1) + 1 = k
      BY <1>5, <1>6, <2>2
    <3>2. Contents(new)[k - 1] = Contents(rb)[k]
      BY <1>5, <3>1
    <3> QED
      BY <3>1, <3>2 DEF Held
  <2> QED
    BY <2>1, <2>2 DEF Held
<1>10. Distinct(new)
  <2> SUFFICES ASSUME NEW i \in 1 .. Count(new), NEW j \in 1 .. Count(new),
                      Contents(new)[i] = Contents(new)[j]
               PROVE  i = j
    BY DEF Distinct
  <2>1. i + 1 = j + 1
    BY <1>5, <1>7 DEF Distinct
  <2> QED
    BY <1>2, <1>4, <2>1
<1>11. Oldest(rb) \in Held(rb)
  BY <1>5, <1>8 DEF Held
<1> QED
  BY <1>1, <1>9, <1>10, <1>11

(* The buffers by the name of their place: a thread's own, and the queue   *)
(* itself, for which NoOne stands.  No place holds an item twice, no two   *)
(* places share one, and together they hold what is made and not consumed. *)
Places == Producers \cup Consumers \cup {NoOne}

At(t) == IF t \in Producers THEN send_buf[t] ELSE IF t \in Consumers THEN recv_buf[t] ELSE buf

Room(t) == IF t \in Producers THEN InsertLimit ELSE IF t \in Consumers THEN FetchLimit ELSE QueueSize

Once ==
    /\ \A t \in Places : Distinct(At(t))
    /\ \A t, u \in Places : t # u => Held(At(t)) \cap Held(At(u)) = {}
    /\ \A x : (\E t \in Places : x \in Held(At(t))) <=> x \in Made \ consumed
    /\ consumed \subseteq Made

LEMMA PlaceTypes ==
    ASSUME IndInv, NEW t \in Places
    PROVE  /\ Room(t) \in Nat \ {0} /\ At(t) \in RingBuffers(Items, Room(t))
           /\ Contents(At(t)) \in Seq(Items)
<1>1. CASE t \in Producers
  BY <1>1 DEF IndInv, TypeOK, Filled, At, Room
<1>2. CASE t \in Consumers
  BY <1>2 DEF IndInv, TypeOK, Filled, At, Room
<1>3. CASE t = NoOne
  BY <1>3 DEF IndInv, TypeOK, Filled, At, Room
<1> QED
  BY <1>1, <1>2, <1>3 DEF Places

LEMMA OnceMeansExactlyOnce ==
    ASSUME IndInv, Once
    PROVE  ExactlyOnce
<1>1. /\ \A p \in Producers : At(p) = send_buf[p] /\ p \in Places
      /\ \A c \in Consumers : At(c) = recv_buf[c] /\ c \in Places
      /\ At(NoOne) = buf /\ NoOne \in Places
      /\ \A p \in Producers, c \in Consumers : p # NoOne /\ c # NoOne
  BY DEF At, Places
<1>2. Buffers = {At(t) : t \in Places}
  BY <1>1 DEF Buffers, Places
<1>3. UNION {Held(rb) : rb \in Buffers} = Made \ consumed
  <2>1. \A x : x \in UNION {Held(rb) : rb \in Buffers} <=> \E t \in Places : x \in Held(At(t))
    BY <1>2
  <2> QED
    BY <2>1 DEF Once
<1>4. \A rb \in Buffers : Cardinality(Held(rb)) = Count(rb)
  <2>1. ASSUME NEW t \in Places
        PROVE  Cardinality(Held(At(t))) = Count(At(t))
    BY PlaceTypes, HeldIsCounted DEF Once
  <2> QED
    BY <1>2, <2>1
<1> QED
  BY <1>1, <1>3, <1>4 DEF ExactlyOnce, Once

LEMMA OnceInit == Init => Once
<1> SUFFICES ASSUME Init
             PROVE  Once
  OBVIOUS
<1>1. ASSUME NEW n \in Nat \ {0}
      PROVE  Count(ringbuffer_init(n)) = 0
  BY InitRing, CountBounds
<1>2. ASSUME NEW t \in Places
      PROVE  Count(At(t)) = 0
  BY <1>1 DEF Init, At, Places
<1>3. \A t \in Places : Distinct(At(t)) /\ Held(At(t)) = {}
  BY <1>2 DEF Distinct, Held
<1>4. Made = {}
  BY DEF Init, Made
<1> QED
  BY <1>3, <1>4 DEF Once, Init

(* An item moves from place t to place u, both in one step.                *)
LEMMA MoveOnce ==
    ASSUME IndInv, Once, NEW t \in Places, NEW u \in Places \ {t},
           ~ringbuffer_isEmpty(At(t)), ~ringbuffer_isFull(At(u)),
           At(t)' = ringbuffer_remove(At(t)),
           At(u)' = ringbuffer_insert(At(u), Oldest(At(t))),
           \A w \in Places \ {t, u} : At(w)' = At(w),
           UNCHANGED <<made, consumed>>
    PROVE  Once'
<1>1. PICK x : x = Oldest(At(t))
  OBVIOUS
<1>2. x \in Items /\ x \in Held(At(t)) /\ x \notin Held(At(u))
  <2>1. x \in Held(At(t))
    BY <1>1, PlaceTypes, RemoveHolds DEF Once
  <2>2. x \in Items
    BY <1>1, PlaceTypes, OldestIsItem
  <2> QED
    BY <2>1, <2>2 DEF Once
<1>3. Held(At(t))' = Held(At(t)) \ {x} /\ Distinct(At(t))'
  <2>1. PICK new : new = ringbuffer_remove(At(t))
    OBVIOUS
  <2>2. Held(new) = Held(At(t)) \ {x} /\ Distinct(new)
    BY <1>1, <2>1, PlaceTypes, RemoveHolds DEF Once
  <2> QED
    BY <2>1, <2>2 DEF Held, Distinct
<1>4. Held(At(u))' = Held(At(u)) \cup {x} /\ Distinct(At(u))'
  <2>1. PICK new : new = ringbuffer_insert(At(u), x)
    OBVIOUS
  <2>2. Held(new) = Held(At(u)) \cup {x} /\ Distinct(new)
    BY <1>2, <2>1, PlaceTypes, InsertHolds DEF Once
  <2> QED
    BY <1>1, <2>1, <2>2 DEF Held, Distinct
<1>5. \A w \in Places \ {t, u} : Held(At(w))' = Held(At(w)) /\ (Distinct(At(w))' <=> Distinct(At(w)))
  BY DEF Held, Distinct
<1>6. \A w \in Places : Distinct(At(w))'
  BY <1>3, <1>4, <1>5 DEF Once
<1>7. ASSUME NEW v \in Places, NEW w \in Places, v # w
      PROVE  Held(At(v))' \cap Held(At(w))' = {}
  <2>1. Held(At(v)) \cap Held(At(w)) = {} /\ \A z \in Places \ {t} : x \notin Held(At(z))
    BY <1>2, <1>7 DEF Once
  <2> QED
    BY <1>3, <1>4, <1>5, <1>7, <2>1
<1>8. \A y : (\E w \in Places : y \in Held(At(w))') <=> (\E w \in Places : y \in Held(At(w)))
  <2>1. ASSUME NEW y, NEW w \in Places, y \in Held(At(w))'
        PROVE  \E z \in Places : y \in Held(At(z))
    BY <1>2, <1>3, <1>4, <1>5, <2>1
  <2>2. ASSUME NEW y, NEW w \in Places, y \in Held(At(w))
        PROVE  \E z \in Places : y \in Held(At(z))'
    BY <1>3, <1>4, <1>5, <2>2
  <2> QED
    BY <2>1, <2>2
<1>9. Made' = Made
  BY DEF Made
<1> QED
  BY <1>6, <1>7, <1>8, <1>9 DEF Once

LEMMA ProduceOnce ==
    ASSUME IndInv, Once, NEW p \in Producers, Produce(p)
    PROVE  Once'
<1>1. PICK x : x = <<p, made[p] + 1>>
  OBVIOUS
<1>2. x \in Items
  BY <1>1, NewItem DEF IndInv
<1>3. Made' = Made \cup {x} /\ x \notin Made
  <2>1. /\ made \in [Producers -> Nat] /\ made' = [made EXCEPT ![p] = made[p] + 1]
    BY DEF IndInv, TypeOK, Produce
  <2>2. made'[p] = made[p] + 1 /\ made[p] \in Nat /\ \A q \in Producers \ {p} : made'[q] = made[q]
    BY <2>1
  <2>3. 1 .. made'[p] = (1 .. made[p]) \cup {made[p] + 1}
    BY <2>2
  <2>4. {p} \X (1 .. made'[p]) = ({p} \X (1 .. made[p])) \cup {x}
    BY <1>1, <2>3
  <2>5. Made' \subseteq Made \cup {x}
    BY <2>2, <2>4 DEF Made
  <2>6. Made \cup {x} \subseteq Made'
    BY <2>2, <2>4 DEF Made
  <2>7. x \notin Made
    <3>1. made[p] + 1 \notin 1 .. made[p]
      BY <2>2
    <3> QED
      BY <1>1, <3>1 DEF Made
  <2> QED
    BY <2>5, <2>6, <2>7
<1>4. \A t \in Places : x \notin Held(At(t))
  BY <1>3 DEF Once
<1>5. /\ p \in Places /\ At(p) = send_buf[p] /\ ~ringbuffer_isFull(At(p))
      /\ At(p)' = ringbuffer_insert(At(p), x)
      /\ \A w \in Places \ {p} : At(w)' = At(w)
  BY <1>1 DEF Produce, MustEnqueue, Places, At, IndInv, TypeOK, queueVars
<1>6. Held(At(p))' = Held(At(p)) \cup {x} /\ Distinct(At(p))'
  <2>1. PICK new : new = ringbuffer_insert(At(p), x)
    OBVIOUS
  <2>2. Held(new) = Held(At(p)) \cup {x} /\ Distinct(new)
    BY <1>2, <1>4, <1>5, <2>1, PlaceTypes, InsertHolds DEF Once
  <2> QED
    BY <1>5, <2>1, <2>2 DEF Held, Distinct
<1>7. \A w \in Places \ {p} : Held(At(w))' = Held(At(w)) /\ (Distinct(At(w))' <=> Distinct(At(w)))
  BY <1>5 DEF Held, Distinct
<1>8. \A w \in Places : Distinct(At(w))'
  BY <1>6, <1>7 DEF Once
<1>9. ASSUME NEW v \in Places, NEW w \in Places, v # w
      PROVE  Held(At(v))' \cap Held(At(w))' = {}
  <2>1. Held(At(v)) \cap Held(At(w)) = {}
    BY <1>9 DEF Once
  <2> QED
    BY <1>4, <1>6, <1>7, <1>9, <2>1
<1>10. \A y : (\E w \in Places : y \in Held(At(w))')
                <=> (y = x \/ \E w \in Places : y \in Held(At(w)))
  <2>1. ASSUME NEW y, NEW w \in Places, y \in Held(At(w))'
        PROVE  y = x \/ \E z \in Places : y \in Held(At(z))
    BY <1>6, <1>7, <2>1
  <2>2. ASSUME NEW y, NEW w \in Places, y \in Held(At(w))
        PROVE  \E z \in Places : y \in Held(At(z))'
    BY <1>6, <1>7, <2>2
  <2>3. x \in Held(At(p))'
    BY <1>6
  <2> QED
    BY <1>5, <2>1, <2>2, <2>3
<1>11. consumed' = consumed /\ x \notin consumed
  BY <1>3 DEF Produce, Once
<1>12. ASSUME NEW y
       PROVE  (\E w \in Places : y \in Held(At(w))') <=> y \in Made' \ consumed'
  <2>1. (\E w \in Places : y \in Held(At(w))) <=> y \in Made \ consumed
    BY DEF Once
  <2> QED
    BY <1>3, <1>10, <1>11, <2>1
<1>13. consumed' \subseteq Made'
  BY <1>3, <1>11 DEF Once
<1> QED
  BY <1>8, <1>9, <1>12, <1>13 DEF Once

LEMMA ConsumeOnce ==
    ASSUME IndInv, Once, NEW c \in Consumers, Consume(c)
    PROVE  Once'
<1>1. /\ c \in Places /\ At(c) = recv_buf[c] /\ ~ringbuffer_isEmpty(At(c))
      /\ At(c)' = ringbuffer_remove(At(c))
      /\ \A w \in Places \ {c} : At(w)' = At(w)
      /\ consumed' = consumed \cup {Oldest(At(c))} /\ made' = made
  BY DEF Consume, Places, At, IndInv, TypeOK, queueVars
<1>2. PICK x : x = Oldest(At(c))
  OBVIOUS
<1>3. PICK new : new = ringbuffer_remove(At(c))
  OBVIOUS
<1>4. Held(new) = Held(At(c)) \ {x} /\ x \in Held(At(c)) /\ Distinct(new)
  BY <1>1, <1>2, <1>3, PlaceTypes, RemoveHolds DEF Once
<1>5. Held(At(c))' = Held(At(c)) \ {x} /\ Distinct(At(c))'
  BY <1>1, <1>3, <1>4 DEF Held, Distinct
<1>6. \A w \in Places \ {c} : Held(At(w))' = Held(At(w)) /\ (Distinct(At(w))' <=> Distinct(At(w)))
  BY <1>1 DEF Held, Distinct
<1>7. \A w \in Places : Distinct(At(w))'
  BY <1>5, <1>6 DEF Once
<1>8. ASSUME NEW v \in Places, NEW w \in Places, v # w
      PROVE  Held(At(v))' \cap Held(At(w))' = {}
  <2>1. Held(At(v)) \cap Held(At(w)) = {}
    BY <1>8 DEF Once
  <2> QED
    BY <1>5, <1>6, <2>1
<1>9. /\ \A w \in Places \ {c} : x \notin Held(At(w))
      /\ \A w \in Places : Held(At(w))' = Held(At(w)) \ {x}
  <2>1. \A w \in Places \ {c} : x \notin Held(At(w))
    BY <1>1, <1>4 DEF Once
  <2> QED
    BY <1>5, <1>6, <2>1
<1>10. Made' = Made /\ x \in Made /\ consumed' = consumed \cup {x}
  BY <1>1, <1>2, <1>4 DEF Made, Once
<1>11. ASSUME NEW y
       PROVE  (\E w \in Places : y \in Held(At(w))') <=> y \in Made' \ consumed'
  <2>1. (\E w \in Places : y \in Held(At(w))) <=> y \in Made \ consumed
    BY DEF Once
  <2>2. (\E w \in Places : y \in Held(At(w))') <=> (y # x /\ \E w \in Places : y \in Held(At(w)))
    BY <1>9
  <2> QED
    BY <1>10, <2>1, <2>2
<1>12. consumed' \subseteq Made'
  BY <1>10 DEF Once
<1> QED
  BY <1>7, <1>8, <1>11, <1>12 DEF Once

LEMMA OnceStep == IndInv /\ Once /\ [Next]_vars => Once'
<1> SUFFICES ASSUME IndInv, Once, [Next]_vars
             PROVE  Once'
  OBVIOUS
<1>1. ASSUME NEW p \in Producers, EnqMove(p)
      PROVE  Once'
  <2>1. /\ p \in Places /\ NoOne \in Places \ {p}
        /\ At(p) = send_buf[p] /\ At(NoOne) = buf
        /\ At(p)' = ringbuffer_remove(At(p))
        /\ At(NoOne)' = ringbuffer_insert(At(NoOne), Oldest(At(p)))
        /\ \A w \in Places \ {p, NoOne} : At(w)' = At(w)
    BY <1>1 DEF EnqMove, Places, At, IndInv, TypeOK
  <2>2. ~ringbuffer_isEmpty(At(p)) /\ ~ringbuffer_isFull(At(NoOne)) /\ UNCHANGED <<made, consumed>>
    BY <1>1, <2>1 DEF EnqMove
  <2> QED
    BY <2>1, <2>2, MoveOnce
<1>2. ASSUME NEW c \in Consumers, DeqMove(c)
      PROVE  Once'
  <2>1. /\ NoOne \in Places /\ c \in Places \ {NoOne}
        /\ At(c) = recv_buf[c] /\ At(NoOne) = buf
        /\ At(NoOne)' = ringbuffer_remove(At(NoOne))
        /\ At(c)' = ringbuffer_insert(At(c), Oldest(At(NoOne)))
        /\ \A w \in Places \ {NoOne, c} : At(w)' = At(w)
    BY <1>2 DEF DeqMove, Places, At, IndInv, TypeOK
  <2>2. ~ringbuffer_isEmpty(At(NoOne)) /\ ~ringbuffer_isFull(At(c)) /\ UNCHANGED <<made, consumed>>
    BY <1>2, <2>1 DEF DeqMove
  <2> QED
    BY <2>1, <2>2, MoveOnce
<1>3. ASSUME UNCHANGED <<buf, send_buf, recv_buf, made, consumed>>
      PROVE  Once'
  <2>1. \A t : At(t)' = At(t)
    BY <1>3 DEF At
  <2> QED
    BY <1>3, <2>1 DEF Once, Made
<1> QED
  BY <1>1, <1>2, <1>3, ProduceOnce, ConsumeOnce
     DEF Next, Producer, Consumer, EnqLock, EnqWait, EnqDone, Terminate, DeqLock, DeqWait,
         DeqEnd, DeqDone, SpuriousWakeup, Joined, vars

(* No item is lost, duplicated or overwritten between queue_enqueue and    *)
(* queue_dequeue, for any number of threads and any size of the buffers.   *)
THEOREM ExactlyOnceHolds == Spec => []ExactlyOnce
<1>1. Once /\ IndInv => ExactlyOnce
  BY OnceMeansExactlyOnce
<1> QED
  BY <1>1, OnceInit, OnceStep, IndInvHolds, PTL DEF Spec

===============================================================================
