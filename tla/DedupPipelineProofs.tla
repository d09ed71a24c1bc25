--------------------------- MODULE DedupPipelineProofs ---------------------------
(***************************************************************************)
(* The pipeline of dedup for every input, every number of threads, every   *)
(* size of a group of threads, of a queue and of a buffer.                 *)
(*                                                                         *)
(* The first part is about how the stages end: nobody enqueues into a      *)
(* terminated queue, a stage's threads end only when those before them in  *)
(* their group have, and Reorder begins its final flush only when every    *)
(* other thread has ended and every queue is empty.                        *)
(*                                                                         *)
(* The second part, from "Where each chunk is" on, follows the chunks: each*)
(* is in exactly one buffer, queue or store at any time, Reorder writes    *)
(* them in input order and all of them, and the archive is the one that the*)
(* build without threads writes (SerialDedup).                             *)
(***************************************************************************)
EXTENDS DedupPipeline, FiniteSetTheorems, SequenceTheorems, TLAPS

(* The threads that share the queues of number q.                          *)
Group(q) == {t \in Threads : qid(t) = q}

Chunk == Nat \X Nat

QueueOf(S) == [items : Seq(S), nTerminated : Nat, nProducers : Nat]

(* What the threads of a stage keep to themselves.                         *)
Refiners ==
    [Threads -> [recv : Seq(Nat), chcount : Nat, send : Seq(Chunk),
                 ended : BOOLEAN, done : BOOLEAN]]

Dedupers ==
    [Threads -> [recv : Seq(Chunk), compress : Seq(Chunk), reorder : Seq(Chunk),
                 ended : BOOLEAN, done : BOOLEAN]]

Compressors ==
    [Threads -> [recv : Seq(Chunk), send : Seq(Chunk), ended : BOOLEAN, done : BOOLEAN]]

(* Fragment, and the queues that lead to FragmentRefine.                   *)
FragmentOK ==
    /\ fragment \in [anchorcount : Nat, qid : Queues, terminated : 0 .. nqueues]
    /\ refine_que \in [Queues -> QueueOf(Nat)]
    /\ fragment.terminated # 0 => fragment.anchorcount = Len(input)
    /\ \A q \in Queues :
          /\ refine_que[q].nProducers = 1
          /\ refine_que[q].nTerminated = IF q < fragment.terminated THEN 1 ELSE 0

(* A stage: a thread that was told the end has nothing left to do and      *)
(* nothing left before it, and one that returned has sent all it had.      *)
RefDone(q) == {t \in Group(q) : refiner[t].done}

RefineOK ==
    /\ refiner \in Refiners
    /\ deduplicate_que \in [Queues -> QueueOf(Chunk)]
    /\ \A q \in Queues : /\ deduplicate_que[q].nProducers = threads_per_queue(q)
                         /\ deduplicate_que[q].nTerminated = Cardinality(RefDone(q))
    /\ \A t \in Threads :
          /\ refiner[t].ended => refiner[t].recv = <<>> /\ AtEnd(refine_que[qid(t)])
          /\ refiner[t].done => refiner[t].ended /\ refiner[t].send = <<>>

DedDone(q) == {t \in Group(q) : deduper[t].done}

DedupOK ==
    /\ deduper \in Dedupers
    /\ compress_que \in [Queues -> QueueOf(Chunk)]
    /\ \A q \in Queues : /\ compress_que[q].nProducers = threads_per_queue(q)
                         /\ compress_que[q].nTerminated = Cardinality(DedDone(q))
    /\ \A t \in Threads :
          /\ deduper[t].ended => deduper[t].recv = <<>> /\ AtEnd(deduplicate_que[qid(t)])
          /\ deduper[t].done => /\ deduper[t].ended
                                /\ deduper[t].compress = <<>> /\ deduper[t].reorder = <<>>

ComDone(q) == {t \in Group(q) : compressor[t].done}

CompressOK ==
    /\ compressor \in Compressors
    /\ reorder_que \in [Queues -> QueueOf(Chunk)]
    /\ \A q \in Queues : /\ reorder_que[q].nProducers = threads_per_queue(q)
                         /\ reorder_que[q].nTerminated = Cardinality(ComDone(q))
    /\ \A t \in Threads :
          /\ compressor[t].ended => compressor[t].recv = <<>> /\ AtEnd(compress_que[qid(t)])
          /\ compressor[t].done => compressor[t].ended /\ compressor[t].send = <<>>

(* The queues that Reorder has found at their end since it last got a      *)
(* batch: the tries queues before the one it looks at next.                *)
Visited ==
    {q \in Queues : IF q < reorder.qid THEN reorder.qid - q <= reorder.tries
                    ELSE reorder.qid + nqueues - q <= reorder.tries}

Ending == {"flush", "done", "mismatch"}

Reorders ==
    [phase : {"run", "overrun"} \cup Ending, qid : Queues, tries : 0 .. nqueues,
     recv : Seq(Chunk), held : SUBSET Chunk, chunk : Chunk \cup {None}, next : Chunk]

ReorderOK ==
    /\ reorder \in Reorders
    /\ reorder.phase = "run" => reorder.tries < nqueues
    /\ reorder.phase \in Ending => reorder.tries = nqueues
    /\ \A q \in Visited : AtEnd(reorder_que[q])

PipelineInv == FragmentOK /\ RefineOK /\ DedupOK /\ CompressOK /\ ReorderOK

LEMMA Division ==
    ASSUME NEW a \in Nat, NEW m \in Nat \ {0}
    PROVE  /\ a \div m \in Nat /\ a % m \in 0 .. m - 1
           /\ a = m * (a \div m) + (a % m)
<1>1. a \div m \in Int
  OBVIOUS
<1>2. a % m \in 0 .. m - 1
  OBVIOUS
<1>3. a = m * (a \div m) + (a % m)
  OBVIOUS
<1>4. a \div m >= 0
  OBVIOUS
<1> QED
  BY <1>1, <1>2, <1>3, <1>4

LEMMA Multiple ==
    ASSUME NEW m \in Nat \ {0}, NEW a \in Nat, NEW b \in Nat, a < b
    PROVE  m * a + m <= m * b
<1>1. PICK k \in Nat : b = a + 1 + k
  <2>1. b - a - 1 \in Nat /\ b = a + 1 + (b - a - 1)
    OBVIOUS
  <2> QED
    BY <2>1
<1>2. m * b = m * a + m + m * k
  BY <1>1
<1>3. m * k >= 0
  OBVIOUS
<1>4. m * a \in Nat /\ m * b \in Nat /\ m * k \in Nat
  OBVIOUS
<1> QED
  BY <1>2, <1>3, <1>4

LEMMA Quotient ==
    ASSUME NEW a \in Nat, NEW m \in Nat \ {0}, NEW q \in Nat
    PROVE  a \div m = q <=> m * q <= a /\ a < m * q + m
<1>1. PICK d \in Nat : d = a \div m
  BY Division
<1>2. PICK r \in 0 .. m - 1 : r = a % m
  BY Division
<1>3. a = m * d + r
  BY <1>1, <1>2, Division
<1>4. m * d \in Nat /\ m * q \in Nat
  OBVIOUS
<1>5. CASE q < d
  <2>1. m * q + m <= m * d
    BY <1>5, Multiple
  <2> QED
    BY <1>1, <1>3, <1>4, <1>5, <2>1
<1>6. CASE d < q
  <2>1. m * d + m <= m * q
    BY <1>6, Multiple
  <2> QED
    BY <1>1, <1>3, <1>4, <1>6, <2>1
<1>7. CASE d = q
  BY <1>1, <1>3, <1>4, <1>7
<1> QED
  BY <1>5, <1>6, <1>7
LEMMA PositiveConstants ==
    /\ NThreads \in Nat \ {0} /\ MAX_THREADS_PER_QUEUE \in Nat \ {0}
    /\ QUEUE_SIZE \in Nat \ {0} /\ MAX_PER_FETCH \in Nat \ {0}
    /\ CHUNK_ANCHOR \in Nat \ {0} /\ ITEM \in Nat \ {0}
BY PipelineAssumption

(* threads_per_queue is the size of a group, and every thread is in one.   *)
LEMMA GroupSize ==
    /\ nqueues \in Nat \ {0}
    /\ \A t \in Threads : qid(t) \in Queues
    /\ \A q \in Queues : /\ IsFiniteSet(Group(q))
                         /\ Cardinality(Group(q)) = threads_per_queue(q)
                         /\ threads_per_queue(q) \in Nat \ {0}
<1>1. PICK m \in Nat \ {0} : m = MAX_THREADS_PER_QUEUE
  BY PositiveConstants
<1>2. PICK n \in Nat \ {0} : n = NThreads
  BY PositiveConstants
<1>3. PICK d \in Nat : d = n \div m
  BY Division
<1>4. PICK r \in 0 .. m - 1 : r = n % m
  BY Division
<1>5. n = m * d + r /\ m * d \in Nat
  <2>1. n = m * (n \div m) + (n % m)
    BY Division
  <2>2. m * d \in Nat
    OBVIOUS
  <2> QED
    BY <1>3, <1>4, <2>1, <2>2
<1>6. nqueues = IF r = 0 THEN d ELSE d + 1
  BY <1>1, <1>2, <1>3, <1>4 DEF nqueues
<1>7. nqueues \in Nat \ {0}
  <2>1. d = 0 => m * d = 0
    OBVIOUS
  <2> QED
    BY <1>5, <1>6, <2>1
<1>8. \A q \in Queues : q \in Nat /\ q <= d /\ (q = d => r # 0)
  BY <1>6, <1>7 DEF Queues
<1>9. \A t \in Threads : t \in Nat /\ t < n
  BY <1>2 DEF Threads
<1>10. ASSUME NEW t \in Threads
       PROVE  qid(t) \in Queues
  <2>1. PICK x \in Nat : x = t \div m
    BY <1>9, Division
  <2>2. m * x <= t /\ m * x \in Nat
    BY <1>9, <2>1, Quotient
  <2>3. ~(d < x)
    <3>1. d < x => m * d + m <= m * x
      BY Multiple
    <3> QED
      BY <1>5, <1>9, <2>2, <3>1
  <2>4. r = 0 => x # d
    BY <1>5, <1>9, <2>2
  <2> QED
    BY <1>1, <1>6, <2>1, <2>3, <2>4 DEF qid, Queues
<1>11. ASSUME NEW q \in Queues
       PROVE  /\ IsFiniteSet(Group(q))
              /\ Cardinality(Group(q)) = threads_per_queue(q)
              /\ threads_per_queue(q) \in Nat \ {0}
  <2>1. q \in Nat /\ q <= d /\ (q = d => r # 0)
    BY <1>8
  <2>2. m * q \in Nat
    BY <2>1
  <2>3. \A t \in Threads : t \in Group(q) <=> m * q <= t /\ t < m * q + m
    BY <1>1, <1>9, <2>1, Quotient DEF Group, qid
  <2>4. threads_per_queue(q) = IF q < d THEN m ELSE r
    BY <1>1, <1>2, <1>4, <1>6, <2>1 DEF threads_per_queue
  <2> DEFINE c == m * q
             k == IF q < d THEN m ELSE r
  <2>5. c \in Nat /\ k \in Nat \ {0} /\ k <= m
    BY <2>1, <2>2
  <2>6. c + k <= n /\ (q = d => n = c + r)
    <3>1. q < d => m * q + m <= m * d
      BY <2>1, Multiple
    <3> QED
      BY <1>5, <2>1, <2>2, <3>1
  <2>7. \A t \in Threads : t \in Group(q) <=> c <= t /\ t < c + k
    BY <1>9, <2>1, <2>3, <2>5, <2>6
  <2> HIDE DEF c
  <2>8. Group(q) = c .. c + k - 1
    <3>1. \A t \in c .. c + k - 1 : t \in Threads
      BY <1>2, <2>5, <2>6 DEF Threads
    <3>2. \A t \in Group(q) : t \in Threads /\ t \in Nat
      BY <1>9 DEF Group
    <3>3. ASSUME NEW t \in Group(q)
          PROVE  t \in c .. c + k - 1
      BY <2>5, <2>7, <3>2
    <3>4. ASSUME NEW t \in c .. c + k - 1
          PROVE  t \in Group(q)
      BY <2>5, <2>7, <3>1
    <3> QED
      BY <3>3, <3>4
  <2>9. IsFiniteSet(c .. c + k - 1) /\ Cardinality(c .. c + k - 1) = k
    <3> HIDE DEF k
    <3> PICK z \in Int : z = c + k - 1
      BY <2>5
    <3> PICK y \in Int : y = c
      BY <2>5
    <3>1. IsFiniteSet(y .. z) /\ Cardinality(y .. z) = IF y > z THEN 0 ELSE z - y + 1
      BY FS_Interval
    <3> QED
      BY <2>5, <3>1
  <2> QED
    BY <2>4, <2>5, <2>8, <2>9
<1> QED
  BY <1>7, <1>10, <1>11

(* Counting the threads of a group that have returned.                     *)
LEMMA DoneCount ==
    ASSUME NEW q \in Queues, NEW D \in SUBSET Group(q)
    PROVE  /\ Cardinality(D) \in Nat /\ Cardinality(D) <= threads_per_queue(q)
           /\ Cardinality(D) = threads_per_queue(q) => D = Group(q)
           /\ \A t \in Group(q) \ D : Cardinality(D \cup {t}) = Cardinality(D) + 1
<1>1. IsFiniteSet(Group(q)) /\ Cardinality(Group(q)) = threads_per_queue(q)
  BY GroupSize
<1>2. IsFiniteSet(D)
  BY <1>1, FS_Subset
<1>3. Cardinality(D) \in Nat /\ Cardinality(D) <= threads_per_queue(q)
  BY <1>1, <1>2, FS_CardinalityType, FS_Subset
<1>4. Cardinality(D) = threads_per_queue(q) => D = Group(q)
  BY <1>1, FS_Subset
<1>5. \A t \in Group(q) \ D : Cardinality(D \cup {t}) = Cardinality(D) + 1
  BY <1>2, FS_AddElement
<1> QED
  BY <1>3, <1>4, <1>5

-------------------------------------------------------------------------------
(* The operations of a queue.                                              *)

LEMMA DequeueType ==
    ASSUME NEW S, NEW que \in QueueOf(S), NEW limit \in Nat \ {0}
    PROVE  /\ Dequeued(que, limit) \in QueueOf(S)
           /\ Dequeued(que, limit).nTerminated = que.nTerminated
           /\ Dequeued(que, limit).nProducers = que.nProducers
           /\ Batch(que, limit) \in Seq(S)
<1>1. que.items \in Seq(S) /\ que.nTerminated \in Nat /\ que.nProducers \in Nat
  BY DEF QueueOf
<1>2. PICK s \in Seq(S) : s = que.items
  BY <1>1
<1>3. PICK k \in 0 .. Len(s) : k = Lesser(limit, Len(s))
  BY DEF Lesser
<1>4. SubSeq(s, 1, k) \in Seq(S) /\ SubSeq(s, k + 1, Len(s)) \in Seq(S)
  OBVIOUS
<1>5. Dequeued(que, limit) = [que EXCEPT !.items = SubSeq(s, k + 1, Len(s))]
  BY <1>2, <1>3 DEF Dequeued, QueueOf
<1> QED
  BY <1>2, <1>3, <1>4, <1>5 DEF QueueOf, Batch

LEMMA EnqueueType ==
    ASSUME NEW S, NEW que \in QueueOf(S), NEW buf \in Seq(S), HasRoom(que)
    PROVE  /\ Enqueued(que, buf) \in QueueOf(S)
           /\ Enqueued(que, buf).nTerminated = que.nTerminated
           /\ Enqueued(que, buf).nProducers = que.nProducers
           /\ Unsent(que, buf) \in Seq(S)
<1>1. que.items \in Seq(S) /\ que.nTerminated \in Nat /\ que.nProducers \in Nat
  BY DEF QueueOf
<1>2. PICK s \in Seq(S) : s = que.items
  BY <1>1
<1>3. PICK k \in 0 .. Len(buf) : k = Moved(que, buf)
  BY <1>2, PositiveConstants DEF Lesser, Moved, HasRoom
<1>4. SubSeq(buf, 1, k) \in Seq(S) /\ SubSeq(buf, k + 1, Len(buf)) \in Seq(S)
  OBVIOUS
<1>5. s \o SubSeq(buf, 1, k) \in Seq(S)
  BY <1>4
<1>6. Enqueued(que, buf) = [que EXCEPT !.items = s \o SubSeq(buf, 1, k)]
  BY <1>2, <1>3 DEF Enqueued, QueueOf
<1> QED
  BY <1>3, <1>4, <1>5, <1>6 DEF QueueOf, Unsent

LEMMA TerminateType ==
    ASSUME NEW S, NEW que \in QueueOf(S)
    PROVE  /\ queue_terminate(que) \in QueueOf(S)
           /\ queue_terminate(que).nTerminated = que.nTerminated + 1
           /\ queue_terminate(que).nProducers = que.nProducers
BY DEF QueueOf, queue_terminate

(* A call leaves the types and the counts of the queues alone, and a queue *)
(* that is at its end stays there.                                         *)
SameCounts(S, f, g) ==
    /\ g \in [Queues -> QueueOf(S)]
    /\ \A q \in Queues : /\ g[q].nTerminated = f[q].nTerminated
                         /\ g[q].nProducers = f[q].nProducers

(* A producer has terminated queue q. *)
OneMore(S, f, g, q) ==
    /\ g \in [Queues -> QueueOf(S)]
    /\ \A p \in Queues :
          /\ g[p].nTerminated = IF p = q THEN f[q].nTerminated + 1 ELSE f[p].nTerminated
          /\ g[p].nProducers = f[p].nProducers

EndsStay(f, g) == \A q \in Queues : AtEnd(f[q]) => AtEnd(g[q])

LEMMA DequeueKeeps ==
    ASSUME NEW S, NEW f \in [Queues -> QueueOf(S)], NEW q \in Queues, NEW limit \in Nat \ {0},
           f[q].items # <<>>, NEW g, g = [f EXCEPT ![q] = Dequeued(f[q], limit)]
    PROVE  SameCounts(S, f, g) /\ EndsStay(f, g)
<1>1. /\ Dequeued(f[q], limit) \in QueueOf(S)
      /\ Dequeued(f[q], limit).nTerminated = f[q].nTerminated
      /\ Dequeued(f[q], limit).nProducers = f[q].nProducers
  BY DequeueType
<1>2. ~AtEnd(f[q])
  BY DEF AtEnd
<1> QED
  BY <1>1, <1>2 DEF SameCounts, EndsStay

LEMMA EnqueueKeeps ==
    ASSUME NEW S, NEW f \in [Queues -> QueueOf(S)], NEW q \in Queues, NEW buf \in Seq(S),
           HasRoom(f[q]), ~queue_isTerminated(f[q]),
           NEW g, g = [f EXCEPT ![q] = Enqueued(f[q], buf)]
    PROVE  SameCounts(S, f, g) /\ EndsStay(f, g)
<1>1. /\ Enqueued(f[q], buf) \in QueueOf(S)
      /\ Enqueued(f[q], buf).nTerminated = f[q].nTerminated
      /\ Enqueued(f[q], buf).nProducers = f[q].nProducers
  BY EnqueueType
<1>2. ~AtEnd(f[q])
  BY DEF AtEnd
<1> QED
  BY <1>1, <1>2 DEF SameCounts, EndsStay

LEMMA TerminateKeeps ==
    ASSUME NEW S, NEW f \in [Queues -> QueueOf(S)], NEW q \in Queues,
           ~queue_isTerminated(f[q]),
           NEW g, g = [f EXCEPT ![q] = queue_terminate(f[q])]
    PROVE  OneMore(S, f, g, q) /\ EndsStay(f, g)
<1>1. /\ queue_terminate(f[q]) \in QueueOf(S)
      /\ queue_terminate(f[q]).nTerminated = f[q].nTerminated + 1
      /\ queue_terminate(f[q]).nProducers = f[q].nProducers
  BY TerminateType
<1>2. ~AtEnd(f[q])
  BY DEF AtEnd
<1> QED
  BY <1>1, <1>2 DEF EndsStay, OneMore

LEMMA KeptSame ==
    ASSUME NEW S, NEW f \in [Queues -> QueueOf(S)]
    PROVE  SameCounts(S, f, f) /\ EndsStay(f, f)
BY DEF SameCounts, EndsStay

-------------------------------------------------------------------------------
(* A part of the invariant survives what the other stages do.              *)

LEMMA FragmentFrame ==
    ASSUME FragmentOK, fragment' = fragment, input' = input,
           SameCounts(Nat, refine_que, refine_que')
    PROVE  FragmentOK'
BY DEF FragmentOK, SameCounts

LEMMA RefineFrame ==
    ASSUME RefineOK, refiner' = refiner, SameCounts(Chunk, deduplicate_que, deduplicate_que'),
           EndsStay(refine_que, refine_que')
    PROVE  RefineOK'
<1>1. \A q \in Queues : RefDone(q)' = RefDone(q)
  BY DEF RefDone
<1>2. \A t \in Threads : AtEnd(refine_que[qid(t)]) => AtEnd(refine_que'[qid(t)])
  BY GroupSize DEF EndsStay
<1>3. (\A q \in Queues : /\ deduplicate_que[q].nProducers = threads_per_queue(q)
                         /\ deduplicate_que[q].nTerminated = Cardinality(RefDone(q)))'
  BY <1>1 DEF RefineOK, SameCounts
<1>4. deduplicate_que' \in [Queues -> QueueOf(Chunk)]
  BY DEF SameCounts
<1>5. (\A t \in Threads :
          /\ refiner[t].ended => refiner[t].recv = <<>> /\ AtEnd(refine_que[qid(t)])
          /\ refiner[t].done => refiner[t].ended /\ refiner[t].send = <<>>)'
  BY <1>2 DEF RefineOK
<1> QED
  BY <1>3, <1>4, <1>5 DEF RefineOK

LEMMA DedupFrame ==
    ASSUME DedupOK, deduper' = deduper, SameCounts(Chunk, compress_que, compress_que'),
           EndsStay(deduplicate_que, deduplicate_que')
    PROVE  DedupOK'
<1>1. \A q \in Queues : DedDone(q)' = DedDone(q)
  BY DEF DedDone
<1>2. \A t \in Threads : AtEnd(deduplicate_que[qid(t)]) => AtEnd(deduplicate_que'[qid(t)])
  BY GroupSize DEF EndsStay
<1>3. (\A q \in Queues : /\ compress_que[q].nProducers = threads_per_queue(q)
                         /\ compress_que[q].nTerminated = Cardinality(DedDone(q)))'
  BY <1>1 DEF DedupOK, SameCounts
<1>4. compress_que' \in [Queues -> QueueOf(Chunk)]
  BY DEF SameCounts
<1>5. (\A t \in Threads :
          /\ deduper[t].ended => deduper[t].recv = <<>> /\ AtEnd(deduplicate_que[qid(t)])
          /\ deduper[t].done => /\ deduper[t].ended
                                /\ deduper[t].compress = <<>> /\ deduper[t].reorder = <<>>)'
  BY <1>2 DEF DedupOK
<1> QED
  BY <1>3, <1>4, <1>5 DEF DedupOK

LEMMA CompressFrame ==
    ASSUME CompressOK, compressor' = compressor, SameCounts(Chunk, reorder_que, reorder_que'),
           EndsStay(compress_que, compress_que')
    PROVE  CompressOK'
<1>1. \A q \in Queues : ComDone(q)' = ComDone(q)
  BY DEF ComDone
<1>2. \A t \in Threads : AtEnd(compress_que[qid(t)]) => AtEnd(compress_que'[qid(t)])
  BY GroupSize DEF EndsStay
<1>3. (\A q \in Queues : /\ reorder_que[q].nProducers = threads_per_queue(q)
                         /\ reorder_que[q].nTerminated = Cardinality(ComDone(q)))'
  BY <1>1 DEF CompressOK, SameCounts
<1>4. reorder_que' \in [Queues -> QueueOf(Chunk)]
  BY DEF SameCounts
<1>5. (\A t \in Threads :
          /\ compressor[t].ended => compressor[t].recv = <<>> /\ AtEnd(compress_que[qid(t)])
          /\ compressor[t].done => compressor[t].ended /\ compressor[t].send = <<>>)'
  BY <1>2 DEF CompressOK
<1> QED
  BY <1>3, <1>4, <1>5 DEF CompressOK

LEMMA ReorderFrame ==
    ASSUME ReorderOK, reorder' = reorder, EndsStay(reorder_que, reorder_que')
    PROVE  ReorderOK'
<1>1. Visited' = Visited /\ Visited \subseteq Queues
  BY DEF Visited
<1> QED
  BY <1>1 DEF ReorderOK, EndsStay

-------------------------------------------------------------------------------
(* What the counts mean: a queue is not terminated while a thread of the   *)
(* stage before it is still at work, and reorder_que not even while a      *)
(* Deduplicate thread is.                                                  *)
LEMMA NotTerminated ==
    ASSUME RefineOK, DedupOK, CompressOK, NEW t \in Threads
    PROVE  /\ ~refiner[t].done => ~queue_isTerminated(deduplicate_que[qid(t)])
           /\ ~deduper[t].done => ~queue_isTerminated(compress_que[qid(t)])
           /\ ~compressor[t].done => ~queue_isTerminated(reorder_que[qid(t)])
           /\ ~deduper[t].done => ~queue_isTerminated(reorder_que[qid(t)])
<1>1. PICK q \in Queues : q = qid(t)
  BY GroupSize
<1>2. t \in Group(q)
  BY <1>1 DEF Group
<1>3. /\ RefDone(q) \in SUBSET Group(q) /\ DedDone(q) \in SUBSET Group(q)
      /\ ComDone(q) \in SUBSET Group(q)
  BY DEF RefDone, DedDone, ComDone
<1>4. ~refiner[t].done => ~queue_isTerminated(deduplicate_que[q])
  <2>1. queue_isTerminated(deduplicate_que[q]) => RefDone(q) = Group(q)
    BY <1>3, DoneCount DEF queue_isTerminated, RefineOK
  <2> QED
    BY <1>2, <2>1 DEF RefDone
<1>5. ~deduper[t].done => ~queue_isTerminated(compress_que[q])
  <2>1. queue_isTerminated(compress_que[q]) => DedDone(q) = Group(q)
    BY <1>3, DoneCount DEF queue_isTerminated, DedupOK
  <2> QED
    BY <1>2, <2>1 DEF DedDone
<1>6. ~compressor[t].done => ~queue_isTerminated(reorder_que[q])
  <2>1. queue_isTerminated(reorder_que[q]) => ComDone(q) = Group(q)
    BY <1>3, DoneCount DEF queue_isTerminated, CompressOK
  <2> QED
    BY <1>2, <2>1 DEF ComDone
<1>7. compressor[t].done => queue_isTerminated(compress_que[q])
  BY <1>1 DEF CompressOK, AtEnd
<1> QED
  BY <1>1, <1>4, <1>5, <1>6, <1>7

(* When every reorder queue is at its end, everything before it is over.   *)
AllEnded ==
    /\ fragment.terminated = nqueues
    /\ \A t \in Threads : refiner[t].done /\ deduper[t].done /\ compressor[t].done
    /\ \A q \in Queues : /\ refine_que[q].items = <<>> /\ deduplicate_que[q].items = <<>>
                         /\ compress_que[q].items = <<>> /\ reorder_que[q].items = <<>>

LEMMA EndsCascade ==
    ASSUME FragmentOK, RefineOK, DedupOK, CompressOK, \A q \in Queues : AtEnd(reorder_que[q])
    PROVE  AllEnded
<1>1. \A t \in Threads : qid(t) \in Queues /\ t \in Group(qid(t))
  BY GroupSize DEF Group
<1>2. \A q \in Queues : \E t \in Threads : qid(t) = q
  <2>1. \A q \in Queues : Group(q) # {}
    BY GroupSize, FS_EmptySet
  <2> QED
    BY <2>1 DEF Group
<1>3. \A t \in Threads : compressor[t].done
  BY <1>1, NotTerminated DEF AtEnd
<1>4. \A q \in Queues : AtEnd(compress_que[q])
  BY <1>2, <1>3 DEF CompressOK
<1>5. \A t \in Threads : deduper[t].done
  BY <1>1, <1>4, NotTerminated DEF AtEnd
<1>6. \A q \in Queues : AtEnd(deduplicate_que[q])
  BY <1>2, <1>5 DEF DedupOK
<1>7. \A t \in Threads : refiner[t].done
  BY <1>1, <1>6, NotTerminated DEF AtEnd
<1>8. \A q \in Queues : AtEnd(refine_que[q])
  BY <1>2, <1>7 DEF RefineOK
<1>9. fragment.terminated = nqueues
  <2>1. nqueues - 1 \in Queues /\ fragment.terminated \in 0 .. nqueues /\ nqueues \in Nat
    BY GroupSize DEF Queues, FragmentOK
  <2>2. nqueues - 1 < fragment.terminated
    BY <1>8, <2>1 DEF FragmentOK, AtEnd, queue_isTerminated
  <2> QED
    BY <2>1, <2>2
<1> QED
  BY <1>3, <1>4, <1>5, <1>6, <1>7, <1>8, <1>9 DEF AllEnded, AtEnd

LEMMA InitOK ==
    Init => PipelineInv
<1> SUFFICES ASSUME Init
             PROVE  PipelineInv
  OBVIOUS
<1>1. /\ nqueues \in Nat \ {0} /\ 0 \in Queues
      /\ \A q \in Queues : threads_per_queue(q) \in Nat \ {0}
  BY GroupSize DEF Queues
<1>2. \A S : \A n \in Nat : EmptyQueue(n) \in QueueOf(S)
  BY DEF EmptyQueue, QueueOf
<1>3. FragmentOK
  BY <1>1, <1>2 DEF Init, FragmentOK, EmptyQueue, Queues
<1>4. RefineOK
  <2>1. \A q \in Queues : RefDone(q) = {}
    BY DEF Init, RefDone, Group
  <2>2. deduplicate_que \in [Queues -> QueueOf(Chunk)]
    BY <1>1, <1>2 DEF Init
  <2>3. refiner \in Refiners
    BY DEF Init, Refiners
  <2> QED
    BY <2>1, <2>2, <2>3, FS_EmptySet DEF Init, RefineOK, EmptyQueue
<1>5. DedupOK
  <2>1. \A q \in Queues : DedDone(q) = {}
    BY DEF Init, DedDone, Group
  <2>2. compress_que \in [Queues -> QueueOf(Chunk)]
    BY <1>1, <1>2 DEF Init
  <2>3. deduper \in Dedupers
    BY DEF Init, Dedupers
  <2> QED
    BY <2>1, <2>2, <2>3, FS_EmptySet DEF Init, DedupOK, EmptyQueue
<1>6. CompressOK
  <2>1. \A q \in Queues : ComDone(q) = {}
    BY DEF Init, ComDone, Group
  <2>2. reorder_que \in [Queues -> QueueOf(Chunk)]
    BY <1>1, <1>2 DEF Init
  <2>3. compressor \in Compressors
    BY DEF Init, Compressors
  <2> QED
    BY <2>1, <2>2, <2>3, FS_EmptySet DEF Init, CompressOK, EmptyQueue
<1>7. ReorderOK
  <2>1. Visited = {}
    BY <1>1 DEF Visited, Init, Queues
  <2> QED
    BY <1>1, <2>1 DEF Init, ReorderOK, Reorders, Chunk, Ending
<1> QED
  BY <1>3, <1>4, <1>5, <1>6, <1>7 DEF PipelineInv

-------------------------------------------------------------------------------
(* The steps of Fragment and FragmentRefine.                               *)

LEMMA FragmentSendOK ==
    ASSUME PipelineInv, FragmentSend
    PROVE  PipelineInv'
<1> USE DEF PipelineInv
<1> DEFINE q == fragment.qid
<1>1. /\ fragment.anchorcount < Len(input) /\ HasRoom(refine_que[q])
      /\ refine_que' = [refine_que EXCEPT ![q] = Enqueued(refine_que[q], <<fragment.anchorcount>>)]
      /\ fragment' = [fragment EXCEPT !.anchorcount = @ + 1, !.qid = (@ + 1) % nqueues]
      /\ UNCHANGED <<input, deduplicate_que, compress_que, reorder_que, refiner, deduper,
                     compressor, reorder>>
  BY DEF FragmentSend
<1>2. /\ fragment.anchorcount \in Nat /\ fragment.qid \in Queues
      /\ fragment.terminated \in 0 .. nqueues
  BY DEF FragmentOK
<1>3. fragment.terminated = 0
  BY <1>1, <1>2 DEF FragmentOK
<1>4. SameCounts(Nat, refine_que, refine_que') /\ EndsStay(refine_que, refine_que')
  <2>1. ~queue_isTerminated(refine_que[q])
    BY <1>2, <1>3 DEF FragmentOK, queue_isTerminated, Queues
  <2>2. <<fragment.anchorcount>> \in Seq(Nat)
    BY <1>2
  <2> QED
    BY <1>1, <1>2, <2>1, <2>2, EnqueueKeeps DEF FragmentOK
<1>5. FragmentOK'
  <2>1. PICK k \in Queues : k = (fragment.qid + 1) % nqueues
    <3>1. PICK n \in Nat \ {0} : n = nqueues
      BY GroupSize
    <3>2. (fragment.qid + 1) % nqueues \in Queues
      BY <1>2, <3>1 DEF Queues
    <3> QED
      BY <3>2, Zenon
  <2>2. /\ fragment' \in [anchorcount : Nat, qid : Queues, terminated : 0 .. nqueues]
        /\ fragment'.terminated = 0
    <3>1. PICK a \in Nat : a = fragment.anchorcount + 1
      BY <1>2
    <3>2. fragment' = [fragment EXCEPT !.anchorcount = a, !.qid = k]
      BY <1>1, <2>1, <3>1
    <3> QED
      BY <1>3, <3>2 DEF FragmentOK
  <2> QED
    BY <1>3, <1>4, <2>2 DEF FragmentOK, SameCounts
<1>6. RefineOK'
  BY <1>1, <1>4, RefineFrame, KeptSame DEF RefineOK, Refiners
<1>7. DedupOK' /\ CompressOK' /\ ReorderOK'
  BY <1>1, DedupFrame, CompressFrame, ReorderFrame, KeptSame
     DEF RefineOK, Refiners, DedupOK, CompressOK
<1> QED
  BY <1>5, <1>6, <1>7

LEMMA FragmentTerminateOK ==
    ASSUME PipelineInv, FragmentTerminate
    PROVE  PipelineInv'
<1> USE DEF PipelineInv
<1> DEFINE q == fragment.terminated
<1>1. /\ fragment.anchorcount = Len(input) /\ q < nqueues
      /\ refine_que' = [refine_que EXCEPT ![q] = queue_terminate(refine_que[q])]
      /\ fragment' = [fragment EXCEPT !.terminated = @ + 1]
      /\ UNCHANGED <<input, deduplicate_que, compress_que, reorder_que, refiner, deduper,
                     compressor, reorder>>
  BY DEF FragmentTerminate
<1>2. q \in Queues /\ q \in Nat /\ nqueues \in Nat
  BY <1>1, GroupSize DEF FragmentOK, Queues
<1>3. ~queue_isTerminated(refine_que[q])
  BY <1>2 DEF FragmentOK, queue_isTerminated
<1>4. OneMore(Nat, refine_que, refine_que', q) /\ EndsStay(refine_que, refine_que')
  BY <1>1, <1>2, <1>3, TerminateKeeps DEF FragmentOK
<1>5. FragmentOK'
  <2>1. /\ fragment' \in [anchorcount : Nat, qid : Queues, terminated : 0 .. nqueues]
        /\ fragment'.terminated = q + 1 /\ fragment'.anchorcount = fragment.anchorcount
    BY <1>1, <1>2 DEF FragmentOK
  <2>2. ASSUME NEW p \in Queues
        PROVE  /\ refine_que'[p].nProducers = 1
               /\ refine_que'[p].nTerminated = IF p < q + 1 THEN 1 ELSE 0
    <3>1. p \in Nat
      BY DEF Queues
    <3> QED
      BY <1>2, <1>4, <3>1 DEF FragmentOK, OneMore
  <2> QED
    BY <1>1, <1>4, <2>1, <2>2 DEF FragmentOK, OneMore
<1>6. RefineOK'
  BY <1>1, <1>4, RefineFrame, KeptSame DEF RefineOK, Refiners
<1>7. DedupOK' /\ CompressOK' /\ ReorderOK'
  BY <1>1, DedupFrame, CompressFrame, ReorderFrame, KeptSame
     DEF RefineOK, Refiners, DedupOK, CompressOK
<1> QED
  BY <1>5, <1>6, <1>7

(* The stages that FragmentRefine does not touch.                          *)
LEMMA RefineElse ==
    ASSUME PipelineInv, UNCHANGED refineUnchanged,
           SameCounts(Nat, refine_que, refine_que'), RefineOK',
           EndsStay(deduplicate_que, deduplicate_que')
    PROVE  PipelineInv'
<1> USE DEF PipelineInv, refineUnchanged
<1>1. FragmentOK'
  BY FragmentFrame
<1>2. DedupOK' /\ CompressOK' /\ ReorderOK'
  BY DedupFrame, CompressFrame, ReorderFrame, KeptSame DEF DedupOK, CompressOK
<1> QED
  BY <1>1, <1>2

(* A thread works on: it has not ended before and not after the step.      *)
LEMMA RefinerWorks ==
    ASSUME RefineOK, NEW t \in Threads,
           refiner' \in Refiners,
           \A u \in Threads : u # t => refiner'[u] = refiner[u],
           refiner'[t].done = refiner[t].done,
           refiner'[t].ended => refiner'[t].recv = <<>> /\ AtEnd(refine_que'[qid(t)]),
           refiner[t].done => refiner'[t].ended /\ refiner'[t].send = <<>>,
           SameCounts(Chunk, deduplicate_que, deduplicate_que'),
           EndsStay(refine_que, refine_que')
    PROVE  RefineOK'
<1>1. \A q \in Queues : RefDone(q)' = RefDone(q)
  BY DEF RefDone, Group
<1>2. \A u \in Threads : AtEnd(refine_que[qid(u)]) => AtEnd(refine_que'[qid(u)])
  BY GroupSize DEF EndsStay
<1>3. (\A q \in Queues : /\ deduplicate_que[q].nProducers = threads_per_queue(q)
                         /\ deduplicate_que[q].nTerminated = Cardinality(RefDone(q)))'
  BY <1>1 DEF RefineOK, Refiners, SameCounts
<1>4. deduplicate_que' \in [Queues -> QueueOf(Chunk)]
  BY DEF SameCounts
<1>5. (\A u \in Threads :
          /\ refiner[u].ended => refiner[u].recv = <<>> /\ AtEnd(refine_que[qid(u)])
          /\ refiner[u].done => refiner[u].ended /\ refiner[u].send = <<>>)'
  <2> SUFFICES ASSUME NEW u \in Threads
               PROVE  /\ refiner'[u].ended => refiner'[u].recv = <<>> /\ AtEnd(refine_que'[qid(u)])
                      /\ refiner'[u].done => refiner'[u].ended /\ refiner'[u].send = <<>>
    OBVIOUS
  <2>1. CASE u = t
    BY <2>1
  <2>2. CASE u # t
    BY <1>2, <2>2 DEF RefineOK, Refiners
  <2> QED
    BY <2>1, <2>2
<1> QED
  BY <1>3, <1>4, <1>5 DEF RefineOK, Refiners

LEMMA RefineFetchOK ==
    ASSUME PipelineInv, NEW t \in Threads, RefineFetch(t)
    PROVE  PipelineInv'
<1> USE DEF PipelineInv
<1>1. PICK q \in Queues : q = qid(t)
  BY GroupSize
<1>2. /\ refiner[t].recv = <<>> /\ ~refiner[t].ended /\ ~refiner[t].done
      /\ UNCHANGED <<deduplicate_que, refineUnchanged>>
  BY DEF RefineFetch, RefineOK
<1>3. SameCounts(Chunk, deduplicate_que, deduplicate_que')
  BY <1>2, KeptSame DEF RefineOK, Refiners
<1>4. CASE /\ refine_que[q].items # <<>>
           /\ refine_que' = [refine_que EXCEPT ![q] = Dequeued(refine_que[q], MAX_PER_FETCH)]
           /\ refiner' = [refiner EXCEPT ![t].recv = Batch(refine_que[q], MAX_PER_FETCH)]
  <2>1. SameCounts(Nat, refine_que, refine_que') /\ EndsStay(refine_que, refine_que')
    BY <1>4, DequeueKeeps, PositiveConstants DEF FragmentOK
  <2>2. Batch(refine_que[q], MAX_PER_FETCH) \in Seq(Nat)
    BY DequeueType, PositiveConstants DEF FragmentOK
  <2>3. /\ refiner' \in Refiners
        /\ \A u \in Threads : u # t => refiner'[u] = refiner[u]
        /\ refiner'[t].done = refiner[t].done /\ refiner'[t].ended = refiner[t].ended
    BY <1>4, <2>2 DEF RefineOK, Refiners
  <2>4. RefineOK'
    BY <1>2, <1>3, <2>1, <2>3, RefinerWorks
  <2> QED
    BY <1>2, <2>1, <2>4, RefineElse, KeptSame DEF RefineOK, Refiners
<1>5. CASE /\ AtEnd(refine_que[q])
           /\ refiner' = [refiner EXCEPT ![t].ended = TRUE]
           /\ UNCHANGED refine_que
  <2>1. SameCounts(Nat, refine_que, refine_que') /\ EndsStay(refine_que, refine_que')
    BY <1>5, KeptSame DEF FragmentOK
  <2>2. /\ refiner' \in Refiners
        /\ \A u \in Threads : u # t => refiner'[u] = refiner[u]
        /\ refiner'[t].done = refiner[t].done /\ refiner'[t].recv = refiner[t].recv
    BY <1>5 DEF RefineOK, Refiners
  <2>3. RefineOK'
    BY <1>1, <1>2, <1>3, <1>5, <2>1, <2>2, RefinerWorks
  <2> QED
    BY <1>2, <2>1, <2>3, RefineElse, KeptSame DEF RefineOK, Refiners
<1> QED
  BY <1>1, <1>4, <1>5 DEF RefineFetch

LEMMA RefineChunkOK ==
    ASSUME PipelineInv, NEW t \in Threads, RefineChunk(t)
    PROVE  PipelineInv'
<1> USE DEF PipelineInv
<1> DEFINE chunk == <<Head(refiner[t].recv), refiner[t].chcount>>
<1>1. /\ refiner[t].recv # <<>>
      /\ UNCHANGED <<refine_que, deduplicate_que, refineUnchanged>>
      /\ refiner' = [refiner EXCEPT
             ![t].send = Append(refiner[t].send, chunk),
             ![t].chcount = IF isLastL2Chunk(chunk) THEN 0 ELSE refiner[t].chcount + 1,
             ![t].recv = IF isLastL2Chunk(chunk) THEN Tail(refiner[t].recv) ELSE refiner[t].recv]
  BY DEF RefineChunk
<1>2. ~refiner[t].ended /\ ~refiner[t].done
  BY <1>1 DEF RefineOK, Refiners
<1>3. /\ refiner[t].recv \in Seq(Nat) /\ refiner[t].send \in Seq(Chunk)
      /\ refiner[t].chcount \in Nat
  BY DEF RefineOK, Refiners
<1>4. /\ chunk \in Chunk /\ Tail(refiner[t].recv) \in Seq(Nat)
  BY <1>1, <1>3 DEF Chunk
<1>5. Append(refiner[t].send, chunk) \in Seq(Chunk)
  BY <1>3, <1>4
<1>6. /\ refiner' \in Refiners
      /\ \A u \in Threads : u # t => refiner'[u] = refiner[u]
      /\ refiner'[t].done = refiner[t].done /\ refiner'[t].ended = refiner[t].ended
  <2> HIDE DEF chunk
  <2>1. PICK n \in Nat : n = IF isLastL2Chunk(chunk) THEN 0 ELSE refiner[t].chcount + 1
    BY <1>3
  <2>2. PICK r \in Seq(Nat) :
           r = IF isLastL2Chunk(chunk) THEN Tail(refiner[t].recv) ELSE refiner[t].recv
    BY <1>3, <1>4
  <2>3. PICK s \in Seq(Chunk) : s = Append(refiner[t].send, chunk)
    BY <1>5
  <2>4. refiner' = [refiner EXCEPT ![t].send = s, ![t].chcount = n, ![t].recv = r]
    BY <1>1, <2>1, <2>2, <2>3
  <2> QED
    BY <2>4 DEF RefineOK, Refiners
<1>7. /\ SameCounts(Nat, refine_que, refine_que') /\ EndsStay(refine_que, refine_que')
      /\ SameCounts(Chunk, deduplicate_que, deduplicate_que')
      /\ EndsStay(deduplicate_que, deduplicate_que')
  BY <1>1, KeptSame DEF RefineOK, Refiners, FragmentOK
<1>8. RefineOK'
  BY <1>2, <1>6, <1>7, RefinerWorks
<1> QED
  BY <1>1, <1>7, <1>8, RefineElse

LEMMA RefineSendOK ==
    ASSUME PipelineInv, NEW t \in Threads, RefineSend(t)
    PROVE  PipelineInv'
<1> USE DEF PipelineInv
<1>1. PICK q \in Queues : q = qid(t)
  BY GroupSize
<1>2. /\ MustSend(refiner[t].send, CHUNK_ANCHOR, refiner[t].ended)
      /\ HasRoom(deduplicate_que[q])
      /\ deduplicate_que' =
            [deduplicate_que EXCEPT ![q] = Enqueued(deduplicate_que[q], refiner[t].send)]
      /\ refiner' = [refiner EXCEPT ![t].send = Unsent(deduplicate_que[q], refiner[t].send)]
      /\ UNCHANGED <<refine_que, refineUnchanged>>
  BY <1>1 DEF RefineSend
<1>3. ~refiner[t].done
  <2>1. refiner[t].send # <<>>
    BY <1>2, PositiveConstants DEF MustSend
  <2> QED
    BY <2>1 DEF RefineOK, Refiners
<1>4. refiner[t].send \in Seq(Chunk) /\ deduplicate_que \in [Queues -> QueueOf(Chunk)]
  BY DEF RefineOK, Refiners
<1>5. ~queue_isTerminated(deduplicate_que[q])
  BY <1>1, <1>3, NotTerminated
<1>6. /\ SameCounts(Chunk, deduplicate_que, deduplicate_que')
      /\ EndsStay(deduplicate_que, deduplicate_que')
  BY <1>2, <1>4, <1>5, EnqueueKeeps
<1>7. Unsent(deduplicate_que[q], refiner[t].send) \in Seq(Chunk)
  BY <1>2, <1>4, EnqueueType
<1>8. /\ refiner' \in Refiners
      /\ \A u \in Threads : u # t => refiner'[u] = refiner[u]
      /\ refiner'[t].done = refiner[t].done /\ refiner'[t].ended = refiner[t].ended
      /\ refiner'[t].recv = refiner[t].recv
  BY <1>2, <1>7 DEF RefineOK, Refiners
<1>9. SameCounts(Nat, refine_que, refine_que') /\ EndsStay(refine_que, refine_que')
  BY <1>2, KeptSame DEF FragmentOK
<1>10. refiner'[t].ended => refiner'[t].recv = <<>> /\ AtEnd(refine_que'[qid(t)])
  BY <1>2, <1>8 DEF RefineOK, Refiners
<1>11. RefineOK'
  BY <1>3, <1>6, <1>8, <1>9, <1>10, RefinerWorks
<1> QED
  BY <1>2, <1>6, <1>9, <1>11, RefineElse

LEMMA RefineTerminateOK ==
    ASSUME PipelineInv, NEW t \in Threads, RefineTerminate(t)
    PROVE  PipelineInv'
<1> USE DEF PipelineInv
<1>1. PICK q \in Queues : q = qid(t)
  BY GroupSize
<1>2. /\ refiner[t].ended /\ refiner[t].send = <<>> /\ ~refiner[t].done
      /\ deduplicate_que' = [deduplicate_que EXCEPT ![q] = queue_terminate(deduplicate_que[q])]
      /\ refiner' = [refiner EXCEPT ![t].done = TRUE]
      /\ UNCHANGED <<refine_que, refineUnchanged>>
  BY <1>1 DEF RefineTerminate
<1>3. ~queue_isTerminated(deduplicate_que[q])
  BY <1>1, <1>2, NotTerminated
<1>4. /\ OneMore(Chunk, deduplicate_que, deduplicate_que', q)
      /\ EndsStay(deduplicate_que, deduplicate_que')
  BY <1>2, <1>3, TerminateKeeps DEF RefineOK, Refiners
<1>5. /\ refiner' \in Refiners
      /\ \A u \in Threads : u # t => refiner'[u] = refiner[u]
      /\ refiner'[t].done = TRUE /\ refiner'[t].ended = refiner[t].ended
      /\ refiner'[t].recv = refiner[t].recv /\ refiner'[t].send = refiner[t].send
  BY <1>2 DEF RefineOK, Refiners
<1>6. \A p \in Queues : RefDone(p)' = IF p = q THEN RefDone(q) \cup {t} ELSE RefDone(p)
  BY <1>1, <1>5 DEF RefDone, Group
<1>7. RefDone(q) \in SUBSET Group(q) /\ t \in Group(q) \ RefDone(q)
  BY <1>1, <1>2 DEF RefDone, Group
<1>8. Cardinality(RefDone(q) \cup {t}) = Cardinality(RefDone(q)) + 1
  BY <1>7, DoneCount
<1>9. (\A p \in Queues : /\ deduplicate_que[p].nProducers = threads_per_queue(p)
                         /\ deduplicate_que[p].nTerminated = Cardinality(RefDone(p)))'
  BY <1>4, <1>6, <1>8 DEF RefineOK, Refiners, OneMore
<1>10. (\A u \in Threads :
          /\ refiner[u].ended => refiner[u].recv = <<>> /\ AtEnd(refine_que[qid(u)])
          /\ refiner[u].done => refiner[u].ended /\ refiner[u].send = <<>>)'
  BY <1>2, <1>5 DEF RefineOK, Refiners
<1>11. RefineOK'
  BY <1>4, <1>5, <1>9, <1>10 DEF RefineOK, Refiners, OneMore
<1>12. SameCounts(Nat, refine_que, refine_que')
  BY <1>2, KeptSame DEF FragmentOK
<1> QED
  BY <1>2, <1>4, <1>11, <1>12, RefineElse

-------------------------------------------------------------------------------
(* The steps of Deduplicate.                                               *)

(* The stages that Deduplicate does not touch.                             *)
LEMMA DedupElse ==
    ASSUME PipelineInv, UNCHANGED dedupUnchanged, DedupOK',
           SameCounts(Chunk, deduplicate_que, deduplicate_que'),
           EndsStay(compress_que, compress_que'),
           SameCounts(Chunk, reorder_que, reorder_que'), EndsStay(reorder_que, reorder_que')
    PROVE  PipelineInv'
<1> USE DEF PipelineInv, dedupUnchanged
<1>1. FragmentOK' /\ RefineOK'
  BY FragmentFrame, RefineFrame, KeptSame DEF FragmentOK
<1>2. CompressOK' /\ ReorderOK'
  BY CompressFrame, ReorderFrame
<1> QED
  BY <1>1, <1>2

LEMMA DeduperWorks ==
    ASSUME DedupOK, NEW t \in Threads, deduper' \in Dedupers,
           \A u \in Threads : u # t => deduper'[u] = deduper[u],
           deduper'[t].done = deduper[t].done,
           deduper'[t].ended => deduper'[t].recv = <<>> /\ AtEnd(deduplicate_que'[qid(t)]),
           ~deduper[t].done,
           SameCounts(Chunk, compress_que, compress_que'),
           EndsStay(deduplicate_que, deduplicate_que')
    PROVE  DedupOK'
<1>1. \A q \in Queues : DedDone(q)' = DedDone(q)
  BY DEF DedDone, Group
<1>2. \A u \in Threads : AtEnd(deduplicate_que[qid(u)]) => AtEnd(deduplicate_que'[qid(u)])
  BY GroupSize DEF EndsStay
<1>3. (\A q \in Queues : /\ compress_que[q].nProducers = threads_per_queue(q)
                         /\ compress_que[q].nTerminated = Cardinality(DedDone(q)))'
  BY <1>1 DEF DedupOK, SameCounts
<1>4. compress_que' \in [Queues -> QueueOf(Chunk)]
  BY DEF SameCounts
<1>5. (\A u \in Threads :
          /\ deduper[u].ended => deduper[u].recv = <<>> /\ AtEnd(deduplicate_que[qid(u)])
          /\ deduper[u].done => /\ deduper[u].ended
                                /\ deduper[u].compress = <<>> /\ deduper[u].reorder = <<>>)'
  <2> SUFFICES ASSUME NEW u \in Threads
               PROVE  /\ deduper'[u].ended =>
                            deduper'[u].recv = <<>> /\ AtEnd(deduplicate_que'[qid(u)])
                      /\ deduper'[u].done =>
                            /\ deduper'[u].ended
                            /\ deduper'[u].compress = <<>> /\ deduper'[u].reorder = <<>>
    OBVIOUS
  <2>1. CASE u = t
    BY <2>1
  <2>2. CASE u # t
    BY <1>2, <2>2 DEF DedupOK
  <2> QED
    BY <2>1, <2>2
<1> QED
  BY <1>3, <1>4, <1>5 DEF DedupOK

LEMMA DedupFetchOK ==
    ASSUME PipelineInv, NEW t \in Threads, DedupFetch(t)
    PROVE  PipelineInv'
<1> USE DEF PipelineInv
<1>1. PICK q \in Queues : q = qid(t)
  BY GroupSize
<1>2. /\ deduper[t].recv = <<>> /\ ~deduper[t].ended /\ ~deduper[t].done
      /\ UNCHANGED <<compress_que, reorder_que, cache, original, dedupUnchanged>>
  BY DEF DedupFetch, DedupOK
<1>3. /\ SameCounts(Chunk, compress_que, compress_que') /\ EndsStay(compress_que, compress_que')
      /\ SameCounts(Chunk, reorder_que, reorder_que') /\ EndsStay(reorder_que, reorder_que')
  BY <1>2, KeptSame DEF DedupOK, CompressOK
<1>4. CASE /\ deduplicate_que[q].items # <<>>
           /\ deduplicate_que' =
                 [deduplicate_que EXCEPT ![q] = Dequeued(deduplicate_que[q], CHUNK_ANCHOR)]
           /\ deduper' = [deduper EXCEPT ![t].recv = Batch(deduplicate_que[q], CHUNK_ANCHOR)]
  <2>1. /\ SameCounts(Chunk, deduplicate_que, deduplicate_que')
        /\ EndsStay(deduplicate_que, deduplicate_que')
    BY <1>4, DequeueKeeps, PositiveConstants DEF RefineOK
  <2>2. Batch(deduplicate_que[q], CHUNK_ANCHOR) \in Seq(Chunk)
    BY DequeueType, PositiveConstants DEF RefineOK
  <2>3. /\ deduper' \in Dedupers
        /\ \A u \in Threads : u # t => deduper'[u] = deduper[u]
        /\ deduper'[t].done = deduper[t].done /\ deduper'[t].ended = deduper[t].ended
    BY <1>4, <2>2 DEF DedupOK, Dedupers
  <2>4. DedupOK'
    BY <1>2, <1>3, <2>1, <2>3, DeduperWorks
  <2> QED
    BY <1>2, <1>3, <2>1, <2>4, DedupElse
<1>5. CASE /\ AtEnd(deduplicate_que[q])
           /\ deduper' = [deduper EXCEPT ![t].ended = TRUE]
           /\ UNCHANGED deduplicate_que
  <2>1. /\ SameCounts(Chunk, deduplicate_que, deduplicate_que')
        /\ EndsStay(deduplicate_que, deduplicate_que')
    BY <1>5, KeptSame DEF RefineOK
  <2>2. /\ deduper' \in Dedupers
        /\ \A u \in Threads : u # t => deduper'[u] = deduper[u]
        /\ deduper'[t].done = deduper[t].done /\ deduper'[t].recv = deduper[t].recv
    BY <1>5 DEF DedupOK, Dedupers
  <2>3. DedupOK'
    BY <1>1, <1>2, <1>3, <1>5, <2>1, <2>2, DeduperWorks
  <2> QED
    BY <1>2, <1>3, <2>1, <2>3, DedupElse
<1> QED
  BY <1>1, <1>4, <1>5 DEF DedupFetch

LEMMA HeadTail ==
    ASSUME NEW S, NEW s \in Seq(S), s # <<>>
    PROVE  Head(s) \in S /\ Tail(s) \in Seq(S)
OBVIOUS

LEMMA Appended ==
    ASSUME NEW S, NEW s \in Seq(S), NEW e \in S
    PROVE  Append(s, e) \in Seq(S)
OBVIOUS

LEMMA DedupChunkOK ==
    ASSUME PipelineInv, NEW t \in Threads, DedupChunk(t)
    PROVE  PipelineInv'
<1> USE DEF PipelineInv
<1> DEFINE chunk == Head(deduper[t].recv)
<1>1. /\ deduper[t].recv # <<>>
      /\ UNCHANGED <<deduplicate_que, compress_que, reorder_que, dedupUnchanged>>
      /\ \/ deduper' = [deduper EXCEPT ![t].recv = Tail(deduper[t].recv),
                                       ![t].compress = Append(deduper[t].compress, chunk)]
         \/ deduper' = [deduper EXCEPT ![t].recv = Tail(deduper[t].recv),
                                       ![t].reorder = Append(deduper[t].reorder, chunk)]
  BY DEF DedupChunk
<1>2. ~deduper[t].ended /\ ~deduper[t].done
  BY <1>1 DEF DedupOK
<1>3. /\ deduper[t].recv \in Seq(Chunk) /\ deduper[t].compress \in Seq(Chunk)
      /\ deduper[t].reorder \in Seq(Chunk)
  BY DEF DedupOK, Dedupers
<1>4. /\ Tail(deduper[t].recv) \in Seq(Chunk)
      /\ Append(deduper[t].compress, chunk) \in Seq(Chunk)
      /\ Append(deduper[t].reorder, chunk) \in Seq(Chunk)
  BY <1>1, <1>3, HeadTail, Appended
<1>5. PICK r \in Seq(Chunk) : r = Tail(deduper[t].recv)
  BY <1>4, Zenon
<1>6. PICK c \in Seq(Chunk) : c = Append(deduper[t].compress, chunk)
  BY <1>4, Zenon
<1>7. PICK d \in Seq(Chunk) : d = Append(deduper[t].reorder, chunk)
  BY <1>4, Zenon
<1>8. \/ deduper' = [deduper EXCEPT ![t].recv = r, ![t].compress = c]
      \/ deduper' = [deduper EXCEPT ![t].recv = r, ![t].reorder = d]
  BY <1>1, <1>5, <1>6, <1>7
<1>9. /\ deduper' \in Dedupers
      /\ \A u \in Threads : u # t => deduper'[u] = deduper[u]
      /\ deduper'[t].done = deduper[t].done /\ deduper'[t].ended = deduper[t].ended
  <2>1. CASE deduper' = [deduper EXCEPT ![t].recv = r, ![t].compress = c]
    BY <2>1 DEF DedupOK, Dedupers
  <2>2. CASE deduper' = [deduper EXCEPT ![t].recv = r, ![t].reorder = d]
    BY <2>2 DEF DedupOK, Dedupers
  <2> QED
    BY <1>8, <2>1, <2>2
<1>10. /\ SameCounts(Chunk, deduplicate_que, deduplicate_que')
       /\ EndsStay(deduplicate_que, deduplicate_que')
       /\ SameCounts(Chunk, compress_que, compress_que')
       /\ EndsStay(compress_que, compress_que')
       /\ SameCounts(Chunk, reorder_que, reorder_que')
       /\ EndsStay(reorder_que, reorder_que')
  BY <1>1, KeptSame DEF RefineOK, DedupOK, CompressOK
<1>11. DedupOK'
  BY <1>2, <1>9, <1>10, DeduperWorks
<1> QED
  BY <1>1, <1>10, <1>11, DedupElse

LEMMA DedupSendCompressOK ==
    ASSUME PipelineInv, NEW t \in Threads, DedupSendCompress(t)
    PROVE  PipelineInv'
<1> USE DEF PipelineInv
<1>1. PICK q \in Queues : q = qid(t)
  BY GroupSize
<1>2. /\ MustSend(deduper[t].compress, ITEM, deduper[t].ended)
      /\ HasRoom(compress_que[q])
      /\ compress_que' = [compress_que EXCEPT ![q] = Enqueued(compress_que[q], deduper[t].compress)]
      /\ deduper' = [deduper EXCEPT ![t].compress = Unsent(compress_que[q], deduper[t].compress)]
      /\ UNCHANGED <<deduplicate_que, reorder_que, cache, original, dedupUnchanged>>
  BY <1>1 DEF DedupSendCompress
<1>3. ~deduper[t].done
  <2>1. deduper[t].compress # <<>>
    BY <1>2, PositiveConstants DEF MustSend
  <2> QED
    BY <2>1 DEF DedupOK
<1>4. deduper[t].compress \in Seq(Chunk) /\ compress_que \in [Queues -> QueueOf(Chunk)]
  BY DEF DedupOK, Dedupers
<1>5. ~queue_isTerminated(compress_que[q])
  BY <1>1, <1>3, NotTerminated
<1>6. SameCounts(Chunk, compress_que, compress_que') /\ EndsStay(compress_que, compress_que')
  BY <1>2, <1>4, <1>5, EnqueueKeeps
<1>7. Unsent(compress_que[q], deduper[t].compress) \in Seq(Chunk)
  BY <1>2, <1>4, EnqueueType
<1>8. /\ deduper' \in Dedupers
      /\ \A u \in Threads : u # t => deduper'[u] = deduper[u]
      /\ deduper'[t].done = deduper[t].done /\ deduper'[t].ended = deduper[t].ended
      /\ deduper'[t].recv = deduper[t].recv
  BY <1>2, <1>7 DEF DedupOK, Dedupers
<1>9. /\ SameCounts(Chunk, deduplicate_que, deduplicate_que')
      /\ EndsStay(deduplicate_que, deduplicate_que')
      /\ SameCounts(Chunk, reorder_que, reorder_que') /\ EndsStay(reorder_que, reorder_que')
  BY <1>2, KeptSame DEF RefineOK, CompressOK
<1>10. deduper'[t].ended => deduper'[t].recv = <<>> /\ AtEnd(deduplicate_que'[qid(t)])
  BY <1>2, <1>8 DEF DedupOK
<1>11. DedupOK'
  BY <1>3, <1>6, <1>8, <1>9, <1>10, DeduperWorks
<1> QED
  BY <1>2, <1>6, <1>9, <1>11, DedupElse

LEMMA DedupSendReorderOK ==
    ASSUME PipelineInv, NEW t \in Threads, DedupSendReorder(t)
    PROVE  PipelineInv'
<1> USE DEF PipelineInv
<1>1. PICK q \in Queues : q = qid(t)
  BY GroupSize
<1>2. /\ MustSend(deduper[t].reorder, ITEM, deduper[t].ended /\ deduper[t].compress = <<>>)
      /\ HasRoom(reorder_que[q])
      /\ reorder_que' = [reorder_que EXCEPT ![q] = Enqueued(reorder_que[q], deduper[t].reorder)]
      /\ deduper' = [deduper EXCEPT ![t].reorder = Unsent(reorder_que[q], deduper[t].reorder)]
      /\ UNCHANGED <<deduplicate_que, compress_que, cache, original, dedupUnchanged>>
  BY <1>1 DEF DedupSendReorder
<1>3. ~deduper[t].done
  <2>1. deduper[t].reorder # <<>>
    BY <1>2, PositiveConstants DEF MustSend
  <2> QED
    BY <2>1 DEF DedupOK
<1>4. deduper[t].reorder \in Seq(Chunk) /\ reorder_que \in [Queues -> QueueOf(Chunk)]
  BY DEF DedupOK, Dedupers, CompressOK
<1>5. ~queue_isTerminated(reorder_que[q])
  BY <1>1, <1>3, NotTerminated
<1>6. SameCounts(Chunk, reorder_que, reorder_que') /\ EndsStay(reorder_que, reorder_que')
  BY <1>2, <1>4, <1>5, EnqueueKeeps
<1>7. Unsent(reorder_que[q], deduper[t].reorder) \in Seq(Chunk)
  BY <1>2, <1>4, EnqueueType
<1>8. /\ deduper' \in Dedupers
      /\ \A u \in Threads : u # t => deduper'[u] = deduper[u]
      /\ deduper'[t].done = deduper[t].done /\ deduper'[t].ended = deduper[t].ended
      /\ deduper'[t].recv = deduper[t].recv
  BY <1>2, <1>7 DEF DedupOK, Dedupers
<1>9. /\ SameCounts(Chunk, deduplicate_que, deduplicate_que')
      /\ EndsStay(deduplicate_que, deduplicate_que')
      /\ SameCounts(Chunk, compress_que, compress_que') /\ EndsStay(compress_que, compress_que')
  BY <1>2, KeptSame DEF RefineOK, DedupOK
<1>10. deduper'[t].ended => deduper'[t].recv = <<>> /\ AtEnd(deduplicate_que'[qid(t)])
  BY <1>2, <1>8 DEF DedupOK
<1>11. DedupOK'
  BY <1>3, <1>8, <1>9, <1>10, DeduperWorks
<1> QED
  BY <1>2, <1>6, <1>9, <1>11, DedupElse

LEMMA DedupTerminateOK ==
    ASSUME PipelineInv, NEW t \in Threads, DedupTerminate(t)
    PROVE  PipelineInv'
<1> USE DEF PipelineInv
<1>1. PICK q \in Queues : q = qid(t)
  BY GroupSize
<1>2. /\ deduper[t].ended /\ ~deduper[t].done
      /\ deduper[t].compress = <<>> /\ deduper[t].reorder = <<>>
      /\ compress_que' = [compress_que EXCEPT ![q] = queue_terminate(compress_que[q])]
      /\ deduper' = [deduper EXCEPT ![t].done = TRUE]
      /\ UNCHANGED <<deduplicate_que, reorder_que, cache, original, dedupUnchanged>>
  BY <1>1 DEF DedupTerminate
<1>3. ~queue_isTerminated(compress_que[q])
  BY <1>1, <1>2, NotTerminated
<1>4. OneMore(Chunk, compress_que, compress_que', q) /\ EndsStay(compress_que, compress_que')
  BY <1>2, <1>3, TerminateKeeps DEF DedupOK
<1>5. /\ deduper' \in Dedupers
      /\ \A u \in Threads : u # t => deduper'[u] = deduper[u]
      /\ deduper'[t].done = TRUE /\ deduper'[t].ended = deduper[t].ended
      /\ deduper'[t].recv = deduper[t].recv /\ deduper'[t].compress = deduper[t].compress
      /\ deduper'[t].reorder = deduper[t].reorder
  BY <1>2 DEF DedupOK, Dedupers
<1>6. \A p \in Queues : DedDone(p)' = IF p = q THEN DedDone(q) \cup {t} ELSE DedDone(p)
  BY <1>1, <1>5 DEF DedDone, Group
<1>7. DedDone(q) \in SUBSET Group(q) /\ t \in Group(q) \ DedDone(q)
  BY <1>1, <1>2 DEF DedDone, Group
<1>8. Cardinality(DedDone(q) \cup {t}) = Cardinality(DedDone(q)) + 1
  BY <1>7, DoneCount
<1>9. (\A p \in Queues : /\ compress_que[p].nProducers = threads_per_queue(p)
                         /\ compress_que[p].nTerminated = Cardinality(DedDone(p)))'
  BY <1>4, <1>6, <1>8 DEF DedupOK, OneMore
<1>10. (\A u \in Threads :
          /\ deduper[u].ended => deduper[u].recv = <<>> /\ AtEnd(deduplicate_que[qid(u)])
          /\ deduper[u].done => /\ deduper[u].ended
                                /\ deduper[u].compress = <<>> /\ deduper[u].reorder = <<>>)'
  BY <1>2, <1>5 DEF DedupOK
<1>11. DedupOK'
  BY <1>4, <1>5, <1>9, <1>10 DEF DedupOK, OneMore
<1>12. /\ SameCounts(Chunk, deduplicate_que, deduplicate_que')
       /\ SameCounts(Chunk, reorder_que, reorder_que') /\ EndsStay(reorder_que, reorder_que')
  BY <1>2, KeptSame DEF RefineOK, CompressOK
<1> QED
  BY <1>2, <1>4, <1>11, <1>12, DedupElse

-------------------------------------------------------------------------------
(* The steps of Compress.                                                  *)

(* The stages that Compress does not touch.                                *)
LEMMA CompressElse ==
    ASSUME PipelineInv, UNCHANGED compressUnchanged, CompressOK',
           SameCounts(Chunk, compress_que, compress_que'),
           EndsStay(reorder_que, reorder_que')
    PROVE  PipelineInv'
<1> USE DEF PipelineInv, compressUnchanged
<1>1. FragmentOK' /\ RefineOK'
  BY FragmentFrame, RefineFrame, KeptSame DEF FragmentOK, RefineOK
<1>2. DedupOK' /\ ReorderOK'
  BY DedupFrame, ReorderFrame, KeptSame DEF RefineOK
<1> QED
  BY <1>1, <1>2

LEMMA CompressorWorks ==
    ASSUME CompressOK, NEW t \in Threads, compressor' \in Compressors,
           \A u \in Threads : u # t => compressor'[u] = compressor[u],
           compressor'[t].done = compressor[t].done,
           compressor'[t].ended => compressor'[t].recv = <<>> /\ AtEnd(compress_que'[qid(t)]),
           ~compressor[t].done,
           SameCounts(Chunk, reorder_que, reorder_que'),
           EndsStay(compress_que, compress_que')
    PROVE  CompressOK'
<1>1. \A q \in Queues : ComDone(q)' = ComDone(q)
  BY DEF ComDone, Group
<1>2. \A u \in Threads : AtEnd(compress_que[qid(u)]) => AtEnd(compress_que'[qid(u)])
  BY GroupSize DEF EndsStay
<1>3. (\A q \in Queues : /\ reorder_que[q].nProducers = threads_per_queue(q)
                         /\ reorder_que[q].nTerminated = Cardinality(ComDone(q)))'
  BY <1>1 DEF CompressOK, SameCounts
<1>4. reorder_que' \in [Queues -> QueueOf(Chunk)]
  BY DEF SameCounts
<1>5. (\A u \in Threads :
          /\ compressor[u].ended => compressor[u].recv = <<>> /\ AtEnd(compress_que[qid(u)])
          /\ compressor[u].done => compressor[u].ended /\ compressor[u].send = <<>>)'
  <2> SUFFICES ASSUME NEW u \in Threads
               PROVE  /\ compressor'[u].ended =>
                            compressor'[u].recv = <<>> /\ AtEnd(compress_que'[qid(u)])
                      /\ compressor'[u].done =>
                            compressor'[u].ended /\ compressor'[u].send = <<>>
    OBVIOUS
  <2>1. CASE u = t
    BY <2>1
  <2>2. CASE u # t
    BY <1>2, <2>2 DEF CompressOK
  <2> QED
    BY <2>1, <2>2
<1> QED
  BY <1>3, <1>4, <1>5 DEF CompressOK

LEMMA CompressFetchOK ==
    ASSUME PipelineInv, NEW t \in Threads, CompressFetch(t)
    PROVE  PipelineInv'
<1> USE DEF PipelineInv
<1>1. PICK q \in Queues : q = qid(t)
  BY GroupSize
<1>2. /\ compressor[t].recv = <<>> /\ ~compressor[t].ended /\ ~compressor[t].done
      /\ UNCHANGED <<reorder_que, state, compressUnchanged>>
  BY DEF CompressFetch, CompressOK
<1>3. SameCounts(Chunk, reorder_que, reorder_que') /\ EndsStay(reorder_que, reorder_que')
  BY <1>2, KeptSame DEF CompressOK
<1>4. CASE /\ compress_que[q].items # <<>>
           /\ compress_que' = [compress_que EXCEPT ![q] = Dequeued(compress_que[q], ITEM)]
           /\ compressor' = [compressor EXCEPT ![t].recv = Batch(compress_que[q], ITEM)]
  <2>1. SameCounts(Chunk, compress_que, compress_que') /\ EndsStay(compress_que, compress_que')
    BY <1>4, DequeueKeeps, PositiveConstants DEF DedupOK
  <2>2. Batch(compress_que[q], ITEM) \in Seq(Chunk)
    BY DequeueType, PositiveConstants DEF DedupOK
  <2>3. /\ compressor' \in Compressors
        /\ \A u \in Threads : u # t => compressor'[u] = compressor[u]
        /\ compressor'[t].done = compressor[t].done /\ compressor'[t].ended = compressor[t].ended
    BY <1>4, <2>2 DEF CompressOK, Compressors
  <2>4. CompressOK'
    BY <1>2, <1>3, <2>1, <2>3, CompressorWorks
  <2> QED
    BY <1>2, <1>3, <2>1, <2>4, CompressElse
<1>5. CASE /\ AtEnd(compress_que[q])
           /\ compressor' = [compressor EXCEPT ![t].ended = TRUE]
           /\ UNCHANGED compress_que
  <2>1. SameCounts(Chunk, compress_que, compress_que') /\ EndsStay(compress_que, compress_que')
    BY <1>5, KeptSame DEF DedupOK
  <2>2. /\ compressor' \in Compressors
        /\ \A u \in Threads : u # t => compressor'[u] = compressor[u]
        /\ compressor'[t].done = compressor[t].done /\ compressor'[t].recv = compressor[t].recv
    BY <1>5 DEF CompressOK, Compressors
  <2>3. CompressOK'
    BY <1>1, <1>2, <1>3, <1>5, <2>1, <2>2, CompressorWorks
  <2> QED
    BY <1>2, <1>3, <2>1, <2>3, CompressElse
<1> QED
  BY <1>1, <1>4, <1>5 DEF CompressFetch

LEMMA CompressChunkOK ==
    ASSUME PipelineInv, NEW t \in Threads, CompressChunk(t)
    PROVE  PipelineInv'
<1> USE DEF PipelineInv
<1> DEFINE chunk == Head(compressor[t].recv)
<1>1. /\ compressor[t].recv # <<>>
      /\ UNCHANGED <<compress_que, reorder_que, compressUnchanged>>
      /\ compressor' = [compressor EXCEPT ![t].recv = Tail(compressor[t].recv),
                                          ![t].send = Append(compressor[t].send, chunk)]
  BY DEF CompressChunk
<1>2. ~compressor[t].ended /\ ~compressor[t].done
  BY <1>1 DEF CompressOK
<1>3. compressor[t].recv \in Seq(Chunk) /\ compressor[t].send \in Seq(Chunk)
  BY DEF CompressOK, Compressors
<1>4. /\ Tail(compressor[t].recv) \in Seq(Chunk)
      /\ Append(compressor[t].send, chunk) \in Seq(Chunk)
  BY <1>1, <1>3, HeadTail, Appended
<1>5. PICK r \in Seq(Chunk) : r = Tail(compressor[t].recv)
  BY <1>4, Zenon
<1>6. PICK s \in Seq(Chunk) : s = Append(compressor[t].send, chunk)
  BY <1>4, Zenon
<1>7. compressor' = [compressor EXCEPT ![t].recv = r, ![t].send = s]
  BY <1>1, <1>5, <1>6
<1>8. /\ compressor' \in Compressors
      /\ \A u \in Threads : u # t => compressor'[u] = compressor[u]
      /\ compressor'[t].done = compressor[t].done /\ compressor'[t].ended = compressor[t].ended
  BY <1>7 DEF CompressOK, Compressors
<1>9. /\ SameCounts(Chunk, compress_que, compress_que')
      /\ EndsStay(compress_que, compress_que')
      /\ SameCounts(Chunk, reorder_que, reorder_que')
      /\ EndsStay(reorder_que, reorder_que')
  BY <1>1, KeptSame DEF DedupOK, CompressOK
<1>10. CompressOK'
  BY <1>2, <1>8, <1>9, CompressorWorks
<1> QED
  BY <1>1, <1>9, <1>10, CompressElse

LEMMA CompressSendOK ==
    ASSUME PipelineInv, NEW t \in Threads, CompressSend(t)
    PROVE  PipelineInv'
<1> USE DEF PipelineInv
<1>1. PICK q \in Queues : q = qid(t)
  BY GroupSize
<1>2. /\ MustSend(compressor[t].send, ITEM, compressor[t].ended)
      /\ HasRoom(reorder_que[q])
      /\ reorder_que' = [reorder_que EXCEPT ![q] = Enqueued(reorder_que[q], compressor[t].send)]
      /\ compressor' = [compressor EXCEPT ![t].send = Unsent(reorder_que[q], compressor[t].send)]
      /\ UNCHANGED <<compress_que, state, compressUnchanged>>
  BY <1>1 DEF CompressSend
<1>3. ~compressor[t].done
  <2>1. compressor[t].send # <<>>
    BY <1>2, PositiveConstants DEF MustSend
  <2> QED
    BY <2>1 DEF CompressOK
<1>4. compressor[t].send \in Seq(Chunk) /\ reorder_que \in [Queues -> QueueOf(Chunk)]
  BY DEF CompressOK, Compressors
<1>5. ~queue_isTerminated(reorder_que[q])
  BY <1>1, <1>3, NotTerminated
<1>6. SameCounts(Chunk, reorder_que, reorder_que') /\ EndsStay(reorder_que, reorder_que')
  BY <1>2, <1>4, <1>5, EnqueueKeeps
<1>7. Unsent(reorder_que[q], compressor[t].send) \in Seq(Chunk)
  BY <1>2, <1>4, EnqueueType
<1>8. /\ compressor' \in Compressors
      /\ \A u \in Threads : u # t => compressor'[u] = compressor[u]
      /\ compressor'[t].done = compressor[t].done /\ compressor'[t].ended = compressor[t].ended
      /\ compressor'[t].recv = compressor[t].recv
  BY <1>2, <1>7 DEF CompressOK, Compressors
<1>9. SameCounts(Chunk, compress_que, compress_que') /\ EndsStay(compress_que, compress_que')
  BY <1>2, KeptSame DEF DedupOK
<1>10. compressor'[t].ended => compressor'[t].recv = <<>> /\ AtEnd(compress_que'[qid(t)])
  BY <1>2, <1>8 DEF CompressOK
<1>11. CompressOK'
  BY <1>3, <1>6, <1>8, <1>9, <1>10, CompressorWorks
<1> QED
  BY <1>2, <1>6, <1>9, <1>11, CompressElse

LEMMA CompressTerminateOK ==
    ASSUME PipelineInv, NEW t \in Threads, CompressTerminate(t)
    PROVE  PipelineInv'
<1> USE DEF PipelineInv
<1>1. PICK q \in Queues : q = qid(t)
  BY GroupSize
<1>2. /\ compressor[t].ended /\ compressor[t].send = <<>> /\ ~compressor[t].done
      /\ reorder_que' = [reorder_que EXCEPT ![q] = queue_terminate(reorder_que[q])]
      /\ compressor' = [compressor EXCEPT ![t].done = TRUE]
      /\ UNCHANGED <<compress_que, state, compressUnchanged>>
  BY <1>1 DEF CompressTerminate
<1>3. ~queue_isTerminated(reorder_que[q])
  BY <1>1, <1>2, NotTerminated
<1>4. OneMore(Chunk, reorder_que, reorder_que', q) /\ EndsStay(reorder_que, reorder_que')
  BY <1>2, <1>3, TerminateKeeps DEF CompressOK
<1>5. /\ compressor' \in Compressors
      /\ \A u \in Threads : u # t => compressor'[u] = compressor[u]
      /\ compressor'[t].done = TRUE /\ compressor'[t].ended = compressor[t].ended
      /\ compressor'[t].recv = compressor[t].recv /\ compressor'[t].send = compressor[t].send
  BY <1>2 DEF CompressOK, Compressors
<1>6. \A p \in Queues : ComDone(p)' = IF p = q THEN ComDone(q) \cup {t} ELSE ComDone(p)
  BY <1>1, <1>5 DEF ComDone, Group
<1>7. ComDone(q) \in SUBSET Group(q) /\ t \in Group(q) \ ComDone(q)
  BY <1>1, <1>2 DEF ComDone, Group
<1>8. Cardinality(ComDone(q) \cup {t}) = Cardinality(ComDone(q)) + 1
  BY <1>7, DoneCount
<1>9. (\A p \in Queues : /\ reorder_que[p].nProducers = threads_per_queue(p)
                         /\ reorder_que[p].nTerminated = Cardinality(ComDone(p)))'
  BY <1>4, <1>6, <1>8 DEF CompressOK, OneMore
<1>10. (\A u \in Threads :
          /\ compressor[u].ended => compressor[u].recv = <<>> /\ AtEnd(compress_que[qid(u)])
          /\ compressor[u].done => compressor[u].ended /\ compressor[u].send = <<>>)'
  BY <1>2, <1>5 DEF CompressOK
<1>11. CompressOK'
  BY <1>4, <1>5, <1>9, <1>10 DEF CompressOK, OneMore
<1>12. SameCounts(Chunk, compress_que, compress_que')
  BY <1>2, KeptSame DEF DedupOK
<1> QED
  BY <1>2, <1>4, <1>11, <1>12, CompressElse
-------------------------------------------------------------------------------
(* The steps of Reorder.                                                   *)

(* The stages that Reorder does not touch.                                 *)
LEMMA ReorderElse ==
    ASSUME PipelineInv, UNCHANGED reorderUnchanged, ReorderOK',
           SameCounts(Chunk, reorder_que, reorder_que')
    PROVE  PipelineInv'
<1> USE DEF PipelineInv, reorderUnchanged
<1>1. FragmentOK' /\ RefineOK' /\ DedupOK'
  BY FragmentFrame, RefineFrame, DedupFrame, KeptSame DEF FragmentOK, RefineOK, DedupOK
<1>2. CompressOK'
  BY CompressFrame, KeptSame DEF DedupOK
<1> QED
  BY <1>1, <1>2

(* Reorder goes on with the chunks it has, or stops.                       *)
LEMMA ReorderWorks ==
    ASSUME ReorderOK, UNCHANGED reorder_que, reorder' \in Reorders,
           reorder'.qid = reorder.qid, reorder'.tries = reorder.tries,
           \/ reorder'.phase = reorder.phase
           \/ reorder'.phase = "overrun"
           \/ reorder.phase \in Ending /\ reorder'.phase \in Ending
    PROVE  ReorderOK'
<1>1. Visited' = Visited /\ Visited \subseteq Queues
  BY DEF Visited
<1> QED
  BY <1>1 DEF ReorderOK, Ending

(* One more queue is visited, or the round begins anew.                    *)
LEMMA NextQueue ==
    ASSUME ReorderOK, reorder.phase = "run", reorder'.qid = (reorder.qid + 1) % nqueues
    PROVE  /\ reorder'.qid \in Queues
           /\ reorder'.tries = 0 => Visited' = {}
           /\ reorder'.tries = reorder.tries + 1 =>
                 Visited' = Visited \cup {reorder.qid}
<1>1. PICK n \in Nat \ {0} : n = nqueues
  BY GroupSize
<1>2. PICK k \in 0 .. n - 1 : k = reorder.qid
  BY <1>1 DEF ReorderOK, Reorders, Queues
<1>3. PICK r \in 0 .. n - 1 : r = reorder.tries
  BY <1>1 DEF ReorderOK, Reorders
<1>4. reorder'.qid = IF k + 1 = n THEN 0 ELSE k + 1
  BY <1>1, <1>2
<1>5. reorder'.qid \in Queues
  BY <1>1, <1>2, <1>4 DEF Queues
<1>6. ASSUME reorder'.tries = 0
      PROVE  Visited' = {}
  BY <1>1, <1>2, <1>4, <1>6 DEF Visited, Queues
<1>7. ASSUME reorder'.tries = reorder.tries + 1
      PROVE  Visited' = Visited \cup {reorder.qid}
  <2>1. ASSUME NEW q \in Queues
        PROVE  (IF q < reorder'.qid THEN reorder'.qid - q <= r + 1
                ELSE reorder'.qid + n - q <= r + 1)
               <=> (q = k \/ IF q < k THEN k - q <= r ELSE k + n - q <= r)
    <3>1. q \in 0 .. n - 1
      BY <1>1 DEF Queues
    <3>2. CASE k + 1 = n
      BY <1>4, <3>1, <3>2
    <3>3. CASE k + 1 # n
      BY <1>4, <3>1, <3>3
    <3> QED
      BY <3>2, <3>3
  <2>2. k \in Queues
    BY <1>1, <1>2 DEF Queues
  <2> QED
    BY <1>1, <1>2, <1>3, <1>7, <2>1, <2>2 DEF Visited
<1> QED
  BY <1>5, <1>6, <1>7

LEMMA ReorderFetchOK ==
    ASSUME PipelineInv, ReorderFetch
    PROVE  PipelineInv'
<1> USE DEF PipelineInv
<1>1. PICK q \in Queues : q = reorder.qid
  BY DEF ReorderOK, Reorders
<1>2. PICK k : k = (q + 1) % nqueues
  OBVIOUS
<1>3. reorder.phase = "run" /\ UNCHANGED reorderUnchanged
  BY DEF ReorderFetch
<1>4. reorder_que \in [Queues -> QueueOf(Chunk)] /\ reorder \in Reorders
  BY DEF CompressOK, ReorderOK
<1>5. PICK n \in Nat \ {0} : n = nqueues
  BY GroupSize
<1>6. k \in Queues
  BY <1>1, <1>2, <1>5 DEF Queues
<1>7. CASE /\ reorder_que[q].items # <<>>
           /\ reorder_que' = [reorder_que EXCEPT ![q] = Dequeued(reorder_que[q], ITEM)]
           /\ reorder' = [reorder EXCEPT !.recv = Batch(reorder_que[q], ITEM), !.tries = 0,
                                         !.qid = k]
  <2>1. SameCounts(Chunk, reorder_que, reorder_que')
    BY <1>4, <1>7, DequeueKeeps, PositiveConstants
  <2>2. Batch(reorder_que[q], ITEM) \in Seq(Chunk)
    BY <1>4, DequeueType, PositiveConstants
  <2>3. PICK b \in Seq(Chunk) : b = Batch(reorder_que[q], ITEM)
    BY <2>2, Zenon
  <2>4. reorder' = [reorder EXCEPT !.recv = b, !.tries = 0, !.qid = k]
    BY <1>7, <2>3
  <2>5. /\ reorder' \in Reorders /\ reorder'.tries = 0 /\ reorder'.qid = k
        /\ reorder'.phase = "run"
    <3>1. 0 \in 0 .. nqueues
      BY <1>5
    <3> QED
      BY <1>3, <1>4, <1>6, <2>4, <3>1 DEF Reorders
  <2>6. Visited' = {}
    BY <1>1, <1>2, <1>3, <2>5, NextQueue
  <2>7. ReorderOK'
    BY <1>5, <2>5, <2>6 DEF ReorderOK, Ending
  <2> QED
    BY <1>3, <2>1, <2>7, ReorderElse
<1>8. CASE /\ AtEnd(reorder_que[q])
           /\ reorder' = [reorder EXCEPT !.tries = @ + 1, !.qid = k,
                              !.phase = IF reorder.tries + 1 = nqueues THEN "flush" ELSE @]
           /\ UNCHANGED reorder_que
  <2>1. SameCounts(Chunk, reorder_que, reorder_que')
    BY <1>4, <1>8, KeptSame
  <2>2. reorder.tries \in 0 .. n - 1
    BY <1>3, <1>4, <1>5 DEF ReorderOK, Reorders
  <2>3. PICK r \in 0 .. n : r = reorder.tries + 1
    BY <2>2
  <2>4. PICK p \in {"run", "flush"} : p = IF r = n THEN "flush" ELSE "run"
    OBVIOUS
  <2>5. reorder' = [reorder EXCEPT !.tries = r, !.qid = k, !.phase = p]
    BY <1>3, <1>5, <1>8, <2>3, <2>4
  <2>6. /\ reorder' \in Reorders /\ reorder'.tries = r /\ reorder'.qid = k
        /\ reorder'.phase = p
    BY <1>4, <1>5, <1>6, <2>5 DEF Reorders, Ending
  <2>7. Visited' = Visited \cup {q}
    BY <1>1, <1>2, <1>3, <2>3, <2>6, NextQueue
  <2>8. ReorderOK'
    BY <1>5, <1>8, <2>2, <2>3, <2>4, <2>6, <2>7 DEF ReorderOK, Ending
  <2> QED
    BY <1>3, <2>1, <2>8, ReorderElse
<1> QED
  BY <1>1, <1>2, <1>7, <1>8 DEF ReorderFetch

LEMMA SuccessorType ==
    ASSUME NEW seq \in Chunk
    PROVE  Successor(seq) \in Chunk
BY DEF Successor, Chunk

LEMMA ReorderTakeOK ==
    ASSUME PipelineInv, ReorderTake
    PROVE  PipelineInv'
<1> USE DEF PipelineInv
<1>1. /\ reorder.recv # <<>> /\ UNCHANGED reorder_que /\ UNCHANGED reorderUnchanged
      /\ \/ reorder' = [reorder EXCEPT !.phase = "overrun"]
         \/ reorder' = [reorder EXCEPT !.recv = Tail(reorder.recv),
                                       !.chunk = Head(reorder.recv)]
         \/ reorder' = [reorder EXCEPT !.recv = Tail(reorder.recv),
                                       !.held = reorder.held \cup {Head(reorder.recv)}]
  BY DEF ReorderTake
<1>2. reorder \in Reorders /\ reorder.recv \in Seq(Chunk) /\ reorder.held \subseteq Chunk
  BY DEF ReorderOK, Reorders
<1>3. Head(reorder.recv) \in Chunk /\ Tail(reorder.recv) \in Seq(Chunk)
  BY <1>1, <1>2, HeadTail
<1>4. PICK c \in Chunk : c = Head(reorder.recv)
  BY <1>3, Zenon
<1>5. PICK r \in Seq(Chunk) : r = Tail(reorder.recv)
  BY <1>3, Zenon
<1>6. PICK h \in SUBSET Chunk : h = reorder.held \cup {c}
  BY <1>2
<1>7. \/ reorder' = [reorder EXCEPT !.phase = "overrun"]
      \/ reorder' = [reorder EXCEPT !.recv = r, !.chunk = c]
      \/ reorder' = [reorder EXCEPT !.recv = r, !.held = h]
  BY <1>1, <1>4, <1>5, <1>6
<1>8. /\ reorder' \in Reorders /\ reorder'.qid = reorder.qid /\ reorder'.tries = reorder.tries
      /\ reorder'.phase = reorder.phase \/ reorder'.phase = "overrun"
  <2>1. CASE reorder' = [reorder EXCEPT !.phase = "overrun"]
    BY <1>2, <2>1 DEF Reorders
  <2>2. CASE reorder' = [reorder EXCEPT !.recv = r, !.chunk = c]
    BY <1>2, <2>2 DEF Reorders
  <2>3. CASE reorder' = [reorder EXCEPT !.recv = r, !.held = h]
    BY <1>2, <2>3 DEF Reorders
  <2> QED
    BY <1>7, <2>1, <2>2, <2>3
<1>9. ReorderOK'
  BY <1>1, <1>8, ReorderWorks
<1> QED
  BY <1>1, <1>9, ReorderElse, KeptSame DEF CompressOK

LEMMA ReorderWriteOK ==
    ASSUME PipelineInv, ReorderWrite
    PROVE  PipelineInv'
<1> USE DEF PipelineInv
<1>1. reorder \in Reorders /\ reorder.next \in Chunk /\ reorder.held \subseteq Chunk
  BY DEF ReorderOK, Reorders
<1>2. PICK next \in Chunk : next = Successor(reorder.next)
  <2>1. Successor(reorder.next) \in Chunk
    BY <1>1, SuccessorType
  <2> QED
    BY <2>1, Zenon
<1>3. PICK ready \in BOOLEAN :
          ready = (reorder.held # {} /\ SmallestHeld(reorder.held) = next)
  OBVIOUS
<1>4. /\ UNCHANGED reorder_que /\ UNCHANGED reorderUnchanged
      /\ \/ reorder' = [reorder EXCEPT !.next = next, !.chunk = IF ready THEN next ELSE None,
                                       !.held = IF ready THEN @ \ {next} ELSE @]
         \/ reorder' = [reorder EXCEPT !.phase = "overrun"]
  BY <1>2, <1>3 DEF ReorderWrite
<1>5. PICK c \in Chunk \cup {None} : c = IF ready THEN next ELSE None
  OBVIOUS
<1>6. PICK h \in SUBSET Chunk :
          h = IF ready THEN reorder.held \ {next} ELSE reorder.held
  BY <1>1
<1>7. \/ reorder' = [reorder EXCEPT !.next = next, !.chunk = c, !.held = h]
      \/ reorder' = [reorder EXCEPT !.phase = "overrun"]
  BY <1>4, <1>5, <1>6
<1>8. /\ reorder' \in Reorders /\ reorder'.qid = reorder.qid /\ reorder'.tries = reorder.tries
      /\ reorder'.phase = reorder.phase \/ reorder'.phase = "overrun"
  <2>1. CASE reorder' = [reorder EXCEPT !.next = next, !.chunk = c, !.held = h]
    BY <1>1, <2>1 DEF Reorders
  <2>2. CASE reorder' = [reorder EXCEPT !.phase = "overrun"]
    BY <1>1, <2>2 DEF Reorders
  <2> QED
    BY <1>7, <2>1, <2>2
<1>9. ReorderOK'
  BY <1>4, <1>8, ReorderWorks
<1> QED
  BY <1>4, <1>9, ReorderElse, KeptSame DEF CompressOK

LEMMA ReorderFlushOK ==
    ASSUME PipelineInv, ReorderFlush
    PROVE  PipelineInv'
<1> USE DEF PipelineInv
<1>1. reorder \in Reorders /\ reorder.next \in Chunk /\ reorder.held \subseteq Chunk
  BY DEF ReorderOK, Reorders
<1>2. PICK next \in Chunk : next = Successor(reorder.next)
  <2>1. Successor(reorder.next) \in Chunk
    BY <1>1, SuccessorType
  <2> QED
    BY <2>1, Zenon
<1>3. PICK h \in SUBSET Chunk : h = reorder.held \ {reorder.next}
  BY <1>1
<1>4. /\ reorder.phase = "flush" /\ UNCHANGED reorder_que /\ UNCHANGED reorderUnchanged
      /\ \/ reorder' = [reorder EXCEPT !.phase = "done"]
         \/ reorder' = [reorder EXCEPT !.phase = "mismatch"]
         \/ reorder' = [reorder EXCEPT !.phase = "overrun"]
         \/ reorder' = [reorder EXCEPT !.held = h, !.next = next]
  BY <1>2, <1>3 DEF ReorderFlush
<1>5. /\ reorder' \in Reorders /\ reorder'.qid = reorder.qid /\ reorder'.tries = reorder.tries
      /\ \/ reorder'.phase = "overrun"
         \/ reorder'.phase \in Ending
  BY <1>1, <1>4 DEF Reorders, Ending
<1>6. ReorderOK'
  BY <1>4, <1>5, ReorderWorks DEF Ending
<1> QED
  BY <1>4, <1>6, ReorderElse, KeptSame DEF CompressOK
-------------------------------------------------------------------------------

LEMMA StutterOK ==
    ASSUME PipelineInv, UNCHANGED vars
    PROVE  PipelineInv'
<1>1. UNCHANGED reorderUnchanged /\ reorder_que' = reorder_que /\ reorder' = reorder
  BY DEF vars, reorderUnchanged
<1>2. ReorderOK'
  BY <1>1, ReorderFrame, KeptSame DEF PipelineInv, CompressOK
<1> QED
  BY <1>1, <1>2, ReorderElse, KeptSame DEF PipelineInv, CompressOK

LEMMA StepOK ==
    PipelineInv /\ [Next]_vars => PipelineInv'
<1> SUFFICES ASSUME PipelineInv, [Next]_vars
             PROVE  PipelineInv'
  OBVIOUS
<1>1. CASE Fragment
  BY <1>1, FragmentSendOK, FragmentTerminateOK DEF Fragment
<1>2. ASSUME NEW t \in Threads, FragmentRefine(t)
      PROVE  PipelineInv'
  BY <1>2, RefineFetchOK, RefineChunkOK, RefineSendOK, RefineTerminateOK DEF FragmentRefine
<1>3. ASSUME NEW t \in Threads, Deduplicate(t)
      PROVE  PipelineInv'
  BY <1>3, DedupFetchOK, DedupChunkOK, DedupSendCompressOK, DedupSendReorderOK,
     DedupTerminateOK DEF Deduplicate
<1>4. ASSUME NEW t \in Threads, Compress(t)
      PROVE  PipelineInv'
  BY <1>4, CompressFetchOK, CompressChunkOK, CompressSendOK, CompressTerminateOK DEF Compress
<1>5. CASE Reorder
  BY <1>5, ReorderFetchOK, ReorderTakeOK, ReorderWriteOK, ReorderFlushOK DEF Reorder
<1>6. CASE Joined
  BY <1>6, StutterOK DEF Joined
<1>7. CASE UNCHANGED vars
  BY <1>7, StutterOK
<1> QED
  BY <1>1, <1>2, <1>3, <1>4, <1>5, <1>6, <1>7 DEF Next

(* The invariant of the pipeline: what each stage knows of its own end.    *)
THEOREM PipelineInvHolds == Spec => []PipelineInv
<1>1. Init => PipelineInv
  BY InitOK
<1>2. PipelineInv /\ [Next]_vars => PipelineInv'
  BY StepOK
<1> QED
  BY <1>1, <1>2, PTL DEF Spec

(* queue.c:42, 88: none of the four kinds of queues is terminated more     *)
(* often than it has producers, and nobody who may still enqueue finds its *)
(* queue terminated, whatever the sizes of groups, queues and buffers.     *)
THEOREM NoEnqueueAfterTerminateHolds == Spec => []NoEnqueueAfterTerminate
<1>1. ASSUME PipelineInv, NEW t \in Threads
      PROVE  /\ ~refiner[t].done => ~queue_isTerminated(deduplicate_que[qid(t)])
             /\ deduper[t].compress # <<>> => ~queue_isTerminated(compress_que[qid(t)])
             /\ deduper[t].reorder # <<>> \/ compressor[t].send # <<>>
                   => ~queue_isTerminated(reorder_que[qid(t)])
  <2>1. /\ deduper[t].done => deduper[t].compress = <<>> /\ deduper[t].reorder = <<>>
        /\ compressor[t].done => compressor[t].send = <<>>
    BY <1>1 DEF PipelineInv, DedupOK, CompressOK
  <2> QED
    BY <1>1, <2>1, NotTerminated DEF PipelineInv
<1>2. ASSUME PipelineInv
      PROVE  /\ WithinProducers(refine_que) /\ WithinProducers(deduplicate_que)
             /\ WithinProducers(compress_que) /\ WithinProducers(reorder_que)
  <2>1. WithinProducers(refine_que)
    BY <1>2 DEF PipelineInv, FragmentOK, WithinProducers
  <2>2. \A q \in Queues : /\ Cardinality(RefDone(q)) <= threads_per_queue(q)
                          /\ Cardinality(DedDone(q)) <= threads_per_queue(q)
                          /\ Cardinality(ComDone(q)) <= threads_per_queue(q)
    BY DoneCount DEF RefDone, DedDone, ComDone
  <2>3. WithinProducers(deduplicate_que)
    BY <1>2, <2>2 DEF PipelineInv, RefineOK, WithinProducers
  <2>4. WithinProducers(compress_que)
    BY <1>2, <2>2 DEF PipelineInv, DedupOK, WithinProducers
  <2>5. WithinProducers(reorder_que)
    BY <1>2, <2>2 DEF PipelineInv, CompressOK, WithinProducers
  <2> QED
    BY <2>1, <2>3, <2>4, <2>5
<1>3. ASSUME PipelineInv, fragment.anchorcount < Len(input), NEW q \in Queues
      PROVE  ~queue_isTerminated(refine_que[q])
  BY <1>3 DEF PipelineInv, FragmentOK, queue_isTerminated, Queues
<1>4. PipelineInv => NoEnqueueAfterTerminate
  BY <1>1, <1>2, <1>3 DEF NoEnqueueAfterTerminate
<1> QED
  BY <1>4, PipelineInvHolds, PTL

FlushIsLast == reorder.phase \in Ending => AllEnded

(* In its final flush Reorder has seen the end of each queue.              *)
LEMMA AtFlush ==
    ASSUME PipelineInv, reorder.phase \in Ending
    PROVE  AllEnded
<1>1. Visited = Queues
  <2>1. reorder.tries = nqueues /\ nqueues \in Nat /\ reorder.qid \in Queues
    BY GroupSize DEF PipelineInv, ReorderOK, Reorders
  <2> QED
    BY <2>1 DEF Visited, Queues
<1>2. \A q \in Queues : AtEnd(reorder_que[q])
  BY <1>1 DEF PipelineInv, ReorderOK
<1> QED
  BY <1>2, EndsCascade DEF PipelineInv

(* The final flush of Reorder (encoder.c:1300-1329) begins when every other*)
(* thread has returned and every queue is empty: no chunk is on its way to *)
(* Reorder any more, so that all that are missing are in its cache.        *)
THEOREM FlushIsLastHolds == Spec => []FlushIsLast
<1>1. PipelineInv => FlushIsLast
  BY AtFlush DEF FlushIsLast
<1> QED
  BY <1>1, PipelineInvHolds, PTL

-------------------------------------------------------------------------------
(* Where each chunk is.                                                    *)

(* The buffers and queues of chunks, and what each holds.                  *)
Buffers ==
    ({"cut", "fresh", "compress", "reorder", "raw", "ready"} \X Threads)
    \cup ({"deduplicate_que", "compress_que", "reorder_que"} \X Queues)
    \cup {<<"recv", 0>>}

Line(p) ==
    IF p[1] = "cut" THEN refiner[p[2]].send
    ELSE IF p[1] = "deduplicate_que" THEN deduplicate_que[p[2]].items
    ELSE IF p[1] = "fresh" THEN deduper[p[2]].recv
    ELSE IF p[1] = "compress" THEN deduper[p[2]].compress
    ELSE IF p[1] = "reorder" THEN deduper[p[2]].reorder
    ELSE IF p[1] = "compress_que" THEN compress_que[p[2]].items
    ELSE IF p[1] = "raw" THEN compressor[p[2]].recv
    ELSE IF p[1] = "ready" THEN compressor[p[2]].send
    ELSE IF p[1] = "reorder_que" THEN reorder_que[p[2]].items
    ELSE reorder.recv

lines == [p \in Buffers |-> Line(p)]

(* What FragmentRefine has not cut yet: the coarse chunks that wait, and   *)
(* the rest of the one it is cutting.                                      *)
InHand(t, c) ==
    /\ c[1] \in ToSet(refiner[t].recv)
    /\ c[1] = Head(refiner[t].recv) => c[2] >= refiner[t].chcount

Uncut ==
    {c \in Chunks : \/ c[1] >= fragment.anchorcount
                    \/ \E q \in Queues : c[1] \in ToSet(refine_que[q].items)
                    \/ \E t \in Threads : InHand(t, c)}

Less(c, d) == c[1] < d[1] \/ (c[1] = d[1] /\ c[2] < d[2])

Written == {c \in Chunks : Less(c, reorder.next)}

Places == Buffers \cup {<<"input", 0>>, <<"held", 0>>, <<"chunk", 0>>, <<"archive", 0>>}

chunksAt ==
    [p \in Places |-> IF p \in Buffers THEN ToSet(lines[p])
                      ELSE IF p[1] = "input" THEN Uncut
                      ELSE IF p[1] = "held" THEN reorder.held
                      ELSE IF p[1] = "chunk" THEN {reorder.chunk} \ {None}
                      ELSE Written]

Distinct(s) == \A i, j \in DOMAIN s : s[i] = s[j] => i = j

(* Each element of S is in exactly one place.                              *)
Parts(P, f, S) ==
    /\ \A p, r \in P : p # r => f[p] \cap f[r] = {}
    /\ \A c : c \in S <=> \E p \in P : c \in f[p]

(* No coarse chunk waits twice, and the next fine chunk is there.          *)
CoarseOK ==
    /\ fragment.anchorcount <= Len(input)
    /\ \A q \in Queues : /\ Distinct(refine_que[q].items)
                         /\ \A k \in ToSet(refine_que[q].items) : k < fragment.anchorcount
    /\ \A t \in Threads : /\ Distinct(refiner[t].recv)
                          /\ \A k \in ToSet(refiner[t].recv) : k < fragment.anchorcount
    /\ \A q, r \in Queues :
          q # r => ToSet(refine_que[q].items) \cap ToSet(refine_que[r].items) = {}
    /\ \A t, u \in Threads : t # u => ToSet(refiner[t].recv) \cap ToSet(refiner[u].recv) = {}
    /\ \A t \in Threads, q \in Queues :
          ToSet(refiner[t].recv) \cap ToSet(refine_que[q].items) = {}
    /\ \A t \in Threads : IF refiner[t].recv = <<>> THEN refiner[t].chcount = 0
                          ELSE refiner[t].chcount < Len(input[Head(refiner[t].recv) + 1])

(* No chunk is lost or doubled on its way.                                 *)
ChunksOK ==
    /\ \A p \in Buffers : Distinct(lines[p])
    /\ Parts(Places, chunksAt, Chunks)

(* Some place whose name is in K holds c.                                  *)
In(K, f, c) == \E p \in Places : p[1] \in K /\ c \in f[p]

(* The chunks that Reorder has taken.                                      *)
Taken(c) == In({"held", "chunk", "archive"}, chunksAt, c)

(* Reorder is at the first chunk that is not written, and finds the last   *)
(* chunk of a coarse one where it has taken it.                            *)
OrderOK ==
    /\ reorder.next \in Chunks \cup {<<Len(input), 0>>}
    /\ reorder.chunk # None => reorder.chunk = reorder.next
    /\ reorder.phase \in Ending => reorder.recv = <<>> /\ reorder.chunk = None
    /\ \E n \in Nat \ {0} : chunks_per_anchor \in [0 .. n - 1 -> Nat]
    /\ \A k \in DOMAIN chunks_per_anchor :
          chunks_per_anchor[k] # 0 =>
              k < Len(input) /\ chunks_per_anchor[k] = Len(input[k + 1])
    /\ \A c \in Chunks : Taken(c) /\ isLastL2Chunk(c) =>
          /\ c[1] \in DOMAIN chunks_per_anchor
          /\ chunks_per_anchor[c[1]] = Len(input[c[1] + 1])

(* Before Deduplicate has seen it; on the way to compression.              *)
Unseen(c) == In({"input", "cut", "deduplicate_que", "fresh"}, chunksAt, c)

ToCompress(c) == In({"compress", "compress_que", "raw"}, chunksAt, c)

Archived == {archive[k].content : k \in DOMAIN archive}

(* What is known of a content: its entry is an original that has been      *)
(* written exactly if the content is in the archive.                       *)
DataOK ==
    /\ cache \in [Contents -> Chunks \cup {None}]
    /\ original \in [Chunks -> Chunks \cup {None}]
    /\ state \in [Chunks -> {UNCOMPRESSED, COMPRESSED, FLUSHED}]
    /\ archive \in Seq([type : {TYPE_FINGERPRINT, TYPE_COMPRESS}, content : Contents])
    /\ \A x \in Contents :
          /\ cache[x] # None => /\ Content(cache[x]) = x
                                /\ state[cache[x]] = FLUSHED <=> x \in Archived
          /\ cache[x] = None => x \notin Archived
    /\ \A c \in Chunks :
          /\ IF Unseen(c) THEN state[c] = UNCOMPRESSED
             ELSE cache[Content(c)] # None /\ original[c] = cache[Content(c)]
          /\ ToCompress(c) => cache[Content(c)] = c /\ state[c] = UNCOMPRESSED

(* The number of chunks before coarse chunk k.                             *)
flattened[k \in 1 .. Len(input)] ==
    IF k = 1 THEN input[k] ELSE flattened[k - 1] \o input[k]

Offset(k) == IF k = 0 THEN 0 ELSE Len(flattened[k])

(* How far the archive has grown. An overrun writes outside the array.     *)
LengthOK ==
    /\ reorder.phase # "overrun" =>
          Len(archive) = Offset(reorder.next[1]) + reorder.next[2]
    /\ reorder.phase # "mismatch"
    /\ reorder.phase = "done" => reorder.next = <<Len(input), 0>>

ArchiveInv == /\ PipelineInv /\ input \in Inputs
              /\ CoarseOK /\ ChunksOK /\ OrderOK /\ DataOK /\ LengthOK

-------------------------------------------------------------------------------
(* Sequences without repetition, and moving the first n elements of one to *)
(* the end of another.                                                     *)

LEMMA ByIndex ==
    ASSUME NEW S, NEW s \in Seq(S)
    PROVE  /\ Len(s) \in Nat
           /\ Distinct(s) <=> \A i, j \in 1 .. Len(s) : s[i] = s[j] => i = j
           /\ \A e : e \in ToSet(s) <=> \E k \in 1 .. Len(s) : s[k] = e
BY DEF Distinct, ToSet

LEMMA SplitAt ==
    ASSUME NEW S, NEW s \in Seq(S), NEW n \in 0 .. Len(s), Distinct(s)
    PROVE  /\ SubSeq(s, 1, n) \in Seq(S) /\ Distinct(SubSeq(s, 1, n))
           /\ SubSeq(s, n + 1, Len(s)) \in Seq(S) /\ Distinct(SubSeq(s, n + 1, Len(s)))
           /\ ToSet(SubSeq(s, 1, n)) \subseteq ToSet(s)
           /\ ToSet(SubSeq(s, n + 1, Len(s))) = ToSet(s) \ ToSet(SubSeq(s, 1, n))
<1> PICK u : u = SubSeq(s, 1, n)
  OBVIOUS
<1> PICK v : v = SubSeq(s, n + 1, Len(s))
  OBVIOUS
<1>1. PICK l \in Nat : l = Len(s)
  OBVIOUS
<1>2. n \in 0 .. l
  BY <1>1
<1>3. \A k \in 1 .. l : s[k] \in S
  BY <1>1
<1>4. u \in Seq(S) /\ Len(u) = n /\ \A k \in 1 .. n : u[k] = s[k]
  OBVIOUS
<1>5. v \in Seq(S) /\ Len(v) = l - n /\ \A k \in 1 .. (l - n) : v[k] = s[k + n]
  BY <1>1
<1>6. \A i, j \in 1 .. l : s[i] = s[j] => i = j
  BY <1>1, ByIndex
<1>7. /\ \A e : e \in ToSet(s) <=> \E k \in 1 .. l : s[k] = e
      /\ \A e : e \in ToSet(u) <=> \E k \in 1 .. n : u[k] = e
      /\ \A e : e \in ToSet(v) <=> \E k \in 1 .. (l - n) : v[k] = e
  <2>1. \A e : e \in ToSet(s) <=> \E k \in 1 .. l : s[k] = e
    BY <1>1, ByIndex
  <2>2. \A e : e \in ToSet(u) <=> \E k \in 1 .. n : u[k] = e
    <3>1. DOMAIN u = 1 .. n
      BY <1>4
    <3> QED
      BY <3>1 DEF ToSet
  <2>3. \A e : e \in ToSet(v) <=> \E k \in 1 .. (l - n) : v[k] = e
    <3>1. DOMAIN v = 1 .. (l - n)
      BY <1>5
    <3> QED
      BY <3>1 DEF ToSet
  <2> QED
    BY <2>1, <2>2, <2>3
<1>8. Distinct(u)
  <2>1. \A i, j \in 1 .. n : u[i] = u[j] => i = j
    BY <1>2, <1>4, <1>6
  <2> QED
    BY <1>4, <2>1, ByIndex
<1>9. \A k \in 1 .. (l - n) : k + n \in 1 .. l /\ v[k] = s[k + n] /\ k + n > n
  BY <1>2, <1>5
<1>10. Distinct(v)
  <2>1. ASSUME NEW i \in 1 .. (l - n), NEW j \in 1 .. (l - n), v[i] = v[j]
        PROVE  i = j
    <3>1. i + n = j + n
      BY <1>6, <1>9, <2>1
    <3> QED
      BY <1>2, <3>1
  <2> QED
    BY <1>5, <2>1, ByIndex
<1>11. ToSet(u) \subseteq ToSet(s)
  <2>1. \A k \in 1 .. n : k \in 1 .. l /\ u[k] = s[k]
    BY <1>2, <1>4
  <2> QED
    BY <1>7, <2>1
<1>12. ASSUME NEW e \in ToSet(v)
       PROVE  e \in ToSet(s) /\ e \notin ToSet(u)
  <2>1. PICK k \in 1 .. (l - n) : v[k] = e
    BY <1>7
  <2>2. k + n \in 1 .. l /\ e = s[k + n] /\ k + n > n
    BY <1>9, <2>1
  <2>3. ASSUME NEW i \in 1 .. n, u[i] = e
        PROVE  FALSE
    <3>1. i \in 1 .. l /\ s[i] = e
      BY <1>2, <1>4, <2>3
    <3>2. i = k + n
      BY <1>6, <2>2, <3>1
    <3> QED
      BY <2>2, <3>2
  <2> QED
    BY <1>7, <2>2, <2>3
<1>13. ASSUME NEW e \in ToSet(s), e \notin ToSet(u)
       PROVE  e \in ToSet(v)
  <2>1. PICK k \in 1 .. l : s[k] = e
    BY <1>7
  <2>2. k > n
    <3>1. CASE k \in 1 .. n
      BY <1>4, <1>7, <1>13, <2>1, <3>1
    <3> QED
      BY <1>2, <3>1
  <2>3. PICK i \in 1 .. (l - n) : i + n = k
    <3>1. k - n \in 1 .. (l - n) /\ (k - n) + n = k
      BY <1>2, <2>2
    <3> QED
      BY <3>1
  <2>4. v[i] = e
    BY <1>5, <2>1, <2>3
  <2> QED
    BY <1>7, <2>4
<1> QED
  BY <1>4, <1>5, <1>8, <1>10, <1>11, <1>12, <1>13

LEMMA Concatenated ==
    ASSUME NEW S, NEW u \in Seq(S), NEW v \in Seq(S), Distinct(u), Distinct(v),
           ToSet(u) \cap ToSet(v) = {}
    PROVE  /\ u \o v \in Seq(S) /\ Distinct(u \o v)
           /\ \A e : e \in ToSet(u \o v) <=> e \in ToSet(u) \/ e \in ToSet(v)
<1> PICK s : s = u \o v
  OBVIOUS
<1>1. PICK m \in Nat : m = Len(u)
  OBVIOUS
<1>2. PICK n \in Nat : n = Len(v)
  OBVIOUS
<1>3. /\ s \in Seq(S) /\ Len(s) = m + n
      /\ \A k \in 1 .. (m + n) : s[k] = IF k <= m THEN u[k] ELSE v[k - m]
  BY <1>1, <1>2, ConcatProperties
<1>4. /\ \A i, j \in 1 .. m : u[i] = u[j] => i = j
      /\ \A i, j \in 1 .. n : v[i] = v[j] => i = j
  BY <1>1, <1>2, ByIndex
<1>5. /\ \A e : e \in ToSet(s) <=> \E k \in 1 .. (m + n) : s[k] = e
      /\ \A e : e \in ToSet(u) <=> \E k \in 1 .. m : u[k] = e
      /\ \A e : e \in ToSet(v) <=> \E k \in 1 .. n : v[k] = e
  <2>1. \A e : e \in ToSet(s) <=> \E k \in 1 .. (m + n) : s[k] = e
    <3>1. DOMAIN s = 1 .. (m + n)
      BY <1>3
    <3> QED
      BY <3>1 DEF ToSet
  <2>2. \A e : e \in ToSet(u) <=> \E k \in 1 .. m : u[k] = e
    BY <1>1, ByIndex
  <2>3. \A e : e \in ToSet(v) <=> \E k \in 1 .. n : v[k] = e
    BY <1>2, ByIndex
  <2> QED
    BY <2>1, <2>2, <2>3
<1>6. \A k \in 1 .. (m + n) :
         \/ k \in 1 .. m /\ s[k] = u[k] /\ s[k] \in ToSet(u)
         \/ k \notin 1 .. m /\ k - m \in 1 .. n /\ s[k] = v[k - m] /\ s[k] \in ToSet(v)
  BY <1>3, <1>5
<1>7. Distinct(s)
  <2>1. ASSUME NEW i \in 1 .. (m + n), NEW j \in 1 .. (m + n), s[i] = s[j]
        PROVE  i = j
    <3>1. CASE i \in 1 .. m /\ j \in 1 .. m
      BY <1>4, <1>6, <2>1, <3>1
    <3>2. CASE i \notin 1 .. m /\ j \notin 1 .. m
      <4>1. PICK a \in 1 .. n : a = i - m /\ s[i] = v[a]
        BY <1>6, <3>2
      <4>2. PICK b \in 1 .. n : b = j - m /\ s[j] = v[b]
        BY <1>6, <3>2
      <4>3. a = b
        BY <1>4, <2>1, <4>1, <4>2
      <4> QED
        BY <4>1, <4>2, <4>3
    <3>3. CASE i \in 1 .. m /\ j \notin 1 .. m
      <4>1. s[i] \in ToSet(u) /\ s[j] \in ToSet(v)
        BY <1>6, <3>3
      <4> QED
        BY <2>1, <4>1
    <3>4. CASE i \notin 1 .. m /\ j \in 1 .. m
      <4>1. s[i] \in ToSet(v) /\ s[j] \in ToSet(u)
        BY <1>6, <3>4
      <4> QED
        BY <2>1, <4>1
    <3> QED
      BY <3>1, <3>2, <3>3, <3>4
  <2> QED
    BY <1>3, <2>1, ByIndex
<1>8. ToSet(u) \subseteq ToSet(s)
  <2>1. \A k \in 1 .. m : k \in 1 .. (m + n) /\ s[k] = u[k]
    BY <1>3
  <2> QED
    BY <1>5, <2>1
<1>9. ToSet(v) \subseteq ToSet(s)
  <2>1. \A k \in 1 .. n : m + k \in 1 .. (m + n) /\ s[m + k] = v[k]
    BY <1>3
  <2> QED
    BY <1>5, <2>1
<1>10. ToSet(s) \subseteq ToSet(u) \cup ToSet(v)
  BY <1>5, <1>6
<1> QED
  BY <1>3, <1>7, <1>8, <1>9, <1>10

(* The first n elements of x move to the end of y.                         *)
Moves(f, g, x, y, n) ==
    g = [f EXCEPT ![x] = SubSeq(f[x], n + 1, Len(f[x])),
                  ![y] = f[y] \o SubSeq(f[x], 1, n)]

(* The same for what is in each place.                                     *)
Shifted(P, f, g, x, y, M) ==
    /\ M \subseteq f[x] /\ g[x] = f[x] \ M /\ g[y] = f[y] \cup M
    /\ \A p \in P : p # x /\ p # y => g[p] = f[p]

(* M moves, and no line gets a second copy.                                *)
Transferred(f, g, x, y, M) ==
    /\ \A p \in Buffers : Distinct(g[p])
    /\ M \subseteq ToSet(f[x]) /\ ToSet(g[x]) = ToSet(f[x]) \ M
    /\ ToSet(g[y]) = ToSet(f[y]) \cup M
    /\ \A p \in Buffers : p # x /\ p # y => g[p] = f[p]

LEMMA MovePrefix ==
    ASSUME NEW f \in [Buffers -> Seq(Chunk)], \A p \in Buffers : Distinct(f[p]),
           NEW x \in Buffers, NEW y \in Buffers, x # y, ToSet(f[x]) \cap ToSet(f[y]) = {},
           NEW n \in 0 .. Len(f[x]), NEW g, Moves(f, g, x, y, n)
    PROVE  Transferred(f, g, x, y, ToSet(SubSeq(f[x], 1, n)))
<1>1. PICK s \in Seq(Chunk) : s = f[x]
  OBVIOUS
<1>2. PICK r \in Seq(Chunk) : r = f[y]
  OBVIOUS
<1>3. PICK u : u = SubSeq(s, 1, n)
  OBVIOUS
<1>4. PICK v : v = SubSeq(s, n + 1, Len(s))
  OBVIOUS
<1>5. PICK w : w = r \o u
  OBVIOUS
<1>6. Distinct(s) /\ Distinct(r) /\ ToSet(s) \cap ToSet(r) = {} /\ n \in 0 .. Len(s)
  BY <1>1, <1>2
<1>7. /\ u \in Seq(Chunk) /\ v \in Seq(Chunk) /\ Distinct(u) /\ Distinct(v)
      /\ ToSet(u) \subseteq ToSet(s) /\ ToSet(v) = ToSet(s) \ ToSet(u)
  BY <1>3, <1>4, <1>6, SplitAt
<1>8. ToSet(r) \cap ToSet(u) = {}
  BY <1>6, <1>7
<1>9. w \in Seq(Chunk) /\ Distinct(w) /\ ToSet(w) = ToSet(r) \cup ToSet(u)
  BY <1>5, <1>6, <1>7, <1>8, Concatenated
<1>10. g = [f EXCEPT ![x] = v, ![y] = w]
  BY <1>1, <1>2, <1>3, <1>4, <1>5 DEF Moves
<1>11. /\ g \in [Buffers -> Seq(Chunk)] /\ g[x] = v /\ g[y] = w
       /\ \A p \in Buffers : p # x /\ p # y => g[p] = f[p]
  BY <1>7, <1>9, <1>10
<1>12. \A p \in Buffers : Distinct(g[p])
  BY <1>7, <1>9, <1>11
<1>13. /\ ToSet(u) = ToSet(SubSeq(f[x], 1, n)) /\ ToSet(u) \subseteq ToSet(f[x])
       /\ ToSet(g[x]) = ToSet(f[x]) \ ToSet(u) /\ ToSet(g[y]) = ToSet(f[y]) \cup ToSet(u)
  BY <1>1, <1>2, <1>3, <1>7, <1>9, <1>11
<1> QED
  BY <1>11, <1>12, <1>13 DEF Transferred

LEMMA PartsShift ==
    ASSUME NEW P, NEW f, NEW g, NEW S, NEW x \in P, NEW y \in P, x # y, NEW M,
           Parts(P, f, S), Shifted(P, f, g, x, y, M)
    PROVE  Parts(P, g, S)
<1>1. ASSUME NEW p \in P, NEW r \in P, p # r
      PROVE  g[p] \cap g[r] = {}
  <2>1. f[p] \cap f[r] = {} /\ f[x] \cap f[p] = IF p = x THEN f[x] ELSE {}
    BY <1>1 DEF Parts
  <2>2. f[x] \cap f[r] = IF r = x THEN f[x] ELSE {}
    BY DEF Parts
  <2>3. f[y] \cap f[r] = IF r = y THEN f[y] ELSE {}
    BY DEF Parts
  <2>4. f[y] \cap f[p] = IF p = y THEN f[y] ELSE {}
    BY DEF Parts
  <2>5. CASE p = x
    BY <1>1, <2>1, <2>2, <2>3, <2>4, <2>5 DEF Shifted
  <2>6. CASE p = y
    BY <1>1, <2>1, <2>2, <2>3, <2>4, <2>6 DEF Shifted
  <2>7. CASE p # x /\ p # y
    BY <1>1, <2>1, <2>2, <2>3, <2>4, <2>7 DEF Shifted
  <2> QED
    BY <2>5, <2>6, <2>7
<1>2. ASSUME NEW c
      PROVE  (\E p \in P : c \in g[p]) <=> \E p \in P : c \in f[p]
  BY DEF Shifted
<1> QED
  BY <1>1, <1>2 DEF Parts

-------------------------------------------------------------------------------
(* Induction up to a bound, for the set T of the numbers that have some    *)
(* property.                                                               *)
LEMMA UpTo ==
    ASSUME NEW N \in Nat, NEW T, 0 \in T, \A k \in 0 .. N - 1 : k \in T => k + 1 \in T
    PROVE  \A k \in 0 .. N : k \in T
<1> DEFINE D == 1 .. N
           Bad == {X \in SUBSET D : \E k \in 0 .. N : k \notin T /\ X = 1 .. k}
<1> SUFFICES ASSUME NEW n \in 0 .. N, n \notin T
             PROVE  FALSE
  OBVIOUS
<1>1. IsFiniteSet(D)
  BY FS_Interval
<1>2. IsWellFoundedOn(StrictSubsetOrdering(D), SUBSET D)
  BY <1>1, FS_StrictSubsetOrderingWellFounded, FS_FiniteSubsetsOfFinite
<1>3. 1 .. n \in Bad
  OBVIOUS
<1>4. PICK X \in Bad : \A Y \in Bad : ~(<<Y, X>> \in StrictSubsetOrdering(D))
  BY <1>2, <1>3, WFMin
<1>5. PICK k \in 0 .. N : k \notin T /\ X = 1 .. k
  BY <1>4
<1>6. k - 1 \in 0 .. N - 1 /\ k - 1 \notin T
  BY <1>5
<1>7. 1 .. (k - 1) \in Bad
  BY <1>6
<1>8. 1 .. (k - 1) \subseteq X /\ 1 .. (k - 1) # X /\ X \subseteq D
  <2>1. k \in 1 .. k /\ k \notin 1 .. (k - 1)
    BY <1>6
  <2> QED
    BY <1>5, <1>6, <2>1
<1> QED
  BY <1>4, <1>7, <1>8 DEF StrictSubsetOrdering

LEMMA Least ==
    ASSUME NEW X, X \subseteq Nat, X # {}
    PROVE  \E m \in X : \A x \in X : m <= x
<1>1. PICK n \in X : n \in Nat
  OBVIOUS
<1> DEFINE T == {k \in Nat : \A x \in X : k <= x}
<1>2. 0 \in T
  OBVIOUS
<1>3. CASE \A k \in 0 .. n - 1 : k \in T => k + 1 \in T
  <2> HIDE DEF T
  <2>1. \A k \in 0 .. n : k \in T
    BY <1>1, <1>2, <1>3, UpTo
  <2>2. n \in T
    BY <1>1, <2>1
  <2> QED
    BY <1>1, <2>2 DEF T
<1>4. CASE \E k \in 0 .. n - 1 : k \in T /\ k + 1 \notin T
  <2>1. PICK k \in 0 .. n - 1 : k \in T /\ k + 1 \notin T
    BY <1>4
  <2>2. PICK x \in X : ~(k + 1 <= x)
    BY <1>1, <2>1
  <2>3. x = k
    BY <1>1, <2>1, <2>2
  <2> QED
    BY <2>1, <2>3
<1> QED
  BY <1>3, <1>4

(* SmallestHeld yields a held chunk, and no other is before it.            *)
LEMMA SmallestIsHeld ==
    ASSUME NEW held, held \subseteq Chunk, held # {}
    PROVE  /\ SmallestHeld(held) \in held
           /\ \A c \in held : (\A d \in held : ~Less(d, c)) => SmallestHeld(held) = c
<1> DEFINE First == {c[1] : c \in held}
           Smallest(c) == \A d \in held : c[1] < d[1] \/ (c[1] = d[1] /\ c[2] <= d[2])
<1>0. \A c \in held : c[1] \in Nat /\ c[2] \in Nat /\ c = <<c[1], c[2]>>
  BY DEF Chunk
<1>1. PICK m \in First : \A x \in First : m <= x
  <2>1. First \subseteq Nat /\ First # {}
    BY <1>0
  <2> HIDE DEF First
  <2> QED
    BY <2>1, Least
<1> DEFINE Second == {c[2] : c \in {d \in held : d[1] = m}}
<1>2. PICK n \in Second : \A x \in Second : n <= x
  <2>1. Second \subseteq Nat /\ Second # {}
    BY <1>0, <1>1
  <2> HIDE DEF Second
  <2> QED
    BY <2>1, Least
<1>3. PICK c \in held : c[1] = m /\ c[2] = n
  BY <1>2
<1>4. Smallest(c)
  <2>1. ASSUME NEW d \in held
        PROVE  c[1] < d[1] \/ (c[1] = d[1] /\ c[2] <= d[2])
    <3>1. d[1] \in First /\ m <= d[1]
      BY <1>1
    <3>2. d[1] = m => d[2] \in Second /\ n <= d[2]
      BY <1>2
    <3> QED
      BY <1>0, <1>3, <3>1, <3>2
  <2> QED
    BY <2>1
<1> HIDE DEF First, Second
<1>5. SmallestHeld(held) \in held /\ Smallest(SmallestHeld(held))
  BY <1>4 DEF SmallestHeld
<1>6. ASSUME NEW d \in held, \A e \in held : ~Less(e, d)
      PROVE  SmallestHeld(held) = d
  <2>1. PICK e \in held : e = SmallestHeld(held)
    BY <1>5
  <2>2. e[1] < d[1] \/ (e[1] = d[1] /\ e[2] <= d[2])
    BY <1>5, <2>1
  <2>3. ~(e[1] < d[1] \/ (e[1] = d[1] /\ e[2] < d[2]))
    BY <1>6 DEF Less
  <2>4. e[1] = d[1] /\ e[2] = d[2]
    BY <1>0, <2>2, <2>3
  <2>5. e = <<e[1], e[2]>> /\ d = <<d[1], d[2]>>
    BY <1>0
  <2> QED
    BY <2>1, <2>4, <2>5
<1> QED
  BY <1>5, <1>6

-------------------------------------------------------------------------------
(* The chunks of the input in one sequence.                                *)

Concatenation(s, n, f) ==
    f = [k \in 1 .. n |-> IF k = 1 THEN s[k] ELSE f[k - 1] \o s[k]]

LEMMA Concatenations ==
    ASSUME NEW C, NEW n \in Nat, NEW s, \A k \in 1 .. n : s[k] \in Seq(C)
    PROVE  /\ \E f : Concatenation(s, n, f)
           /\ \A f : Concatenation(s, n, f) => \A k \in 1 .. n : f[k] \in Seq(C)
<1> DEFINE T == {k \in 0 .. n : \E f : Concatenation(s, k, f)}
<1>1. 0 \in T
  <2>1. Concatenation(s, 0, [k \in 1 .. 0 |-> <<>>])
    BY DEF Concatenation
  <2> QED
    BY <2>1
<1>2. ASSUME NEW k \in 0 .. n - 1, k \in T
      PROVE  k + 1 \in T
  <2>1. PICK f : Concatenation(s, k, f)
    BY <1>2
  <2> DEFINE g == [i \in 1 .. k + 1 |->
                      IF i = k + 1 THEN IF k = 0 THEN s[1] ELSE f[k] \o s[k + 1] ELSE f[i]]
  <2>2. ASSUME NEW i \in 1 .. k + 1
        PROVE  g[i] = IF i = 1 THEN s[i] ELSE g[i - 1] \o s[i]
    <3>1. CASE i = k + 1
      BY <3>1
    <3>2. CASE i # k + 1
      <4>1. i \in 1 .. k
        BY <3>2
      <4>2. f[i] = IF i = 1 THEN s[i] ELSE f[i - 1] \o s[i]
        BY <2>1, <4>1, Zenon DEF Concatenation
      <4>3. g[i] = f[i] /\ (i # 1 => g[i - 1] = f[i - 1])
        BY <4>1
      <4> QED
        BY <4>2, <4>3
    <3> QED
      BY <3>1, <3>2
  <2>3. Concatenation(s, k + 1, g)
    BY <2>2 DEF Concatenation
  <2> QED
    BY <2>3
<1>3. n \in T
  <2> HIDE DEF T
  <2>1. \A k \in 0 .. n : k \in T
    BY <1>1, <1>2, UpTo
  <2> QED
    BY <2>1
<1>4. ASSUME NEW f, Concatenation(s, n, f)
      PROVE  \A k \in 1 .. n : f[k] \in Seq(C)
  <2> DEFINE U == {k \in 0 .. n : k = 0 \/ f[k] \in Seq(C)}
  <2>1. 0 \in U
    OBVIOUS
  <2>2. ASSUME NEW k \in 0 .. n - 1, k \in U
        PROVE  k + 1 \in U
    <3>1. PICK j \in 1 .. n : j = k + 1
      OBVIOUS
    <3>2. f[j] = IF j = 1 THEN s[j] ELSE f[j - 1] \o s[j]
      BY <1>4, Zenon DEF Concatenation
    <3>3. j - 1 = k /\ s[j] \in Seq(C)
      BY <3>1
    <3>4. k = 0 \/ f[k] \in Seq(C)
      BY <2>2
    <3> HIDE DEF T, U
    <3>5. f[j] \in Seq(C)
      <4>1. CASE j = 1
        BY <3>2, <3>3, <4>1
      <4>2. CASE j # 1
        <5>1. f[j] = f[k] \o s[j]
          BY <3>2, <3>3, <4>2, Zenon
        <5>2. f[k] \in Seq(C)
          BY <3>1, <3>4, <4>2
        <5> QED
          BY <3>3, <5>1, <5>2
      <4> QED
        BY <4>1, <4>2
    <3>6. k + 1 \in 0 .. n /\ f[k + 1] \in Seq(C)
      <4>1. k + 1 \in 0 .. n
        OBVIOUS
      <4> QED
        BY <3>1, <3>5, <4>1, Zenon
    <3> QED
      BY <3>6, Zenon DEF U
  <2> HIDE DEF U
  <2>3. \A k \in 0 .. n : k \in U
    BY <2>1, <2>2, UpTo
  <2> QED
    BY <2>3 DEF U
<1> QED
  BY <1>3, <1>4

(* The contents that may occur in the input. *)
Symbols == UNION {ToSet(input[k]) : k \in DOMAIN input}

LEMMA InputType ==
    ASSUME input \in Inputs
    PROVE  /\ Len(input) \in Nat /\ DOMAIN input = 1 .. Len(input)
           /\ input \in Seq(Seq(Symbols))
           /\ \A k \in 1 .. Len(input) : /\ input[k] \in Seq(Symbols)
                                         /\ Len(input[k]) \in Nat \ {0}
<1>1. input \in Seq(ToSet(input)) /\ \A k \in DOMAIN input : input[k] \in Seq(ToSet(input[k])) \ {<<>>}
  BY PipelineAssumption
<1>2. Len(input) \in Nat /\ DOMAIN input = 1 .. Len(input)
  BY <1>1
<1>3. ASSUME NEW k \in 1 .. Len(input)
      PROVE  input[k] \in Seq(Symbols) /\ Len(input[k]) \in Nat \ {0}
  <2>1. input[k] \in Seq(ToSet(input[k])) /\ input[k] # <<>>
    BY <1>1, <1>2
  <2>2. ToSet(input[k]) \subseteq Symbols
    BY <1>2 DEF Symbols
  <2>3. Len(input[k]) \in Nat /\ \A j \in 1 .. Len(input[k]) : input[k][j] \in ToSet(input[k])
    BY <2>1
  <2>4. input[k] \in Seq(Symbols)
    BY <2>1, <2>2
  <2> QED
    BY <2>1, <2>3, <2>4
<1>4. \A k \in 1 .. Len(input) : input[k] \in Seq(Symbols)
  BY <1>3
<1>5. input \in Seq(Seq(Symbols))
  <2>1. PICK S : S = ToSet(input)
    OBVIOUS
  <2>2. input \in Seq(S)
    BY <1>1, <2>1
  <2> QED
    BY <1>2, <1>4, <2>2
<1> QED
  BY <1>2, <1>3, <1>5

LEMMA ChunkType ==
    ASSUME input \in Inputs
    PROVE  /\ Chunks \subseteq Chunk
           /\ \A c : c \in Chunks <=> /\ c = <<c[1], c[2]>> /\ c[1] \in 0 .. Len(input) - 1
                                      /\ c[2] \in 0 .. Len(input[c[1] + 1]) - 1
<1>1. /\ Len(input) \in Nat /\ DOMAIN input = 1 .. Len(input)
      /\ \A k \in 1 .. Len(input) : Len(input[k]) \in Nat
  BY InputType
<1>2. ASSUME NEW c \in Chunks
      PROVE  /\ c = <<c[1], c[2]>> /\ c[1] \in 0 .. Len(input) - 1
             /\ c[2] \in 0 .. Len(input[c[1] + 1]) - 1
  <2>1. PICK k \in 1 .. Len(input) : c \in {k - 1} \X (0 .. Len(input[k]) - 1)
    BY <1>1 DEF Chunks
  <2>2. c = <<c[1], c[2]>> /\ c[1] = k - 1 /\ c[2] \in 0 .. Len(input[k]) - 1
    BY <2>1
  <2>3. c[1] + 1 = k /\ c[1] \in 0 .. Len(input) - 1
    BY <1>1, <2>2
  <2> QED
    BY <2>2, <2>3
<1>3. ASSUME NEW c, c = <<c[1], c[2]>>, c[1] \in 0 .. Len(input) - 1,
             c[2] \in 0 .. Len(input[c[1] + 1]) - 1
      PROVE  c \in Chunks
  <2>1. c[1] + 1 \in 1 .. Len(input) /\ (c[1] + 1) - 1 = c[1]
    BY <1>1, <1>3
  <2>2. c \in {(c[1] + 1) - 1} \X (0 .. Len(input[c[1] + 1]) - 1)
    BY <1>3, <2>1
  <2> QED
    BY <1>1, <2>1, <2>2 DEF Chunks
<1>4. ASSUME NEW c \in Chunks
      PROVE  c \in Chunk
  <2>1. c[1] + 1 \in 1 .. Len(input) /\ c[1] \in Nat
    BY <1>1, <1>2
  <2>2. c[2] \in Nat
    BY <1>1, <1>2, <2>1
  <2> QED
    BY <1>2, <2>1, <2>2 DEF Chunk
<1> QED
  BY <1>2, <1>3, <1>4

LEMMA FlattenedType ==
    ASSUME input \in Inputs
    PROVE  /\ Concatenation(input, Len(input), flattened)
           /\ \A k \in 1 .. Len(input) : flattened[k] \in Seq(Symbols)
           /\ Len(input) # 0 => FlattenSeq(input) = flattened[Len(input)]
           /\ Len(input) = 0 => FlattenSeq(input) = input
<1> DEFINE n == Len(input)
<1>1. n \in Nat /\ \A k \in 1 .. n : input[k] \in Seq(Symbols)
  BY InputType
<1>2. flattened = CHOOSE f : Concatenation(input, n, f)
  BY Zenon DEF flattened, Concatenation
<1>3. Concatenation(input, n, flattened)
  <2> HIDE DEF n
  <2>1. \E f : Concatenation(input, n, f)
    BY <1>1, Concatenations
  <2> QED
    BY <1>2, <2>1, Zenon
<1>4. \A k \in 1 .. n : flattened[k] \in Seq(Symbols)
  <2> HIDE DEF n
  <2> QED
    BY <1>1, <1>3, Concatenations
<1>5. n # 0 => FlattenSeq(input) = flattened[n]
  BY Zenon DEF FlattenSeq, flattened
<1>6. n = 0 => FlattenSeq(input) = input
  BY Zenon DEF FlattenSeq
<1> QED
  BY <1>3, <1>4, <1>5, <1>6

(* Where coarse chunk k begins in the flattened input.                     *)
LEMMA Offsets ==
    ASSUME input \in Inputs
    PROVE  /\ Offset(0) = 0 /\ \A k \in 0 .. Len(input) : Offset(k) \in Nat
           /\ \A k \in 0 .. Len(input) - 1 :
                 /\ Offset(k + 1) = Offset(k) + Len(input[k + 1])
                 /\ \A i \in 1 .. Offset(k) : flattened[k + 1][i] = flattened[k][i]
                 /\ \A j \in 1 .. Len(input[k + 1]) :
                       flattened[k + 1][Offset(k) + j] = input[k + 1][j]
<1> PICK n \in Nat : n = Len(input)
  BY InputType
<1> PICK f : f = flattened
  OBVIOUS
<1>1. /\ \A k \in 1 .. n : input[k] \in Seq(Symbols)
      /\ \A k \in 1 .. n : f[k] \in Seq(Symbols)
  BY InputType, FlattenedType
<1>2. ASSUME NEW k \in 1 .. n
      PROVE  f[k] = IF k = 1 THEN input[k] ELSE f[k - 1] \o input[k]
  <2>1. Concatenation(input, n, f)
    BY FlattenedType
  <2> QED
    BY <2>1, Zenon DEF Concatenation
<1>3. Offset(0) = 0 /\ \A k \in 1 .. n : Offset(k) = Len(f[k])
  BY DEF Offset
<1>4. \A k \in 0 .. n : Offset(k) \in Nat
  <2>1. \A k \in 1 .. n : Len(f[k]) \in Nat
    BY <1>1
  <2>2. \A k \in 0 .. n : k = 0 \/ k \in 1 .. n
    OBVIOUS
  <2> QED
    BY <1>3, <2>1, <2>2
<1>5. ASSUME NEW k \in 0 .. n - 1
      PROVE  /\ Offset(k + 1) = Offset(k) + Len(input[k + 1])
             /\ \A i \in 1 .. Offset(k) : f[k + 1][i] = f[k][i]
             /\ \A j \in 1 .. Len(input[k + 1]) : f[k + 1][Offset(k) + j] = input[k + 1][j]
  <2>1. PICK m \in 1 .. n : m = k + 1 /\ m - 1 = k
    OBVIOUS
  <2>2. PICK t \in Seq(Symbols) : t = input[m]
    BY <1>1
  <2>3. PICK u \in Seq(Symbols) : u = f[m]
    BY <1>1
  <2>4. CASE k = 0
    <3>1. m = 1 /\ Offset(k) = 0 /\ u = t
      BY <1>2, <1>3, <2>1, <2>2, <2>3, <2>4
    <3>2. Offset(m) = Len(u)
      BY <1>3, <2>3
    <3>3. \A j \in 1 .. Len(t) : 0 + j = j
      OBVIOUS
    <3> QED
      BY <2>1, <2>2, <2>3, <3>1, <3>2, <3>3
  <2>5. CASE k # 0
    <3>1. PICK r \in Seq(Symbols) : r = f[k]
      BY <1>1, <2>5
    <3>2. u = r \o t
      <4>1. m # 1
        BY <2>1, <2>5
      <4>2. f[m] = f[m - 1] \o input[m]
        BY <1>2, <4>1, Zenon
      <4> QED
        BY <2>1, <2>2, <2>3, <3>1, <4>2, Zenon
    <3>3. /\ Len(u) = Len(r) + Len(t) /\ \A i \in 1 .. Len(r) : u[i] = r[i]
          /\ \A j \in 1 .. Len(t) : u[Len(r) + j] = t[j]
      <4>1. \A j \in 1 .. Len(t) : Len(r) + j \in Len(r) + 1 .. Len(r) + Len(t)
        OBVIOUS
      <4> QED
        BY <3>2, <4>1
    <3>4. Offset(k) = Len(r) /\ Offset(m) = Len(u)
      BY <1>3, <2>3, <2>5, <3>1
    <3> QED
      BY <2>1, <2>2, <2>3, <3>1, <3>3, <3>4
  <2> QED
    BY <2>4, <2>5
<1> QED
  BY <1>3, <1>4, <1>5

(* Each chunk is at its place in the flattened input.                      *)
LEMMA FlatAt ==
    ASSUME input \in Inputs
    PROVE  /\ Len(FlattenSeq(input)) = Offset(Len(input))
           /\ \A c \in Chunks : /\ Offset(c[1]) + c[2] + 1 \in 1 .. Offset(Len(input))
                                /\ FlattenSeq(input)[Offset(c[1]) + c[2] + 1] = Content(c)
<1> PICK n \in Nat : n = Len(input)
  BY InputType
<1> PICK f : f = flattened
  OBVIOUS
<1>1. Len(FlattenSeq(input)) = Offset(n)
  <2>1. CASE n = 0
    BY <2>1, FlattenedType, Offsets
  <2>2. CASE n # 0
    BY <2>2, FlattenedType DEF Offset
  <2> QED
    BY <2>1, <2>2
<1>2. ASSUME NEW c \in Chunks
      PROVE  /\ Offset(c[1]) + c[2] + 1 \in 1 .. Offset(n)
             /\ FlattenSeq(input)[Offset(c[1]) + c[2] + 1] = Content(c)
  <2>1. c[1] \in 0 .. n - 1 /\ c[2] \in 0 .. Len(input[c[1] + 1]) - 1
    BY ChunkType
  <2>2. PICK a \in 0 .. n - 1 : a = c[1]
    BY <2>1
  <2>3. PICK l \in Nat : l = Len(input[a + 1])
    BY InputType
  <2>4. PICK j \in 1 .. l : j = c[2] + 1
    BY <2>1, <2>2, <2>3
  <2>5. PICK o \in Nat : o = Offset(a)
    BY Offsets
  <2>6. \A k \in 0 .. n : Offset(k) \in Nat
    BY Offsets
  <2> DEFINE T == {d \in 0 .. n - 1 - a : o + j <= Offset(a + 1 + d)
                                          /\ f[a + 1 + d][o + j] = input[a + 1][j]}
  <2>7. 0 \in T
    <3>1. Offset(a + 1) = o + l /\ f[a + 1][o + j] = input[a + 1][j]
      BY <2>3, <2>4, <2>5, Offsets
    <3>2. a + 1 + 0 = a + 1 /\ 0 \in 0 .. n - 1 - a /\ o + j <= o + l
      OBVIOUS
    <3> QED
      BY <3>1, <3>2
  <2>8. ASSUME NEW d \in 0 .. (n - 1 - a) - 1, d \in T
        PROVE  d + 1 \in T
    <3>1. PICK k \in 0 .. n - 1 : k = a + 1 + d /\ k + 1 = a + 1 + (d + 1)
      <4>1. a + 1 + d \in 0 .. n - 1 /\ (a + 1 + d) + 1 = a + 1 + (d + 1)
        OBVIOUS
      <4> QED
        BY <4>1
    <3>2. o + j <= Offset(k) /\ f[k][o + j] = input[a + 1][j]
      BY <2>8, <3>1
    <3>3. Offset(k) \in Nat /\ Len(input[k + 1]) \in Nat
      BY <2>6, InputType
    <3>4. /\ Offset(k + 1) = Offset(k) + Len(input[k + 1])
          /\ \A i \in 1 .. Offset(k) : f[k + 1][i] = f[k][i]
      BY Offsets
    <3>5. o + j \in 1 .. Offset(k) /\ o + j <= Offset(k + 1)
      BY <3>2, <3>3, <3>4
    <3>6. f[k + 1][o + j] = input[a + 1][j]
      BY <3>2, <3>4, <3>5
    <3>7. d + 1 \in 0 .. n - 1 - a
      OBVIOUS
    <3> QED
      BY <3>1, <3>5, <3>6, <3>7
  <2>9. o + j <= Offset(n) /\ f[n][o + j] = input[a + 1][j]
    <3>1. n - 1 - a \in Nat
      OBVIOUS
    <3> HIDE DEF T
    <3>2. \A d \in 0 .. n - 1 - a : d \in T
      BY <2>7, <2>8, <3>1, UpTo
    <3>3. n - 1 - a \in T
      BY <3>1, <3>2
    <3>4. a + 1 + (n - 1 - a) = n
      OBVIOUS
    <3> QED
      BY <3>3, <3>4 DEF T
  <2>10. FlattenSeq(input) = f[n] /\ Offset(n) \in Nat
    BY <2>1, <2>6, FlattenedType
  <2>11. Offset(c[1]) + c[2] + 1 = o + j
    BY <2>1, <2>2, <2>4, <2>5
  <2>12. Content(c) = input[a + 1][j]
    BY <2>2, <2>4 DEF Content
  <2>13. o + j \in 1 .. Offset(n)
    BY <2>9, <2>10
  <2> QED
    BY <2>9, <2>10, <2>11, <2>12, <2>13
<1> QED
  BY <1>1, <1>2

(* What only depends on the input.                                         *)
LEMMA InputSame ==
    ASSUME input' = input
    PROVE  /\ Chunks' = Chunks /\ Contents' = Contents
           /\ \A c : Content(c)' = Content(c) /\ isLastL2Chunk(c)' = isLastL2Chunk(c)
           /\ \A k : Offset(k)' = Offset(k)
<1>1. Chunks' = Chunks /\ \A c : Content(c)' = Content(c) /\ isLastL2Chunk(c)' = isLastL2Chunk(c)
  BY DEF Chunks, Content, isLastL2Chunk
<1>2. Contents' = Contents
  BY <1>1 DEF Contents
<1>3. \A k : Offset(k)' = Offset(k)
  BY DEF Offset, flattened
<1> QED
  BY <1>1, <1>2, <1>3

-------------------------------------------------------------------------------
(* The buffers and what they hold.                                         *)

OfThreads == {"cut", "fresh", "compress", "reorder", "raw", "ready"}

OfQueues == {"deduplicate_que", "compress_que", "reorder_que"}

LEMMA BufferCases ==
    ASSUME NEW p
    PROVE  p \in Buffers <=> /\ p = <<p[1], p[2]>>
                             /\ \/ p[1] \in OfThreads /\ p[2] \in Threads
                                \/ p[1] \in OfQueues /\ p[2] \in Queues
                                \/ p[1] = "recv" /\ p[2] = 0
BY DEF Buffers, OfThreads, OfQueues

LEMMA LineType ==
    ASSUME PipelineInv, NEW p \in Buffers
    PROVE  Line(p) \in Seq(Chunk)
<1>1. /\ refiner \in Refiners /\ deduper \in Dedupers /\ compressor \in Compressors
      /\ deduplicate_que \in [Queues -> QueueOf(Chunk)]
      /\ compress_que \in [Queues -> QueueOf(Chunk)]
      /\ reorder_que \in [Queues -> QueueOf(Chunk)]
      /\ reorder.recv \in Seq(Chunk)
  BY DEF PipelineInv, RefineOK, DedupOK, CompressOK, ReorderOK, Reorders
<1>2. CASE p[1] \in OfThreads /\ p[2] \in Threads
  BY <1>1, <1>2 DEF Line, OfThreads, Refiners, Dedupers, Compressors
<1>3. CASE p[1] \in OfQueues /\ p[2] \in Queues
  BY <1>1, <1>3 DEF Line, OfQueues, QueueOf
<1>4. CASE p[1] = "recv" /\ p[2] = 0
  BY <1>1, <1>4 DEF Line
<1> QED
  BY <1>2, <1>3, <1>4, BufferCases

LEMMA LinesType ==
    ASSUME PipelineInv
    PROVE  lines \in [Buffers -> Seq(Chunk)]
BY LineType DEF lines

(* Each step changes the lines of two places at most.                      *)
LEMMA LinesMove ==
    ASSUME NEW x \in Buffers, NEW y \in Buffers, x # y, NEW n,
           Line(x)' = SubSeq(Line(x), n + 1, Len(Line(x))),
           Line(y)' = Line(y) \o SubSeq(Line(x), 1, n),
           \A p \in Buffers : p # x /\ p # y => Line(p)' = Line(p)
    PROVE  Moves(lines, lines', x, y, n)
<1> DEFINE g == [lines EXCEPT ![x] = SubSeq(lines[x], n + 1, Len(lines[x])),
                              ![y] = lines[y] \o SubSeq(lines[x], 1, n)]
<1>1. lines = [p \in Buffers |-> Line(p)] /\ lines' = [p \in Buffers |-> Line(p)']
  BY DEF lines
<1>2. lines[x] = Line(x) /\ lines[y] = Line(y)
  BY <1>1
<1>3. \A p \in Buffers : g[p] = Line(p)'
  BY <1>1, <1>2
<1>4. lines' = g
  BY <1>1, <1>3
<1> QED
  BY <1>4 DEF Moves

LEMMA LinesSame ==
    ASSUME \A p \in Buffers : Line(p)' = Line(p)
    PROVE  lines' = lines
BY DEF lines

(* A chunk is in one place, and moves to another.                          *)
LEMMA InShift ==
    ASSUME NEW f, NEW g, NEW S, NEW x \in Places, NEW y \in Places, x # y, NEW M, NEW K,
           Parts(Places, f, S), Shifted(Places, f, g, x, y, M), NEW c
    PROVE  /\ c \in M => (In(K, f, c) <=> x[1] \in K) /\ (In(K, g, c) <=> y[1] \in K)
           /\ c \notin M => (In(K, g, c) <=> In(K, f, c))
<1>1. \A p, r \in Places : c \in f[p] /\ c \in f[r] => p = r
  BY DEF Parts
<1>2. /\ M \subseteq f[x] /\ g[x] = f[x] \ M /\ g[y] = f[y] \cup M
      /\ \A p \in Places : p # x /\ p # y => g[p] = f[p]
  BY DEF Shifted
<1>3. CASE c \in M
  <2>1. \A p \in Places : c \in f[p] <=> p = x
    BY <1>1, <1>2, <1>3
  <2>2. \A p \in Places : c \in g[p] <=> p = y
    BY <1>2, <1>3, <2>1
  <2> QED
    BY <1>3, <2>1, <2>2 DEF In
<1>4. CASE c \notin M
  <2>1. \A p \in Places : c \in g[p] <=> c \in f[p]
    BY <1>2, <1>4
  <2> QED
    BY <1>4, <2>1 DEF In
<1> QED
  BY <1>3, <1>4

LEMMA PlacesAt ==
    /\ Buffers \subseteq Places
    /\ \A p \in Places \ Buffers : p \in {<<"input", 0>>, <<"held", 0>>, <<"chunk", 0>>, <<"archive", 0>>}
    /\ {<<"input", 0>>, <<"held", 0>>, <<"chunk", 0>>, <<"archive", 0>>} \cap Buffers = {}
    /\ \A p \in Buffers : chunksAt[p] = ToSet(lines[p])
    /\ chunksAt[<<"input", 0>>] = Uncut /\ chunksAt[<<"held", 0>>] = reorder.held
    /\ chunksAt[<<"chunk", 0>>] = {reorder.chunk} \ {None}
    /\ chunksAt[<<"archive", 0>>] = Written
<1>1. {<<"input", 0>>, <<"held", 0>>, <<"chunk", 0>>, <<"archive", 0>>} \cap Buffers = {}
  BY DEF Buffers
<1>2. \A p \in Buffers : p \in Places /\ chunksAt[p] = ToSet(lines[p])
  BY DEF chunksAt, Places
<1>3. chunksAt[<<"input", 0>>] = Uncut
  BY <1>1 DEF chunksAt, Places
<1>4. chunksAt[<<"held", 0>>] = reorder.held
  BY <1>1 DEF chunksAt, Places
<1>5. chunksAt[<<"chunk", 0>>] = {reorder.chunk} \ {None}
  BY <1>1 DEF chunksAt, Places
<1>6. chunksAt[<<"archive", 0>>] = Written
  BY <1>1 DEF chunksAt, Places
<1> QED
  BY <1>1, <1>2, <1>3, <1>4, <1>5, <1>6 DEF Places

-------------------------------------------------------------------------------
(* What becomes of the parts of the invariant.                             *)

(* Reorder keeps the chunks it has, or goes on to its flush, or stops.     *)
ReorderKeeps ==
    /\ reorder'.held = reorder.held /\ reorder'.chunk = reorder.chunk
    /\ reorder'.next = reorder.next
    /\ \/ reorder'.phase = reorder.phase /\ (reorder'.recv = reorder.recv \/ reorder.phase = "run")
       \/ reorder'.phase = "flush" /\ reorder'.recv = <<>> /\ reorder.chunk = None
          /\ reorder.phase = "run"
       \/ reorder'.phase = "overrun"

LEMMA CoarseFrame ==
    ASSUME CoarseOK, input' = input, fragment'.anchorcount = fragment.anchorcount,
           \A q \in Queues : refine_que'[q].items = refine_que[q].items,
           \A t \in Threads : /\ refiner'[t].recv = refiner[t].recv
                              /\ refiner'[t].chcount = refiner[t].chcount
    PROVE  CoarseOK' /\ Uncut' = Uncut
<1>1. CoarseOK'
  BY DEF CoarseOK
<1>2. Uncut' = Uncut
  BY InputSame DEF Uncut, InHand
<1> QED
  BY <1>1, <1>2

LEMMA WrittenFrame ==
    ASSUME input' = input, reorder'.next = reorder.next
    PROVE  Written' = Written
BY InputSame DEF Written

LEMMA ChunksShift ==
    ASSUME ChunksOK, input' = input, NEW x \in Places, NEW y \in Places, x # y, NEW M,
           Shifted(Places, chunksAt, chunksAt', x, y, M),
           \A p \in Buffers : Distinct(lines'[p])
    PROVE  ChunksOK'
<1>1. Parts(Places, chunksAt, Chunks)
  BY DEF ChunksOK
<1>2. Parts(Places, chunksAt', Chunks)
  BY <1>1, PartsShift
<1>3. Chunks' = Chunks
  BY InputSame
<1> QED
  BY <1>2, <1>3 DEF ChunksOK

(* A stage moves chunks between two buffers.                               *)
LEMMA StageMoves ==
    ASSUME PipelineInv, ChunksOK, input' = input, NEW x \in Buffers, NEW y \in Buffers, x # y,
           NEW n \in 0 .. Len(lines[x]), Moves(lines, lines', x, y, n),
           Uncut' = Uncut, reorder'.held = reorder.held,
           reorder'.chunk = reorder.chunk, reorder'.next = reorder.next
    PROVE  /\ ChunksOK'
           /\ Shifted(Places, chunksAt, chunksAt', x, y, ToSet(SubSeq(lines[x], 1, n)))
<1>1. lines \in [Buffers -> Seq(Chunk)] /\ \A p \in Buffers : Distinct(lines[p])
  BY LinesType DEF ChunksOK
<1>2. ToSet(lines[x]) \cap ToSet(lines[y]) = {}
  BY PlacesAt DEF ChunksOK, Parts
<1> PICK M : M = ToSet(SubSeq(lines[x], 1, n))
  OBVIOUS
<1>3. /\ \A p \in Buffers : Distinct(lines'[p])
      /\ M \subseteq ToSet(lines[x]) /\ ToSet(lines'[x]) = ToSet(lines[x]) \ M
      /\ ToSet(lines'[y]) = ToSet(lines[y]) \cup M
      /\ \A p \in Buffers : p # x /\ p # y => lines'[p] = lines[p]
  <2>1. Transferred(lines, lines', x, y, M)
    BY <1>1, <1>2, MovePrefix
  <2> QED
    BY <2>1 DEF Transferred
<1>4. Written' = Written
  BY WrittenFrame
<1>5. \A p \in Buffers : chunksAt[p] = ToSet(lines[p]) /\ chunksAt'[p] = ToSet(lines'[p])
  BY PlacesAt DEF chunksAt, Places
<1>6. \A p \in Places \ Buffers : chunksAt'[p] = chunksAt[p]
  BY <1>4 DEF chunksAt
<1>7. Shifted(Places, chunksAt, chunksAt', x, y, M)
  <2>1. /\ M \subseteq chunksAt[x] /\ chunksAt'[x] = chunksAt[x] \ M
        /\ chunksAt'[y] = chunksAt[y] \cup M
    BY <1>3, <1>5
  <2>2. \A p \in Places : p # x /\ p # y => chunksAt'[p] = chunksAt[p]
    BY <1>3, <1>5, <1>6
  <2> QED
    BY <2>1, <2>2 DEF Shifted
<1>8. x \in Places /\ y \in Places
  BY PlacesAt
<1> QED
  BY <1>3, <1>7, <1>8, ChunksShift

LEMMA OrderFrame ==
    ASSUME OrderOK, input' = input, chunks_per_anchor' = chunks_per_anchor, ReorderKeeps,
           \A c : Taken(c)' => Taken(c)
    PROVE  OrderOK'
<1>1. Chunks' = Chunks /\ \A c : isLastL2Chunk(c)' = isLastL2Chunk(c)
  BY InputSame
<1>2. reorder'.phase \in Ending => reorder'.recv = <<>> /\ reorder'.chunk = None
  BY DEF OrderOK, ReorderKeeps, Ending
<1>3. /\ reorder'.next \in Chunks \cup {<<Len(input), 0>>}
      /\ reorder'.chunk # None => reorder'.chunk = reorder'.next
  BY DEF OrderOK, ReorderKeeps
<1> QED
  BY <1>1, <1>2, <1>3 DEF OrderOK

LEMMA LengthFrame ==
    ASSUME LengthOK, input' = input, archive' = archive, ReorderKeeps
    PROVE  LengthOK'
BY InputSame DEF LengthOK, ReorderKeeps

LEMMA DataFrame ==
    ASSUME DataOK, input' = input, UNCHANGED <<cache, original, state, archive>>,
           \A c : (Unseen(c)' <=> Unseen(c)) /\ (ToCompress(c)' => ToCompress(c))
    PROVE  DataOK'
<1>1. Chunks' = Chunks /\ Contents' = Contents /\ \A c : Content(c)' = Content(c)
  BY InputSame
<1>2. Archived' = Archived
  BY DEF Archived
<1> QED
  BY <1>1, <1>2 DEF DataOK

(* Nothing moves that has been cut.                                        *)
LEMMA NothingMoves ==
    ASSUME ArchiveInv, PipelineInv', CoarseOK', input' = input, Uncut' = Uncut,
           \A p \in Buffers : Line(p)' = Line(p), ReorderKeeps,
           UNCHANGED <<cache, original, state, chunks_per_anchor, archive>>
    PROVE  ArchiveInv'
<1>1. lines' = lines /\ Written' = Written
  BY LinesSame, WrittenFrame DEF ReorderKeeps
<1>2. chunksAt' = chunksAt
  BY <1>1 DEF chunksAt, ReorderKeeps
<1>3. \A c : /\ Taken(c)' = Taken(c) /\ Unseen(c)' = Unseen(c)
             /\ ToCompress(c)' = ToCompress(c)
  BY <1>2 DEF Taken, Unseen, ToCompress, In
<1>4. ChunksOK'
  BY <1>1, <1>2, InputSame DEF ArchiveInv, ChunksOK
<1>5. OrderOK' /\ LengthOK'
  BY <1>3, OrderFrame, LengthFrame DEF ArchiveInv
<1>6. DataOK'
  BY <1>3, DataFrame DEF ArchiveInv
<1> QED
  BY <1>4, <1>5, <1>6 DEF ArchiveInv

(* Chunks move between two buffers on the same side of Deduplicate and of  *)
(* Compress.                                                               *)
SameSide(x, y) ==
    /\ x[1] \in {"cut", "deduplicate_que", "fresh"} <=> y[1] \in {"cut", "deduplicate_que", "fresh"}
    /\ y[1] \in {"compress", "compress_que", "raw"} => x[1] \in {"compress", "compress_que", "raw"}

LEMMA ChunksMove ==
    ASSUME ArchiveInv, PipelineInv', CoarseOK', input' = input, Uncut' = Uncut, ReorderKeeps,
           NEW x \in Buffers, NEW y \in Buffers, x # y, SameSide(x, y),
           NEW n \in 0 .. Len(Line(x)),
           Line(x)' = SubSeq(Line(x), n + 1, Len(Line(x))),
           Line(y)' = Line(y) \o SubSeq(Line(x), 1, n),
           \A p \in Buffers : p # x /\ p # y => Line(p)' = Line(p),
           UNCHANGED <<cache, original, state, chunks_per_anchor, archive>>
    PROVE  ArchiveInv'
<1> PICK M : M = ToSet(SubSeq(lines[x], 1, n))
  OBVIOUS
<1>1. Moves(lines, lines', x, y, n) /\ n \in 0 .. Len(lines[x])
  <2>1. lines[x] = Line(x)
    BY DEF lines
  <2> QED
    BY <2>1, LinesMove
<1>2. ChunksOK' /\ Shifted(Places, chunksAt, chunksAt', x, y, M)
  BY <1>1, StageMoves DEF ArchiveInv, ReorderKeeps
<1>3. x \in Places /\ y \in Places /\ Parts(Places, chunksAt, Chunks)
  BY PlacesAt DEF ArchiveInv, ChunksOK
<1>4. \A K, c : /\ c \in M => /\ In(K, chunksAt, c) <=> x[1] \in K
                              /\ In(K, chunksAt', c) <=> y[1] \in K
                /\ c \notin M => (In(K, chunksAt', c) <=> In(K, chunksAt, c))
  BY <1>2, <1>3, InShift
<1>5. \A c : In({"held", "chunk", "archive"}, chunksAt', c)
             => In({"held", "chunk", "archive"}, chunksAt, c)
  <2>1. y[1] \notin {"held", "chunk", "archive"}
    BY BufferCases DEF OfThreads, OfQueues
  <2> QED
    BY <1>4, <2>1
<1>6. \A c : In({"input", "cut", "deduplicate_que", "fresh"}, chunksAt', c)
             <=> In({"input", "cut", "deduplicate_que", "fresh"}, chunksAt, c)
  <2>1. x[1] \in {"input", "cut", "deduplicate_que", "fresh"}
        <=> y[1] \in {"input", "cut", "deduplicate_que", "fresh"}
    BY BufferCases DEF OfThreads, OfQueues, SameSide
  <2> QED
    BY <1>4, <2>1
<1>7. \A c : In({"compress", "compress_que", "raw"}, chunksAt', c)
             => In({"compress", "compress_que", "raw"}, chunksAt, c)
  BY <1>4 DEF SameSide
<1>8. \A c : /\ Taken(c)' => Taken(c)
             /\ Unseen(c)' <=> Unseen(c)
             /\ ToCompress(c)' => ToCompress(c)
  BY <1>5, <1>6, <1>7 DEF Taken, Unseen, ToCompress, In
<1>9. OrderOK' /\ LengthOK'
  BY <1>8, OrderFrame, LengthFrame DEF ArchiveInv
<1>10. DataOK'
  BY <1>8, DataFrame DEF ArchiveInv
<1> QED
  BY <1>2, <1>9, <1>10 DEF ArchiveInv

-------------------------------------------------------------------------------
(* The steps that move chunks between two buffers.                         *)

(* What a call moves, and that it is a part of the buffer.                 *)
Sends(que, buf, n) ==
    /\ Enqueued(que, buf).items = que.items \o SubSeq(buf, 1, n)
    /\ Unsent(que, buf) = SubSeq(buf, n + 1, Len(buf))

Fetches(que, limit, n) ==
    /\ Batch(que, limit) = <<>> \o SubSeq(que.items, 1, n)
    /\ Dequeued(que, limit).items = SubSeq(que.items, n + 1, Len(que.items))

LEMMA EnqueueMoves ==
    ASSUME NEW S, NEW que \in QueueOf(S), NEW buf \in Seq(S), HasRoom(que)
    PROVE  \E n \in 0 .. Len(buf) : Sends(que, buf, n)
<1>1. PICK s \in Seq(S) : s = que.items
  BY DEF QueueOf
<1>2. PICK n \in 0 .. Len(buf) : n = Moved(que, buf)
  BY <1>1, PositiveConstants DEF Lesser, Moved, HasRoom
<1>3. Enqueued(que, buf).items = que.items \o SubSeq(buf, 1, n)
  BY <1>2 DEF Enqueued, QueueOf
<1> QED
  BY <1>2, <1>3 DEF Unsent, Sends

LEMMA DequeueMoves ==
    ASSUME NEW S, NEW que \in QueueOf(S), NEW limit \in Nat \ {0}
    PROVE  \E n \in 0 .. Len(que.items) : Fetches(que, limit, n)
<1>1. PICK s \in Seq(S) : s = que.items
  BY DEF QueueOf
<1>2. PICK n \in 0 .. Len(s) : n = Lesser(limit, Len(s))
  BY DEF Lesser
<1>3. Batch(que, limit) = SubSeq(s, 1, n) /\ Dequeued(que, limit).items = SubSeq(s, n + 1, Len(s))
  BY <1>1, <1>2 DEF Batch, Dequeued, QueueOf
<1>4. SubSeq(s, 1, n) \in Seq(S)
  OBVIOUS
<1>5. <<>> \o SubSeq(s, 1, n) = SubSeq(s, 1, n)
  BY <1>4, ConcatEmptySeq
<1> QED
  BY <1>1, <1>3, <1>5 DEF Fetches

LEMMA RefineSendMoves ==
    ASSUME ArchiveInv, PipelineInv', NEW t \in Threads, RefineSend(t)
    PROVE  ArchiveInv'
<1>1. PICK q \in Queues : q = qid(t)
  BY GroupSize
<1>2. /\ HasRoom(deduplicate_que[q])
      /\ deduplicate_que' =
            [deduplicate_que EXCEPT ![q] = Enqueued(deduplicate_que[q], refiner[t].send)]
      /\ refiner' = [refiner EXCEPT ![t].send = Unsent(deduplicate_que[q], refiner[t].send)]
      /\ UNCHANGED <<refine_que, refineUnchanged>>
  BY <1>1 DEF RefineSend
<1>3. /\ refiner \in Refiners /\ refiner[t].send \in Seq(Chunk)
      /\ deduplicate_que \in [Queues -> QueueOf(Chunk)]
  BY DEF ArchiveInv, PipelineInv, RefineOK, Refiners
<1> DEFINE x == <<"cut", t>>
           y == <<"deduplicate_que", q>>
<1>4. x \in Buffers /\ y \in Buffers /\ x # y /\ SameSide(x, y)
  BY BufferCases DEF OfThreads, OfQueues, SameSide
<1>5. Line(x) = refiner[t].send /\ Line(y) = deduplicate_que[q].items
  BY DEF Line
<1>6. \E n \in 0 .. Len(Line(x)) : /\ Line(x)' = SubSeq(Line(x), n + 1, Len(Line(x)))
                                   /\ Line(y)' = Line(y) \o SubSeq(Line(x), 1, n)
  <2>0. deduplicate_que[q] \in QueueOf(Chunk)
    BY <1>3
  <2>1. PICK n \in 0 .. Len(refiner[t].send) : Sends(deduplicate_que[q], refiner[t].send, n)
    BY <1>2, <1>3, <2>0, EnqueueMoves
  <2>2. Line(x)' = Unsent(deduplicate_que[q], refiner[t].send)
    BY <1>2, <1>3 DEF Line, Refiners
  <2>3. Line(y)' = Enqueued(deduplicate_que[q], refiner[t].send).items
    BY <1>2, <1>3 DEF Line
  <2> QED
    BY <1>5, <2>1, <2>2, <2>3 DEF Sends
<1>7. \A p \in Buffers : p # x /\ p # y => Line(p)' = Line(p)
  BY <1>2, <1>3, BufferCases DEF Line, OfThreads, OfQueues, refineUnchanged, Refiners
<1>8. CoarseOK' /\ Uncut' = Uncut
  <2>1. \A u \in Threads : /\ refiner'[u].recv = refiner[u].recv
                           /\ refiner'[u].chcount = refiner[u].chcount
    BY <1>2, <1>3 DEF Refiners
  <2> QED
    BY <1>2, <2>1, CoarseFrame DEF ArchiveInv, refineUnchanged
<1>9. /\ input' = input /\ ReorderKeeps
      /\ UNCHANGED <<cache, original, state, chunks_per_anchor, archive>>
  BY <1>2 DEF refineUnchanged, ReorderKeeps
<1> HIDE DEF x, y
<1> QED
  BY <1>4, <1>6, <1>7, <1>8, <1>9, ChunksMove

LEMMA RefineTerminateMoves ==
    ASSUME ArchiveInv, PipelineInv', NEW t \in Threads, RefineTerminate(t)
    PROVE  ArchiveInv'
<1>1. PICK q \in Queues : q = qid(t)
  BY GroupSize
<1>2. /\ refiner \in Refiners /\ deduplicate_que \in [Queues -> QueueOf(Chunk)]
      /\ deduplicate_que' = [deduplicate_que EXCEPT ![q] = queue_terminate(deduplicate_que[q])]
      /\ refiner' = [refiner EXCEPT ![t].done = TRUE] /\ UNCHANGED <<refine_que, refineUnchanged>>
  BY <1>1 DEF RefineTerminate, ArchiveInv, PipelineInv, RefineOK, DedupOK, CompressOK
<1>3. \A p \in Buffers : Line(p)' = Line(p)
  <2>1. \A r \in Queues : deduplicate_que'[r].items = deduplicate_que[r].items
    BY <1>2 DEF queue_terminate, QueueOf
  <2> QED
    BY <1>2, <2>1, BufferCases DEF Line, OfThreads, OfQueues, refineUnchanged, Refiners
<1>4. CoarseOK' /\ Uncut' = Uncut
  <2>1. \A u \in Threads : /\ refiner'[u].recv = refiner[u].recv
                           /\ refiner'[u].chcount = refiner[u].chcount
    BY <1>2 DEF refineUnchanged, Refiners
  <2> QED
    BY <1>2, <2>1, CoarseFrame DEF ArchiveInv, refineUnchanged
<1>5. /\ input' = input /\ ReorderKeeps
      /\ UNCHANGED <<cache, original, state, chunks_per_anchor, archive>>
  BY <1>2 DEF refineUnchanged, ReorderKeeps
<1> QED
  BY <1>3, <1>4, <1>5, NothingMoves

LEMMA DedupFetchMoves ==
    ASSUME ArchiveInv, PipelineInv', NEW t \in Threads, DedupFetch(t)
    PROVE  ArchiveInv'
<1>1. PICK q \in Queues : q = qid(t)
  BY GroupSize
<1>2. /\ deduper \in Dedupers /\ deduplicate_que \in [Queues -> QueueOf(Chunk)]
      /\ deduper[t].recv = <<>> /\ UNCHANGED <<compress_que, reorder_que, cache, original, dedupUnchanged>>
  BY DEF DedupFetch, ArchiveInv, PipelineInv, RefineOK, DedupOK, CompressOK
<1>3. CoarseOK' /\ Uncut' = Uncut
  BY <1>2, CoarseFrame DEF ArchiveInv, dedupUnchanged
<1>4. /\ input' = input /\ ReorderKeeps
      /\ UNCHANGED <<cache, original, state, chunks_per_anchor, archive>>
  BY <1>2 DEF dedupUnchanged, ReorderKeeps
<1>5. CASE /\ deduplicate_que' = [deduplicate_que EXCEPT ![q] = Dequeued(deduplicate_que[q], CHUNK_ANCHOR)]
           /\ deduper' = [deduper EXCEPT ![t].recv = Batch(deduplicate_que[q], CHUNK_ANCHOR)]
  <2> DEFINE x == <<"deduplicate_que", q>>
             y == <<"fresh", t>>
  <2>1. x \in Buffers /\ y \in Buffers /\ x # y /\ SameSide(x, y)
    BY BufferCases DEF OfThreads, OfQueues, SameSide
  <2>2. Line(x) = deduplicate_que[q].items /\ Line(y) = <<>>
    BY <1>2 DEF Line
  <2>3. \E n \in 0 .. Len(Line(x)) : /\ Line(x)' = SubSeq(Line(x), n + 1, Len(Line(x)))
                                     /\ Line(y)' = Line(y) \o SubSeq(Line(x), 1, n)
    <3>1. deduplicate_que[q] \in QueueOf(Chunk)
      BY <1>2
    <3>2. PICK n \in 0 .. Len(deduplicate_que[q].items) : Fetches(deduplicate_que[q], CHUNK_ANCHOR, n)
      BY <3>1, DequeueMoves, PositiveConstants
    <3>3. Line(x)' = Dequeued(deduplicate_que[q], CHUNK_ANCHOR).items
      BY <1>2, <1>5 DEF Line
    <3>4. Line(y)' = Batch(deduplicate_que[q], CHUNK_ANCHOR)
      BY <1>2, <1>5 DEF Line, Dedupers
    <3> QED
      BY <2>2, <3>2, <3>3, <3>4 DEF Fetches
  <2>4. \A p \in Buffers : p # x /\ p # y => Line(p)' = Line(p)
    BY <1>2, <1>5, BufferCases DEF Line, OfThreads, OfQueues, dedupUnchanged, Dedupers
  <2> HIDE DEF x, y
  <2> QED
    BY <1>3, <1>4, <2>1, <2>3, <2>4, ChunksMove
<1>6. CASE deduper' = [deduper EXCEPT ![t].ended = TRUE] /\ UNCHANGED deduplicate_que
  <2>1. \A p \in Buffers : Line(p)' = Line(p)
    BY <1>2, <1>6, BufferCases DEF Line, OfThreads, OfQueues, dedupUnchanged, Dedupers
  <2> QED
    BY <1>3, <1>4, <2>1, NothingMoves
<1> QED
  BY <1>1, <1>5, <1>6 DEF DedupFetch

LEMMA DedupSendCompressMoves ==
    ASSUME ArchiveInv, PipelineInv', NEW t \in Threads, DedupSendCompress(t)
    PROVE  ArchiveInv'
<1>1. PICK q \in Queues : q = qid(t)
  BY GroupSize
<1>2. /\ HasRoom(compress_que[q])
      /\ compress_que' =
            [compress_que EXCEPT ![q] = Enqueued(compress_que[q], deduper[t].compress)]
      /\ deduper' = [deduper EXCEPT ![t].compress = Unsent(compress_que[q], deduper[t].compress)]
      /\ UNCHANGED <<deduplicate_que, reorder_que, cache, original, dedupUnchanged>>
  BY <1>1 DEF DedupSendCompress
<1>3. /\ deduper \in Dedupers /\ deduper[t].compress \in Seq(Chunk)
      /\ compress_que \in [Queues -> QueueOf(Chunk)]
  BY DEF ArchiveInv, PipelineInv, DedupOK, CompressOK, Dedupers
<1> DEFINE x == <<"compress", t>>
           y == <<"compress_que", q>>
<1>4. x \in Buffers /\ y \in Buffers /\ x # y /\ SameSide(x, y)
  BY BufferCases DEF OfThreads, OfQueues, SameSide
<1>5. Line(x) = deduper[t].compress /\ Line(y) = compress_que[q].items
  BY DEF Line
<1>6. \E n \in 0 .. Len(Line(x)) : /\ Line(x)' = SubSeq(Line(x), n + 1, Len(Line(x)))
                                   /\ Line(y)' = Line(y) \o SubSeq(Line(x), 1, n)
  <2>1. compress_que[q] \in QueueOf(Chunk)
    BY <1>3
  <2>2. PICK n \in 0 .. Len(deduper[t].compress) : Sends(compress_que[q], deduper[t].compress, n)
    BY <1>2, <1>3, <2>1, EnqueueMoves
  <2>3. Line(x)' = Unsent(compress_que[q], deduper[t].compress)
    BY <1>2, <1>3 DEF Line, Dedupers
  <2>4. Line(y)' = Enqueued(compress_que[q], deduper[t].compress).items
    BY <1>2, <1>3 DEF Line
  <2> QED
    BY <1>5, <2>2, <2>3, <2>4 DEF Sends
<1>7. \A p \in Buffers : p # x /\ p # y => Line(p)' = Line(p)
  BY <1>2, <1>3, BufferCases DEF Line, OfThreads, OfQueues, dedupUnchanged, Dedupers
<1>8. CoarseOK' /\ Uncut' = Uncut
  BY <1>2, CoarseFrame DEF ArchiveInv, dedupUnchanged
<1>9. /\ input' = input /\ ReorderKeeps
      /\ UNCHANGED <<cache, original, state, chunks_per_anchor, archive>>
  BY <1>2 DEF dedupUnchanged, ReorderKeeps
<1> HIDE DEF x, y
<1> QED
  BY <1>4, <1>6, <1>7, <1>8, <1>9, ChunksMove

LEMMA DedupSendReorderMoves ==
    ASSUME ArchiveInv, PipelineInv', NEW t \in Threads, DedupSendReorder(t)
    PROVE  ArchiveInv'
<1>1. PICK q \in Queues : q = qid(t)
  BY GroupSize
<1>2. /\ HasRoom(reorder_que[q])
      /\ reorder_que' =
            [reorder_que EXCEPT ![q] = Enqueued(reorder_que[q], deduper[t].reorder)]
      /\ deduper' = [deduper EXCEPT ![t].reorder = Unsent(reorder_que[q], deduper[t].reorder)]
      /\ UNCHANGED <<deduplicate_que, compress_que, cache, original, dedupUnchanged>>
  BY <1>1 DEF DedupSendReorder
<1>3. /\ deduper \in Dedupers /\ deduper[t].reorder \in Seq(Chunk)
      /\ reorder_que \in [Queues -> QueueOf(Chunk)]
  BY DEF ArchiveInv, PipelineInv, DedupOK, CompressOK, Dedupers
<1> DEFINE x == <<"reorder", t>>
           y == <<"reorder_que", q>>
<1>4. x \in Buffers /\ y \in Buffers /\ x # y /\ SameSide(x, y)
  BY BufferCases DEF OfThreads, OfQueues, SameSide
<1>5. Line(x) = deduper[t].reorder /\ Line(y) = reorder_que[q].items
  BY DEF Line
<1>6. \E n \in 0 .. Len(Line(x)) : /\ Line(x)' = SubSeq(Line(x), n + 1, Len(Line(x)))
                                   /\ Line(y)' = Line(y) \o SubSeq(Line(x), 1, n)
  <2>1. reorder_que[q] \in QueueOf(Chunk)
    BY <1>3
  <2>2. PICK n \in 0 .. Len(deduper[t].reorder) : Sends(reorder_que[q], deduper[t].reorder, n)
    BY <1>2, <1>3, <2>1, EnqueueMoves
  <2>3. Line(x)' = Unsent(reorder_que[q], deduper[t].reorder)
    BY <1>2, <1>3 DEF Line, Dedupers
  <2>4. Line(y)' = Enqueued(reorder_que[q], deduper[t].reorder).items
    BY <1>2, <1>3 DEF Line
  <2> QED
    BY <1>5, <2>2, <2>3, <2>4 DEF Sends
<1>7. \A p \in Buffers : p # x /\ p # y => Line(p)' = Line(p)
  BY <1>2, <1>3, BufferCases DEF Line, OfThreads, OfQueues, dedupUnchanged, Dedupers
<1>8. CoarseOK' /\ Uncut' = Uncut
  BY <1>2, CoarseFrame DEF ArchiveInv, dedupUnchanged
<1>9. /\ input' = input /\ ReorderKeeps
      /\ UNCHANGED <<cache, original, state, chunks_per_anchor, archive>>
  BY <1>2 DEF dedupUnchanged, ReorderKeeps
<1> HIDE DEF x, y
<1> QED
  BY <1>4, <1>6, <1>7, <1>8, <1>9, ChunksMove

LEMMA DedupTerminateMoves ==
    ASSUME ArchiveInv, PipelineInv', NEW t \in Threads, DedupTerminate(t)
    PROVE  ArchiveInv'
<1>1. PICK q \in Queues : q = qid(t)
  BY GroupSize
<1>2. /\ deduper \in Dedupers /\ compress_que \in [Queues -> QueueOf(Chunk)]
      /\ compress_que' = [compress_que EXCEPT ![q] = queue_terminate(compress_que[q])]
      /\ deduper' = [deduper EXCEPT ![t].done = TRUE] /\ UNCHANGED <<deduplicate_que, reorder_que, cache, original, dedupUnchanged>>
  BY <1>1 DEF DedupTerminate, ArchiveInv, PipelineInv, RefineOK, DedupOK, CompressOK
<1>3. \A p \in Buffers : Line(p)' = Line(p)
  <2>1. \A r \in Queues : compress_que'[r].items = compress_que[r].items
    BY <1>2 DEF queue_terminate, QueueOf
  <2> QED
    BY <1>2, <2>1, BufferCases DEF Line, OfThreads, OfQueues, dedupUnchanged, Dedupers
<1>4. CoarseOK' /\ Uncut' = Uncut
  <2>1. \A u \in Threads : /\ refiner'[u].recv = refiner[u].recv
                           /\ refiner'[u].chcount = refiner[u].chcount
    BY <1>2 DEF dedupUnchanged, Dedupers
  <2> QED
    BY <1>2, <2>1, CoarseFrame DEF ArchiveInv, dedupUnchanged
<1>5. /\ input' = input /\ ReorderKeeps
      /\ UNCHANGED <<cache, original, state, chunks_per_anchor, archive>>
  BY <1>2 DEF dedupUnchanged, ReorderKeeps
<1> QED
  BY <1>3, <1>4, <1>5, NothingMoves

LEMMA CompressFetchMoves ==
    ASSUME ArchiveInv, PipelineInv', NEW t \in Threads, CompressFetch(t)
    PROVE  ArchiveInv'
<1>1. PICK q \in Queues : q = qid(t)
  BY GroupSize
<1>2. /\ compressor \in Compressors /\ compress_que \in [Queues -> QueueOf(Chunk)]
      /\ compressor[t].recv = <<>> /\ UNCHANGED <<reorder_que, state, compressUnchanged>>
  BY DEF CompressFetch, ArchiveInv, PipelineInv, RefineOK, DedupOK, CompressOK
<1>3. CoarseOK' /\ Uncut' = Uncut
  BY <1>2, CoarseFrame DEF ArchiveInv, compressUnchanged
<1>4. /\ input' = input /\ ReorderKeeps
      /\ UNCHANGED <<cache, original, state, chunks_per_anchor, archive>>
  BY <1>2 DEF compressUnchanged, ReorderKeeps
<1>5. CASE /\ compress_que' = [compress_que EXCEPT ![q] = Dequeued(compress_que[q], ITEM)]
           /\ compressor' = [compressor EXCEPT ![t].recv = Batch(compress_que[q], ITEM)]
  <2> DEFINE x == <<"compress_que", q>>
             y == <<"raw", t>>
  <2>1. x \in Buffers /\ y \in Buffers /\ x # y /\ SameSide(x, y)
    BY BufferCases DEF OfThreads, OfQueues, SameSide
  <2>2. Line(x) = compress_que[q].items /\ Line(y) = <<>>
    BY <1>2 DEF Line
  <2>3. \E n \in 0 .. Len(Line(x)) : /\ Line(x)' = SubSeq(Line(x), n + 1, Len(Line(x)))
                                     /\ Line(y)' = Line(y) \o SubSeq(Line(x), 1, n)
    <3>1. compress_que[q] \in QueueOf(Chunk)
      BY <1>2
    <3>2. PICK n \in 0 .. Len(compress_que[q].items) : Fetches(compress_que[q], ITEM, n)
      BY <3>1, DequeueMoves, PositiveConstants
    <3>3. Line(x)' = Dequeued(compress_que[q], ITEM).items
      BY <1>2, <1>5 DEF Line
    <3>4. Line(y)' = Batch(compress_que[q], ITEM)
      BY <1>2, <1>5 DEF Line, Compressors
    <3> QED
      BY <2>2, <3>2, <3>3, <3>4 DEF Fetches
  <2>4. \A p \in Buffers : p # x /\ p # y => Line(p)' = Line(p)
    BY <1>2, <1>5, BufferCases DEF Line, OfThreads, OfQueues, compressUnchanged, Compressors
  <2> HIDE DEF x, y
  <2> QED
    BY <1>3, <1>4, <2>1, <2>3, <2>4, ChunksMove
<1>6. CASE compressor' = [compressor EXCEPT ![t].ended = TRUE] /\ UNCHANGED compress_que
  <2>1. \A p \in Buffers : Line(p)' = Line(p)
    BY <1>2, <1>6, BufferCases DEF Line, OfThreads, OfQueues, compressUnchanged, Compressors
  <2> QED
    BY <1>3, <1>4, <2>1, NothingMoves
<1> QED
  BY <1>1, <1>5, <1>6 DEF CompressFetch

LEMMA CompressSendMoves ==
    ASSUME ArchiveInv, PipelineInv', NEW t \in Threads, CompressSend(t)
    PROVE  ArchiveInv'
<1>1. PICK q \in Queues : q = qid(t)
  BY GroupSize
<1>2. /\ HasRoom(reorder_que[q])
      /\ reorder_que' =
            [reorder_que EXCEPT ![q] = Enqueued(reorder_que[q], compressor[t].send)]
      /\ compressor' = [compressor EXCEPT ![t].send = Unsent(reorder_que[q], compressor[t].send)]
      /\ UNCHANGED <<compress_que, state, compressUnchanged>>
  BY <1>1 DEF CompressSend
<1>3. /\ compressor \in Compressors /\ compressor[t].send \in Seq(Chunk)
      /\ reorder_que \in [Queues -> QueueOf(Chunk)]
  BY DEF ArchiveInv, PipelineInv, DedupOK, CompressOK, Compressors
<1> DEFINE x == <<"ready", t>>
           y == <<"reorder_que", q>>
<1>4. x \in Buffers /\ y \in Buffers /\ x # y /\ SameSide(x, y)
  BY BufferCases DEF OfThreads, OfQueues, SameSide
<1>5. Line(x) = compressor[t].send /\ Line(y) = reorder_que[q].items
  BY DEF Line
<1>6. \E n \in 0 .. Len(Line(x)) : /\ Line(x)' = SubSeq(Line(x), n + 1, Len(Line(x)))
                                   /\ Line(y)' = Line(y) \o SubSeq(Line(x), 1, n)
  <2>1. reorder_que[q] \in QueueOf(Chunk)
    BY <1>3
  <2>2. PICK n \in 0 .. Len(compressor[t].send) : Sends(reorder_que[q], compressor[t].send, n)
    BY <1>2, <1>3, <2>1, EnqueueMoves
  <2>3. Line(x)' = Unsent(reorder_que[q], compressor[t].send)
    BY <1>2, <1>3 DEF Line, Compressors
  <2>4. Line(y)' = Enqueued(reorder_que[q], compressor[t].send).items
    BY <1>2, <1>3 DEF Line
  <2> QED
    BY <1>5, <2>2, <2>3, <2>4 DEF Sends
<1>7. \A p \in Buffers : p # x /\ p # y => Line(p)' = Line(p)
  BY <1>2, <1>3, BufferCases DEF Line, OfThreads, OfQueues, compressUnchanged, Compressors
<1>8. CoarseOK' /\ Uncut' = Uncut
  BY <1>2, CoarseFrame DEF ArchiveInv, compressUnchanged
<1>9. /\ input' = input /\ ReorderKeeps
      /\ UNCHANGED <<cache, original, state, chunks_per_anchor, archive>>
  BY <1>2 DEF compressUnchanged, ReorderKeeps
<1> HIDE DEF x, y
<1> QED
  BY <1>4, <1>6, <1>7, <1>8, <1>9, ChunksMove

LEMMA CompressTerminateMoves ==
    ASSUME ArchiveInv, PipelineInv', NEW t \in Threads, CompressTerminate(t)
    PROVE  ArchiveInv'
<1>1. PICK q \in Queues : q = qid(t)
  BY GroupSize
<1>2. /\ compressor \in Compressors /\ reorder_que \in [Queues -> QueueOf(Chunk)]
      /\ reorder_que' = [reorder_que EXCEPT ![q] = queue_terminate(reorder_que[q])]
      /\ compressor' = [compressor EXCEPT ![t].done = TRUE] /\ UNCHANGED <<compress_que, state, compressUnchanged>>
  BY <1>1 DEF CompressTerminate, ArchiveInv, PipelineInv, RefineOK, DedupOK, CompressOK
<1>3. \A p \in Buffers : Line(p)' = Line(p)
  <2>1. \A r \in Queues : reorder_que'[r].items = reorder_que[r].items
    BY <1>2 DEF queue_terminate, QueueOf
  <2> QED
    BY <1>2, <2>1, BufferCases DEF Line, OfThreads, OfQueues, compressUnchanged, Compressors
<1>4. CoarseOK' /\ Uncut' = Uncut
  <2>1. \A u \in Threads : /\ refiner'[u].recv = refiner[u].recv
                           /\ refiner'[u].chcount = refiner[u].chcount
    BY <1>2 DEF compressUnchanged, Compressors
  <2> QED
    BY <1>2, <2>1, CoarseFrame DEF ArchiveInv, compressUnchanged
<1>5. /\ input' = input /\ ReorderKeeps
      /\ UNCHANGED <<cache, original, state, chunks_per_anchor, archive>>
  BY <1>2 DEF compressUnchanged, ReorderKeeps
<1> QED
  BY <1>3, <1>4, <1>5, NothingMoves

-------------------------------------------------------------------------------
(* Taking the first element, and adding a last one.                        *)

LEMMA OneElement ==
    ASSUME NEW S, NEW e \in S
    PROVE  <<e>> \in Seq(S) /\ Distinct(<<e>>) /\ ToSet(<<e>>) = {e}
BY DEF Distinct, ToSet

(* s is the sequence of e and the elements of r.                           *)
Uncons(S, s, e, r) ==
    /\ e \in S /\ r \in Seq(S)
    /\ e = Head(s) /\ r = SubSeq(s, 1 + 1, Len(s)) /\ <<e>> = SubSeq(s, 1, 1)
    /\ 1 \in 0 .. Len(s)
    /\ Distinct(r) /\ ToSet(s) = ToSet(r) \cup {e} /\ e \notin ToSet(r)

LEMMA Taking ==
    ASSUME NEW S, NEW s \in Seq(S), s # <<>>, Distinct(s)
    PROVE  Uncons(S, s, Head(s), Tail(s))
<1>1. 1 \in 0 .. Len(s) /\ Head(s) \in S /\ Tail(s) \in Seq(S) /\ Head(s) = s[1]
  OBVIOUS
<1>2. Tail(s) = SubSeq(s, 1 + 1, Len(s))
  <2>1. PICK n \in Nat : Len(s) = n /\ n # 0
    OBVIOUS
  <2>2. PICK u \in Seq(S) : u = Tail(s)
    BY <1>1
  <2>3. PICK v \in Seq(S) : v = SubSeq(s, 1 + 1, Len(s))
    BY <1>1, SplitAt
  <2>4. Len(u) = n - 1 /\ Len(v) = n - 1
    BY <2>1, <2>2, <2>3
  <2>5. \A i \in 1 .. n - 1 : u[i] = s[i + 1] /\ v[i] = s[i + 1]
    BY <2>1, <2>2, <2>3
  <2>6. u = v
    BY <2>4, <2>5
  <2> QED
    BY <2>2, <2>3, <2>6
<1>3. SubSeq(s, 1, 1) = <<Head(s)>>
  <2>1. Len(SubSeq(s, 1, 1)) = 1 /\ SubSeq(s, 1, 1)[1] = s[1] /\ SubSeq(s, 1, 1) \in Seq(S)
    BY <1>1
  <2>2. PICK u \in Seq(S) : u = SubSeq(s, 1, 1) /\ Len(u) = 1 /\ u[1] = s[1]
    BY <2>1
  <2>3. PICK w \in Seq(S) : w = <<Head(s)>>
    BY <1>1, OneElement
  <2>4. Len(w) = 1 /\ w[1] = s[1]
    BY <1>1, <2>3
  <2>5. \A i \in 1 .. 1 : u[i] = w[i]
    BY <2>2, <2>4
  <2>6. u = w
    BY <2>2, <2>4, <2>5
  <2> QED
    BY <2>2, <2>3, <2>6
<1>4. /\ Distinct(SubSeq(s, 1 + 1, Len(s))) /\ ToSet(SubSeq(s, 1, 1)) \subseteq ToSet(s)
      /\ ToSet(SubSeq(s, 1 + 1, Len(s))) = ToSet(s) \ ToSet(SubSeq(s, 1, 1))
  BY <1>1, SplitAt
<1>5. ToSet(<<Head(s)>>) = {Head(s)}
  BY <1>1, OneElement
<1> QED
  BY <1>1, <1>2, <1>3, <1>4, <1>5 DEF Uncons

LEMMA Adding ==
    ASSUME NEW S, NEW s \in Seq(S), NEW e \in S, Distinct(s), e \notin ToSet(s)
    PROVE  /\ Append(s, e) = s \o <<e>> /\ Append(s, e) \in Seq(S)
           /\ Distinct(Append(s, e))
           /\ \A x : x \in ToSet(Append(s, e)) <=> x \in ToSet(s) \/ x = e
<1>1. <<e>> \in Seq(S) /\ Distinct(<<e>>) /\ ToSet(<<e>>) = {e}
  BY OneElement
<1>2. Append(s, e) = s \o <<e>>
  OBVIOUS
<1>3. ToSet(s) \cap ToSet(<<e>>) = {}
  BY <1>1
<1>4. /\ s \o <<e>> \in Seq(S) /\ Distinct(s \o <<e>>)
      /\ \A x : x \in ToSet(s \o <<e>>) <=> x \in ToSet(s) \/ x \in ToSet(<<e>>)
  BY <1>1, <1>3, Concatenated
<1> QED
  BY <1>1, <1>2, <1>4

LEMMA HeadIn ==
    ASSUME NEW S, NEW s \in Seq(S), s # <<>>
    PROVE  Head(s) \in ToSet(s)
BY DEF ToSet

-------------------------------------------------------------------------------
(* The steps of the coarse chunks.                                         *)

LEMMA CoarseType ==
    ASSUME PipelineInv
    PROVE  /\ refine_que \in [Queues -> QueueOf(Nat)]
           /\ \A q \in Queues : refine_que[q].items \in Seq(Nat)
           /\ refiner \in Refiners
           /\ \A t \in Threads : refiner[t].recv \in Seq(Nat) /\ refiner[t].chcount \in Nat
           /\ fragment.anchorcount \in Nat
BY DEF PipelineInv, FragmentOK, QueueOf, RefineOK, Refiners

LEMMA CoarseBelow ==
    ASSUME PipelineInv, CoarseOK, NEW a, a = fragment.anchorcount
    PROVE  /\ a \in Nat
           /\ \A q \in Queues : \A k \in ToSet(refine_que[q].items) : k \in 0 .. a - 1
           /\ \A t \in Threads : \A k \in ToSet(refiner[t].recv) : k \in 0 .. a - 1
<1>1. \A q \in Queues : ToSet(refine_que[q].items) \subseteq Nat
  BY CoarseType DEF ToSet
<1>2. \A t \in Threads : ToSet(refiner[t].recv) \subseteq Nat
  BY CoarseType DEF ToSet
<1>3. a \in Nat
  BY CoarseType
<1>4. \A q \in Queues : \A k \in ToSet(refine_que[q].items) : k < a
  BY DEF CoarseOK
<1>5. \A t \in Threads : \A k \in ToSet(refiner[t].recv) : k < a
  BY DEF CoarseOK
<1>6. ASSUME NEW q \in Queues, NEW k \in ToSet(refine_que[q].items)
      PROVE  k \in 0 .. a - 1
  BY <1>1, <1>3, <1>4
<1>7. ASSUME NEW t \in Threads, NEW k \in ToSet(refiner[t].recv)
      PROVE  k \in 0 .. a - 1
  BY <1>2, <1>3, <1>5
<1> QED
  BY <1>3, <1>6, <1>7

LEMMA FragmentSendMoves ==
    ASSUME ArchiveInv, PipelineInv', FragmentSend
    PROVE  ArchiveInv'
<1>0. PICK a \in Nat : a = fragment.anchorcount
  BY CoarseType DEF ArchiveInv
<1>q. PICK q \in Queues : q = fragment.qid
  BY DEF ArchiveInv, PipelineInv, FragmentOK
<1>1. /\ a < Len(input) /\ HasRoom(refine_que[q])
      /\ refine_que' = [refine_que EXCEPT ![q] = Enqueued(refine_que[q], <<a>>)]
      /\ fragment' = [fragment EXCEPT !.anchorcount = a + 1, !.qid = (@ + 1) % nqueues]
      /\ UNCHANGED <<input, deduplicate_que, compress_que, reorder_que, refiner, deduper,
                     compressor, reorder, cache, original, state, chunks_per_anchor, archive>>
  BY <1>0, <1>q DEF FragmentSend
<1>2. refine_que \in [Queues -> QueueOf(Nat)] /\ refine_que[q].items \in Seq(Nat)
  BY CoarseType DEF ArchiveInv
<1>3. Len(input) \in Nat /\ fragment'.anchorcount = a + 1
  BY <1>0, <1>1, InputType DEF ArchiveInv, PipelineInv, FragmentOK
<1>4. Enqueued(refine_que[q], <<a>>).items = Append(refine_que[q].items, a)
  <2>1. PICK s \in Seq(Nat) : s = refine_que[q].items
    BY <1>2
  <2>2. Moved(refine_que[q], <<a>>) = 1
    <3>1. Len(<<a>>) = 1 /\ Len(s) \in Nat /\ QUEUE_SIZE \in Nat /\ Len(s) < QUEUE_SIZE
      BY <1>1, <2>1, PositiveConstants DEF HasRoom
    <3> QED
      BY <2>1, <3>1 DEF Moved, Lesser
  <2>3. SubSeq(<<a>>, 1, 1) = <<a>>
    <3>1. <<a>> \in Seq(Nat) /\ Distinct(<<a>>)
      BY OneElement
    <3>2. <<a>> # <<>> /\ Head(<<a>>) = a
      OBVIOUS
    <3> QED
      BY <3>1, <3>2, Taking DEF Uncons
  <2>4. Enqueued(refine_que[q], <<a>>) = [refine_que[q] EXCEPT !.items = s \o <<a>>]
    BY <2>1, <2>2, <2>3, Zenon DEF Enqueued
  <2>5. Append(s, a) = s \o <<a>>
    BY <1>2
  <2> QED
    BY <1>2, <2>1, <2>4, <2>5 DEF QueueOf
<1>5. CoarseOK /\ PipelineInv
  BY DEF ArchiveInv
<1>6. /\ Distinct(Append(refine_que[q].items, a))
      /\ ToSet(Append(refine_que[q].items, a)) = ToSet(refine_que[q].items) \cup {a}
  <2>1. Distinct(refine_que[q].items)
    BY <1>5 DEF CoarseOK
  <2>2. a \notin ToSet(refine_que[q].items)
    <3>1. \A k \in ToSet(refine_que[q].items) : k \in 0 .. a - 1
      BY <1>0, <1>5, CoarseBelow
    <3> QED
      BY <1>2, <3>1
  <2>3. PICK s \in Seq(Nat) : s = refine_que[q].items
    BY <1>2
  <2>4. Distinct(s) /\ a \notin ToSet(s)
    BY <2>1, <2>2, <2>3
  <2>5. Distinct(Append(s, a)) /\ \A x : x \in ToSet(Append(s, a)) <=> x \in ToSet(s) \/ x = a
    BY <2>4, Adding
  <2> QED
    BY <2>3, <2>5
<1>7. \A r \in Queues :
         IF r = q THEN /\ Distinct(refine_que'[r].items)
                       /\ ToSet(refine_que'[r].items) = ToSet(refine_que[r].items) \cup {a}
         ELSE refine_que'[r].items = refine_que[r].items
  BY <1>1, <1>2, <1>4, <1>6
<1>8. \A r \in Queues : \A k \in ToSet(refine_que[r].items) : k \in 0 .. a - 1
  BY <1>0, <1>5, CoarseBelow
<1>9. \A t \in Threads : \A k \in ToSet(refiner[t].recv) : k \in 0 .. a - 1
  BY <1>0, <1>5, CoarseBelow
<1>10. CoarseOK'
  <2>1. fragment'.anchorcount <= Len(input)
    BY <1>1, <1>2, <1>3
  <2>2. ASSUME NEW r \in Queues
        PROVE  /\ Distinct(refine_que'[r].items)
               /\ \A k \in ToSet(refine_que'[r].items) : k < fragment'.anchorcount
    <3>1. Distinct(refine_que[r].items)
      BY <1>5 DEF CoarseOK
    <3>2. Distinct(refine_que'[r].items)
      BY <1>7, <3>1
    <3>3. \A k \in ToSet(refine_que'[r].items) : k \in ToSet(refine_que[r].items) \/ k = a
      BY <1>7
    <3>4. \A k \in ToSet(refine_que'[r].items) : k < a + 1
      BY <1>8, <3>3
    <3> QED
      BY <1>3, <3>2, <3>4
  <2>3. \A t \in Threads : \A k \in ToSet(refiner[t].recv) : k < fragment'.anchorcount
    BY <1>3, <1>9
  <2>4. ASSUME NEW r \in Queues, NEW s \in Queues, r # s
        PROVE  ToSet(refine_que'[r].items) \cap ToSet(refine_que'[s].items) = {}
    <3>1. ToSet(refine_que[r].items) \cap ToSet(refine_que[s].items) = {}
      BY <1>5, <2>4 DEF CoarseOK
    <3> QED
      BY <1>7, <1>8, <2>4, <3>1
  <2>5. ASSUME NEW t \in Threads, NEW r \in Queues
        PROVE  ToSet(refiner[t].recv) \cap ToSet(refine_que'[r].items) = {}
    <3>1. ToSet(refiner[t].recv) \cap ToSet(refine_que[r].items) = {}
      BY <1>5 DEF CoarseOK
    <3> QED
      BY <1>7, <1>9, <3>1
  <2> QED
    BY <1>1, <1>5, <2>1, <2>2, <2>3, <2>4, <2>5 DEF CoarseOK
<1>11. Uncut' = Uncut
  <2>1. ASSUME NEW c \in Chunks
        PROVE  c \in Uncut' <=> c \in Uncut
    <3>1. c[1] \in Nat
      BY ChunkType DEF ArchiveInv, Chunk
    <3>2. c[1] >= a <=> c[1] = a \/ c[1] >= a + 1
      BY <1>2, <3>1
    <3>3. \A t \in Threads : InHand(t, c)' <=> InHand(t, c)
      BY <1>1 DEF InHand
    <3>4. (\E r \in Queues : c[1] \in ToSet(refine_que'[r].items))
          <=> c[1] = a \/ \E r \in Queues : c[1] \in ToSet(refine_que[r].items)
      BY <1>7
    <3>5. Chunks' = Chunks
      BY <1>1, InputSame
    <3> QED
      BY <1>0, <1>3, <3>2, <3>3, <3>4, <3>5 DEF Uncut
  <2>2. Chunks' = Chunks
    BY <1>1, InputSame
  <2> QED
    BY <2>1, <2>2 DEF Uncut
<1>12. \A p \in Buffers : Line(p)' = Line(p)
  BY <1>1 DEF Line
<1>13. ReorderKeeps
  BY <1>1 DEF ReorderKeeps
<1> QED
  BY <1>1, <1>10, <1>11, <1>12, <1>13, NothingMoves

LEMMA FragmentTerminateMoves ==
    ASSUME ArchiveInv, PipelineInv', FragmentTerminate
    PROVE  ArchiveInv'
<1>1. /\ refine_que' = [refine_que EXCEPT ![fragment.terminated] = queue_terminate(@)]
      /\ fragment' = [fragment EXCEPT !.terminated = @ + 1]
      /\ UNCHANGED <<input, deduplicate_que, compress_que, reorder_que, refiner, deduper,
                     compressor, reorder, cache, original, state, chunks_per_anchor, archive>>
  BY DEF FragmentTerminate
<1>2. refine_que \in [Queues -> QueueOf(Nat)]
  BY CoarseType DEF ArchiveInv
<1>3. \A q \in Queues : refine_que'[q].items = refine_que[q].items
  BY <1>1, <1>2 DEF queue_terminate, QueueOf
<1>4. fragment'.anchorcount = fragment.anchorcount
  BY <1>1 DEF ArchiveInv, PipelineInv, FragmentOK
<1>5. CoarseOK' /\ Uncut' = Uncut
  BY <1>1, <1>3, <1>4, CoarseFrame DEF ArchiveInv
<1>6. \A p \in Buffers : Line(p)' = Line(p)
  BY <1>1 DEF Line
<1>7. ReorderKeeps
  BY <1>1 DEF ReorderKeeps
<1> QED
  BY <1>1, <1>5, <1>6, <1>7, NothingMoves

(* A batch of coarse chunks moves from queue q to thread t.                *)
LEMMA CoarseBatch ==
    ASSUME PipelineInv, CoarseOK, input \in Inputs, input' = input, PipelineInv',
           fragment' = fragment, NEW t \in Threads, NEW q \in Queues, refiner[t].recv = <<>>,
           refine_que' = [refine_que EXCEPT ![q] = Dequeued(refine_que[q], MAX_PER_FETCH)],
           refiner' = [refiner EXCEPT ![t].recv = Batch(refine_que[q], MAX_PER_FETCH)]
    PROVE  CoarseOK' /\ Uncut' = Uncut
<1>1. /\ refine_que \in [Queues -> QueueOf(Nat)] /\ refiner \in Refiners
      /\ refiner[t].chcount = 0 /\ Distinct(refine_que[q].items)
  BY CoarseType DEF CoarseOK
<1>2. PICK s \in Seq(Nat) : s = refine_que[q].items
  BY CoarseType
<1>3. PICK n \in 0 .. Len(s) : Fetches(refine_que[q], MAX_PER_FETCH, n)
  <2>1. refine_que[q] \in QueueOf(Nat)
    BY <1>1
  <2>2. \E n \in 0 .. Len(refine_que[q].items) : Fetches(refine_que[q], MAX_PER_FETCH, n)
    BY <2>1, DequeueMoves, PositiveConstants
  <2> QED
    BY <1>2, <2>2
<1>4. /\ SubSeq(s, 1, n) \in Seq(Nat) /\ Distinct(SubSeq(s, 1, n))
      /\ Distinct(SubSeq(s, n + 1, Len(s))) /\ ToSet(SubSeq(s, 1, n)) \subseteq ToSet(s)
      /\ ToSet(SubSeq(s, n + 1, Len(s))) = ToSet(s) \ ToSet(SubSeq(s, 1, n))
  <2>1. Distinct(s)
    BY <1>1, <1>2
  <2> QED
    BY <2>1, SplitAt
<1>5. PICK u \in Seq(Nat) : u = SubSeq(s, 1, n)
  BY <1>4
<1>6. refiner'[t].recv = u /\ refine_que'[q].items = SubSeq(s, n + 1, Len(s))
  <2>1. refiner'[t].recv = Batch(refine_que[q], MAX_PER_FETCH)
    BY <1>1 DEF Refiners
  <2>2. refine_que'[q].items = Dequeued(refine_que[q], MAX_PER_FETCH).items
    BY <1>1
  <2>3. <<>> \o u = u
    BY ConcatEmptySeq
  <2> QED
    BY <1>2, <1>3, <1>5, <2>1, <2>2, <2>3 DEF Fetches
<1>7. /\ \A p \in Threads : /\ p # t => refiner'[p].recv = refiner[p].recv
                            /\ refiner'[p].chcount = refiner[p].chcount
      /\ \A r \in Queues : r # q => refine_que'[r].items = refine_que[r].items
  BY <1>1 DEF Refiners
<1>8. PICK Q : Q = ToSet(s)
  OBVIOUS
<1>9. PICK U : U = ToSet(u)
  OBVIOUS
<1>10. /\ ToSet(refiner'[t].recv) = U /\ ToSet(refine_que'[q].items) = Q \ U
       /\ U \subseteq Q /\ Q = ToSet(refine_que[q].items) /\ ToSet(refiner[t].recv) = {}
       /\ Distinct(refiner'[t].recv) /\ Distinct(refine_que'[q].items)
  <2>1. ToSet(refiner[t].recv) = {}
    BY DEF ToSet
  <2> QED
    BY <1>2, <1>4, <1>5, <1>6, <1>8, <1>9, <2>1
<1>11. CoarseOK'
  <2>1. fragment'.anchorcount <= Len(input')
    BY DEF CoarseOK
  <2>2. ASSUME NEW r \in Queues
        PROVE  /\ Distinct(refine_que'[r].items)
               /\ \A k \in ToSet(refine_que'[r].items) : k < fragment'.anchorcount
    <3>1. Distinct(refine_que'[r].items)
      BY <1>7, <1>10 DEF CoarseOK
    <3>2. ToSet(refine_que'[r].items) \subseteq ToSet(refine_que[r].items)
      BY <1>7, <1>10
    <3> QED
      BY <3>1, <3>2 DEF CoarseOK
  <2>3. ASSUME NEW p \in Threads
        PROVE  /\ Distinct(refiner'[p].recv)
               /\ \A k \in ToSet(refiner'[p].recv) : k < fragment'.anchorcount
    <3>1. Distinct(refiner'[p].recv)
      BY <1>7, <1>10 DEF CoarseOK
    <3>2. ToSet(refiner'[p].recv) \subseteq ToSet(refiner[p].recv) \cup ToSet(refine_que[q].items)
      BY <1>7, <1>10
    <3> QED
      BY <3>1, <3>2 DEF CoarseOK
  <2>4. ASSUME NEW r \in Queues, NEW v \in Queues, r # v
        PROVE  ToSet(refine_que'[r].items) \cap ToSet(refine_que'[v].items) = {}
    <3>1. ToSet(refine_que[r].items) \cap ToSet(refine_que[v].items) = {}
      BY <2>4 DEF CoarseOK
    <3>2. /\ ToSet(refine_que'[r].items) \subseteq ToSet(refine_que[r].items)
          /\ ToSet(refine_que'[v].items) \subseteq ToSet(refine_que[v].items)
      BY <1>7, <1>10
    <3> QED
      BY <3>1, <3>2
  <2>5. ASSUME NEW p \in Threads, NEW v \in Threads, p # v
        PROVE  ToSet(refiner'[p].recv) \cap ToSet(refiner'[v].recv) = {}
    <3>1. /\ ToSet(refiner[p].recv) \cap ToSet(refiner[v].recv) = {}
          /\ ToSet(refiner[p].recv) \cap ToSet(refine_que[q].items) = {}
          /\ ToSet(refiner[v].recv) \cap ToSet(refine_que[q].items) = {}
      BY <2>5 DEF CoarseOK
    <3>2. CASE p = t
      <4>1. ToSet(refiner'[v].recv) = ToSet(refiner[v].recv)
        BY <1>7, <2>5, <3>2
      <4> QED
        BY <1>10, <3>1, <3>2, <4>1
    <3>3. CASE v = t
      <4>1. ToSet(refiner'[p].recv) = ToSet(refiner[p].recv)
        BY <1>7, <2>5, <3>3
      <4> QED
        BY <1>10, <3>1, <3>3, <4>1
    <3>4. CASE p # t /\ v # t
      BY <1>7, <3>1, <3>4
    <3> QED
      BY <3>2, <3>3, <3>4
  <2>6. ASSUME NEW p \in Threads, NEW r \in Queues
        PROVE  ToSet(refiner'[p].recv) \cap ToSet(refine_que'[r].items) = {}
    <3>1. /\ ToSet(refiner[p].recv) \cap ToSet(refine_que[r].items) = {}
          /\ r # q => ToSet(refine_que[q].items) \cap ToSet(refine_que[r].items) = {}
      BY DEF CoarseOK
    <3>2. CASE r = q
      <4>1. p # t => ToSet(refiner'[p].recv) = ToSet(refiner[p].recv)
        BY <1>7
      <4> QED
        BY <1>10, <3>1, <3>2, <4>1
    <3>3. CASE r # q
      <4>1. /\ p # t => ToSet(refiner'[p].recv) = ToSet(refiner[p].recv)
            /\ ToSet(refine_que'[r].items) = ToSet(refine_que[r].items)
        BY <1>7, <3>3
      <4> QED
        BY <1>10, <3>1, <3>3, <4>1
    <3> QED
      BY <3>2, <3>3
  <2>7. ASSUME NEW p \in Threads
        PROVE  IF refiner'[p].recv = <<>> THEN refiner'[p].chcount = 0
               ELSE refiner'[p].chcount < Len(input'[Head(refiner'[p].recv) + 1])
    <3>1. CASE p # t
      BY <1>7, <3>1 DEF CoarseOK
    <3>2. CASE p = t /\ refiner'[t].recv # <<>>
      <4>1. Head(u) \in ToSet(refine_que[q].items)
        BY <1>6, <1>9, <1>10, <3>2, HeadIn
      <4>2. PICK a \in Nat : a = fragment.anchorcount
        BY CoarseType
      <4>3. Head(u) \in 0 .. a - 1
        BY <4>1, <4>2, CoarseBelow
      <4>4. PICK l \in Nat : l = Len(input)
        BY InputType
      <4>5. a <= l
        BY <4>2, <4>4 DEF CoarseOK
      <4>6. Head(u) + 1 \in 1 .. l
        BY <4>3, <4>5
      <4>7. Len(input[Head(u) + 1]) \in Nat \ {0}
        BY <4>4, <4>6, InputType
      <4>8. refiner'[t].chcount = 0
        BY <1>1, <1>7
      <4> QED
        BY <1>6, <3>2, <4>7, <4>8
    <3>3. CASE p = t /\ refiner'[t].recv = <<>>
      BY <1>1, <1>7, <3>3
    <3> QED
      BY <3>1, <3>2, <3>3
  <2> QED
    BY <2>1, <2>2, <2>3, <2>4, <2>5, <2>6, <2>7 DEF CoarseOK
<1>12. Uncut' = Uncut
  <2>1. Chunks' = Chunks
    BY InputSame
  <2>2. ASSUME NEW c \in Chunks
        PROVE  c \in Uncut' <=> c \in Uncut
    <3>1. c[2] \in Nat
      BY ChunkType DEF Chunk
    <3>2. \A p \in Threads : p # t => (InHand(p, c)' <=> InHand(p, c))
      BY <1>7 DEF InHand
    <3>3. InHand(t, c)' <=> c[1] \in U
      <4>1. c[2] >= refiner'[t].chcount
        <5>1. refiner'[t].chcount = 0
          BY <1>1, <1>7
        <5> QED
          BY <3>1, <5>1
      <4> QED
        BY <1>10, <4>1 DEF InHand
    <3>4. ~InHand(t, c)
      BY <1>10 DEF InHand
    <3>5. (\E r \in Queues : c[1] \in ToSet(refine_que[r].items))
          <=> c[1] \in U \/ \E r \in Queues : c[1] \in ToSet(refine_que'[r].items)
      <4>1. \A r \in Queues : r # q => ToSet(refine_que'[r].items) = ToSet(refine_que[r].items)
        BY <1>7
      <4> QED
        BY <1>10, <4>1
    <3>6. (\E p \in Threads : InHand(p, c)') <=> c[1] \in U \/ \E p \in Threads : InHand(p, c)
      BY <3>2, <3>3, <3>4
    <3> QED
      BY <2>1, <3>5, <3>6 DEF Uncut
  <2> QED
    BY <2>1, <2>2 DEF Uncut
<1> QED
  BY <1>11, <1>12

LEMMA RefineFetchMoves ==
    ASSUME ArchiveInv, PipelineInv', NEW t \in Threads, RefineFetch(t)
    PROVE  ArchiveInv'
<1>1. PICK q \in Queues : q = qid(t)
  BY GroupSize
<1>2. /\ refiner \in Refiners /\ refiner[t].recv = <<>>
      /\ UNCHANGED <<deduplicate_que, refineUnchanged>>
  BY CoarseType DEF RefineFetch, ArchiveInv
<1>3. /\ input' = input /\ fragment' = fragment /\ ReorderKeeps
      /\ UNCHANGED <<cache, original, state, chunks_per_anchor, archive>>
  BY <1>2 DEF refineUnchanged, ReorderKeeps
<1>4. CASE /\ refine_que' = [refine_que EXCEPT ![q] = Dequeued(refine_que[q], MAX_PER_FETCH)]
           /\ refiner' = [refiner EXCEPT ![t].recv = Batch(refine_que[q], MAX_PER_FETCH)]
  <2>1. CoarseOK' /\ Uncut' = Uncut
    BY <1>2, <1>3, <1>4, CoarseBatch DEF ArchiveInv
  <2>2. \A p \in Buffers : Line(p)' = Line(p)
    BY <1>2, <1>4, BufferCases DEF Line, OfThreads, OfQueues, refineUnchanged, Refiners
  <2> QED
    BY <1>3, <2>1, <2>2, NothingMoves
<1>5. CASE refiner' = [refiner EXCEPT ![t].ended = TRUE] /\ UNCHANGED refine_que
  <2>1. CoarseOK' /\ Uncut' = Uncut
    <3>1. \A u \in Threads : /\ refiner'[u].recv = refiner[u].recv
                             /\ refiner'[u].chcount = refiner[u].chcount
      BY <1>2, <1>5 DEF Refiners
    <3> QED
      BY <1>3, <1>5, <3>1, CoarseFrame DEF ArchiveInv
  <2>2. \A p \in Buffers : Line(p)' = Line(p)
    BY <1>2, <1>5, BufferCases DEF Line, OfThreads, OfQueues, refineUnchanged, Refiners
  <2> QED
    BY <1>3, <2>1, <2>2, NothingMoves
<1> QED
  BY <1>1, <1>4, <1>5 DEF RefineFetch

(* Thread t cuts the next fine chunk off the coarse chunk it works on.     *)
LEMMA CutsChunk ==
    ASSUME PipelineInv, CoarseOK, input \in Inputs, PipelineInv', NEW t \in Threads, RefineChunk(t),
           NEW a, a = Head(refiner[t].recv), NEW n, n = refiner[t].chcount
    PROVE  /\ CoarseOK' /\ <<a, n>> \in Chunks /\ <<a, n>> \in Uncut
           /\ \A c : c \in Uncut' <=> c \in Uncut /\ c # <<a, n>>
<1>1. PICK s \in Seq(Nat) : s = refiner[t].recv
  BY CoarseType
<1>2. /\ refiner \in Refiners /\ s # <<>> /\ n \in Nat /\ a = Head(s)
      /\ input' = input /\ fragment' = fragment /\ refine_que' = refine_que
  BY <1>1, CoarseType DEF RefineChunk, refineUnchanged
<1>3. PICK l \in Nat : l = Len(input)
  BY InputType
<1>4. /\ a \in 0 .. l - 1 /\ a \in ToSet(s) /\ a < fragment.anchorcount
      /\ a + 1 \in 1 .. l
  <2>1. PICK m \in Nat : m = fragment.anchorcount
    BY CoarseType
  <2>2. a \in ToSet(s)
    BY <1>2, HeadIn
  <2>3. a \in 0 .. m - 1
    BY <1>1, <2>1, <2>2, CoarseBelow
  <2>4. m <= l
    BY <1>3, <2>1 DEF CoarseOK
  <2> QED
    BY <2>1, <2>2, <2>3, <2>4
<1>5. PICK e \in Nat \ {0} : e = Len(input[a + 1])
  BY <1>3, <1>4, InputType
<1>6. n < e
  BY <1>1, <1>2, <1>5 DEF CoarseOK
<1>7. <<a, n>> \in Chunks
  <2>1. <<a, n>>[1] \in 0 .. l - 1 /\ <<a, n>>[2] \in 0 .. e - 1
    BY <1>2, <1>4, <1>6
  <2> QED
    BY <1>3, <1>5, <2>1, ChunkType
<1>8. PICK r \in Seq(Nat) : r = Tail(s) /\ Uncons(Nat, s, a, r)
  <2>1. Distinct(s)
    BY <1>1 DEF CoarseOK
  <2>2. Uncons(Nat, s, Head(s), Tail(s))
    BY <1>2, <2>1, Taking
  <2> QED
    BY <1>2, <2>2 DEF Uncons
<1>9. isLastL2Chunk(<<a, n>>) <=> n + 1 = e
  BY <1>5 DEF isLastL2Chunk
<1>10. /\ refiner'[t].recv = IF n + 1 = e THEN r ELSE s
       /\ refiner'[t].chcount = IF n + 1 = e THEN 0 ELSE n + 1
       /\ \A p \in Threads : p # t => /\ refiner'[p].recv = refiner[p].recv
                                      /\ refiner'[p].chcount = refiner[p].chcount
  <2>1. refiner' = [refiner EXCEPT ![t].send = Append(@, <<a, n>>),
                                   ![t].chcount = IF isLastL2Chunk(<<a, n>>) THEN 0 ELSE @ + 1,
                                   ![t].recv = IF isLastL2Chunk(<<a, n>>) THEN Tail(@) ELSE @]
    BY DEF RefineChunk
  <2> QED
    BY <1>1, <1>2, <1>8, <1>9, <2>1 DEF Refiners
<1>11. /\ Distinct(r) /\ a \notin ToSet(r)
       /\ \A k : k \in ToSet(s) <=> k \in ToSet(r) \/ k = a
  BY <1>8 DEF Uncons
<1>12. CoarseOK'
  <2>1. /\ ToSet(refiner'[t].recv) \subseteq ToSet(refiner[t].recv)
        /\ Distinct(refiner'[t].recv)
    BY <1>1, <1>10, <1>11 DEF CoarseOK
  <2>2. \A p \in Threads : /\ ToSet(refiner'[p].recv) \subseteq ToSet(refiner[p].recv)
                           /\ Distinct(refiner'[p].recv)
    BY <1>10, <2>1 DEF CoarseOK
  <2>3. ASSUME NEW p \in Threads
        PROVE  IF refiner'[p].recv = <<>> THEN refiner'[p].chcount = 0
               ELSE refiner'[p].chcount < Len(input'[Head(refiner'[p].recv) + 1])
    <3>1. CASE p # t
      BY <1>2, <1>10, <3>1 DEF CoarseOK
    <3>2. CASE p = t /\ n + 1 # e
      <4>1. n + 1 < e
        <5>1. PICK i \in Nat : i = n
          BY <1>2
        <5>2. i < e /\ i + 1 # e
          BY <1>6, <3>2, <5>1
        <5>3. i + 1 < e
          BY <5>2
        <5> QED
          BY <5>1, <5>3
      <4>2. refiner'[p].recv = s /\ refiner'[p].chcount = n + 1
        BY <1>10, <3>2
      <4>3. Len(input'[Head(s) + 1]) = e
        BY <1>2, <1>5
      <4> QED
        BY <1>2, <4>1, <4>2, <4>3
    <3>3. CASE p = t /\ n + 1 = e /\ r # <<>>
      <4>1. Head(r) \in ToSet(refiner[t].recv)
        BY <1>1, <1>11, <3>3, HeadIn
      <4>2. PICK m \in Nat : m = fragment.anchorcount
        BY CoarseType
      <4>3. Head(r) \in 0 .. m - 1
        BY <4>1, <4>2, CoarseBelow
      <4>4. m <= l
        BY <1>3, <4>2 DEF CoarseOK
      <4>5. Head(r) + 1 \in 1 .. l
        BY <4>3, <4>4
      <4>6. Len(input[Head(r) + 1]) \in Nat \ {0}
        BY <1>3, <4>5, InputType
      <4> QED
        BY <1>2, <1>10, <3>3, <4>6
    <3>4. CASE p = t /\ n + 1 = e /\ r = <<>>
      BY <1>10, <3>4
    <3> QED
      BY <3>1, <3>2, <3>3, <3>4
  <2>4. ASSUME NEW p \in Threads, NEW u \in Threads, p # u
        PROVE  ToSet(refiner'[p].recv) \cap ToSet(refiner'[u].recv) = {}
    <3>1. ToSet(refiner[p].recv) \cap ToSet(refiner[u].recv) = {}
      BY <2>4 DEF CoarseOK
    <3> QED
      BY <2>2, <3>1
  <2>5. ASSUME NEW p \in Threads, NEW q \in Queues
        PROVE  ToSet(refiner'[p].recv) \cap ToSet(refine_que'[q].items) = {}
    <3>1. ToSet(refiner[p].recv) \cap ToSet(refine_que[q].items) = {}
      BY DEF CoarseOK
    <3> QED
      BY <1>2, <2>2, <3>1
  <2>6. \A p \in Threads : \A k \in ToSet(refiner'[p].recv) : k < fragment'.anchorcount
    BY <1>2, <2>2 DEF CoarseOK
  <2> QED
    BY <1>2, <2>2, <2>3, <2>4, <2>5, <2>6 DEF CoarseOK
<1>13. \A c : c \in Uncut' <=> c \in Uncut /\ c # <<a, n>>
  <2>1. Chunks' = Chunks
    BY <1>2, InputSame
  <2>2. ASSUME NEW c \in Chunks
        PROVE  c \in Uncut' <=> c \in Uncut /\ c # <<a, n>>
    <3>1. /\ c = <<c[1], c[2]>> /\ c[1] \in Nat /\ c[2] \in Nat
          /\ c[2] \in 0 .. Len(input[c[1] + 1]) - 1
      BY ChunkType DEF Chunk
    <3>2. \A p \in Threads : p # t => (InHand(p, c)' <=> InHand(p, c))
      BY <1>10 DEF InHand
    <3>3. InHand(t, c) <=> c[1] \in ToSet(s) /\ (c[1] = a => c[2] >= n)
      BY <1>1, <1>2 DEF InHand
    <3>4. InHand(t, c)' <=> IF n + 1 = e THEN c[1] \in ToSet(r)
                            ELSE c[1] \in ToSet(s) /\ (c[1] = a => c[2] >= n + 1)
      <4>1. CASE n + 1 = e
        BY <1>10, <3>1, <4>1 DEF InHand
      <4>2. CASE n + 1 # e
        BY <1>2, <1>10, <4>2 DEF InHand
      <4> QED
        BY <4>1, <4>2
    <3>5. CASE c[1] = a
      <4>1. c[2] \in 0 .. e - 1 /\ (c = <<a, n>> <=> c[2] = n)
        BY <1>5, <3>1, <3>5
      <4>2. InHand(t, c) <=> c[2] >= n
        BY <1>4, <3>3, <3>5
      <4>3. InHand(t, c)' <=> c[2] >= n /\ c # <<a, n>>
        <5>1. PICK j \in 0 .. e - 1 : j = c[2]
          BY <4>1
        <5>2. PICK i \in Nat : i = n
          BY <1>2
        <5>3. i < e /\ (c = <<a, n>> <=> j = i)
          BY <1>6, <4>1, <5>1, <5>2
        <5>4. CASE i + 1 = e
          <6>1. ~InHand(t, c)'
            BY <1>11, <3>4, <3>5, <5>2, <5>4
          <6>2. j >= i => j = i
            BY <5>4
          <6> QED
            BY <5>1, <5>2, <5>3, <6>1, <6>2
        <5>5. CASE i + 1 # e
          <6>1. InHand(t, c)' <=> c[2] >= n + 1
            BY <1>4, <3>4, <3>5, <5>2, <5>5
          <6>2. j >= i + 1 <=> j >= i /\ j # i
            OBVIOUS
          <6> QED
            BY <5>1, <5>2, <5>3, <6>1, <6>2
        <5> QED
          BY <5>4, <5>5
      <4>4. ~(c[1] >= fragment.anchorcount)
        <5>1. PICK m \in Nat : m = fragment.anchorcount
          BY CoarseType
        <5> QED
          BY <1>4, <3>5, <5>1
      <4>5. \A q \in Queues : c[1] \notin ToSet(refine_que[q].items)
        BY <1>1, <1>4, <3>5 DEF CoarseOK
      <4>6. \A p \in Threads : p # t => ~InHand(p, c)
        BY <1>1, <1>4, <3>5 DEF CoarseOK, InHand
      <4>7. c \in Uncut <=> c[2] >= n
        BY <4>2, <4>4, <4>5, <4>6 DEF Uncut
      <4>8. c \in Uncut' <=> c[2] >= n /\ c # <<a, n>>
        BY <1>2, <2>1, <3>2, <4>3, <4>4, <4>5, <4>6 DEF Uncut
      <4> QED
        BY <4>7, <4>8
    <3>6. CASE c[1] # a
      <4>1. InHand(t, c)' <=> InHand(t, c)
        BY <1>11, <3>3, <3>4, <3>6
      <4>2. \A p \in Threads : InHand(p, c)' <=> InHand(p, c)
        BY <3>2, <4>1
      <4>3. c # <<a, n>>
        BY <3>1, <3>6
      <4> QED
        BY <1>2, <2>1, <4>2, <4>3 DEF Uncut
    <3> QED
      BY <3>5, <3>6
  <2> QED
    BY <2>1, <2>2 DEF Uncut
<1>14. <<a, n>> \in Uncut
  <2>1. InHand(t, <<a, n>>)
    BY <1>1, <1>2, <1>4 DEF InHand
  <2> QED
    BY <1>7, <2>1 DEF Uncut
<1> QED
  BY <1>7, <1>12, <1>13, <1>14

(* A chunk that is in a place is in no other.                              *)
LEMMA OnePlace ==
    ASSUME ChunksOK, NEW x \in Places, NEW c \in chunksAt[x]
    PROVE  /\ \A p \in Places : p # x => c \notin chunksAt[p]
           /\ \A p \in Buffers : p # x => c \notin ToSet(lines[p])
           /\ c \in Chunks
<1>1. \A p \in Places : p # x => c \notin chunksAt[p]
  BY DEF ChunksOK, Parts
<1>2. \A p \in Buffers : p # x => c \notin ToSet(lines[p])
  BY <1>1, PlacesAt
<1>3. c \in Chunks
  BY DEF ChunksOK, Parts
<1> QED
  BY <1>1, <1>2, <1>3

LEMMA RefineChunkMoves ==
    ASSUME ArchiveInv, PipelineInv', NEW t \in Threads, RefineChunk(t)
    PROVE  ArchiveInv'
<1>1. PICK a : a = Head(refiner[t].recv)
  OBVIOUS
<1>2. PICK n : n = refiner[t].chcount
  OBVIOUS
<1>3. PICK c : c = <<a, n>>
  OBVIOUS
<1>4. /\ CoarseOK' /\ c \in Chunks /\ c \in Uncut
      /\ \A d : d \in Uncut' <=> d \in Uncut /\ d # c
  BY <1>1, <1>2, <1>3, CutsChunk DEF ArchiveInv
<1>5. /\ refiner \in Refiners /\ input' = input /\ ReorderKeeps
      /\ UNCHANGED <<deduplicate_que, refineUnchanged>>
      /\ UNCHANGED <<cache, original, state, chunks_per_anchor, archive>>
  BY CoarseType DEF RefineChunk, refineUnchanged, ArchiveInv, ReorderKeeps
<1>6. refiner'[t].send = Append(refiner[t].send, c)
  BY <1>1, <1>2, <1>3, <1>5 DEF RefineChunk, Refiners
<1>7. \A u \in Threads : u # t => refiner'[u].send = refiner[u].send
  BY <1>5 DEF RefineChunk, Refiners
<1> DEFINE x == <<"input", 0>>
           y == <<"cut", t>>
<1>8. x \in Places /\ y \in Buffers /\ y \in Places /\ x \notin Buffers /\ x # y
  <2>1. y \in Buffers
    BY BufferCases DEF OfThreads
  <2> QED
    BY <2>1, PlacesAt DEF Places
<1>9. \A p \in Buffers : p # y => Line(p)' = Line(p)
  BY <1>5, <1>7, BufferCases DEF Line, OfThreads, OfQueues, refineUnchanged
<1>10. Line(y) = refiner[t].send /\ Line(y)' = Append(refiner[t].send, c)
  BY <1>6 DEF Line
<1>11. ChunksOK /\ PipelineInv /\ chunksAt[x] = Uncut /\ lines[y] = Line(y)
  BY <1>8, PlacesAt DEF ArchiveInv, lines
<1>12. /\ Distinct(lines[y]) /\ c \notin ToSet(lines[y]) /\ c \in Chunk
       /\ lines[y] \in Seq(Chunk)
  <2>1. c \notin ToSet(lines[y])
    BY <1>4, <1>8, <1>11, OnePlace
  <2>2. c \in Chunk
    BY <1>4, ChunkType DEF ArchiveInv
  <2>3. lines[y] \in Seq(Chunk)
    BY <1>8, <1>11, LinesType
  <2> QED
    BY <1>8, <1>11, <2>1, <2>2, <2>3 DEF ChunksOK
<1>13. lines'[y] = Append(lines[y], c) /\ \A p \in Buffers : p # y => lines'[p] = lines[p]
  BY <1>8, <1>9, <1>10, <1>11 DEF lines
<1>14. /\ Distinct(lines'[y])
       /\ \A d : d \in ToSet(lines'[y]) <=> d \in ToSet(lines[y]) \/ d = c
  <2>1. PICK s \in Seq(Chunk) : s = lines[y]
    BY <1>12
  <2>2. Distinct(s) /\ c \notin ToSet(s)
    BY <1>12, <2>1
  <2>3. Distinct(Append(s, c)) /\ \A d : d \in ToSet(Append(s, c)) <=> d \in ToSet(s) \/ d = c
    BY <1>12, <2>2, Adding
  <2> QED
    BY <1>13, <2>1, <2>3
<1>15. /\ chunksAt[x] = Uncut /\ chunksAt'[x] = Uncut'
       /\ chunksAt[y] = ToSet(lines[y]) /\ chunksAt'[y] = ToSet(lines'[y])
       /\ \A p \in Buffers : p # y => chunksAt'[p] = chunksAt[p]
  <2>1. \A p \in Buffers : /\ chunksAt[p] = ToSet(lines[p])
                            /\ chunksAt'[p] = ToSet(lines'[p])
    BY PlacesAt DEF chunksAt, Places
  <2>2. chunksAt'[x] = Uncut'
    BY <1>8 DEF chunksAt
  <2> QED
    BY <1>8, <1>11, <1>13, <2>1, <2>2
<1>16. \A p \in Places \ Buffers : p # x => chunksAt'[p] = chunksAt[p]
  <2>1. Written' = Written /\ reorder'.held = reorder.held /\ reorder'.chunk = reorder.chunk
    BY <1>5, WrittenFrame DEF ReorderKeeps
  <2> QED
    BY <2>1 DEF chunksAt, Places
<1> HIDE DEF x, y
<1>17. Shifted(Places, chunksAt, chunksAt', x, y, {c})
  <2>1. {c} \subseteq chunksAt[x] /\ chunksAt'[x] = chunksAt[x] \ {c}
    BY <1>4, <1>15
  <2>2. chunksAt'[y] = chunksAt[y] \cup {c}
    BY <1>14, <1>15
  <2>3. \A p \in Places : p # x /\ p # y => chunksAt'[p] = chunksAt[p]
    BY <1>15, <1>16
  <2> QED
    BY <2>1, <2>2, <2>3 DEF Shifted
<1>18. ChunksOK'
  <2>1. \A p \in Buffers : Distinct(lines'[p])
    BY <1>11, <1>13, <1>14 DEF ChunksOK
  <2> QED
    BY <1>5, <1>8, <1>11, <1>17, <2>1, ChunksShift
<1>19. \A K, d : /\ d = c => /\ In(K, chunksAt, d) <=> x[1] \in K
                             /\ In(K, chunksAt', d) <=> y[1] \in K
                 /\ d # c => (In(K, chunksAt', d) <=> In(K, chunksAt, d))
  <2>1. Parts(Places, chunksAt, Chunks)
    BY <1>11 DEF ChunksOK
  <2>2. \A d : d \in {c} <=> d = c
    OBVIOUS
  <2> QED
    BY <1>8, <1>17, <2>1, <2>2, InShift
<1>20. \A d : /\ Taken(d)' => Taken(d)
              /\ Unseen(d)' <=> Unseen(d)
              /\ ToCompress(d)' => ToCompress(d)
  <2>1. x[1] = "input" /\ y[1] = "cut"
    BY DEF x, y
  <2>2. \A d : In({"held", "chunk", "archive"}, chunksAt', d)
               => In({"held", "chunk", "archive"}, chunksAt, d)
    BY <1>19, <2>1
  <2>3. \A d : In({"input", "cut", "deduplicate_que", "fresh"}, chunksAt', d)
               <=> In({"input", "cut", "deduplicate_que", "fresh"}, chunksAt, d)
    BY <1>19, <2>1
  <2>4. \A d : In({"compress", "compress_que", "raw"}, chunksAt', d)
               => In({"compress", "compress_que", "raw"}, chunksAt, d)
    BY <1>19, <2>1
  <2> QED
    BY <2>2, <2>3, <2>4 DEF Taken, Unseen, ToCompress, In
<1>21. OrderOK' /\ LengthOK' /\ DataOK'
  BY <1>5, <1>20, OrderFrame, LengthFrame, DataFrame DEF ArchiveInv
<1> QED
  BY <1>4, <1>5, <1>18, <1>21 DEF ArchiveInv

(* A thread passes on the first chunk of its batch.                        *)
LEMMA HeadMoves ==
    ASSUME PipelineInv, ChunksOK, input \in Inputs, input' = input, Uncut' = Uncut,
           reorder'.held = reorder.held, reorder'.chunk = reorder.chunk,
           reorder'.next = reorder.next,
           NEW x \in Buffers, NEW y \in Buffers, x # y, Line(x) # <<>>,
           NEW c, c = Head(Line(x)),
           Line(x)' = Tail(Line(x)), Line(y)' = Append(Line(y), c),
           \A p \in Buffers : p # x /\ p # y => Line(p)' = Line(p)
    PROVE  /\ ChunksOK' /\ c \in Chunks
           /\ \A K, d : /\ d = c => /\ In(K, chunksAt, d) <=> x[1] \in K
                                    /\ In(K, chunksAt', d) <=> y[1] \in K
                        /\ d # c => (In(K, chunksAt', d) <=> In(K, chunksAt, d))
<1>1. PICK s \in Seq(Chunk) : s = Line(x)
  BY LineType
<1>2. PICK u \in Seq(Chunk) : u = Line(y)
  BY LineType
<1>3. s = lines[x] /\ u = lines[y] /\ Distinct(s) /\ Distinct(u)
  BY <1>1, <1>2 DEF lines, ChunksOK
<1>4. Uncons(Chunk, s, c, Tail(s))
  <2>1. c = Head(s) /\ s # <<>>
    BY <1>1
  <2> QED
    BY <1>3, <2>1, Taking
<1>5. c \in chunksAt[x] /\ x \in Places /\ y \in Places /\ c \in Chunk
  <2>1. c \in ToSet(s) /\ c \in Chunk
    BY <1>4 DEF Uncons
  <2> QED
    BY <1>3, <2>1, PlacesAt
<1>6. c \in Chunks /\ c \notin ToSet(u)
  BY <1>3, <1>5, OnePlace
<1>7. Append(u, c) = u \o <<c>>
  BY <1>3, <1>5, <1>6, Adding
<1>8. Line(x)' = SubSeq(s, 1 + 1, Len(s)) /\ Line(y)' = u \o SubSeq(s, 1, 1)
  BY <1>1, <1>2, <1>4, <1>7 DEF Uncons
<1>9. Moves(lines, lines', x, y, 1) /\ 1 \in 0 .. Len(lines[x])
  <2>1. Moves(lines, lines', x, y, 1)
    BY <1>1, <1>2, <1>8, LinesMove
  <2> QED
    BY <1>3, <1>4, <2>1 DEF Uncons
<1>10. ToSet(SubSeq(lines[x], 1, 1)) = {c}
  BY <1>3, <1>4, <1>5, OneElement DEF Uncons
<1>11. ChunksOK' /\ Shifted(Places, chunksAt, chunksAt', x, y, {c})
  BY <1>9, <1>10, StageMoves
<1>12. Parts(Places, chunksAt, Chunks) /\ \A d : d \in {c} <=> d = c
  BY DEF ChunksOK
<1>13. \A K, d : /\ d = c => /\ In(K, chunksAt, d) <=> x[1] \in K
                             /\ In(K, chunksAt', d) <=> y[1] \in K
                 /\ d # c => (In(K, chunksAt', d) <=> In(K, chunksAt, d))
  BY <1>5, <1>11, <1>12, InShift
<1> QED
  BY <1>6, <1>11, <1>13

LEMMA DedupChunkMoves ==
    ASSUME ArchiveInv, PipelineInv', NEW t \in Threads, DedupChunk(t)
    PROVE  ArchiveInv'
<1>1. PICK c : c = Head(deduper[t].recv)
  OBVIOUS
<1>2. PICK e : e = cache[Content(c)]
  OBVIOUS
<1>3. /\ deduper \in Dedupers /\ deduper[t].recv # <<>>
      /\ UNCHANGED <<deduplicate_que, compress_que, reorder_que, dedupUnchanged>>
  BY DEF DedupChunk, ArchiveInv, PipelineInv, DedupOK
<1>4. /\ input' = input /\ ReorderKeeps
      /\ UNCHANGED <<state, chunks_per_anchor, archive>>
  BY <1>3 DEF dedupUnchanged, ReorderKeeps
<1>5. CoarseOK' /\ Uncut' = Uncut
  BY <1>3, CoarseFrame DEF ArchiveInv, dedupUnchanged
<1> DEFINE x == <<"fresh", t>>
           y == IF e = None THEN <<"compress", t>> ELSE <<"reorder", t>>
<1>6. x \in Buffers /\ y \in Buffers /\ x # y
  BY BufferCases DEF OfThreads
<1>7. /\ original' = [original EXCEPT ![c] = IF e = None THEN c ELSE e]
      /\ cache' = IF e = None THEN [cache EXCEPT ![Content(c)] = c] ELSE cache
      /\ deduper' = IF e = None
                    THEN [deduper EXCEPT ![t].recv = Tail(@), ![t].compress = Append(@, c)]
                    ELSE [deduper EXCEPT ![t].recv = Tail(@), ![t].reorder = Append(@, c)]
  BY <1>1, <1>2 DEF DedupChunk
<1>8. /\ Line(x) = deduper[t].recv
      /\ Line(x)' = Tail(Line(x)) /\ Line(y)' = Append(Line(y), c)
      /\ \A p \in Buffers : p # x /\ p # y => Line(p)' = Line(p)
  <2>1. CASE e = None
    <3>1. deduper' = [deduper EXCEPT ![t].recv = Tail(@), ![t].compress = Append(@, c)]
      BY <1>7, <2>1
    <3>2. /\ Line(x) = deduper[t].recv
          /\ Line(x)' = Tail(Line(x)) /\ Line(y)' = Append(Line(y), c)
      BY <1>3, <2>1, <3>1 DEF Line, Dedupers
    <3>3. \A p \in Buffers : p # x /\ p # y => Line(p)' = Line(p)
      BY <1>3, <2>1, <3>1, BufferCases DEF Line, OfThreads, OfQueues, Dedupers, dedupUnchanged
    <3> QED
      BY <3>2, <3>3
  <2>2. CASE e # None
    <3>1. deduper' = [deduper EXCEPT ![t].recv = Tail(@), ![t].reorder = Append(@, c)]
      BY <1>7, <2>2
    <3>2. /\ Line(x) = deduper[t].recv
          /\ Line(x)' = Tail(Line(x)) /\ Line(y)' = Append(Line(y), c)
      BY <1>3, <2>2, <3>1 DEF Line, Dedupers
    <3>3. \A p \in Buffers : p # x /\ p # y => Line(p)' = Line(p)
      BY <1>3, <2>2, <3>1, BufferCases DEF Line, OfThreads, OfQueues, Dedupers, dedupUnchanged
    <3> QED
      BY <3>2, <3>3
  <2> QED
    BY <2>1, <2>2
<1>9. /\ x[1] = "fresh"
      /\ y[1] = IF e = None THEN "compress" ELSE "reorder"
  OBVIOUS
<1>10. /\ ChunksOK' /\ c \in Chunks
       /\ \A K, d : /\ d = c => /\ In(K, chunksAt, d) <=> x[1] \in K
                                /\ In(K, chunksAt', d) <=> y[1] \in K
                    /\ d # c => (In(K, chunksAt', d) <=> In(K, chunksAt, d))
  <2>1. /\ reorder'.held = reorder.held /\ reorder'.chunk = reorder.chunk
        /\ reorder'.next = reorder.next /\ c = Head(Line(x)) /\ Line(x) # <<>>
    BY <1>1, <1>3, <1>4, <1>8 DEF ReorderKeeps
  <2> HIDE DEF x, y
  <2> QED
    BY <1>4, <1>5, <1>6, <1>8, <2>1, HeadMoves DEF ArchiveInv
<1> HIDE DEF x, y
<1>11. \A d : /\ Taken(d)' => Taken(d)
              /\ Unseen(d)' <=> Unseen(d) /\ d # c
              /\ ToCompress(d)' <=> ToCompress(d) \/ (d = c /\ e = None)
              /\ Unseen(c) /\ ~ToCompress(c)
  <2>1. \A d : In({"held", "chunk", "archive"}, chunksAt', d)
               => In({"held", "chunk", "archive"}, chunksAt, d)
    BY <1>9, <1>10
  <2>2. \A d : In({"input", "cut", "deduplicate_que", "fresh"}, chunksAt', d)
               <=> In({"input", "cut", "deduplicate_que", "fresh"}, chunksAt, d) /\ d # c
    BY <1>9, <1>10
  <2>3. \A d : In({"compress", "compress_que", "raw"}, chunksAt', d)
               <=> In({"compress", "compress_que", "raw"}, chunksAt, d) \/ (d = c /\ e = None)
    BY <1>9, <1>10
  <2>4. /\ In({"input", "cut", "deduplicate_que", "fresh"}, chunksAt, c)
        /\ ~In({"compress", "compress_que", "raw"}, chunksAt, c)
    BY <1>9, <1>10
  <2> QED
    BY <2>1, <2>2, <2>3, <2>4 DEF Taken, Unseen, ToCompress, In
<1>12. OrderOK' /\ LengthOK'
  BY <1>4, <1>11, OrderFrame, LengthFrame DEF ArchiveInv
<1>13. DataOK'
  <2>1. DataOK /\ c \in Chunks /\ Content(c) \in Contents /\ c # None
    <3>1. c \in Chunk
      BY <1>10, ChunkType DEF ArchiveInv
    <3>2. c # None
      BY <3>1, PipelineAssumption DEF Chunk
    <3> QED
      BY <1>10, <3>2 DEF ArchiveInv, Contents
  <2>2. /\ Chunks' = Chunks /\ Contents' = Contents /\ \A d : Content(d)' = Content(d)
        /\ Archived' = Archived
    BY <1>4, InputSame DEF Archived
  <2>3. /\ cache \in [Contents -> Chunks \cup {None}]
        /\ original \in [Chunks -> Chunks \cup {None}]
        /\ state[c] = UNCOMPRESSED
    BY <1>11, <2>1 DEF DataOK
  <2>4. /\ cache' \in [Contents -> Chunks \cup {None}]
        /\ cache'[Content(c)] # None
        /\ e = None => cache'[Content(c)] = c
        /\ \A v \in Contents : cache[v] # None => cache'[v] = cache[v]
        /\ \A v \in Contents : v # Content(c) => cache'[v] = cache[v]
    BY <1>2, <1>7, <2>1, <2>3
  <2>5. /\ original' \in [Chunks -> Chunks \cup {None}]
        /\ original'[c] = cache'[Content(c)]
        /\ \A d \in Chunks : d # c => original'[d] = original[d]
    <3>1. e \in Chunks \cup {None}
      BY <1>2, <2>1, <2>3
    <3> QED
      BY <1>2, <1>7, <2>1, <2>3, <2>4, <3>1
  <2>6. ASSUME NEW v \in Contents
        PROVE  /\ cache'[v] # None => /\ Content(cache'[v]) = v
                                      /\ state[cache'[v]] = FLUSHED <=> v \in Archived
               /\ cache'[v] = None => v \notin Archived
    <3>1. /\ cache[v] # None => /\ Content(cache[v]) = v
                                /\ state[cache[v]] = FLUSHED <=> v \in Archived
          /\ cache[v] = None => v \notin Archived
      BY <2>1 DEF DataOK
    <3>2. CASE e = None /\ v = Content(c)
      BY <1>2, <2>3, <2>4, <3>1, <3>2, PipelineAssumption
    <3>3. CASE ~(e = None /\ v = Content(c))
      <4>1. cache'[v] = cache[v]
        BY <1>2, <2>4, <3>3
      <4> QED
        BY <3>1, <4>1
    <3> QED
      BY <3>2, <3>3
  <2>7. ASSUME NEW d \in Chunks
        PROVE  /\ IF Unseen(d)' THEN state[d] = UNCOMPRESSED
                  ELSE cache'[Content(d)] # None /\ original'[d] = cache'[Content(d)]
               /\ ToCompress(d)' => cache'[Content(d)] = d /\ state[d] = UNCOMPRESSED
    <3>1. /\ IF Unseen(d) THEN state[d] = UNCOMPRESSED
             ELSE cache[Content(d)] # None /\ original[d] = cache[Content(d)]
          /\ ToCompress(d) => cache[Content(d)] = d /\ state[d] = UNCOMPRESSED
      BY <2>1 DEF DataOK
    <3>2. CASE d = c
      BY <1>11, <2>3, <2>4, <2>5, <3>2
    <3>3. CASE d # c
      <4>1. (Unseen(d)' <=> Unseen(d)) /\ (ToCompress(d)' <=> ToCompress(d))
        BY <1>11, <3>3
      <4>2. Content(d) \in Contents /\ original'[d] = original[d]
        BY <2>5, <3>3 DEF Contents
      <4>3. ToCompress(d) => cache[Content(d)] # None
        <5>1. d # None
          BY ChunkType, PipelineAssumption DEF ArchiveInv, Chunk
        <5> QED
          BY <3>1, <5>1
      <4> QED
        BY <2>4, <3>1, <4>1, <4>2, <4>3
    <3> QED
      BY <3>2, <3>3
  <2> QED
    BY <1>4, <2>1, <2>2, <2>4, <2>5, <2>6, <2>7 DEF DataOK
<1> QED
  BY <1>4, <1>5, <1>10, <1>12, <1>13 DEF ArchiveInv

LEMMA CompressChunkMoves ==
    ASSUME ArchiveInv, PipelineInv', NEW t \in Threads, CompressChunk(t)
    PROVE  ArchiveInv'
<1>1. PICK c : c = Head(compressor[t].recv)
  OBVIOUS
<1>2. /\ compressor \in Compressors /\ compressor[t].recv # <<>>
      /\ state' = [state EXCEPT ![c] = COMPRESSED]
      /\ compressor' = [compressor EXCEPT ![t].recv = Tail(@), ![t].send = Append(@, c)]
      /\ UNCHANGED <<compress_que, reorder_que, compressUnchanged>>
  BY <1>1 DEF CompressChunk, ArchiveInv, PipelineInv, CompressOK
<1>3. /\ input' = input /\ ReorderKeeps
      /\ UNCHANGED <<cache, original, chunks_per_anchor, archive>>
  BY <1>2 DEF compressUnchanged, ReorderKeeps
<1>4. CoarseOK' /\ Uncut' = Uncut
  BY <1>2, CoarseFrame DEF ArchiveInv, compressUnchanged
<1> DEFINE x == <<"raw", t>>
           y == <<"ready", t>>
<1>5. x \in Buffers /\ y \in Buffers /\ x # y
  BY BufferCases DEF OfThreads
<1>6. /\ Line(x) = compressor[t].recv
      /\ Line(x)' = Tail(Line(x)) /\ Line(y)' = Append(Line(y), c)
  BY <1>2 DEF Line, Compressors
<1>7. \A p \in Buffers : p # x /\ p # y => Line(p)' = Line(p)
  BY <1>2, BufferCases DEF Line, OfThreads, OfQueues, Compressors, compressUnchanged
<1>8. /\ ChunksOK' /\ c \in Chunks
      /\ \A K, d : /\ d = c => /\ In(K, chunksAt, d) <=> x[1] \in K
                               /\ In(K, chunksAt', d) <=> y[1] \in K
                   /\ d # c => (In(K, chunksAt', d) <=> In(K, chunksAt, d))
  <2>1. /\ reorder'.held = reorder.held /\ reorder'.chunk = reorder.chunk
        /\ reorder'.next = reorder.next /\ c = Head(Line(x)) /\ Line(x) # <<>>
    BY <1>1, <1>2, <1>6 DEF compressUnchanged
  <2> HIDE DEF x, y
  <2> QED
    BY <1>3, <1>4, <1>5, <1>6, <1>7, <2>1, HeadMoves DEF ArchiveInv
<1>9. \A d : /\ Taken(d)' => Taken(d)
             /\ Unseen(d)' <=> Unseen(d)
             /\ ToCompress(d)' <=> ToCompress(d) /\ d # c
             /\ ~Unseen(c) /\ ToCompress(c)
  <2>0. x[1] = "raw" /\ y[1] = "ready"
    OBVIOUS
  <2> HIDE DEF x, y
  <2>1. \A d : In({"held", "chunk", "archive"}, chunksAt', d)
               => In({"held", "chunk", "archive"}, chunksAt, d)
    BY <1>8, <2>0
  <2>2. \A d : In({"input", "cut", "deduplicate_que", "fresh"}, chunksAt', d)
               <=> In({"input", "cut", "deduplicate_que", "fresh"}, chunksAt, d)
    BY <1>8, <2>0
  <2>3. \A d : In({"compress", "compress_que", "raw"}, chunksAt', d)
               <=> In({"compress", "compress_que", "raw"}, chunksAt, d) /\ d # c
    BY <1>8, <2>0
  <2>4. /\ ~In({"input", "cut", "deduplicate_que", "fresh"}, chunksAt, c)
        /\ In({"compress", "compress_que", "raw"}, chunksAt, c)
    BY <1>8, <2>0
  <2> QED
    BY <2>1, <2>2, <2>3, <2>4 DEF Taken, Unseen, ToCompress, In
<1> HIDE DEF x, y
<1>10. OrderOK' /\ LengthOK'
  BY <1>3, <1>9, OrderFrame, LengthFrame DEF ArchiveInv
<1>11. DataOK'
  <2>1. /\ Chunks' = Chunks /\ Contents' = Contents /\ \A d : Content(d)' = Content(d)
        /\ Archived' = Archived
    BY <1>3, InputSame DEF Archived
  <2>2. DataOK /\ state \in [Chunks -> {UNCOMPRESSED, COMPRESSED, FLUSHED}]
    BY DEF ArchiveInv, DataOK
  <2>3. state[c] = UNCOMPRESSED
    BY <1>8, <1>9, <2>2 DEF DataOK
  <2>4. /\ state' \in [Chunks -> {UNCOMPRESSED, COMPRESSED, FLUSHED}]
        /\ \A d \in Chunks : /\ d # c => state'[d] = state[d]
                             /\ state'[d] = FLUSHED <=> state[d] = FLUSHED
    <3>1. state' \in [Chunks -> {UNCOMPRESSED, COMPRESSED, FLUSHED}]
      BY <1>2, <2>2
    <3>2. \A d \in Chunks : d # c => state'[d] = state[d]
      BY <1>2, <2>2
    <3>3. state'[c] = COMPRESSED
      BY <1>2, <1>8, <2>2
    <3> QED
      BY <2>3, <3>1, <3>2, <3>3, PipelineAssumption
  <2>5. ASSUME NEW v \in Contents, cache[v] # None
        PROVE  state'[cache[v]] = FLUSHED <=> v \in Archived
    <3>1. cache[v] \in Chunks
      BY <2>2, <2>5 DEF DataOK
    <3>2. state[cache[v]] = FLUSHED <=> v \in Archived
      BY <2>2, <2>5 DEF DataOK
    <3> QED
      BY <2>4, <3>1, <3>2
  <2>6. \A d \in Chunks : /\ Unseen(d) => state'[d] = UNCOMPRESSED
                          /\ ToCompress(d)' => cache[Content(d)] = d /\ state'[d] = UNCOMPRESSED
    BY <1>9, <2>2, <2>4 DEF DataOK
  <2> QED
    BY <1>3, <1>9, <2>1, <2>2, <2>4, <2>5, <2>6 DEF DataOK
<1> QED
  BY <1>3, <1>4, <1>8, <1>10, <1>11 DEF ArchiveInv

LEMMA ReorderFetchMoves ==
    ASSUME ArchiveInv, PipelineInv', ReorderFetch
    PROVE  ArchiveInv'
<1>1. PICK q \in Queues : q = reorder.qid
  BY DEF ArchiveInv, PipelineInv, ReorderOK, Reorders
<1>2. /\ reorder \in Reorders /\ reorder_que \in [Queues -> QueueOf(Chunk)]
      /\ reorder.recv = <<>> /\ reorder.phase = "run" /\ reorder.chunk = None
      /\ UNCHANGED <<state, chunks_per_anchor, archive, reorderUnchanged>>
  BY DEF ReorderFetch, ArchiveInv, PipelineInv, CompressOK, ReorderOK
<1>3. CoarseOK' /\ Uncut' = Uncut
  BY <1>2, CoarseFrame DEF ArchiveInv, reorderUnchanged
<1>4. /\ input' = input
      /\ UNCHANGED <<cache, original, state, chunks_per_anchor, archive>>
  BY <1>2 DEF reorderUnchanged
<1>5. CASE /\ reorder_que' = [reorder_que EXCEPT ![q] = Dequeued(reorder_que[q], ITEM)]
           /\ reorder' = [reorder EXCEPT !.recv = Batch(reorder_que[q], ITEM), !.tries = 0,
                                         !.qid = (@ + 1) % nqueues]
  <2> DEFINE x == <<"reorder_que", q>>
             y == <<"recv", 0>>
  <2>1. x \in Buffers /\ y \in Buffers /\ x # y /\ SameSide(x, y)
    BY BufferCases DEF OfThreads, OfQueues, SameSide
  <2>2. Line(x) = reorder_que[q].items /\ Line(y) = <<>>
    BY <1>2 DEF Line
  <2>3. \E n \in 0 .. Len(Line(x)) : /\ Line(x)' = SubSeq(Line(x), n + 1, Len(Line(x)))
                                     /\ Line(y)' = Line(y) \o SubSeq(Line(x), 1, n)
    <3>1. reorder_que[q] \in QueueOf(Chunk)
      BY <1>2
    <3>2. PICK n \in 0 .. Len(reorder_que[q].items) : Fetches(reorder_que[q], ITEM, n)
      BY <3>1, DequeueMoves, PositiveConstants
    <3>3. Line(x)' = Dequeued(reorder_que[q], ITEM).items
      BY <1>2, <1>5 DEF Line
    <3>4. Line(y)' = Batch(reorder_que[q], ITEM)
      BY <1>2, <1>5 DEF Line, Reorders
    <3> QED
      BY <2>2, <3>2, <3>3, <3>4 DEF Fetches
  <2>4. \A p \in Buffers : p # x /\ p # y => Line(p)' = Line(p)
    BY <1>2, <1>5, BufferCases DEF Line, OfThreads, OfQueues, reorderUnchanged
  <2>5. ReorderKeeps
    BY <1>2, <1>5 DEF ReorderKeeps, Reorders
  <2> HIDE DEF x, y
  <2> QED
    BY <1>3, <1>4, <2>1, <2>3, <2>4, <2>5, ChunksMove
<1>6. CASE /\ reorder' = [reorder EXCEPT !.tries = @ + 1, !.qid = (@ + 1) % nqueues,
                              !.phase = IF reorder.tries + 1 = nqueues THEN "flush" ELSE @]
           /\ UNCHANGED reorder_que
  <2>1. ReorderKeeps /\ reorder'.recv = reorder.recv
    BY <1>2, <1>6 DEF ReorderKeeps, Reorders
  <2>2. \A p \in Buffers : Line(p)' = Line(p)
    BY <1>2, <1>6, <2>1, BufferCases DEF Line, OfThreads, OfQueues, reorderUnchanged
  <2> QED
    BY <1>3, <1>4, <2>1, <2>2, NothingMoves
<1> QED
  BY <1>1, <1>5, <1>6 DEF ReorderFetch

(* Growing chunks_per_anchor keeps what is in it and adds zeros.           *)
Extends(f, g) ==
    /\ \E m \in Nat \ {0} : g \in [0 .. m - 1 -> Nat]
    /\ DOMAIN f \subseteq DOMAIN g
    /\ \A k \in DOMAIN f : g[k] = f[k]
    /\ \A k \in DOMAIN g \ DOMAIN f : g[k] = 0

LEMMA Growing ==
    ASSUME NEW n \in Nat \ {0}, NEW f \in [0 .. n - 1 -> Nat]
    PROVE  Extends(f, Doubled(f)) /\ Extends(f, f)
<1>1. Cardinality(0 .. n - 1) = n
  <2>1. PICK z \in Int : z = n - 1
    OBVIOUS
  <2>2. Cardinality(0 .. z) = IF 0 > z THEN 0 ELSE z - 0 + 1
    BY FS_Interval
  <2> QED
    BY <2>1, <2>2
<1>2. DOMAIN f = 0 .. n - 1
  OBVIOUS
<1>3. Doubled(f) = [a \in 0 .. 2 * n - 1 |-> IF a < n THEN f[a] ELSE 0]
  BY <1>1, <1>2 DEF Doubled
<1>4. PICK m \in Nat \ {0} : m = 2 * n /\ n <= m
  OBVIOUS
<1>5. Doubled(f) \in [0 .. m - 1 -> Nat]
  BY <1>3, <1>4
<1>6. \A k \in 0 .. n - 1 : k \in 0 .. m - 1 /\ Doubled(f)[k] = f[k]
  BY <1>3, <1>4
<1>7. \A k \in 0 .. m - 1 : k \notin 0 .. n - 1 => Doubled(f)[k] = 0
  BY <1>3, <1>4
<1>8. Extends(f, Doubled(f))
  BY <1>2, <1>5, <1>6, <1>7 DEF Extends
<1>9. Extends(f, f)
  BY DEF Extends
<1> QED
  BY <1>8, <1>9

(* Reorder takes c and notes how long its coarse chunk is.                 *)
LEMMA TakingOrder ==
    ASSUME ArchiveInv, input' = input, NEW c \in Chunks, NEW g, Extends(chunks_per_anchor, g),
           isLastL2Chunk(c) => c[1] \in DOMAIN g,
           chunks_per_anchor' = IF isLastL2Chunk(c) THEN [g EXCEPT ![c[1]] = c[2] + 1] ELSE g,
           \A d : Taken(d)' => Taken(d) \/ d = c
    PROVE  /\ \E m \in Nat \ {0} : chunks_per_anchor' \in [0 .. m - 1 -> Nat]
           /\ \A k \in DOMAIN chunks_per_anchor' :
                 chunks_per_anchor'[k] # 0 =>
                     k < Len(input) /\ chunks_per_anchor'[k] = Len(input[k + 1])
           /\ \A d \in Chunks : Taken(d)' /\ isLastL2Chunk(d) =>
                 /\ d[1] \in DOMAIN chunks_per_anchor'
                 /\ chunks_per_anchor'[d[1]] = Len(input[d[1] + 1])
<1>1. PICK m \in Nat \ {0} : g \in [0 .. m - 1 -> Nat]
  BY DEF Extends
<1>2. PICK a \in Nat : a = c[1]
  BY ChunkType DEF ArchiveInv, Chunk
<1>3. PICK b \in Nat : b = c[2] + 1
  BY ChunkType DEF ArchiveInv, Chunk
<1>4. a < Len(input) /\ (isLastL2Chunk(c) <=> b = Len(input[a + 1]))
  <2>1. Len(input) \in Nat /\ a \in 0 .. Len(input) - 1
    BY <1>2, ChunkType, InputType DEF ArchiveInv
  <2> QED
    BY <1>2, <1>3, <2>1 DEF isLastL2Chunk
<1>5. /\ chunks_per_anchor' \in [0 .. m - 1 -> Nat] /\ DOMAIN g = 0 .. m - 1
      /\ \A k \in 0 .. m - 1 :
            chunks_per_anchor'[k] = IF isLastL2Chunk(c) /\ k = a THEN b ELSE g[k]
      /\ isLastL2Chunk(c) => a \in 0 .. m - 1
  <2>1. CASE isLastL2Chunk(c)
    BY <1>1, <1>2, <1>3, <2>1
  <2>2. CASE ~isLastL2Chunk(c)
    BY <1>1, <2>2
  <2> QED
    BY <2>1, <2>2
<1>6. ASSUME NEW k \in DOMAIN g, g[k] # 0
      PROVE  k < Len(input) /\ g[k] = Len(input[k + 1])
  <2>1. k \in DOMAIN chunks_per_anchor /\ g[k] = chunks_per_anchor[k]
    BY <1>6 DEF Extends
  <2> QED
    BY <1>6, <2>1 DEF ArchiveInv, OrderOK
<1>7. ASSUME NEW k \in 0 .. m - 1, chunks_per_anchor'[k] # 0
      PROVE  k < Len(input) /\ chunks_per_anchor'[k] = Len(input[k + 1])
  <2>1. CASE isLastL2Chunk(c) /\ k = a
    BY <1>4, <1>5, <2>1
  <2>2. CASE ~(isLastL2Chunk(c) /\ k = a)
    BY <1>5, <1>6, <1>7, <2>2
  <2> QED
    BY <2>1, <2>2
<1>8. ASSUME NEW d \in Chunks, Taken(d)', isLastL2Chunk(d)
      PROVE  /\ d[1] \in 0 .. m - 1
             /\ chunks_per_anchor'[d[1]] = Len(input[d[1] + 1])
  <2>1. CASE d = c
    BY <1>2, <1>4, <1>5, <1>8, <2>1
  <2>2. CASE d # c
    <3>1. Taken(d)
      BY <1>8, <2>2
    <3>2. /\ d[1] \in DOMAIN chunks_per_anchor
          /\ chunks_per_anchor[d[1]] = Len(input[d[1] + 1])
      BY <1>8, <3>1 DEF ArchiveInv, OrderOK
    <3>3. d[1] \in 0 .. m - 1 /\ g[d[1]] = Len(input[d[1] + 1])
      BY <1>5, <3>2 DEF Extends
    <3>4. CASE isLastL2Chunk(c) /\ d[1] = a
      BY <1>4, <1>5, <3>3, <3>4
    <3>5. CASE ~(isLastL2Chunk(c) /\ d[1] = a)
      BY <1>5, <3>3, <3>5
    <3> QED
      BY <3>3, <3>4, <3>5
  <2> QED
    BY <2>1, <2>2
<1>9. DOMAIN chunks_per_anchor' = 0 .. m - 1
  BY <1>5
<1> QED
  BY <1>5, <1>7, <1>8, <1>9

LEMMA ReorderTakeMoves ==
    ASSUME ArchiveInv, PipelineInv', ReorderTake
    PROVE  ArchiveInv'
<1>1. PICK s \in Seq(Chunk) : s = reorder.recv
  BY DEF ArchiveInv, PipelineInv, ReorderOK, Reorders
<1>2. PICK c : c = Head(s)
  OBVIOUS
<1>3. /\ reorder \in Reorders /\ s # <<>> /\ reorder.phase = "run" /\ reorder.chunk = None
      /\ UNCHANGED <<reorder_que, state, archive, reorderUnchanged>>
  BY <1>1 DEF ReorderTake, ArchiveInv, PipelineInv, ReorderOK
<1>4. CoarseOK' /\ Uncut' = Uncut
  BY <1>3, CoarseFrame DEF ArchiveInv, reorderUnchanged
<1>5. input' = input /\ UNCHANGED <<cache, original, state, archive>>
  BY <1>3 DEF reorderUnchanged
<1>6. CASE reorder' = [reorder EXCEPT !.phase = "overrun"] /\ UNCHANGED chunks_per_anchor
  <2>1. ReorderKeeps /\ reorder'.recv = reorder.recv
    BY <1>3, <1>6 DEF ReorderKeeps, Reorders
  <2>2. \A p \in Buffers : Line(p)' = Line(p)
    BY <1>3, <1>6, <2>1, BufferCases DEF Line, OfThreads, OfQueues, reorderUnchanged
  <2> QED
    BY <1>4, <1>5, <1>6, <2>1, <2>2, NothingMoves
<1> PICK g : g = IF c[1] >= Cardinality(DOMAIN chunks_per_anchor)
                 THEN Doubled(chunks_per_anchor) ELSE chunks_per_anchor
  OBVIOUS
<1>7. CASE /\ isLastL2Chunk(c) => c[1] \in DOMAIN g
           /\ chunks_per_anchor' = IF isLastL2Chunk(c) THEN [g EXCEPT ![c[1]] = c[2] + 1] ELSE g
           /\ reorder' = IF c = reorder.next
                         THEN [reorder EXCEPT !.recv = Tail(@), !.chunk = c]
                         ELSE [reorder EXCEPT !.recv = Tail(@), !.held = @ \cup {c}]
  <2> DEFINE x == <<"recv", 0>>
             y == IF c = reorder.next THEN <<"chunk", 0>> ELSE <<"held", 0>>
  <2>1. /\ reorder'.recv = Tail(s) /\ reorder'.next = reorder.next /\ reorder'.phase = "run"
        /\ reorder'.chunk = IF c = reorder.next THEN c ELSE None
        /\ reorder'.held = IF c = reorder.next THEN reorder.held ELSE reorder.held \cup {c}
    BY <1>1, <1>3, <1>7 DEF Reorders
  <2>2. /\ x \in Buffers /\ y \notin Buffers /\ x \in Places /\ y \in Places /\ x # y
        /\ y \in {<<"chunk", 0>>, <<"held", 0>>}
    <3>1. x \in Buffers
      BY BufferCases
    <3>2. <<"chunk", 0>> \notin Buffers /\ <<"held", 0>> \notin Buffers
      BY PlacesAt
    <3> QED
      BY <3>1, <3>2 DEF Places
  <2>3. /\ Line(x) = s /\ Line(x)' = Tail(s)
        /\ \A p \in Buffers : p # x => Line(p)' = Line(p)
    <3>1. Line(x) = s /\ Line(x)' = Tail(s)
      BY <1>1, <2>1 DEF Line
    <3>2. \A p \in Buffers : p # x => Line(p)' = Line(p)
      BY <1>3, BufferCases DEF Line, OfThreads, OfQueues, reorderUnchanged
    <3> QED
      BY <3>1, <3>2
  <2>4. ChunksOK /\ PipelineInv /\ OrderOK /\ DataOK /\ LengthOK /\ lines[x] = s /\ Distinct(s)
    BY <2>2, <2>3 DEF ArchiveInv, lines, ChunksOK
  <2>5. PICK r \in Seq(Chunk) : r = Tail(s) /\ Uncons(Chunk, s, c, r)
    <3>1. Uncons(Chunk, s, Head(s), Tail(s))
      BY <1>3, <2>4, Taking
    <3> QED
      BY <1>2, <3>1 DEF Uncons
  <2>6. /\ Distinct(r) /\ c \notin ToSet(r) /\ ToSet(s) = ToSet(r) \cup {c} /\ c \in Chunk
        /\ c # None
    BY <2>5, PipelineAssumption DEF Uncons, Chunk
  <2>7. /\ chunksAt[x] = ToSet(s) /\ lines'[x] = r
        /\ \A p \in Buffers : p # x => lines'[p] = lines[p]
    BY <2>2, <2>3, <2>4, <2>5, PlacesAt DEF lines
  <2>8. c \in Chunks /\ c \in chunksAt[x]
    <3>1. c \in chunksAt[x]
      BY <2>6, <2>7
    <3> QED
      BY <2>2, <2>4, <3>1, OnePlace
  <2>9. Shifted(Places, chunksAt, chunksAt', x, y, {c})
    <3>1. \A p \in Buffers : chunksAt[p] = ToSet(lines[p]) /\ chunksAt'[p] = ToSet(lines'[p])
      BY PlacesAt DEF chunksAt, Places
    <3>2. /\ chunksAt[<<"chunk", 0>>] = {} /\ chunksAt[<<"held", 0>>] = reorder.held
          /\ chunksAt'[<<"chunk", 0>>] = {reorder'.chunk} \ {None}
          /\ chunksAt'[<<"held", 0>>] = reorder'.held
      <4>1. <<"chunk", 0>> \in Places \ Buffers /\ <<"held", 0>> \in Places \ Buffers
        BY PlacesAt DEF Places
      <4> QED
        BY <1>3, <4>1, PlacesAt DEF chunksAt
    <3>3. {c} \subseteq chunksAt[x] /\ chunksAt'[x] = chunksAt[x] \ {c}
      BY <2>2, <2>6, <2>7, <2>8, <3>1
    <3>4. chunksAt'[y] = chunksAt[y] \cup {c}
      BY <2>1, <2>6, <3>2
    <3>5. \A p \in Places : p # x /\ p # y => chunksAt'[p] = chunksAt[p]
      <4>1. \A p \in Buffers : p # x => chunksAt'[p] = chunksAt[p]
        BY <2>7, <3>1
      <4>2. Written' = Written
        BY <1>5, <2>1, WrittenFrame
      <4>3. \A p \in Places \ Buffers : p \notin {<<"chunk", 0>>, <<"held", 0>>}
                                        => chunksAt'[p] = chunksAt[p]
        BY <1>4, <4>2 DEF chunksAt, Places
      <4>4. /\ <<"chunk", 0>> # y => chunksAt'[<<"chunk", 0>>] = chunksAt[<<"chunk", 0>>]
            /\ <<"held", 0>> # y => chunksAt'[<<"held", 0>>] = chunksAt[<<"held", 0>>]
        BY <2>1, <3>2
      <4> HIDE DEF x, y
      <4> QED
        BY <4>1, <4>3, <4>4
    <3> HIDE DEF x, y
    <3> QED
      BY <3>3, <3>4, <3>5 DEF Shifted
  <2>10. /\ x[1] = "recv" /\ y[1] \in {"chunk", "held"}
    OBVIOUS
  <2> HIDE DEF x, y
  <2>11. ChunksOK'
    <3>1. \A p \in Buffers : Distinct(lines'[p])
      BY <2>4, <2>6, <2>7 DEF ChunksOK
    <3> QED
      BY <1>5, <2>2, <2>4, <2>9, <3>1, ChunksShift
  <2>12. \A K, d : /\ d = c => /\ In(K, chunksAt, d) <=> x[1] \in K
                               /\ In(K, chunksAt', d) <=> y[1] \in K
                   /\ d # c => (In(K, chunksAt', d) <=> In(K, chunksAt, d))
    <3>1. Parts(Places, chunksAt, Chunks) /\ \A d : d \in {c} <=> d = c
      BY <2>4 DEF ChunksOK
    <3> QED
      BY <2>2, <2>9, <3>1, InShift
  <2>13. \A d : /\ Taken(d)' => Taken(d) \/ d = c
                /\ Unseen(d)' <=> Unseen(d)
                /\ ToCompress(d)' => ToCompress(d)
    <3>1. \A d : In({"held", "chunk", "archive"}, chunksAt', d)
                 => In({"held", "chunk", "archive"}, chunksAt, d) \/ d = c
      BY <2>12
    <3>2. \A d : In({"input", "cut", "deduplicate_que", "fresh"}, chunksAt', d)
                 <=> In({"input", "cut", "deduplicate_que", "fresh"}, chunksAt, d)
      BY <2>10, <2>12
    <3>3. \A d : In({"compress", "compress_que", "raw"}, chunksAt', d)
                 => In({"compress", "compress_que", "raw"}, chunksAt, d)
      BY <2>10, <2>12
    <3> QED
      BY <3>1, <3>2, <3>3 DEF Taken, Unseen, ToCompress, In
  <2>14. DataOK'
    BY <1>5, <2>4, <2>13, DataFrame
  <2>15. LengthOK'
    BY <1>3, <1>5, <2>1, <2>4, InputSame DEF LengthOK
  <2>16. Extends(chunks_per_anchor, g)
    BY <2>4, Growing DEF OrderOK
  <2>17. OrderOK'
    <3>1. /\ \E m \in Nat \ {0} : chunks_per_anchor' \in [0 .. m - 1 -> Nat]
          /\ \A k \in DOMAIN chunks_per_anchor' :
                chunks_per_anchor'[k] # 0 =>
                    k < Len(input) /\ chunks_per_anchor'[k] = Len(input[k + 1])
          /\ \A d \in Chunks : Taken(d)' /\ isLastL2Chunk(d) =>
                /\ d[1] \in DOMAIN chunks_per_anchor'
                /\ chunks_per_anchor'[d[1]] = Len(input[d[1] + 1])
      BY <1>5, <1>7, <2>8, <2>13, <2>16, TakingOrder
    <3>2. Chunks' = Chunks /\ \A d : isLastL2Chunk(d)' = isLastL2Chunk(d)
      BY <1>5, InputSame
    <3>3. reorder'.next \in Chunks \cup {<<Len(input), 0>>}
      BY <2>1, <2>4 DEF OrderOK
    <3>4. /\ reorder'.chunk # None => reorder'.chunk = reorder'.next
          /\ reorder'.phase \notin Ending
      BY <2>1 DEF Ending
    <3> QED
      BY <1>5, <3>1, <3>2, <3>3, <3>4 DEF OrderOK
  <2> QED
    BY <1>4, <1>5, <2>11, <2>14, <2>15, <2>17 DEF ArchiveInv
<1> QED
  BY <1>1, <1>2, <1>6, <1>7 DEF ReorderTake

-------------------------------------------------------------------------------
(* What write_chunk_to_file does.                                          *)

(* The record that archive lacks for content v. *)
RecordOf(v) ==
    [type |-> IF v \in Archived THEN TYPE_FINGERPRINT ELSE TYPE_COMPRESS, content |-> v]

LEMMA ArchiveGrows ==
    ASSUME NEW R, archive \in Seq(R), NEW r \in R, archive' = Append(archive, r)
    PROVE  /\ archive' \in Seq(R) /\ Len(archive') = Len(archive) + 1
           /\ \A v : v \in Archived' <=> v \in Archived \/ v = r.content
<1>1. PICK n \in Nat : n = Len(archive)
  OBVIOUS
<1>2. /\ archive' \in Seq(R) /\ Len(archive') = n + 1
      /\ DOMAIN archive = 1 .. n /\ DOMAIN archive' = 1 .. n + 1
      /\ \A k \in 1 .. n : archive'[k] = archive[k]
      /\ archive'[n + 1] = r
  BY <1>1
<1>3. \A k \in 1 .. n + 1 : k \in 1 .. n \/ k = n + 1
  OBVIOUS
<1>4. \A k \in 1 .. n : k \in 1 .. n + 1
  OBVIOUS
<1>5. n + 1 \in 1 .. n + 1
  OBVIOUS
<1>6. ASSUME NEW v \in Archived'
      PROVE  v \in Archived \/ v = r.content
  <2>1. PICK k \in 1 .. n + 1 : v = archive'[k].content
    BY <1>2 DEF Archived
  <2> QED
    BY <1>2, <1>3, <2>1 DEF Archived
<1>7. ASSUME NEW v \in Archived
      PROVE  v \in Archived'
  <2>1. PICK k \in 1 .. n : v = archive[k].content
    BY <1>2 DEF Archived
  <2> QED
    BY <1>2, <1>4, <2>1 DEF Archived
<1>8. r.content \in Archived'
  BY <1>2, <1>5 DEF Archived
<1> QED
  BY <1>1, <1>2, <1>6, <1>7, <1>8

LEMMA WriteChunkOK ==
    ASSUME DataOK, input \in Inputs, input' = input, UNCHANGED <<cache, original>>,
           NEW c \in Chunks, ~Unseen(c), WriteChunk(c),
           \A d : (Unseen(d)' <=> Unseen(d)) /\ (ToCompress(d)' => ToCompress(d))
    PROVE  /\ DataOK' /\ Len(archive') = Len(archive) + 1
           /\ archive' = Append(archive, RecordOf(Content(c)))
<1>1. /\ Chunks' = Chunks /\ Contents' = Contents /\ \A d : Content(d)' = Content(d)
  BY InputSame
<1>2. PICK v \in Contents : v = Content(c)
  BY DEF Contents
<1>3. PICK o \in Chunks : o = cache[v] /\ original[c] = o /\ Content(o) = v
  BY <1>2 DEF DataOK
<1>4. cache[v] # None
  BY <1>2 DEF DataOK
<1>5. state[o] = FLUSHED <=> v \in Archived
  BY <1>2, <1>3, <1>4 DEF DataOK
<1>6. /\ state \in [Chunks -> {UNCOMPRESSED, COMPRESSED, FLUSHED}] /\ state[o] # UNCOMPRESSED
      /\ state' = [state EXCEPT ![o] = FLUSHED]
  <2>1. /\ state \in [Chunks -> {UNCOMPRESSED, COMPRESSED, FLUSHED}] /\ state[o] # UNCOMPRESSED
        /\ \/ state' = [state EXCEPT ![o] = FLUSHED]
           \/ state[o] = FLUSHED /\ state' = state
    BY <1>3 DEF DataOK, WriteChunk
  <2>2. state[o] = FLUSHED => state = [state EXCEPT ![o] = FLUSHED]
    BY <2>1
  <2> QED
    BY <2>1, <2>2, Zenon
<1>7. archive' = Append(archive, RecordOf(v))
  <2>1. \/ state[o] = COMPRESSED /\ archive' = Append(archive, [type |-> TYPE_COMPRESS, content |-> v])
        \/ state[o] = FLUSHED /\ archive' = Append(archive, [type |-> TYPE_FINGERPRINT, content |-> v])
    BY <1>2, <1>3 DEF WriteChunk
  <2>2. state[o] = COMPRESSED => v \notin Archived
    BY <1>5, PipelineAssumption
  <2> QED
    BY <1>5, <2>1, <2>2 DEF RecordOf
<1> DEFINE R == [type : {TYPE_FINGERPRINT, TYPE_COMPRESS}, content : Contents]
<1>8. RecordOf(v) \in R /\ RecordOf(v).content = v /\ archive \in Seq(R)
  BY DEF RecordOf, DataOK
<1> HIDE DEF R
<1>9. /\ archive' \in Seq(R) /\ Len(archive') = Len(archive) + 1
      /\ \A w : w \in Archived' <=> w \in Archived \/ w = v
  BY <1>7, <1>8, ArchiveGrows
<1>10. /\ state' \in [Chunks -> {UNCOMPRESSED, COMPRESSED, FLUSHED}]
       /\ state'[o] = FLUSHED
       /\ \A d \in Chunks : d # o => state'[d] = state[d]
  BY <1>6
<1>11. ASSUME NEW w \in Contents
       PROVE  /\ cache[w] # None => /\ Content(cache[w]) = w
                                    /\ state'[cache[w]] = FLUSHED <=> w \in Archived'
              /\ cache[w] = None => w \notin Archived'
  <2>1. /\ cache[w] # None => /\ Content(cache[w]) = w
                              /\ state[cache[w]] = FLUSHED <=> w \in Archived
        /\ cache[w] = None => w \notin Archived
    BY DEF DataOK
  <2>2. CASE w = v
    BY <1>3, <1>4, <1>9, <1>10, <2>2
  <2>3. CASE w # v
    <3>1. cache[w] # None => cache[w] # o /\ cache[w] \in Chunks
      BY <1>3, <2>1, <2>3 DEF DataOK
    <3> QED
      BY <1>9, <1>10, <2>1, <2>3, <3>1
  <2> QED
    BY <2>2, <2>3
<1>12. ASSUME NEW d \in Chunks
       PROVE  /\ IF Unseen(d)' THEN state'[d] = UNCOMPRESSED
                 ELSE cache[Content(d)] # None /\ original[d] = cache[Content(d)]
              /\ ToCompress(d)' => cache[Content(d)] = d /\ state'[d] = UNCOMPRESSED
  <2>1. /\ IF Unseen(d) THEN state[d] = UNCOMPRESSED
           ELSE cache[Content(d)] # None /\ original[d] = cache[Content(d)]
        /\ ToCompress(d) => cache[Content(d)] = d /\ state[d] = UNCOMPRESSED
    BY DEF DataOK
  <2>2. state[d] = UNCOMPRESSED => state'[d] = UNCOMPRESSED
    BY <1>6, <1>10
  <2> QED
    BY <2>1, <2>2
<1>13. DataOK'
  <2>1. archive' \in Seq([type : {TYPE_FINGERPRINT, TYPE_COMPRESS}, content : Contents])
    BY <1>9 DEF R
  <2>2. /\ cache' = cache /\ cache \in [Contents -> Chunks \cup {None}]
        /\ original' = original /\ original \in [Chunks -> Chunks \cup {None}]
    BY DEF DataOK
  <2> QED
    BY <1>1, <1>10, <1>11, <1>12, <2>1, <2>2 DEF DataOK
<1> QED
  BY <1>2, <1>7, <1>9, <1>13

-------------------------------------------------------------------------------
(* The steps of Reorder that write.                                        *)

(* The chunk after one that Reorder has taken is found right.              *)
LEMMA NextInSequence ==
    ASSUME ArchiveInv, NEW c \in Chunks, Taken(c), c[1] \in DOMAIN chunks_per_anchor
    PROVE  /\ Successor(c) \in Chunks \cup {<<Len(input), 0>>}
           /\ \A d \in Chunks : Less(d, Successor(c)) <=> Less(d, c) \/ d = c
           /\ Offset(Successor(c)[1]) + Successor(c)[2] = Offset(c[1]) + c[2] + 1
<1>1. PICK l \in Nat : l = Len(input)
  BY InputType DEF ArchiveInv
<1>2. PICK a \in 0 .. l - 1 : a = c[1]
  BY <1>1, ChunkType DEF ArchiveInv
<1>3. PICK e \in Nat \ {0} : e = Len(input[a + 1])
  BY <1>1, <1>2, InputType DEF ArchiveInv
<1>4. PICK b \in 0 .. e - 1 : b = c[2]
  BY <1>2, <1>3, ChunkType DEF ArchiveInv
<1>5. c = <<a, b>> /\ (isLastL2Chunk(c) <=> b + 1 = e)
  BY <1>2, <1>3, <1>4, ChunkType DEF ArchiveInv, isLastL2Chunk
<1>6. PICK o \in Nat : o = Offset(a)
  BY <1>1, <1>2, Offsets DEF ArchiveInv
<1>7. Successor(c) = IF b + 1 = e THEN <<a + 1, 0>> ELSE <<a, b + 1>>
  <2>1. CASE b + 1 = e
    <3>1. chunks_per_anchor[a] = e
      BY <1>2, <1>3, <1>5, <2>1 DEF ArchiveInv, OrderOK
    <3> QED
      BY <1>2, <1>4, <2>1, <3>1 DEF Successor
  <2>2. CASE b + 1 # e
    <3>1. chunks_per_anchor[a] # 0 => chunks_per_anchor[a] = e
      BY <1>2, <1>3 DEF ArchiveInv, OrderOK
    <3>2. b + 1 # chunks_per_anchor[a]
      BY <2>2, <3>1
    <3> QED
      BY <1>2, <1>4, <2>2, <3>2 DEF Successor
  <2> QED
    BY <2>1, <2>2
<1>8. \A d \in Chunks : /\ d = <<d[1], d[2]>> /\ d[1] \in Nat /\ d[2] \in Nat
                        /\ d[1] = a => d[2] \in 0 .. e - 1
  BY <1>3, ChunkType DEF ArchiveInv, Chunk
<1>9. CASE b + 1 = e
  <2>1. PICK n \in Nat : n = a + 1 /\ n \in 1 .. l
    BY <1>2
  <2>2. Successor(c) = <<n, 0>>
    BY <1>7, <1>9, <2>1
  <2>3. <<n, 0>> \in Chunks \cup {<<Len(input), 0>>}
    <3>1. CASE n = l
      BY <1>1, <3>1
    <3>2. CASE n # l
      <4>1. n \in 0 .. l - 1 /\ n + 1 \in 1 .. l
        BY <2>1, <3>2
      <4>2. Len(input[n + 1]) \in Nat \ {0}
        BY <1>1, <4>1, InputType DEF ArchiveInv
      <4>3. <<n, 0>>[1] = n /\ <<n, 0>>[2] = 0 /\ 0 \in 0 .. Len(input[n + 1]) - 1
        BY <4>2
      <4> QED
        BY <1>1, <4>1, <4>3, ChunkType DEF ArchiveInv
    <3> QED
      BY <3>1, <3>2
  <2>4. ASSUME NEW d \in Chunks
        PROVE  Less(d, <<n, 0>>) <=> Less(d, c) \/ d = c
    <3>1. PICK i \in Nat : i = d[1]
      BY <1>8
    <3>2. PICK j \in Nat : j = d[2]
      BY <1>8
    <3>3. d = <<i, j>> /\ (i = a => j <= b)
      BY <1>8, <1>9, <3>1, <3>2
    <3>4. Less(d, <<n, 0>>) <=> i < n \/ (i = n /\ j < 0)
      BY <3>1, <3>2 DEF Less
    <3>5. Less(d, c) <=> i < a \/ (i = a /\ j < b)
      BY <1>5, <3>1, <3>2 DEF Less
    <3>6. d = c <=> i = a /\ j = b
      BY <1>5, <3>3
    <3> QED
      BY <2>1, <3>3, <3>4, <3>5, <3>6
  <2>5. Offset(n) = o + e
    BY <1>1, <1>3, <1>6, <2>1, Offsets DEF ArchiveInv
  <2>6. Offset(<<n, 0>>[1]) + <<n, 0>>[2] = Offset(c[1]) + c[2] + 1
    <3>1. Offset(<<n, 0>>[1]) = Offset(n) /\ <<n, 0>>[2] = 0 /\ Offset(c[1]) = o /\ c[2] = b
      BY <1>2, <1>4, <1>6
    <3> QED
      BY <1>9, <2>5, <3>1
  <2> QED
    BY <2>2, <2>3, <2>4, <2>6
<1>10. CASE b + 1 # e
  <2>1. PICK n \in 0 .. e - 1 : n = b + 1
    BY <1>10
  <2>2. Successor(c) = <<a, n>>
    BY <1>7, <1>10, <2>1
  <2>3. <<a, n>> \in Chunks
    <3>1. <<a, n>>[1] = a /\ <<a, n>>[2] = n
      OBVIOUS
    <3> QED
      BY <1>1, <1>3, <3>1, ChunkType DEF ArchiveInv
  <2>4. ASSUME NEW d \in Chunks
        PROVE  Less(d, <<a, n>>) <=> Less(d, c) \/ d = c
    <3>1. PICK i \in Nat : i = d[1]
      BY <1>8
    <3>2. PICK j \in Nat : j = d[2]
      BY <1>8
    <3>3. d = <<i, j>>
      BY <1>8, <3>1, <3>2
    <3>4. Less(d, <<a, n>>) <=> i < a \/ (i = a /\ j < n)
      BY <3>1, <3>2 DEF Less
    <3>5. Less(d, c) <=> i < a \/ (i = a /\ j < b)
      BY <1>5, <3>1, <3>2 DEF Less
    <3>6. d = c <=> i = a /\ j = b
      BY <1>5, <3>3
    <3> QED
      BY <2>1, <3>4, <3>5, <3>6
  <2>5. Offset(<<a, n>>[1]) + <<a, n>>[2] = Offset(c[1]) + c[2] + 1
    <3>1. Offset(<<a, n>>[1]) = o /\ <<a, n>>[2] = n /\ Offset(c[1]) = o /\ c[2] = b
      BY <1>2, <1>4, <1>6
    <3> QED
      BY <2>1, <3>1
  <2> QED
    BY <2>2, <2>3, <2>4, <2>5
<1> QED
  BY <1>9, <1>10

(* What moves within K is still in one place of it.                        *)
LEMMA Regroup ==
    ASSUME NEW P, NEW f, NEW g, NEW S, NEW K, K \subseteq P, Parts(P, f, S),
           \A p \in P : p \notin K => g[p] = f[p],
           \A d : (\E p \in K : d \in g[p]) <=> \E p \in K : d \in f[p],
           \A p, r \in K : p # r => g[p] \cap g[r] = {}
    PROVE  Parts(P, g, S)
<1>1. ASSUME NEW p \in P, NEW r \in P, p # r, NEW d, d \in g[p], d \in g[r]
      PROVE  FALSE
  <2>1. \A u, v \in P : d \in f[u] /\ d \in f[v] => u = v
    BY DEF Parts
  <2>2. CASE p \notin K /\ r \notin K
    BY <1>1, <2>1, <2>2
  <2>3. CASE p \in K /\ r \in K
    BY <1>1, <2>3
  <2>4. CASE p \in K /\ r \notin K
    BY <1>1, <2>1, <2>4
  <2>5. CASE p \notin K /\ r \in K
    BY <1>1, <2>1, <2>5
  <2> QED
    BY <2>2, <2>3, <2>4, <2>5
<1>2. ASSUME NEW d
      PROVE  (\E p \in P : d \in g[p]) <=> \E p \in P : d \in f[p]
  <2>1. (\E p \in P : d \in g[p]) <=> (\E p \in K : d \in g[p]) \/ \E p \in P : p \notin K /\ d \in g[p]
    OBVIOUS
  <2>2. (\E p \in P : d \in f[p]) <=> (\E p \in K : d \in f[p]) \/ \E p \in P : p \notin K /\ d \in f[p]
    OBVIOUS
  <2> QED
    BY <2>1, <2>2
<1> QED
  BY <1>1, <1>2 DEF Parts

(* Reorder has written c, and what it holds has lost c and nothing else.   *)
HoldsRest(c) ==
    /\ reorder'.next = Successor(c) /\ reorder'.phase = reorder.phase
    /\ reorder'.chunk # None => reorder'.chunk = reorder'.next /\ reorder.phase = "run"
    /\ reorder'.chunk \notin reorder'.held
    /\ \A d \in Chunks : d \in reorder'.held \/ d = reorder'.chunk
                         <=> (d \in reorder.held \/ d = reorder.chunk) /\ d # c
    /\ reorder'.held \subseteq reorder.held
    /\ reorder'.chunk \in reorder.held \cup {None}

LEMMA WritesChunk ==
    ASSUME ArchiveInv, PipelineInv', NEW c \in Chunks, c = reorder.next,
           c \in reorder.held \/ c = reorder.chunk, WriteChunk(c),
           UNCHANGED <<reorder_que, chunks_per_anchor, reorderUnchanged>>,
           reorder.phase \in {"run", "flush"}, reorder'.recv = reorder.recv,
           \/ NextInBounds /\ HoldsRest(c)
           \/ reorder' = [reorder EXCEPT !.phase = "overrun"]
    PROVE  ArchiveInv' /\ archive' = Append(archive, RecordOf(Content(c)))
<1>1. /\ input' = input /\ UNCHANGED <<cache, original>>
      /\ reorder \in Reorders /\ c \in Chunk /\ c # None
      /\ input \in Inputs /\ CoarseOK /\ ChunksOK /\ OrderOK /\ DataOK /\ LengthOK
  <2>1. c \in Chunk
    BY ChunkType DEF ArchiveInv
  <2>2. c # None
    BY <2>1, PipelineAssumption DEF Chunk
  <2> QED
    BY <2>1, <2>2 DEF reorderUnchanged, ArchiveInv, PipelineInv, ReorderOK
<1>2. CoarseOK' /\ Uncut' = Uncut
  BY <1>1, CoarseFrame DEF reorderUnchanged
<1>3. lines' = lines
  <2>1. \A p \in Buffers : Line(p)' = Line(p)
    BY BufferCases DEF Line, OfThreads, OfQueues, reorderUnchanged
  <2> QED
    BY <2>1, LinesSame
<1> DEFINE K == {<<"held", 0>>, <<"chunk", 0>>, <<"archive", 0>>}
           Held == {"held", "chunk", "archive"}
<1>4. /\ K \subseteq Places /\ K \cap Buffers = {}
      /\ \A p \in Places : p[1] \in Held <=> p \in K
  <2>1. K \subseteq Places
    BY DEF Places
  <2>2. \A p \in Buffers : p[1] \notin Held
    BY BufferCases DEF OfThreads, OfQueues
  <2>3. \A p \in Places \ Buffers : p[1] \in Held <=> p \in K
    BY PlacesAt
  <2>4. K \cap Buffers = {}
    BY PlacesAt
  <2> QED
    BY <2>1, <2>2, <2>3, <2>4
<1>5. \A p \in Places : p \notin K => chunksAt'[p] = chunksAt[p]
  BY <1>2, <1>3 DEF chunksAt, Places
<1>6. /\ chunksAt[<<"held", 0>>] = reorder.held
      /\ chunksAt[<<"chunk", 0>>] = {reorder.chunk} \ {None}
      /\ chunksAt[<<"archive", 0>>] = Written
      /\ chunksAt'[<<"held", 0>>] = reorder'.held
      /\ chunksAt'[<<"chunk", 0>>] = {reorder'.chunk} \ {None}
      /\ chunksAt'[<<"archive", 0>>] = Written'
  <2>1. K \subseteq Places \ Buffers
    BY <1>4
  <2> QED
    BY <2>1, PlacesAt DEF chunksAt
<1>7. PICK y \in K : c \in chunksAt[y] /\ y \in Places
  BY <1>1, <1>4, <1>6
<1>8. /\ Taken(c) /\ ~Unseen(c)
  <2>1. Taken(c)
    BY <1>4, <1>7 DEF Taken, In
  <2>2. \A p \in Places : p[1] \in {"input", "cut", "deduplicate_que", "fresh"}
                          => c \notin chunksAt[p]
    <3>1. \A p \in Places : p # y => c \notin chunksAt[p]
      BY <1>1, <1>7, OnePlace
    <3>2. y[1] \in Held
      BY <1>4, <1>7
    <3> QED
      BY <3>1, <3>2
  <2> QED
    BY <2>1, <2>2 DEF Unseen, In
<1>9. /\ Parts(Places, chunksAt', Chunks)
      /\ \A d : (\E p \in K : d \in chunksAt'[p]) <=> \E p \in K : d \in chunksAt[p]
  <2>1. Parts(Places, chunksAt, Chunks)
    BY <1>1 DEF ChunksOK
  <2>2. CASE reorder' = [reorder EXCEPT !.phase = "overrun"]
    <3>1. /\ reorder'.next = reorder.next /\ reorder'.held = reorder.held
          /\ reorder'.chunk = reorder.chunk
      BY <1>1, <2>2 DEF Reorders
    <3>2. Written' = Written
      BY <1>1, <3>1, WrittenFrame
    <3>3. chunksAt' = chunksAt
      BY <1>2, <1>3, <3>1, <3>2 DEF chunksAt
    <3> QED
      BY <2>1, <3>3
  <2>3. CASE NextInBounds /\ HoldsRest(c)
    <3>1. \A d \in Chunks : Less(d, Successor(c)) <=> Less(d, c) \/ d = c
      BY <1>1, <1>8, <2>3, NextInSequence DEF NextInBounds
    <3>2. \A d : d \in Written' <=> d \in Written \/ d = c
      <4>1. Chunks' = Chunks
        BY <1>1, InputSame
      <4>2. \A d \in Chunks : d \in Written' <=> d \in Written \/ d = c
        BY <2>3, <3>1, <4>1 DEF HoldsRest, Written
      <4> QED
        BY <4>1, <4>2 DEF Written
    <3>3. /\ reorder.held \subseteq Chunks /\ reorder.chunk \in Chunks \cup {None}
          /\ None \notin reorder.held
      <4>1. /\ \A d \in chunksAt[<<"held", 0>>] : d \in Chunks
            /\ \A d \in chunksAt[<<"chunk", 0>>] : d \in Chunks
        BY <1>4, <2>1 DEF Parts
      <4>2. None \notin reorder.held
        BY <1>1, PipelineAssumption DEF Reorders, Chunk
      <4> QED
        BY <1>6, <4>1, <4>2
    <3>4. \A d : d \in reorder'.held \/ d \in {reorder'.chunk} \ {None}
                 <=> (d \in reorder.held \/ d \in {reorder.chunk} \ {None}) /\ d # c
      <4>1. \A d : (d \in reorder'.held \/ d \in {reorder'.chunk} \ {None} => d \in Chunks)
                   /\ (d \in reorder.held \/ d \in {reorder.chunk} \ {None} => d \in Chunks)
        BY <2>3, <3>3 DEF HoldsRest
      <4>2. None \notin Chunks
        BY ChunkType, PipelineAssumption DEF ArchiveInv, Chunk
      <4>3. \A d \in Chunks : d \in reorder'.held \/ d = reorder'.chunk
                              <=> (d \in reorder.held \/ d = reorder.chunk) /\ d # c
        BY <2>3 DEF HoldsRest
      <4>4. \A d \in Chunks : /\ d \in {reorder'.chunk} \ {None} <=> d = reorder'.chunk
                              /\ d \in {reorder.chunk} \ {None} <=> d = reorder.chunk
        BY <4>2
      <4> QED
        BY <4>1, <4>3, <4>4
    <3>5. \A d : (\E p \in K : d \in chunksAt'[p]) <=> \E p \in K : d \in chunksAt[p]
      <4>1. \A d : (\E p \in K : d \in chunksAt'[p])
                   <=> \/ d \in reorder'.held \/ d \in {reorder'.chunk} \ {None} \/ d \in Written'
        BY <1>6
      <4>2. \A d : (\E p \in K : d \in chunksAt[p])
                   <=> \/ d \in reorder.held \/ d \in {reorder.chunk} \ {None} \/ d \in Written
        BY <1>6
      <4>3. c \in reorder.held \/ c \in {reorder.chunk} \ {None}
        BY <1>1
      <4> QED
        BY <3>2, <3>4, <4>1, <4>2, <4>3
    <3>6. /\ chunksAt'[<<"held", 0>>] \cap chunksAt'[<<"chunk", 0>>] = {}
          /\ chunksAt'[<<"held", 0>>] \cap chunksAt'[<<"archive", 0>>] = {}
          /\ chunksAt'[<<"chunk", 0>>] \cap chunksAt'[<<"archive", 0>>] = {}
      <4>1. /\ chunksAt[<<"held", 0>>] \cap chunksAt[<<"archive", 0>>] = {}
            /\ chunksAt[<<"chunk", 0>>] \cap chunksAt[<<"archive", 0>>] = {}
        <5>1. <<"held", 0>> # <<"archive", 0>> /\ <<"chunk", 0>> # <<"archive", 0>>
          OBVIOUS
        <5> QED
          BY <1>4, <2>1, <5>1 DEF Parts
      <4>2. reorder'.chunk \notin reorder'.held
        BY <2>3 DEF HoldsRest
      <4> QED
        BY <1>6, <3>2, <3>4, <4>1, <4>2
    <3>7. \A p, r \in K : p # r => chunksAt'[p] \cap chunksAt'[r] = {}
      BY <3>6
    <3> HIDE DEF K
    <3>8. Parts(Places, chunksAt', Chunks)
      BY <1>4, <1>5, <2>1, <3>5, <3>7, Regroup
    <3> QED
      BY <3>5, <3>8
  <2> QED
    BY <2>2, <2>3
<1>10. \A d : /\ Taken(d)' <=> Taken(d)
              /\ Unseen(d)' <=> Unseen(d)
              /\ ToCompress(d)' <=> ToCompress(d)
  <2>1. \A d : In({"held", "chunk", "archive"}, chunksAt', d)
               <=> In({"held", "chunk", "archive"}, chunksAt, d)
    <3>1. \A f, d : In(Held, f, d) <=> \E p \in K : d \in f[p]
      <4> HIDE DEF K, Held
      <4> QED
        BY <1>4 DEF In
    <3> QED
      BY <1>9, <3>1
  <2>2. \A p \in Places : p[1] \notin Held => chunksAt'[p] = chunksAt[p]
    BY <1>4, <1>5
  <2>3. \A d : In({"input", "cut", "deduplicate_que", "fresh"}, chunksAt', d)
               <=> In({"input", "cut", "deduplicate_que", "fresh"}, chunksAt, d)
    <3>1. \A p \in Places : p[1] \in {"input", "cut", "deduplicate_que", "fresh"}
                            => chunksAt'[p] = chunksAt[p]
      BY <2>2
    <3> QED
      BY <3>1 DEF In
  <2>4. \A d : In({"compress", "compress_que", "raw"}, chunksAt', d)
               <=> In({"compress", "compress_que", "raw"}, chunksAt, d)
    <3>1. \A p \in Places : p[1] \in {"compress", "compress_que", "raw"}
                            => chunksAt'[p] = chunksAt[p]
      BY <2>2
    <3> QED
      BY <3>1 DEF In
  <2> QED
    BY <2>1, <2>3, <2>4 DEF Taken, Unseen, ToCompress, In
<1>11. ChunksOK'
  <2>1. Chunks' = Chunks
    BY <1>1, InputSame
  <2> QED
    BY <1>1, <1>3, <1>9, <2>1 DEF ChunksOK
<1>12. /\ DataOK' /\ Len(archive') = Len(archive) + 1
       /\ archive' = Append(archive, RecordOf(Content(c)))
  BY <1>1, <1>8, <1>10, WriteChunkOK
<1>13. OrderOK' /\ LengthOK'
  <2>1. CASE reorder' = [reorder EXCEPT !.phase = "overrun"]
    <3>1. /\ reorder'.next = reorder.next /\ reorder'.chunk = reorder.chunk
          /\ reorder'.phase = "overrun"
      BY <1>1, <2>1 DEF Reorders
    <3>2. Chunks' = Chunks /\ \A d : isLastL2Chunk(d)' = isLastL2Chunk(d)
      BY <1>1, InputSame
    <3>3. OrderOK'
      BY <1>1, <1>10, <3>1, <3>2 DEF OrderOK, Ending
    <3>4. LengthOK'
      BY <3>1 DEF LengthOK
    <3> QED
      BY <3>3, <3>4
  <2>2. CASE NextInBounds /\ HoldsRest(c)
    <3>1. /\ Successor(c) \in Chunks \cup {<<Len(input), 0>>}
          /\ Offset(Successor(c)[1]) + Successor(c)[2] = Offset(c[1]) + c[2] + 1
      BY <1>1, <1>8, <2>2, NextInSequence DEF NextInBounds
    <3>2. Chunks' = Chunks /\ \A d : isLastL2Chunk(d)' = isLastL2Chunk(d)
      BY <1>1, InputSame
    <3>3. OrderOK'
      <4>1. reorder'.next \in Chunks \cup {<<Len(input), 0>>}
        BY <2>2, <3>1 DEF HoldsRest
      <4>2. /\ reorder'.chunk # None => reorder'.chunk = reorder'.next
            /\ reorder'.phase \in Ending => reorder'.recv = <<>> /\ reorder'.chunk = None
        BY <1>1, <2>2 DEF HoldsRest, OrderOK, Ending
      <4> QED
        BY <1>1, <1>10, <3>2, <4>1, <4>2 DEF OrderOK
    <3>4. LengthOK'
      <4>1. Len(archive) = Offset(c[1]) + c[2]
        BY <1>1 DEF LengthOK
      <4>2. Len(archive') = Offset(Successor(c)[1]) + Successor(c)[2]
        BY <1>12, <3>1, <4>1
      <4>3. \A k : Offset(k)' = Offset(k)
        BY <1>1, InputSame
      <4>4. reorder'.phase \in {"run", "flush"} /\ reorder'.next = Successor(c)
        BY <2>2 DEF HoldsRest
      <4> QED
        BY <4>2, <4>3, <4>4 DEF LengthOK
    <3> QED
      BY <3>3, <3>4
  <2> QED
    BY <2>1, <2>2
<1> QED
  BY <1>1, <1>2, <1>11, <1>12, <1>13 DEF ArchiveInv

(* In the final flush every chunk is written or in the cache, and the next *)
(* one is in the cache unless all are written.                             *)
LEMMA AllTaken ==
    ASSUME ArchiveInv, reorder.phase \in Ending
    PROVE  /\ reorder.held = {} => reorder.next = <<Len(input), 0>>
           /\ reorder.held # {} => /\ SmallestHeld(reorder.held) = reorder.next
                                   /\ reorder.next \in reorder.held
                                   /\ reorder.next \in Chunks
<1>1. AllEnded /\ reorder.recv = <<>> /\ reorder.chunk = None
  BY AtFlush DEF ArchiveInv, OrderOK
<1>2. \A p \in Buffers : Line(p) = <<>>
  <2>1. \A t \in Threads : /\ refiner[t].send = <<>> /\ deduper[t].recv = <<>>
                           /\ deduper[t].compress = <<>> /\ deduper[t].reorder = <<>>
                           /\ compressor[t].recv = <<>> /\ compressor[t].send = <<>>
    BY <1>1 DEF AllEnded, ArchiveInv, PipelineInv, RefineOK, DedupOK, CompressOK
  <2> QED
    BY <1>1, <2>1, BufferCases DEF AllEnded, Line, OfThreads, OfQueues
<1>3. Uncut = {}
  <2>1. fragment.anchorcount = Len(input)
    <3>1. fragment.terminated # 0
      BY <1>1, GroupSize DEF AllEnded
    <3> QED
      BY <3>1 DEF ArchiveInv, PipelineInv, FragmentOK
  <2>2. \A c \in Chunks : ~(c[1] >= Len(input))
    <3>1. PICK l \in Nat : l = Len(input)
      BY InputType DEF ArchiveInv
    <3>2. \A c \in Chunks : c[1] \in 0 .. l - 1
      BY <3>1, ChunkType DEF ArchiveInv
    <3> QED
      BY <3>1, <3>2
  <2>3. \A q \in Queues : ToSet(refine_que[q].items) = {}
    BY <1>1 DEF AllEnded, ToSet
  <2>4. \A t \in Threads : ToSet(refiner[t].recv) = {}
    BY <1>1 DEF AllEnded, ArchiveInv, PipelineInv, RefineOK, ToSet
  <2> QED
    BY <2>1, <2>2, <2>3, <2>4 DEF Uncut, InHand
<1>4. Parts(Places, chunksAt, Chunks)
  BY DEF ArchiveInv, ChunksOK
<1>5. \A c \in Chunks : c \in reorder.held \/ c \in Written
  <2>1. \A p \in Buffers : chunksAt[p] = {}
    BY <1>2, PlacesAt DEF lines, ToSet
  <2>2. chunksAt[<<"input", 0>>] = {} /\ chunksAt[<<"chunk", 0>>] = {}
    BY <1>1, <1>3, PlacesAt
  <2>3. \A c, p : p \in Places /\ c \in chunksAt[p] => p = <<"held", 0>> \/ p = <<"archive", 0>>
    BY <2>1, <2>2, PlacesAt
  <2>4. chunksAt[<<"held", 0>>] = reorder.held /\ chunksAt[<<"archive", 0>>] = Written
    BY PlacesAt
  <2> QED
    BY <1>4, <2>3, <2>4 DEF Parts
<1>6. /\ reorder.held \cap Written = {}
      /\ \A c \in reorder.held : c \in Chunks
  <2>1. <<"held", 0>> \in Places /\ <<"archive", 0>> \in Places /\ <<"held", 0>> # <<"archive", 0>>
    BY DEF Places
  <2>2. chunksAt[<<"held", 0>>] = reorder.held /\ chunksAt[<<"archive", 0>>] = Written
    BY PlacesAt
  <2> QED
    BY <1>4, <2>1, <2>2 DEF Parts
<1>7. ASSUME NEW c \in Chunks
      PROVE  /\ ~Less(c, c) /\ Less(c, <<Len(input), 0>>)
  <2>1. PICK i \in Nat : i = c[1]
    BY ChunkType DEF ArchiveInv, Chunk
  <2>2. PICK j \in Nat : j = c[2]
    BY ChunkType DEF ArchiveInv, Chunk
  <2>3. PICK l \in Nat : l = Len(input)
    BY InputType DEF ArchiveInv
  <2>4. i < l
    BY <2>1, <2>3, ChunkType DEF ArchiveInv
  <2> QED
    BY <2>1, <2>2, <2>3, <2>4 DEF Less
<1>8. reorder.next \in Chunks \cup {<<Len(input), 0>>}
  BY DEF ArchiveInv, OrderOK
<1>9. reorder.next \in Chunks => reorder.next \in reorder.held
  BY <1>5, <1>7 DEF Written
<1>10. ASSUME reorder.held # {}
       PROVE  /\ SmallestHeld(reorder.held) = reorder.next
              /\ reorder.next \in reorder.held
              /\ reorder.next \in Chunks
  <2>1. reorder.next \in Chunks
    <3>1. PICK c \in reorder.held : c \in Chunks
      BY <1>6, <1>10
    <3>2. c \notin Written
      BY <1>6, <3>1
    <3>3. ~Less(c, reorder.next)
      BY <3>1, <3>2 DEF Written
    <3> QED
      BY <1>7, <1>8, <3>1, <3>3
  <2>2. \A d \in reorder.held : ~Less(d, reorder.next)
    BY <1>6 DEF Written
  <2>3. reorder.held \subseteq Chunk
    BY DEF ArchiveInv, PipelineInv, ReorderOK, Reorders
  <2>4. SmallestHeld(reorder.held) = reorder.next
    BY <1>9, <1>10, <2>1, <2>2, <2>3, SmallestIsHeld
  <2> QED
    BY <1>9, <2>1, <2>4
<1> QED
  BY <1>8, <1>9, <1>10

LEMMA ReorderWriteMoves ==
    ASSUME ArchiveInv, PipelineInv', ReorderWrite
    PROVE  ArchiveInv' /\ reorder.next \in Chunks /\ reorder.phase = "run"
           /\ archive' = Append(archive, RecordOf(Content(reorder.next)))
<1>1. PICK c : c = reorder.next /\ c = reorder.chunk /\ c # None
  BY DEF ReorderWrite, ArchiveInv, OrderOK
<1>2. PICK n : n = Successor(c)
  OBVIOUS
<1>3. /\ reorder \in Reorders /\ reorder.phase = "run" /\ ChunksOK
  BY DEF ReorderWrite, ArchiveInv, PipelineInv, ReorderOK
<1>4. c \in Chunks /\ c \notin reorder.held
  <2>1. <<"chunk", 0>> \in Places /\ <<"held", 0>> \in Places /\ <<"chunk", 0>> # <<"held", 0>>
    BY DEF Places
  <2>2. c \in chunksAt[<<"chunk", 0>>] /\ chunksAt[<<"held", 0>>] = reorder.held
    BY <1>1, PlacesAt
  <2> QED
    BY <1>3, <2>1, <2>2, OnePlace
<1>5. /\ WriteChunk(c)
      /\ UNCHANGED <<reorder_que, chunks_per_anchor, reorderUnchanged>>
  BY <1>1 DEF ReorderWrite
<1> PICK ready \in BOOLEAN : ready <=> reorder.held # {} /\ SmallestHeld(reorder.held) = n
  <2>1. (reorder.held # {} /\ SmallestHeld(reorder.held) = n) \in BOOLEAN
    OBVIOUS
  <2> QED
    BY <2>1
<1>6. reorder' = IF NextInBounds
                 THEN [reorder EXCEPT !.next = n, !.chunk = IF ready THEN n ELSE None,
                                      !.held = IF ready THEN @ \ {n} ELSE @]
                 ELSE [reorder EXCEPT !.phase = "overrun"]
  BY <1>1, <1>2 DEF ReorderWrite
<1>7. ready => n \in reorder.held /\ n # None
  <2>1. reorder.held \subseteq Chunk
    BY <1>3 DEF Reorders
  <2>2. ASSUME reorder.held # {}
        PROVE  SmallestHeld(reorder.held) \in reorder.held
    BY <2>1, <2>2, SmallestIsHeld
  <2>3. None \notin reorder.held
    BY <2>1, PipelineAssumption DEF Chunk
  <2> QED
    BY <2>2, <2>3
<1>8. NextInBounds => HoldsRest(c)
  <2> SUFFICES ASSUME NextInBounds
               PROVE  HoldsRest(c)
    OBVIOUS
  <2>1. /\ reorder'.next = n /\ reorder'.phase = reorder.phase
        /\ reorder'.chunk = IF ready THEN n ELSE None
        /\ reorder'.held = IF ready THEN reorder.held \ {n} ELSE reorder.held
    BY <1>3, <1>6 DEF Reorders
  <2>2. None \notin Chunks /\ None \notin reorder.held
    BY <1>3, ChunkType, PipelineAssumption DEF ArchiveInv, Chunk, Reorders
  <2>3. \A d \in Chunks : d \in reorder'.held \/ d = reorder'.chunk
                          <=> (d \in reorder.held \/ d = reorder.chunk) /\ d # c
    BY <1>1, <1>4, <1>7, <2>1, <2>2
  <2> QED
    BY <1>2, <1>3, <1>7, <2>1, <2>2, <2>3 DEF HoldsRest
<1>9. reorder'.recv = reorder.recv
  BY <1>3, <1>6 DEF Reorders
<1>10. \/ NextInBounds /\ HoldsRest(c)
       \/ reorder' = [reorder EXCEPT !.phase = "overrun"]
  BY <1>6, <1>8
<1> QED
  BY <1>1, <1>3, <1>4, <1>5, <1>9, <1>10, WritesChunk

LEMMA ReorderFlushMoves ==
    ASSUME ArchiveInv, PipelineInv', ReorderFlush
    PROVE  /\ ArchiveInv'
           /\ \/ UNCHANGED archive
              \/ /\ reorder.next \in Chunks /\ reorder.phase = "flush"
                 /\ archive' = Append(archive, RecordOf(Content(reorder.next)))
<1>1. /\ reorder \in Reorders /\ reorder.phase = "flush" /\ reorder.chunk = None
      /\ UNCHANGED <<reorder_que, chunks_per_anchor, reorderUnchanged>>
      /\ ChunksOK /\ OrderOK /\ DataOK /\ LengthOK /\ CoarseOK
  BY DEF ReorderFlush, ArchiveInv, PipelineInv, ReorderOK, OrderOK, Ending
<1>2. /\ reorder.held = {} => reorder.next = <<Len(input), 0>>
      /\ reorder.held # {} => /\ SmallestHeld(reorder.held) = reorder.next
                              /\ reorder.next \in reorder.held
                              /\ reorder.next \in Chunks
  BY <1>1, AllTaken DEF Ending
<1>3. CASE reorder.held = {} /\ reorder' = [reorder EXCEPT !.phase = "done"] /\ UNCHANGED <<state, archive>>
  <2>1. /\ reorder'.held = reorder.held /\ reorder'.chunk = reorder.chunk
        /\ reorder'.next = reorder.next /\ reorder'.recv = reorder.recv
        /\ reorder'.phase = "done"
    BY <1>1, <1>3 DEF Reorders
  <2>2. /\ input' = input /\ UNCHANGED <<cache, original, state, chunks_per_anchor, archive>>
    BY <1>1, <1>3 DEF reorderUnchanged
  <2>3. CoarseOK' /\ Uncut' = Uncut
    BY <1>1, CoarseFrame DEF reorderUnchanged
  <2>4. \A p \in Buffers : Line(p)' = Line(p)
    BY <1>1, <2>1, BufferCases DEF Line, OfThreads, OfQueues, reorderUnchanged
  <2>5. lines' = lines /\ Written' = Written
    BY <2>1, <2>2, <2>4, LinesSame, WrittenFrame
  <2>6. chunksAt' = chunksAt
    BY <2>1, <2>3, <2>5 DEF chunksAt
  <2>7. \A c : /\ Taken(c)' = Taken(c) /\ Unseen(c)' = Unseen(c)
               /\ ToCompress(c)' = ToCompress(c)
    BY <2>6 DEF Taken, Unseen, ToCompress, In
  <2>8. ChunksOK'
    BY <1>1, <2>2, <2>5, <2>6, InputSame DEF ChunksOK
  <2>9. OrderOK'
    <3>1. Chunks' = Chunks /\ \A c : isLastL2Chunk(c)' = isLastL2Chunk(c)
      BY <2>2, InputSame
    <3>2. reorder'.recv = <<>> /\ reorder'.chunk = None
      BY <1>1, <2>1 DEF OrderOK, Ending
    <3> QED
      BY <1>1, <2>1, <2>2, <2>7, <3>1, <3>2 DEF OrderOK
  <2>10. LengthOK'
    BY <1>1, <1>2, <1>3, <2>1, <2>2, InputSame DEF LengthOK
  <2>11. DataOK'
    BY <1>1, <2>2, <2>7, DataFrame
  <2> QED
    BY <1>3, <2>2, <2>3, <2>8, <2>9, <2>10, <2>11 DEF ArchiveInv
<1>4. CASE /\ reorder.held # {} /\ WriteChunk(reorder.next)
           /\ reorder' = IF NextInBounds
                         THEN [reorder EXCEPT !.held = @ \ {reorder.next},
                                              !.next = Successor(reorder.next)]
                         ELSE [reorder EXCEPT !.phase = "overrun"]
  <2>1. PICK c \in Chunks : c = reorder.next /\ c \in reorder.held
    BY <1>2, <1>4
  <2>2. NextInBounds => HoldsRest(c)
    <3> SUFFICES ASSUME NextInBounds
                 PROVE  HoldsRest(c)
      OBVIOUS
    <3>1. /\ reorder'.next = Successor(c) /\ reorder'.phase = reorder.phase
          /\ reorder'.chunk = None /\ reorder'.held = reorder.held \ {c}
      BY <1>1, <1>4, <2>1 DEF Reorders
    <3>2. None \notin Chunks /\ None \notin reorder.held
      BY <1>1, ChunkType, PipelineAssumption DEF ArchiveInv, Chunk, Reorders
    <3>3. \A d \in Chunks : d \in reorder'.held \/ d = reorder'.chunk
                            <=> (d \in reorder.held \/ d = reorder.chunk) /\ d # c
      BY <1>1, <3>1, <3>2
    <3> QED
      BY <3>1, <3>2, <3>3 DEF HoldsRest
  <2>3. reorder'.recv = reorder.recv
    BY <1>1, <1>4 DEF Reorders
  <2>4. WriteChunk(c) /\ (\/ NextInBounds /\ HoldsRest(c)
                          \/ reorder' = [reorder EXCEPT !.phase = "overrun"])
    BY <1>4, <2>1, <2>2
  <2> QED
    BY <1>1, <2>1, <2>3, <2>4, WritesChunk
<1> QED
  BY <1>2, <1>3, <1>4 DEF ReorderFlush

-------------------------------------------------------------------------------
(* The invariant holds, and what follows from it.                          *)

LEMMA ArchiveInit ==
    Init => ArchiveInv
<1> SUFFICES ASSUME Init
             PROVE  ArchiveInv
  OBVIOUS
<1>1. PipelineInv /\ input \in Inputs
  BY InitOK DEF Init
<1>2. PICK l \in Nat : l = Len(input)
  BY <1>1, InputType
<1>3. \A c \in Chunks : /\ c = <<c[1], c[2]>> /\ c[1] \in 0 .. l - 1 /\ c[1] \in Nat /\ c[2] \in Nat
                        /\ c # None
  <2>1. \A c \in Chunks : c = <<c[1], c[2]>> /\ c[1] \in 0 .. l - 1
    BY <1>1, <1>2, ChunkType
  <2>2. \A c \in Chunks : c[1] \in Nat /\ c[2] \in Nat /\ c # None
    BY <1>1, ChunkType, PipelineAssumption DEF Chunk
  <2> QED
    BY <2>1, <2>2
<1>4. ToSet(<<>>) = {} /\ Distinct(<<>>)
  BY DEF ToSet, Distinct
<1>5. CoarseOK
  <2>1. /\ fragment.anchorcount = 0 /\ \A q \in Queues : refine_que[q].items = <<>>
        /\ \A t \in Threads : refiner[t].recv = <<>> /\ refiner[t].chcount = 0
    BY DEF Init, EmptyQueue
  <2> QED
    BY <1>2, <1>4, <2>1 DEF CoarseOK
<1>6. \A p \in Buffers : lines[p] = <<>>
  <2>1. \A p \in Buffers : Line(p) = <<>>
    BY BufferCases DEF Init, EmptyQueue, Line, OfThreads, OfQueues
  <2> QED
    BY <2>1 DEF lines
<1>7. \A c : c \in Uncut <=> c \in Chunks
  BY <1>3 DEF Init, Uncut
<1>8. \A c : c \notin Written
  <2>1. reorder.next = <<0, 0>>
    BY DEF Init
  <2>2. \A c \in Chunks : ~Less(c, <<0, 0>>)
    BY <1>3 DEF Less
  <2> QED
    BY <2>1, <2>2 DEF Written
<1>9. \A p \in Places : \A c : c \in chunksAt[p] <=> p = <<"input", 0>> /\ c \in Chunks
  <2>1. \A p \in Buffers : \A c : c \notin chunksAt[p]
    BY <1>4, <1>6, PlacesAt
  <2>2. /\ \A c : c \in chunksAt[<<"input", 0>>] <=> c \in Chunks
        /\ \A c : /\ c \notin chunksAt[<<"held", 0>>] /\ c \notin chunksAt[<<"chunk", 0>>]
                  /\ c \notin chunksAt[<<"archive", 0>>]
    BY <1>7, <1>8, PlacesAt DEF Init
  <2>3. <<"input", 0>> \notin Buffers
    BY PlacesAt
  <2> QED
    BY <2>1, <2>2, <2>3, PlacesAt
<1>10. ChunksOK
  <2>1. <<"input", 0>> \in Places
    BY DEF Places
  <2>2. Parts(Places, chunksAt, Chunks)
    BY <1>9, <2>1 DEF Parts
  <2> QED
    BY <1>4, <1>6, <2>2 DEF ChunksOK
<1>11. \A c : ~Taken(c) /\ ~ToCompress(c) /\ (c \in Chunks => Unseen(c))
  <2>1. <<"input", 0>> \in Places
    BY DEF Places
  <2> QED
    BY <1>9, <2>1 DEF Taken, ToCompress, Unseen, In
<1>12. OrderOK
  <2>1. <<0, 0>> \in Chunks \cup {<<Len(input), 0>>}
    <3>1. CASE l = 0
      BY <1>2, <3>1
    <3>2. CASE l # 0
      <4>1. 0 + 1 \in 1 .. l /\ 0 \in 0 .. l - 1
        BY <3>2
      <4>2. Len(input[0 + 1]) \in Nat \ {0}
        BY <1>1, <1>2, <4>1, InputType
      <4>3. <<0, 0>>[1] = 0 /\ <<0, 0>>[2] = 0 /\ 0 \in 0 .. Len(input[0 + 1]) - 1
        BY <4>2
      <4> QED
        BY <1>1, <1>2, <4>1, <4>3, ChunkType
    <3> QED
      BY <3>1, <3>2
  <2>2. /\ InitialAnchors \in Nat \ {0}
        /\ chunks_per_anchor \in [0 .. InitialAnchors - 1 -> Nat]
        /\ \A k \in DOMAIN chunks_per_anchor : chunks_per_anchor[k] = 0
    BY PipelineAssumption DEF Init
  <2>3. reorder.next = <<0, 0>> /\ reorder.chunk = None /\ reorder.phase = "run"
    BY DEF Init
  <2> QED
    BY <1>11, <2>1, <2>2, <2>3 DEF OrderOK, Ending
<1>13. DataOK
  <2>1. /\ cache \in [Contents -> Chunks \cup {None}] /\ \A x \in Contents : cache[x] = None
        /\ original \in [Chunks -> Chunks \cup {None}]
        /\ state \in [Chunks -> {UNCOMPRESSED, COMPRESSED, FLUSHED}]
        /\ \A c \in Chunks : state[c] = UNCOMPRESSED
    BY DEF Init
  <2>2. archive = <<>> /\ \A x : x \notin Archived
    BY DEF Init, Archived
  <2>3. archive \in Seq([type : {TYPE_FINGERPRINT, TYPE_COMPRESS}, content : Contents])
    BY <2>2
  <2> QED
    BY <1>11, <2>1, <2>2, <2>3 DEF DataOK
<1>14. LengthOK
  <2>1. reorder.next = <<0, 0>> /\ reorder.phase = "run" /\ Len(archive) = 0
    BY DEF Init
  <2>2. Offset(0) = 0
    BY <1>1, Offsets
  <2> QED
    BY <2>1, <2>2 DEF LengthOK
<1> QED
  BY <1>1, <1>5, <1>10, <1>12, <1>13, <1>14 DEF ArchiveInv

(* A step writes nothing, or the record of the next chunk.                 *)
Writes ==
    /\ input' = input
    /\ \/ archive' = archive
       \/ /\ reorder.next \in Chunks /\ reorder.phase \in {"run", "flush"}
          /\ archive' = Append(archive, RecordOf(Content(reorder.next)))

LEMMA ArchiveStep ==
    ASSUME ArchiveInv, [Next]_vars
    PROVE  ArchiveInv' /\ Writes
<1>1. PipelineInv'
  BY StepOK DEF ArchiveInv
<1>2. CASE Fragment
  <2>1. ArchiveInv'
    BY <1>1, <1>2, FragmentSendMoves, FragmentTerminateMoves DEF Fragment
  <2>2. input' = input /\ archive' = archive
    BY <1>2 DEF Fragment, FragmentSend, FragmentTerminate
  <2> QED
    BY <2>1, <2>2 DEF Writes
<1>3. ASSUME NEW t \in Threads, FragmentRefine(t)
      PROVE  ArchiveInv' /\ Writes
  <2>1. ArchiveInv'
    BY <1>1, <1>3, RefineFetchMoves, RefineChunkMoves, RefineSendMoves, RefineTerminateMoves
       DEF FragmentRefine
  <2>2. input' = input /\ archive' = archive
    BY <1>3 DEF FragmentRefine, RefineFetch, RefineChunk, RefineSend, RefineTerminate,
                refineUnchanged
  <2> QED
    BY <2>1, <2>2 DEF Writes
<1>4. ASSUME NEW t \in Threads, Deduplicate(t)
      PROVE  ArchiveInv' /\ Writes
  <2>1. ArchiveInv'
    BY <1>1, <1>4, DedupFetchMoves, DedupChunkMoves, DedupSendCompressMoves,
       DedupSendReorderMoves, DedupTerminateMoves DEF Deduplicate
  <2>2. input' = input /\ archive' = archive
    BY <1>4 DEF Deduplicate, DedupFetch, DedupChunk, DedupSendCompress, DedupSendReorder,
                DedupTerminate, dedupUnchanged
  <2> QED
    BY <2>1, <2>2 DEF Writes
<1>5. ASSUME NEW t \in Threads, Compress(t)
      PROVE  ArchiveInv' /\ Writes
  <2>1. ArchiveInv'
    BY <1>1, <1>5, CompressFetchMoves, CompressChunkMoves, CompressSendMoves,
       CompressTerminateMoves DEF Compress
  <2>2. input' = input /\ archive' = archive
    BY <1>5 DEF Compress, CompressFetch, CompressChunk, CompressSend, CompressTerminate,
                compressUnchanged
  <2> QED
    BY <2>1, <2>2 DEF Writes
<1>6. CASE Reorder
  <2>1. CASE ReorderFetch
    BY <1>1, <2>1, ReorderFetchMoves DEF ReorderFetch, reorderUnchanged, Writes
  <2>2. CASE ReorderTake
    BY <1>1, <2>2, ReorderTakeMoves DEF ReorderTake, reorderUnchanged, Writes
  <2>3. CASE ReorderWrite
    <3>1. input' = input
      BY <2>3 DEF ReorderWrite, reorderUnchanged
    <3> QED
      BY <1>1, <2>3, <3>1, ReorderWriteMoves DEF Writes
  <2>4. CASE ReorderFlush
    <3>1. input' = input
      BY <2>4 DEF ReorderFlush, reorderUnchanged
    <3> QED
      BY <1>1, <2>4, <3>1, ReorderFlushMoves DEF Writes
  <2> QED
    BY <1>6, <2>1, <2>2, <2>3, <2>4 DEF Reorder
<1>7. CASE UNCHANGED vars
  <2>1. ReorderKeeps /\ CoarseOK' /\ Uncut' = Uncut
    BY <1>7, CoarseFrame DEF vars, ReorderKeeps, ArchiveInv
  <2>2. \A p \in Buffers : Line(p)' = Line(p)
    BY <1>7 DEF vars, Line
  <2>3. /\ input' = input
        /\ UNCHANGED <<cache, original, state, chunks_per_anchor, archive>>
    BY <1>7 DEF vars
  <2> QED
    BY <1>1, <2>1, <2>2, <2>3, NothingMoves DEF Writes
<1> QED
  BY <1>2, <1>3, <1>4, <1>5, <1>6, <1>7 DEF Next, Joined

(* Where every chunk is, what is known of its data, and how far the        *)
(* archive has grown.                                                      *)
THEOREM ArchiveInvHolds == Spec => []ArchiveInv
<1>1. ArchiveInv /\ [Next]_vars => ArchiveInv'
  BY ArchiveStep
<1> QED
  BY <1>1, ArchiveInit, PTL DEF Spec

(* The final flush finds no gap ("sequence number mismatch", encoder.c:1315*)
(* and 1319), and when Reorder ends it has written every chunk.            *)
THEOREM ArchiveCompleteHolds == Spec => []ArchiveComplete
<1>1. ArchiveInv => ArchiveComplete
  <2> SUFFICES ASSUME ArchiveInv
               PROVE  ArchiveComplete
    OBVIOUS
  <2>1. PICK l \in Nat : l = Len(input)
    BY InputType DEF ArchiveInv
  <2>2. Len(FlattenSeq(input)) = Offset(l) /\ Offset(l) \in Nat
    BY <2>1, FlatAt, Offsets DEF ArchiveInv
  <2>3. ASSUME reorder.phase = "done"
        PROVE  Len(archive) = Offset(l)
    <3>1. reorder.next = <<l, 0>> /\ reorder.phase # "overrun"
      BY <2>1, <2>3 DEF ArchiveInv, LengthOK
    <3>2. Len(archive) = Offset(l) + 0
      BY <3>1 DEF ArchiveInv, LengthOK
    <3> QED
      BY <2>2, <3>2
  <2> QED
    BY <2>2, <2>3 DEF ArchiveComplete, ArchiveInv, LengthOK
<1> QED
  BY <1>1, ArchiveInvHolds, PTL

LEMMA SerialInit ==
    Init => Serial!Init
<1> SUFFICES ASSUME Init
             PROVE  Serial!Init
  OBVIOUS
<1>1. input \in Inputs /\ archive = <<>> /\ {archive[k].content : k \in DOMAIN archive} = {}
  BY DEF Init
<1> QED
  BY <1>1, Zenon DEF Serial!Init

LEMMA SerialStep ==
    ASSUME ArchiveInv, [Next]_vars
    PROVE  [Serial!ArchiveChunk]_(Serial!vars)
<1>1. Writes
  BY ArchiveStep
<1>2. CASE archive' = archive
  BY <1>1, <1>2 DEF Writes, Serial!vars
<1>3. CASE archive' # archive
  <2>1. PICK c \in Chunks : c = reorder.next
    BY <1>1, <1>3 DEF Writes
  <2>2. /\ input' = input /\ archive' = Append(archive, RecordOf(Content(c)))
        /\ Len(archive) = Offset(c[1]) + c[2]
    BY <1>1, <1>3, <2>1 DEF Writes, ArchiveInv, LengthOK
  <2>3. PICK f : f = FlattenSeq(input) /\ FlattenSeq(input)' = f
    BY <2>2
  <2>4. PICK n \in Nat : n = Len(archive)
    <3>1. archive \in Seq([type : {TYPE_FINGERPRINT, TYPE_COMPRESS}, content : Contents])
      BY DEF ArchiveInv, DataOK
    <3> QED
      BY <3>1
  <2>5. n + 1 \in 1 .. Len(f) /\ f[n + 1] = Content(c) /\ Len(f) \in Nat
    <3>0. PICK m \in Nat : m = Len(input)
      BY InputType DEF ArchiveInv
    <3>1. PICK l \in Nat : l = m /\ Offset(l) \in Nat /\ Len(f) = Offset(l)
      <4>1. Offset(m) \in Nat
        BY <3>0, Offsets DEF ArchiveInv
      <4>2. Len(f) = Offset(m)
        BY <2>3, <3>0, FlatAt DEF ArchiveInv
      <4> QED
        BY <4>1, <4>2
    <3>2. /\ Offset(c[1]) + c[2] + 1 \in 1 .. Offset(l)
          /\ f[Offset(c[1]) + c[2] + 1] = Content(c)
      BY <2>3, <3>0, <3>1, FlatAt DEF ArchiveInv
    <3>3. Offset(c[1]) + c[2] + 1 = n + 1
      BY <2>2, <2>4
    <3> QED
      BY <3>1, <3>2, <3>3
  <2>6. n < Len(f)
    BY <2>5
  <2>7. \A v : v \in Archived' <=> v \in Archived \/ v = Content(c)
    <3> DEFINE R == [type : {TYPE_FINGERPRINT, TYPE_COMPRESS}, content : Contents]
    <3>1. /\ archive \in Seq(R) /\ RecordOf(Content(c)) \in R
          /\ RecordOf(Content(c)).content = Content(c)
      BY DEF ArchiveInv, DataOK, RecordOf, Contents
    <3> HIDE DEF R
    <3> QED
      BY <2>2, <3>1, ArchiveGrows
  <2>8. Archived' = Archived \cup {f[n + 1]}
    BY <2>5, <2>7
  <2>9. archive' = Append(archive,
                          Serial!Record(IF f[n + 1] \in Archived THEN TYPE_FINGERPRINT
                                        ELSE TYPE_COMPRESS, f[n + 1]))
    BY <2>2, <2>5, Zenon DEF Serial!Record, RecordOf
  <2>10. Serial!ArchiveChunk
    BY <2>3, <2>4, <2>6, <2>8, <2>9, Zenon DEF Serial!ArchiveChunk, Archived
  <2> QED
    BY <2>10
<1> QED
  BY <1>2, <1>3

(* The pipeline writes what the build without threads writes.              *)
THEOREM ImplementsSerialHolds == Spec => ImplementsSerial
<1>1. ArchiveInv /\ [Next]_vars => [Serial!ArchiveChunk]_(Serial!vars)
  BY SerialStep
<1> QED
  BY <1>1, SerialInit, ArchiveInvHolds, PTL DEF Spec, ImplementsSerial, Serial!Spec

================================================================================
