----------------------------- MODULE DedupPipeline -----------------------------
(***************************************************************************)
(* The parallel pipeline of dedup (encoder.c):                             *)
(*                                                                         *)
(*   Fragment --> FragmentRefine --> Deduplicate --> Compress --> Reorder  *)
(*                                        |                         ^      *)
(*                                        +------- duplicates ------+      *)
(*                                                                         *)
(* One Fragment and one Reorder thread, NThreads threads for each of the   *)
(* other stages.  The threads of a stage are split into groups of at most  *)
(* MAX_THREADS_PER_QUEUE, and each group has queues of its own.  A call of *)
(* queue_enqueue, queue_dequeue or queue_terminate is one step here: it    *)
(* holds the queue's mutex throughout, and module DedupQueue shows that    *)
(* such a queue is a bounded first-in first-out channel.                   *)
(*                                                                         *)
(* A chunk is named by its sequence number <<l1num, l2num>>; its data is   *)
(* abstracted to a content, equal for equal data (and so equal SHA1 sums). *)
(***************************************************************************)
EXTENDS Integers, Sequences, FiniteSets, SequencesExt

CONSTANTS Inputs,                 \* each input: a sequence of coarse chunks, each
                                  \* a non-empty sequence of contents
          NThreads,               \* conf->nthreads
          MAX_THREADS_PER_QUEUE,
          QUEUE_SIZE,
          MAX_PER_FETCH,          \* batch of FragmentRefine's receive buffer
          CHUNK_ANCHOR,           \* CHUNK_ANCHOR_PER_INSERT and _PER_FETCH
          ITEM,                   \* ITEM_PER_INSERT and _PER_FETCH
          InitialAnchors,         \* the first chunks_per_anchor_max (1024)
          TYPE_FINGERPRINT, TYPE_COMPRESS,       \* the types of archive records
          UNCOMPRESSED, COMPRESSED, FLUSHED,     \* the states of a chunk
          None

ASSUME PipelineAssumption ==
    /\ {NThreads, MAX_THREADS_PER_QUEUE, QUEUE_SIZE, MAX_PER_FETCH, CHUNK_ANCHOR,
        ITEM, InitialAnchors} \subseteq Nat \ {0}
    /\ \A i \in Inputs :
          /\ i \in Seq(ToSet(i))
          /\ \A k \in DOMAIN i : i[k] \in Seq(ToSet(i[k])) \ {<<>>}
    /\ TYPE_FINGERPRINT # TYPE_COMPRESS
    /\ UNCOMPRESSED # COMPRESSED /\ COMPRESSED # FLUSHED /\ FLUSHED # UNCOMPRESSED
    /\ None \notin Nat \X Nat

Threads == 0 .. NThreads - 1

nqueues == (NThreads \div MAX_THREADS_PER_QUEUE)
           + (IF NThreads % MAX_THREADS_PER_QUEUE # 0 THEN 1 ELSE 0)

Queues == 0 .. nqueues - 1

qid(tid) == tid \div MAX_THREADS_PER_QUEUE

threads_per_queue(q) ==
    IF q < nqueues - 1 \/ NThreads % MAX_THREADS_PER_QUEUE = 0
    THEN MAX_THREADS_PER_QUEUE
    ELSE NThreads % MAX_THREADS_PER_QUEUE

VARIABLES
    input,             \* the coarse chunks of the file being encoded
    refine_que, deduplicate_que, compress_que, reorder_que,
    fragment,          \* the Fragment thread
    refiner,           \* the FragmentRefine threads
    deduper,           \* the Deduplicate threads
    compressor,        \* the Compress threads
    reorder,           \* the Reorder thread
    cache,             \* the hashtable: the original chunk of each content seen
    original,          \* compressed_data_ref of a duplicate, the chunk itself of an original
    state,             \* header.state
    chunks_per_anchor, \* the array of Reorder, a function on its indexes
    archive            \* the records written to the output file

vars == <<input, refine_que, deduplicate_que, compress_que, reorder_que, fragment, refiner,
          deduper, compressor, reorder, cache, original, state, chunks_per_anchor, archive>>

-------------------------------------------------------------------------------
(* Chunks and queues.                                                      *)

Content(chunk) == input[chunk[1] + 1][chunk[2] + 1]

isLastL2Chunk(chunk) == chunk[2] + 1 = Len(input[chunk[1] + 1])

Chunks == UNION {{k - 1} \X (0 .. Len(input[k]) - 1) : k \in DOMAIN input}

Contents == {Content(chunk) : chunk \in Chunks}

Lesser(m, n) == IF m < n THEN m ELSE n

EmptyQueue(producers) == [items |-> <<>>, nTerminated |-> 0, nProducers |-> producers]

queue_isTerminated(que) == que.nTerminated = que.nProducers

AtEnd(que) == que.items = <<>> /\ queue_isTerminated(que)

queue_terminate(que) == [que EXCEPT !.nTerminated = @ + 1]

(* queue_dequeue into an empty private buffer with room for limit items:   *)
(* the batch it fetches and the queue it leaves.  It blocks while the queue*)
(* is empty and not terminated.                                            *)
Batch(que, limit) == SubSeq(que.items, 1, Lesser(limit, Len(que.items)))

Dequeued(que, limit) ==
    [que EXCEPT !.items = SubSeq(@, Lesser(limit, Len(@)) + 1, Len(@))]

(* queue_enqueue from a private buffer: the queue afterwards and what the  *)
(* buffer still holds.  It blocks while the queue is full.                 *)
HasRoom(que) == Len(que.items) < QUEUE_SIZE

Moved(que, buf) == Lesser(QUEUE_SIZE - Len(que.items), Len(buf))

Enqueued(que, buf) == [que EXCEPT !.items = @ \o SubSeq(buf, 1, Moved(que, buf))]

Unsent(que, buf) == SubSeq(buf, Moved(que, buf) + 1, Len(buf))

(* A stage hands over a private buffer when it is full, and once its input *)
(* has ended until it is empty.                                            *)
MustSend(buf, limit, ended) == Len(buf) = limit \/ (ended /\ buf # <<>>)

Init ==
    /\ input \in Inputs
    /\ refine_que = [q \in Queues |-> EmptyQueue(1)]
    /\ deduplicate_que = [q \in Queues |-> EmptyQueue(threads_per_queue(q))]
    /\ compress_que = [q \in Queues |-> EmptyQueue(threads_per_queue(q))]
    /\ reorder_que = [q \in Queues |-> EmptyQueue(threads_per_queue(q))]
    /\ fragment = [anchorcount |-> 0, qid |-> 0, terminated |-> 0]
    /\ refiner = [t \in Threads |-> [recv |-> <<>>, chcount |-> 0, send |-> <<>>,
                                     ended |-> FALSE, done |-> FALSE]]
    /\ deduper = [t \in Threads |-> [recv |-> <<>>, compress |-> <<>>, reorder |-> <<>>,
                                     ended |-> FALSE, done |-> FALSE]]
    /\ compressor = [t \in Threads |-> [recv |-> <<>>, send |-> <<>>,
                                        ended |-> FALSE, done |-> FALSE]]
    /\ reorder = [phase |-> "run", qid |-> 0, tries |-> 0, recv |-> <<>>, held |-> {},
                  chunk |-> None, next |-> <<0, 0>>]
    /\ cache = [content \in Contents |-> None]
    /\ original = [chunk \in Chunks |-> None]
    /\ state = [chunk \in Chunks |-> UNCOMPRESSED]
    /\ chunks_per_anchor = [a \in 0 .. InitialAnchors - 1 |-> 0]
    /\ archive = <<>>

-------------------------------------------------------------------------------
(* Fragment: the coarse chunks go to the groups of threads in turn.        *)

FragmentSend ==
    LET q == fragment.qid IN
    /\ fragment.anchorcount < Len(input)
    /\ HasRoom(refine_que[q])
    /\ refine_que' = [refine_que EXCEPT ![q] = Enqueued(@, <<fragment.anchorcount>>)]
    /\ fragment' = [fragment EXCEPT !.anchorcount = @ + 1, !.qid = (@ + 1) % nqueues]
    /\ UNCHANGED <<input, deduplicate_que, compress_que, reorder_que, refiner, deduper,
                   compressor, reorder, cache, original, state, chunks_per_anchor, archive>>

(* The shutdown loop over the refinement queues, one queue per step.       *)
FragmentTerminate ==
    /\ fragment.anchorcount = Len(input) /\ fragment.terminated < nqueues
    /\ refine_que' = [refine_que EXCEPT ![fragment.terminated] = queue_terminate(@)]
    /\ fragment' = [fragment EXCEPT !.terminated = @ + 1]
    /\ UNCHANGED <<input, deduplicate_que, compress_que, reorder_que, refiner, deduper,
                   compressor, reorder, cache, original, state, chunks_per_anchor, archive>>

-------------------------------------------------------------------------------
(* FragmentRefine: the head of recv is the coarse chunk being split, and   *)
(* chcount the number of the next fine chunk.                              *)

refineUnchanged == <<input, compress_que, reorder_que, fragment, deduper, compressor, reorder,
                     cache, original, state, chunks_per_anchor, archive>>

RefineFetch(t) ==
    LET que == refine_que[qid(t)] IN
    /\ refiner[t].recv = <<>> /\ ~refiner[t].ended
    /\ ~MustSend(refiner[t].send, CHUNK_ANCHOR, FALSE)
    /\ \/ /\ que.items # <<>>
          /\ refine_que' = [refine_que EXCEPT ![qid(t)] = Dequeued(@, MAX_PER_FETCH)]
          /\ refiner' = [refiner EXCEPT ![t].recv = Batch(que, MAX_PER_FETCH)]
       \/ /\ AtEnd(que)
          /\ refiner' = [refiner EXCEPT ![t].ended = TRUE]
          /\ UNCHANGED refine_que
    /\ UNCHANGED <<deduplicate_que, refineUnchanged>>

RefineChunk(t) ==
    LET chunk == <<Head(refiner[t].recv), refiner[t].chcount>> IN
    /\ refiner[t].recv # <<>>
    /\ ~MustSend(refiner[t].send, CHUNK_ANCHOR, FALSE)
    /\ refiner' = [refiner EXCEPT
           ![t].send = Append(@, chunk),
           ![t].chcount = IF isLastL2Chunk(chunk) THEN 0 ELSE @ + 1,
           ![t].recv = IF isLastL2Chunk(chunk) THEN Tail(@) ELSE @]
    /\ UNCHANGED <<refine_que, deduplicate_que, refineUnchanged>>

RefineSend(t) ==
    LET que == deduplicate_que[qid(t)] IN
    /\ MustSend(refiner[t].send, CHUNK_ANCHOR, refiner[t].ended)
    /\ HasRoom(que)
    /\ deduplicate_que' = [deduplicate_que EXCEPT ![qid(t)] = Enqueued(@, refiner[t].send)]
    /\ refiner' = [refiner EXCEPT ![t].send = Unsent(que, @)]
    /\ UNCHANGED <<refine_que, refineUnchanged>>

RefineTerminate(t) ==
    /\ refiner[t].ended /\ refiner[t].send = <<>> /\ ~refiner[t].done
    /\ deduplicate_que' = [deduplicate_que EXCEPT ![qid(t)] = queue_terminate(@)]
    /\ refiner' = [refiner EXCEPT ![t].done = TRUE]
    /\ UNCHANGED <<refine_que, refineUnchanged>>

-------------------------------------------------------------------------------
(* Deduplicate.                                                            *)

dedupUnchanged == <<input, refine_que, fragment, refiner, compressor, reorder, state,
                    chunks_per_anchor, archive>>

DedupIdle(t) == /\ ~MustSend(deduper[t].compress, ITEM, FALSE)
                /\ ~MustSend(deduper[t].reorder, ITEM, FALSE)

DedupFetch(t) ==
    LET que == deduplicate_que[qid(t)] IN
    /\ deduper[t].recv = <<>> /\ ~deduper[t].ended /\ DedupIdle(t)
    /\ \/ /\ que.items # <<>>
          /\ deduplicate_que' = [deduplicate_que EXCEPT ![qid(t)] = Dequeued(@, CHUNK_ANCHOR)]
          /\ deduper' = [deduper EXCEPT ![t].recv = Batch(que, CHUNK_ANCHOR)]
       \/ /\ AtEnd(que)
          /\ deduper' = [deduper EXCEPT ![t].ended = TRUE]
          /\ UNCHANGED deduplicate_que
    /\ UNCHANGED <<compress_que, reorder_que, cache, original, dedupUnchanged>>

(* sub_Deduplicate, one critical section of the bucket's lock: the first   *)
(* chunk with its content becomes the original and goes to compression;    *)
(* any other refers to it and goes straight to the reorder stage.          *)
DedupChunk(t) ==
    LET chunk == Head(deduper[t].recv)
        entry == cache[Content(chunk)] IN
    /\ deduper[t].recv # <<>> /\ DedupIdle(t)
    /\ \/ /\ entry = None
          /\ cache' = [cache EXCEPT ![Content(chunk)] = chunk]
          /\ original' = [original EXCEPT ![chunk] = chunk]
          /\ deduper' = [deduper EXCEPT ![t].recv = Tail(@), ![t].compress = Append(@, chunk)]
       \/ /\ entry # None
          /\ original' = [original EXCEPT ![chunk] = entry]
          /\ deduper' = [deduper EXCEPT ![t].recv = Tail(@), ![t].reorder = Append(@, chunk)]
          /\ UNCHANGED cache
    /\ UNCHANGED <<deduplicate_que, compress_que, reorder_que, dedupUnchanged>>

DedupSendCompress(t) ==
    LET que == compress_que[qid(t)] IN
    /\ MustSend(deduper[t].compress, ITEM, deduper[t].ended)
    /\ HasRoom(que)
    /\ compress_que' = [compress_que EXCEPT ![qid(t)] = Enqueued(@, deduper[t].compress)]
    /\ deduper' = [deduper EXCEPT ![t].compress = Unsent(que, @)]
    /\ UNCHANGED <<deduplicate_que, reorder_que, cache, original, dedupUnchanged>>

(* At the end the compression buffer is drained first.                     *)
DedupSendReorder(t) ==
    LET que == reorder_que[qid(t)] IN
    /\ MustSend(deduper[t].reorder, ITEM, deduper[t].ended /\ deduper[t].compress = <<>>)
    /\ HasRoom(que)
    /\ reorder_que' = [reorder_que EXCEPT ![qid(t)] = Enqueued(@, deduper[t].reorder)]
    /\ deduper' = [deduper EXCEPT ![t].reorder = Unsent(que, @)]
    /\ UNCHANGED <<deduplicate_que, compress_que, cache, original, dedupUnchanged>>

(* Faulty variant: terminates compress_que before the buffer for          *)
(* reorder_que is drained.                                                *)
DedupTerminate_Undrained(t) ==
    /\ deduper[t].ended /\ ~deduper[t].done /\ deduper[t].compress = <<>>
    /\ compress_que' = [compress_que EXCEPT ![qid(t)] = queue_terminate(@)]
    /\ deduper' = [deduper EXCEPT ![t].done = TRUE]
    /\ UNCHANGED <<deduplicate_que, reorder_que, cache, original, dedupUnchanged>>

(* Only compress_que is told: the reorder queue counts the Compress        *)
(* threads as its producers, not the Deduplicate threads.                  *)
DedupTerminate(t) ==
    /\ deduper[t].ended /\ ~deduper[t].done
    /\ deduper[t].compress = <<>> /\ deduper[t].reorder = <<>>
    /\ compress_que' = [compress_que EXCEPT ![qid(t)] = queue_terminate(@)]
    /\ deduper' = [deduper EXCEPT ![t].done = TRUE]
    /\ UNCHANGED <<deduplicate_que, reorder_que, cache, original, dedupUnchanged>>

-------------------------------------------------------------------------------
(* Compress.                                                               *)

compressUnchanged == <<input, refine_que, deduplicate_que, fragment, refiner, deduper, reorder,
                       cache, original, chunks_per_anchor, archive>>

CompressFetch(t) ==
    LET que == compress_que[qid(t)] IN
    /\ compressor[t].recv = <<>> /\ ~compressor[t].ended
    /\ ~MustSend(compressor[t].send, ITEM, FALSE)
    /\ \/ /\ que.items # <<>>
          /\ compress_que' = [compress_que EXCEPT ![qid(t)] = Dequeued(@, ITEM)]
          /\ compressor' = [compressor EXCEPT ![t].recv = Batch(que, ITEM)]
       \/ /\ AtEnd(que)
          /\ compressor' = [compressor EXCEPT ![t].ended = TRUE]
          /\ UNCHANGED compress_que
    /\ UNCHANGED <<reorder_que, state, compressUnchanged>>

(* sub_Compress, one critical section of the chunk's lock.                 *)
CompressChunk(t) ==
    /\ compressor[t].recv # <<>>
    /\ ~MustSend(compressor[t].send, ITEM, FALSE)
    /\ LET chunk == Head(compressor[t].recv) IN
          /\ state' = [state EXCEPT ![chunk] = COMPRESSED]
          /\ compressor' = [compressor EXCEPT ![t].recv = Tail(@), ![t].send = Append(@, chunk)]
    /\ UNCHANGED <<compress_que, reorder_que, compressUnchanged>>

CompressSend(t) ==
    LET que == reorder_que[qid(t)] IN
    /\ MustSend(compressor[t].send, ITEM, compressor[t].ended)
    /\ HasRoom(que)
    /\ reorder_que' = [reorder_que EXCEPT ![qid(t)] = Enqueued(@, compressor[t].send)]
    /\ compressor' = [compressor EXCEPT ![t].send = Unsent(que, @)]
    /\ UNCHANGED <<compress_que, state, compressUnchanged>>

(* Faulty variant: returns without terminating reorder_que.               *)
CompressTerminate_Silent(t) ==
    /\ compressor[t].ended /\ compressor[t].send = <<>> /\ ~compressor[t].done
    /\ compressor' = [compressor EXCEPT ![t].done = TRUE]
    /\ UNCHANGED <<compress_que, reorder_que, state, compressUnchanged>>

CompressTerminate(t) ==
    /\ compressor[t].ended /\ compressor[t].send = <<>> /\ ~compressor[t].done
    /\ reorder_que' = [reorder_que EXCEPT ![qid(t)] = queue_terminate(@)]
    /\ compressor' = [compressor EXCEPT ![t].done = TRUE]
    /\ UNCHANGED <<compress_que, state, compressUnchanged>>

-------------------------------------------------------------------------------
(* Reorder.                                                                *)

reorderUnchanged == <<input, refine_que, deduplicate_que, compress_que, fragment, refiner,
                      deduper, compressor, cache, original>>

(* Faulty variant: ends as soon as one queue has ended.                   *)
ReorderFetch_FirstEnd ==
    LET que == reorder_que[reorder.qid] IN
    /\ reorder.phase = "run" /\ reorder.recv = <<>> /\ reorder.chunk = None
    /\ \/ /\ que.items # <<>>
          /\ reorder_que' = [reorder_que EXCEPT ![reorder.qid] = Dequeued(@, ITEM)]
          /\ reorder' = [reorder EXCEPT !.recv = Batch(que, ITEM), !.tries = 0,
                                        !.qid = (@ + 1) % nqueues]
       \/ /\ AtEnd(que)
          /\ reorder' = [reorder EXCEPT !.phase = "flush"]
          /\ UNCHANGED reorder_que
    /\ UNCHANGED <<state, chunks_per_anchor, archive, reorderUnchanged>>

(* One turn of the loop over the queues: it blocks on each queue in turn   *)
(* until it gets a batch, and gives up when a whole round found every      *)
(* queue at its end.                                                       *)
ReorderFetch ==
    LET que == reorder_que[reorder.qid] IN
    /\ reorder.phase = "run" /\ reorder.recv = <<>> /\ reorder.chunk = None
    /\ \/ /\ que.items # <<>>
          /\ reorder_que' = [reorder_que EXCEPT ![reorder.qid] = Dequeued(@, ITEM)]
          /\ reorder' = [reorder EXCEPT !.recv = Batch(que, ITEM), !.tries = 0,
                                        !.qid = (@ + 1) % nqueues]
       \/ /\ AtEnd(que)
          /\ reorder' = [reorder EXCEPT !.tries = @ + 1, !.qid = (@ + 1) % nqueues,
                             !.phase = IF reorder.tries + 1 = nqueues THEN "flush" ELSE @]
          /\ UNCHANGED reorder_que
    /\ UNCHANGED <<state, chunks_per_anchor, archive, reorderUnchanged>>

Doubled(f) == LET n == Cardinality(DOMAIN f) IN
    [a \in 0 .. 2 * n - 1 |-> IF a < n THEN f[a] ELSE 0]

(* Take one chunk: grow chunks_per_anchor if needed, note the length of    *)
(* its coarse chunk if it is the last one there, and either start writing  *)
(* with it or keep it in the cache of early chunks.  An index beyond the   *)
(* array is undefined behaviour; the model stops there.                    *)
ReorderTake ==
    LET chunk == Head(reorder.recv)
        anchors == IF chunk[1] >= Cardinality(DOMAIN chunks_per_anchor)
                   THEN Doubled(chunks_per_anchor) ELSE chunks_per_anchor IN
    /\ reorder.phase = "run" /\ reorder.recv # <<>> /\ reorder.chunk = None
    /\ IF chunk[1] \notin DOMAIN anchors /\ isLastL2Chunk(chunk)
       THEN /\ reorder' = [reorder EXCEPT !.phase = "overrun"]
            /\ UNCHANGED chunks_per_anchor
       ELSE /\ chunks_per_anchor' = IF isLastL2Chunk(chunk)
                                    THEN [anchors EXCEPT ![chunk[1]] = chunk[2] + 1]
                                    ELSE anchors
            /\ reorder' = IF chunk = reorder.next
                          THEN [reorder EXCEPT !.recv = Tail(@), !.chunk = chunk]
                          ELSE [reorder EXCEPT !.recv = Tail(@), !.held = @ \cup {chunk}]
    /\ UNCHANGED <<reorder_que, state, archive, reorderUnchanged>>

(* The tree of heaps yields the smallest held chunk.                       *)
SmallestHeld(held) ==
    CHOOSE chunk \in held : \A other \in held :
        chunk[1] < other[1] \/ (chunk[1] = other[1] /\ chunk[2] <= other[2])

(* sequence_inc_l2, then sequence_inc_l1 if the coarse chunk is complete.  *)
Successor(seq) ==
    IF seq[2] + 1 = chunks_per_anchor[seq[1]]
    THEN <<seq[1] + 1, 0>>
    ELSE <<seq[1], seq[2] + 1>>

(* Faulty variant: does not note that the data has been written.          *)
WriteChunk_NotFlushed(chunk) ==
    /\ state[original[chunk]] # UNCOMPRESSED
    /\ archive' = Append(archive, [type |-> TYPE_COMPRESS, content |-> Content(chunk)])
    /\ UNCHANGED state

(* write_chunk_to_file: wait until the original is compressed, then write  *)
(* its data the first time and its fingerprint later.                      *)
WriteChunk(chunk) ==
    /\ state[original[chunk]] # UNCOMPRESSED
    /\ \/ /\ state[original[chunk]] = COMPRESSED
          /\ state' = [state EXCEPT ![original[chunk]] = FLUSHED]
          /\ archive' = Append(archive, [type |-> TYPE_COMPRESS, content |-> Content(chunk)])
       \/ /\ state[original[chunk]] = FLUSHED
          /\ archive' = Append(archive, [type |-> TYPE_FINGERPRINT, content |-> Content(chunk)])
          /\ UNCHANGED state

NextInBounds == reorder.next[1] \in DOMAIN chunks_per_anchor

(* Write the current chunk and go on with the cache, as long as the        *)
(* smallest held chunk is the next in sequence.                            *)
ReorderWrite ==
    LET next == Successor(reorder.next)
        ready == reorder.held # {} /\ SmallestHeld(reorder.held) = next IN
    /\ reorder.phase = "run" /\ reorder.chunk # None
    /\ WriteChunk(reorder.chunk)
    /\ reorder' = IF NextInBounds
                  THEN [reorder EXCEPT !.next = next,
                                       !.chunk = IF ready THEN next ELSE None,
                                       !.held = IF ready THEN @ \ {next} ELSE @]
                  ELSE [reorder EXCEPT !.phase = "overrun"]
    /\ UNCHANGED <<reorder_que, chunks_per_anchor, reorderUnchanged>>

(* The final flush: the smallest held chunk must be the next one, or the   *)
(* encoder gives up ("L1/L2 sequence number mismatch").                    *)
ReorderFlush ==
    /\ reorder.phase = "flush"
    /\ IF reorder.held = {} THEN
          /\ reorder' = [reorder EXCEPT !.phase = "done"]
          /\ UNCHANGED <<state, archive>>
       ELSE IF SmallestHeld(reorder.held) # reorder.next THEN
          /\ reorder' = [reorder EXCEPT !.phase = "mismatch"]
          /\ UNCHANGED <<state, archive>>
       ELSE
          /\ WriteChunk(reorder.next)
          /\ reorder' = IF NextInBounds
                        THEN [reorder EXCEPT !.held = @ \ {reorder.next},
                                             !.next = Successor(reorder.next)]
                        ELSE [reorder EXCEPT !.phase = "overrun"]
    /\ UNCHANGED <<reorder_que, chunks_per_anchor, reorderUnchanged>>

-------------------------------------------------------------------------------

Fragment == FragmentSend \/ FragmentTerminate

FragmentRefine(t) == RefineFetch(t) \/ RefineChunk(t) \/ RefineSend(t) \/ RefineTerminate(t)

Deduplicate(t) == \/ DedupFetch(t) \/ DedupChunk(t) \/ DedupSendCompress(t)
                  \/ DedupSendReorder(t) \/ DedupTerminate(t)

Compress(t) == CompressFetch(t) \/ CompressChunk(t) \/ CompressSend(t) \/ CompressTerminate(t)

Reorder == ReorderFetch \/ ReorderTake \/ ReorderWrite \/ ReorderFlush

(* Encode has joined every thread.                                         *)
AllDone == /\ fragment.terminated = nqueues
           /\ \A t \in Threads : refiner[t].done /\ deduper[t].done /\ compressor[t].done
           /\ reorder.phase = "done"

Joined == AllDone /\ UNCHANGED vars

Next == \/ Fragment
        \/ \E t \in Threads : FragmentRefine(t) \/ Deduplicate(t) \/ Compress(t)
        \/ Reorder
        \/ Joined

Spec == Init /\ [][Next]_vars

(* Some thread that can go on eventually does; a queue call that can be    *)
(* served is served as module DedupQueue shows.  No step can be repeated   *)
(* for ever, so that nothing more is needed.                               *)
Fairness == WF_vars(Next)

FairSpec == Spec /\ Fairness

-------------------------------------------------------------------------------
(* Properties.                                                             *)

(* The pipeline writes, record by record, the archive that the build       *)
(* without threads writes for the same chunks: in input order, data before *)
(* every fingerprint that needs it, each content's data once.              *)
Serial == INSTANCE SerialDedup WITH
              Inputs <- {FlattenSeq(i) : i \in Inputs},
              input <- FlattenSeq(input),
              cache <- {archive[k].content : k \in DOMAIN archive}

ImplementsSerial == Serial!Spec

(* When Reorder ends, every chunk has been written and none is left in its *)
(* cache: the final flush finds no gap ("sequence number mismatch",        *)
(* encoder.c:1315, 1319).                                                  *)
ArchiveComplete ==
    /\ reorder.phase # "mismatch"
    /\ reorder.phase = "done" => Len(archive) = Len(FlattenSeq(input))

(* queue.c:42: no queue is terminated more often than it has producers.    *)
WithinProducers(que) == \A q \in Queues : que[q].nTerminated <= que[q].nProducers

(* queue.c:42, 88: no queue is terminated more often than it has producers,*)
(* and nobody who may still enqueue finds it terminated.  For the reorder  *)
(* queue this rests on the drain order of Deduplicate: it must empty its   *)
(* buffer for reorder_que before it terminates compress_que.               *)
NoEnqueueAfterTerminate ==
    /\ WithinProducers(refine_que) /\ WithinProducers(deduplicate_que)
    /\ WithinProducers(compress_que) /\ WithinProducers(reorder_que)
    /\ fragment.anchorcount < Len(input) =>
          \A q \in Queues : ~queue_isTerminated(refine_que[q])
    /\ \A t \in Threads :
          /\ ~refiner[t].done => ~queue_isTerminated(deduplicate_que[qid(t)])
          /\ deduper[t].compress # <<>> => ~queue_isTerminated(compress_que[qid(t)])
          /\ deduper[t].reorder # <<>> \/ compressor[t].send # <<>>
                => ~queue_isTerminated(reorder_que[qid(t)])

(* Reorder indexes chunks_per_anchor only within its bounds                *)
(* ("Double size of sequence number array if necessary", encoder.c:1238).  *)
AnchorIndexInBounds == reorder.phase # "overrun"

(* Reorder waits in write_chunk_to_file for a chunk that is not compressed.*)
WaitsForCompression ==
    reorder.chunk # None /\ state[original[reorder.chunk]] = UNCOMPRESSED

(* "If it is not then the function waits" (encoder.c:259-260): the wait    *)
(* for the compressed data ends.                                           *)
WaitEnds == WaitsForCompression ~> ~WaitsForCompression

(* "Receive chunks from compression and deduplication stage ... Cache      *)
(* chunks that arrive out-of-order" (encoder.c:1183-1185): a full reorder  *)
(* queue is taken from, so that the threads that fill it can go on.        *)
FullQueueDrains ==
    \A q \in Queues : ~HasRoom(reorder_que[q]) ~> HasRoom(reorder_que[q])

(* Every thread returns and Encode joins it.                               *)
Termination == <>AllDone

===============================================================================
