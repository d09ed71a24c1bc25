# TLA+ models and proofs for hpc-benchmarks

This directory holds TLA+ specifications of the concurrent core of the
benchmark suite in this repository, TLC configurations that check them on small
instances, and proofs checked by TLAPS. It covers six programs whose own logic
is concurrent: **dedup** (PARSEC kernel, a pipelined, deduplicating
compressor), **ferret** (PARSEC application, a pipeline of thread pools),
**canneal** (PARSEC kernel, simulated annealing without locks), the **PARSEC
barrier** (used by fluidanimate, streamcluster and netstreamcluster), the
**graph search** of OmpSCR (a team of threads with a shared pool of work) and
the **breadth-first search** of graph500 over MPI.

Abbreviations below: `dedup/` is `src/parsec-3.0/pkgs/kernels/dedup/src/`,
`barrier` is `src/parsec-3.0/pkgs/apps/fluidanimate/src/parsec_barrier.cpp`
(the copies in streamcluster and netstreamcluster are identical),
`search/` is `src/OmpSCR_v2.0/applications/c_GraphSearch/`, `ferret/` is
`src/parsec-3.0/pkgs/apps/ferret/src/`, `canneal/` is
`src/parsec-3.0/pkgs/kernels/canneal/src/` and `bfs` is
`src/graph500-2.1.4/mpi/bfs_simple.c`.

## 1. Inventory of the system

The repository is a collection of benchmarks, most of them numerical. What
each part keeps as state, how its parts interact, and what is hard:

| Part | State and operations | Interaction | Hard behaviour | What makes it correct |
|---|---|---|---|---|
| dedup queue (`dedup/queue.c`, `queue.h`) | ring buffer, count of terminated producers; enqueue, dequeue, terminate | mutex, two condition variables | batches with one signal each, end of stream, wrap-around | nothing lost, doubled or reordered; no lost wakeup; the end is final |
| dedup encoder (`dedup/encoder.c`) | queues per group of threads, hashtable, chunk states, cache of early chunks, archive | five stages; duplicates skip one | order of shutdown, waiting for another thread's chunk, output order | the archive is that of the serial build; everybody ends |
| dedup buffers (`dedup/mbuffer.c`) | blocks with reference counters | pieces move between threads | free after the unlock, resize of a shared block | each block freed once, after its last piece |
| dedup decoder (`dedup/decoder.c`) | hashtable of decoded chunks, output | reads what the encoder wrote | archive cut off in a record, references before data | output is the input, or a prefix and an error |
| dedup chunk cache (`dedup/binheap.c`, `tree.c`) | heaps in a search tree | Reorder only | deletion in all orders | always yields the least chunk |
| dedup I/O (`dedup/util.c`) | - | read, write | short, interrupted and failing calls | all bytes or an error |
| PARSEC barrier | counter, phase flag | mutex, one condition variable, optional polling | a fast thread that comes round again | nobody passes early; one serial thread |
| graph search (`search/c_testPath.c`) | stack of nodes, marks, count of waiting threads, found | two critical sections; unsynchronized reads in the loop tests | deciding that nobody will push any more | the answer is right; every thread ends |
| ferret pipeline (`ferret/src/queue.c`, `tpool.c`, `benchmark/ferret-pthreads.c`) | rings, counts of ended producers, what each thread holds | six stages, five queues | one signal per image, end of a stage with several threads | every queue a channel; every image written once |
| canneal (`canneal/AtomicPtr.h`, `annealer_thread.cpp`, `netlist.cpp`) | an atomic pointer per element, flag, barrier | exchanges of pairs, no locks | compare-and-set on stale values, order of acquisition, agreement to stop | exchanges look atomic; nobody spins or waits for ever |
| graph500 BFS (`bfs`) | two vertex queues, predecessor map, outstanding requests | MPI messages, allreduce per level | message order, end markers, progress while waiting | a breadth-first tree; every level ends |
| miniFE thread pool (`optional/ThreadPool/src/TPI.c`) | thread states, locks | fan-in and fan-out of work | nested use, blocking | each work item run once |
| bodytrack, facesim, vips, radiosity, raytrace, OmpSCR sorting | worker commands; atomic pointers; task queues and pools | threads | lock-free exchange, stealing, end of work | no lost command, location or task |
| HPCCG, NPB, NPB-MZ, other OmpSCR, SSCA2, lulesh, miniXyce, remaining PARSEC and SPLASH-2 | arrays | OpenMP, MPI collectives | numerical | numerical |
| `pkgs/libs`, `pkgs/tools`, sprng, generator | third-party | - | - | - |
| scripts (`experiment.sh` and others) | - | start the programs, record counters | - | - |

`PROJECT.json` lists each component with its status, and under `hazards` each
place where something can go wrong that a test would hardly reach.

### How dedup works

`Encode` starts one `Fragment` thread, one `Reorder` thread and `nthreads`
threads for each of `FragmentRefine`, `Deduplicate` and `Compress`. The threads
of a stage form groups of at most `MAX_THREADS_PER_QUEUE` (4); each group has a
queue of its own into each stage. Coarse chunks go round the groups; each is
cut into fine chunks. The first chunk with some fingerprint becomes the
original and goes to `Compress`, any other refers to the original and goes
straight to `Reorder`, which collects from the queues of all groups, holds
back early chunks and writes in input order; for a chunk whose original is not
yet compressed it waits on that chunk's condition variable. A thread gathers
items in a private ring buffer and hands them over in batches; at the end of
its input it drains its buffers and terminates its output queue, which ends
when as many producers have terminated as it was created with.

## 2. Modules

| Module | Models | Source |
|---|---|---|
| `RingBuffer` | the ring with one spare slot, as a record and functions | `dedup/queue.h` |
| `DedupQueue` | one queue with its producers and consumers | `dedup/queue.c` and its callers |
| `Channel` | abstract: a bounded first-in first-out channel that ends | - |
| `DedupPipeline` | the five stages, all queues, the hashtable, chunk states, archive | `dedup/encoder.c` |
| `SerialDedup` | abstract: the archive of the build without threads | `dedup/encoder.c`, `SerialIntegratedPipeline` |
| `MBuffer` | reference-counted buffers shared by threads | `dedup/mbuffer.c` |
| `ReorderCache` | the cache of early chunks: heaps in a search tree | `dedup/binheap.c`, `tree.c`, `encoder.c`, `Reorder` |
| `EarlyChunks` | abstract: chunks come in any order and are written in one | - |
| `Decoder` | decoding of an archive, complete or cut off | `dedup/decoder.c` |
| `DedupRoundTrip` | composes `SerialDedup` and `Decoder` | both |
| `ParsecBarrier` | `parsec_barrier_wait`, both builds | barrier |
| `Rendezvous` | abstract: nobody leaves before all have come | - |
| `TestPath` | `testPath`, the workers' farm | `search/c_testPath.c` |
| `FerretPipeline` | the queues and every thread of ferret | `ferret/src/queue.c`, `ferret/benchmark/ferret-pthreads.c` |
| `Annealer` | annealing threads, atomic exchange of locations | `canneal/` |
| `Placement` | abstract: two elements exchange their locations in one step | - |
| `BfsSimple` | `run_bfs` on all ranks, with the messages between them | `bfs` |
| `LevelBfs` | abstract: breadth-first search on one machine, a level at a time | - |
| `DedupQueueProofs`, `DedupPipelineProofs`, `MBufferProofs`, `DedupRoundTripProofs`, `ParsecBarrierProofs`, `TestPathProofs`, `BfsSimpleProofs` | theorems about the module of that name | |
| `ParsecAppsProofs` | theorems about `Annealer` and `FerretPipeline` | |
| `MC...` | constants for TLC | |

They fit together as a ladder. `DedupQueue` has one step for each thing a
thread does while it holds the mutex, and is shown (TLC) and proved (TLAPS) to
implement `Channel`. `DedupPipeline` therefore takes a call of a queue function
as one atomic step on a sequence. It is checked to implement `SerialDedup`
under the mapping that takes the archive as it is, the input flattened, and the
set of contents in the archive for the serial hashtable. `DedupRoundTrip` then
runs the decoder on what `SerialDedup` writes. `ReorderCache` implements
`EarlyChunks`, the view that `DedupPipeline` has of the cache. `ParsecBarrier` implements
`Rendezvous` with `calls` computed from where each thread is. Each queue of
`FerretPipeline` implements `Channel` too, `Annealer` implements `Placement`,
and `BfsSimple` implements `LevelBfs`.

### Correspondence of state and actions

*DedupQueue.* `buf`, `nTerminated` are the fields of `queue_t`; `owner` is who
holds the mutex, `moved` the loop counter of `queue_enqueue` or `queue_dequeue`,
`notFull` and `notEmpty` the threads asleep on the condition variables.
`EnqLock`, `EnqWait`, `EnqMove`, `EnqDone` are the lock, one turn of the wait
loop, one turn of the copy loop, and the signal with the unlock; `Deq...`
likewise; `Terminate` is one critical section. The callers are part of the model:
`Produce`, `Consume`, `MustEnqueue`, `MustDequeue` are how every stage uses its
private buffers. `SpuriousWakeup` is allowed by POSIX at any time.

*DedupPipeline.* A chunk is its pair of sequence numbers; its data is a
"content". Each stage's threads are records with their private buffers; the
actions are: fetch a batch, work on one chunk, hand over a buffer, terminate.
`DedupChunk` is the critical section of the bucket lock, `CompressChunk` that of
the chunk's lock. `ReorderTake` is one turn of Reorder's loop up to "is it the
next one", `ReorderWrite` one turn of the inner do-while including
`write_chunk_to_file`, `ReorderFlush` one turn of the final loop. The heaps and
the tree are a set with a least element, which is what `ReorderCache` implements. An index outside `chunks_per_anchor`
ends the model in phase "overrun", since the code's behaviour is then
undefined; a gap at the final flush ends it in phase "mismatch", as
`EXIT_TRACE` does.

*ReorderCache.* `tree` is the search tree, each node with its heap as a sequence;
the operators on both keep the names of the functions. `Receive`, `WriteThrough`
and `FlushCache` are the same turns of Reorder's loops as above, without waiting
and with the order of the chunks for the archive. The set of held chunks in
`EarlyChunks` is the contents of all heaps with the chunk in hand.

*MBuffer.* An `mbuffer_t` is a piece `[mcb, place, ptr, n]` with the thread that owns
it (`mbuffer.h` demands exclusive access); a block has a size, a place (`mcb->ptr`), the
counter `mcb->i`, and how often it was freed. The C pointer of a piece is its place
and the offset `ptr`: `realloc` may move a block to another place, and a piece that still
has the old one dangles. `mbuffer_free` is its critical section,
`Release` the rest of the call, after the unlock. Every other function changes
shared state only inside its critical section and is one action. A call that
fails changes nothing. `mbuffer_t` that are handed to another thread travel by
`HandOver`.

*Decoder, DedupRoundTrip.* `StartDecoder` may happen at any time, so that the
archive is any prefix of what the encoder would write; `StoppedInRecord` makes
the last record incomplete. The decoder takes one record per step.

*ParsecBarrier.* `n` and `is_arrival_phase` are the fields; `at[t]` says where
in `parsec_barrier_wait` a thread is. As the mutex is held except while a
thread waits, an action reaches from getting the mutex to giving it up.
A polling thread is one that waits without being asleep; `Stay` and
`EnterBlocked` are what it does if it comes too early with the mutex.

*TestPath.* The shared variables and each thread's private ones have their names
of the source; `at[t]` says where in its loops a thread is. Each critical section
is one step. The loop tests read `num_waiting` and then `found` without
synchronization, so each read is a step: other threads come in between. The
compiler cannot keep these variables in registers, since each turn of the loops
that could spin contains a critical section. The stack keeps its order; the order of a
node's successors, which the graph file gives, is left open.

*FerretPipeline.* Queue `q` leads from stage `q` to stage `q + 1`: stage 0 is
`t_load`, the last one `t_out`, and `t_seg`, `t_extract`, `t_vec` and `t_rank`
between them have the same control. The fields of `struct queue` have their
names; `empty` and `full` are the threads asleep on its condition variables.
Every access to a queue is made with its mutex, so that a step is a critical
section up to its end or to a wait. `file_helper` may be followed by another
or by `EndLoad`, since a directory holds any number of images.

*Annealer.* `present_loc` are the atomic pointers. `ReadFirst` and `Checkout`
are the two halves of `PrivateSet(ATOMIC_NULL)`, `ReadLast` and `SetLast` those
of `PrivateSet(valFirst)`: a failed compare-and-set goes back to the first half.
Under the refinement an element that is checked out is where its holder is going
to put it, and the exchange happens in `SetLast`. `toRead` is the set of elements
whose location the cost of a move still needs; each read may spin.

*BfsSimple.* The queues, buffers and counters of `run_bfs` have their names.
`net[s][r]` are the messages from `s` to `r` that have not been received, in
order. `Polls` says where the code runs `CHECK_MPI_REQS`; there `Receive` is its
first loop and `Complete` its second. `Allreduce` is the collective together with
the swap of the queues that each rank makes after it. A level of `LevelBfs` happens at
`Allreduce`: until then the predecessors of the vertices in `newq` do not count.

## 3. Runs

All bounds are the constants of the `.cfg` files and the sets of the `MC`
modules; nothing else is cut off.

| Run | Instance | Shows |
|---|---|---|
| `queue` | 2 producers (4 and 3 items), 2 consumers, queue and batches of 2 | `ExactlyOnce`, `EndOfStreamIsFinal`, `NoEnqueueAfterTerminate`, `NoEmptyBatch`, both no-lost-wakeup invariants, `ImplementsChannel`, `Termination` |
| `pipeline` | 3 threads per stage in groups of 2 and 1, queues of 2, three inputs with duplicates within and across coarse chunks | `ImplementsSerial`, `ArchiveComplete`, `NoEnqueueAfterTerminate`, `Termination` |
| `mbuffer` | 2 threads, 3 buffers, 2 blocks of up to 3 bytes at 2 places | counters, single free, no leak, no dangling, disjoint pieces |
| `round_trip` | every input of up to 4 chunks over 3 contents, one of them too long; or four coarse chunks of 2, 7, 1 and 1 chunks in every order of arrival | `RoundTrip`, `OutputIsPrefix`, `ErrorsAreJustified`, `DecoderEnds`; `ImplementsEarlyChunks` |
| `barrier` | 4 threads, 3 uses, polling build | `OneSerialThread`, `NoLostWakeup`, `NoEarlyReturn`, `ImplementsRendezvous`, `Termination` |
| `search` | 3 threads, 32 graphs of 3 nodes, each node as the target | `AnswerIsRight`, `NoWorkAbandoned`, `NoNodeTwice`, `Termination` |
| `bfs` | 3 ranks, 6 vertices, 2 edges in a message | `LevelsDoNotOverlap`, `ImplementsLevelBfs`, `Termination` |
| `parsec_apps` | canneal: 2 threads, 3 elements, 2 temperature steps of 2 moves each; or ferret: 2 middle stages of 2 threads, queues of 2 (3 slots), up to 3 images | `NoLocationLost`, `ImplementsPlacement`, `Termination`; `EveryImageWritten`, `QueuesAreChannels`, `EveryPoolEnds` |
| `full_reorder_queue` | one coarse chunk of 7 equal contents, queue of 1 | violated `WaitEnds`, see below |
| `unbalanced_groups` | two groups of 1, queues of 1, every other coarse chunk long | violated `FullQueueDrains` |
| `many_coarse_chunks` | three coarse chunks, array of 1 | violated `AnchorIndexInBounds` |
| `canneal_converges` | 2 threads, 1 move per step, no fixed number of steps | violated `ConvergenceEndsAnnealing` |

Why the bounds are enough. A queue of two slots (three in the ring) wraps
around several times with seven items, is full and empty, and two threads on
each side make a thread that is asleep while another works, which is what the
wakeup arguments turn on; a third kind of thread does not exist. Batches of two
in a queue of two give partial batches. In the pipeline two threads race for
the same content, the inputs make either coarse chunk the first to meet it,
and the two groups of threads have queues of their own, with different numbers
of producers; two coarse chunks and an array of one entry make the array grow; queues
that are no larger than the private buffers, and often have room for one chunk only,
make partial hand-overs. A thread at the barrier
that polls is awake at every moment at which one that blocks may be woken
spuriously, so that the polling build has all the interleavings of the other;
four threads there give a first, two middle ones and a last, and three uses let a fast thread
lap a slow one as far as the code permits. The graphs of `search` have forks,
chains, loops and parts that cannot be reached, and three threads allow one to
work, one to wait and one to be in between. Two threads
of canneal on three elements have exchanges of the same pair, of overlapping and
of different pairs. Three ranks make a receiver with two senders, whose messages
and end markers interleave. As it is delivered, `common.h` defines
`SIZE_MUST_BE_A_POWER_OF_TWO` and `setup_globals` refuses three ranks (`utils.c:27`); the model's
`VERTEX_OWNER` is the one of the build without that macro, and the same function when
the number of ranks is a power of two. Two ranks have no two senders, and four have
more states than TLC gets through even on a graph of four vertices; the
theorems on `BfsSimple` hold for any number. The graph fills a buffer, leaves one half full, has a
vertex that three others reach in the same level, double edges, a loop and a
vertex out of reach. The queues of ferret wrap around, are full and empty, and
the middle one has two threads on each side. For every safety property but
`ImplementsEarlyChunks` the proofs of section 5 remove the bounds altogether.

A heap of seven chunks has three levels, so that a deletion chooses among
children twice; the tree takes every shape that four nodes can have.

`parsec_apps` checks two programs that share nothing in one run: in its initial
states one of them has not begun and the other has ended. `round_trip` likewise
checks two parts of dedup of which only one takes steps.

`mbuffer` and `round_trip` switch deadlock checking off: threads may stop when
there is no buffer left (memory is not returned twice in the model) and the
decoder and Reorder stop at the end. The violation runs do so because the code hangs
in three of them and its behaviour is undefined in the other, which is what they
are about.

### Fairness

- `DedupQueue`: weak fairness for every thread, strong fairness for getting the
  mutex, because a POSIX mutex may be taken by others again and again but is
  free in between. With weak fairness alone the only counterexample is an
  endless chain of spurious wakeups that has the mutex in use whenever the
  scheduler looks.
- `DedupPipeline`: weak fairness of the whole next-state relation: some thread
  that can go on does. That is the least a scheduler gives, and enough, because
  every step makes progress and a blocked call is no step.
- `ParsecBarrier`: weak fairness for each thread. An action starts when the
  mutex is free and ends when it is free again, so that a thread that wants it
  is continuously enabled.
- `FerretPipeline`: weak fairness for each thread, as for the barrier; spurious
  wakeups are not fair.
- `Annealer`: weak fairness for each thread. A thread that spins has no step while
  the pointer is checked out; a failed compare-and-set means that another exchange
  went through, of which there are finitely many.
- `BfsSimple`: weak fairness for the steps of each rank and for `Receive` (MPI's
  progress rule). That a send completes is only assumed once its message has been
  received: buffering is possible, but never relied upon.
- `TestPath`: weak fairness for each thread; a critical section is one step that
  is enabled whenever its thread is there.
- `DedupRoundTrip`: weak fairness for the decoder only; the encoder may stop.

## 4. Disagreements between the code and its comments

Four runs are expected to be violated; `PROJECT.json` quotes the comments.

1. **`full_reorder_queue`** (`encoder.c:270`, `578`). Reorder sleeps in
   `write_chunk_to_file` until the original of a duplicate is compressed. The
   original may still be in the private buffer of a Deduplicate thread, which is
   only handed over when full, and that thread may be asleep because
   `reorder_que` is full of duplicates. Reorder is the only thread that could
   make room. With the repository's sizes this takes an input with more than
   a million consecutive duplicates of one recent chunk (a long run of zeros in
   a file of some gigabytes), which is why the queue was made so large.
   `pipeline` shows termination for inputs whose duplicates fit.
2. **`unbalanced_groups`** (`encoder.c:1229`). Reorder calls the blocking
   `queue_dequeue` of one group after the other, so it can sleep on an empty
   queue while another is full and everything behind that one stands still.
3. **`many_coarse_chunks`** (`encoder.c:1239`). The array of coarse chunk
   lengths is doubled once per chunk received, where it would have to be doubled
   until the index fits.
4. **`canneal_converges`** (`canneal/annealer_thread.cpp:139`). Without a number
   of steps on the command line the threads are to stop when one of them finds
   that the design has converged. Each decides for itself, before a temperature step
   that ends at a barrier for all threads: one that tested the flag before it was
   cleared waits there for one that has left, and the program hangs.

The models also explain why some things that look wrong are right: that
Deduplicate enqueues to `reorder_que` without being one of its counted
producers is safe, because it drains that buffer before it terminates
`compress_que`, and Compress cannot terminate `reorder_que` before that
(`NoEnqueueAfterTerminate`; the mutants that swap the order break it).

## 5. Theorems

Each theorem holds for every value of the constants that satisfies the
assumptions named in the modules: finite sets of threads and positive sizes
(`QueueAssumption`, `BarrierAssumption`, `TestPathAssumption`, `MBufferAssumption`,
`PipelineAssumption`, `FerretAssumption`), producers that are not consumers, values
that stand for "none" outside the sets they extend, an `ATOMIC_NULL` that is no
location (`AnnealerAssumption`), inputs that are sequences (`RoundTripAssumption`) or
sequences of coarse chunks of at least one chunk each, as Fragment and FragmentRefine
cut them (`PipelineAssumption`), distinct names for the types of records and the states,
and for `BfsAssumption` a graph given by the list of neighbours of each vertex and
an owner for each vertex.

*Ring buffer* (`DedupQueueProofs`). The contents of a ring are the sequence of
its slots from tail to head. `InsertAppends` and `RemoveTakesOldest` reduce
every fact about indexes to facts about sequences.

*Queue* (`DedupQueueProofs`). `IndInv` consists of the types, `Filled` (every
slot between tail and head holds an item), the count of terminated producers,
`ProducerPhase` and `ConsumerPhase` (what a thread that holds the mutex or
sleeps still has to do), and `ConsumersServed` and `ProducersServed`. The last two
are the wakeup invariants with an exception for the time between a thread's
first move and its signal; without that exception they are not invariants, and
without the phases they are not inductive: that a woken or signalled producer
will call again is what keeps the others from being stranded. From `IndInv`
follow `EndOfStream`, `TerminateIsLast`, `ConsumersNotStranded`,
`ProducersNotStranded`, `BatchesAreNotEmpty` and the refinement
`QueueImplementsChannel`. `ExactlyOnceHolds` needs another invariant, `Once`: the
places where an item can be are the private buffers and the queue; none holds an item
twice, no two share one, and together they hold what was made and not yet
consumed. Each step takes an item from one place to another, or makes or consumes one.

*Pipeline* (`DedupPipelineProofs`). The invariant `PipelineInv` has one part
for each stage: the types of what it owns and of the queues it writes to; the
count of terminations of each queue is the number of threads of the group that
have returned; a thread that was told the end has emptied its receive buffer, and
the queue it reads is at its end and stays so; one that returned has sent
everything. `GroupSize` does the arithmetic: the `threads_per_queue(q)` that
`Encode` computes for a queue, the rest of the division for the last one, is the number of
threads whose `tid / MAX_THREADS_PER_QUEUE` is `q`. Hence a queue is terminated only
when its whole group has returned (`DoneCount`), which gives
`NoEnqueueAfterTerminateHolds`: no queue is terminated too often, as the threads that
have returned are no more than the group, nor too early; for `reorder_que` it goes through two stages
(`NotTerminated`). Each stage's part survives the steps of the others because these
keep the counts of a queue (`SameCounts`) and its end (`EndsStay`). For Reorder,
`Visited` are the `tries` queues before the one it looks at next: all of them are at
their end, so that after a full round all queues are, and with them every stage
(`EndsCascade`, `FlushIsLastHolds`). That a round may begin at any queue and passes
the wrap-around is the content of `NextQueue`.

*The chunks in the pipeline* (`DedupPipelineProofs`, second part). `ArchiveInv` is
`PipelineInv` and five parts more. `CoarseOK`: no coarse chunk waits twice before
FragmentRefine, and the next fine chunk to cut exists. `ChunksOK`: `Places` are the
input not cut yet, ten kinds of buffers and queues, Reorder's cache, the chunk it
writes and the archive; no buffer holds a chunk twice and every chunk of the input is in
exactly one place. `OrderOK`: what Reorder writes is the next of the sequence, and the
length of a coarse chunk is noted once its last chunk is taken, never wrongly. `DataOK`: an
entry of the hashtable is the original of its content, and has the state `FLUSHED`
exactly if the archive holds the content; a chunk that Deduplicate has not seen is
`UNCOMPRESSED`, one that it has seen has the entry as its original, and only originals are
on their way to Compress. `LengthOK`: the archive has as many records as
chunks precede `reorder.next`. None of them is inductive alone: that a
write turns `next` into its successor (`OrderOK`) needs that the chunk noted as last is the
last (`Growing`, `TakingOrder`), that two threads do not compress one chunk (`DataOK`) needs
that it is in one place.

The steps are sorted by what they do to the places. Most take some chunks from the head of
one buffer or queue to the end of another (`EnqueueMoves`, `DequeueMoves`), which
keeps every chunk in one place (`PartsShift`, `ChunksShift`) and, by `StageMoves`, the
other parts of `ArchiveInv`; `CutsChunk`, `DedupChunkMoves`, `ReorderTakeMoves` and
`WritesChunk` are the steps that move a single one. In the final flush everything is in the cache or written (`AtFlush`), so
that the smallest chunk of the cache is the next one, and there is no "sequence
number mismatch" (`AllTaken`); when Reorder ends `next` is past the end, and by `LengthOK`
the archive has the length of the flattened input: `ArchiveCompleteHolds`. For
`ImplementsSerialHolds` a step that writes the chunk `next` is `ArchiveChunk`: the
chunk at that position of the flattened input has the same content (`FlatAt`), and
whether its data or its fingerprint is written is decided by `state`, which `DataOK` ties to
the archive itself. It makes no difference which of two equal chunks
Deduplicate met first.

*Buffers* (`MBufferProofs`). The counter of a block is the number of its pieces, at
every step, so that the thread that decrements it to 0 held the last one.
Inductive only together with `ReleasersOK` (between the decrement and the release
the block is still allocated, its counter 0, and no other thread is about to free it),
`PiecesFit` (a piece is not empty and lies in its block, at the place where that is now)
and `Released` (a block whose counter is 0 has been freed or has a thread
about to do so). `PiecesAreDisjointHolds` is by a second induction on top of these, and states both that
pieces do not overlap and that each lies in the memory of its block.

*Round trip* (`DedupRoundTripProofs`). Record `k` of the archive stands for chunk
`k`, a fingerprint only for a chunk that an earlier one equals (`ArchiveOK`), and
the decoder has written chunk `k` for record `k` and knows its content (`OutputOK`). Since
a torn record is never passed (`TornOK`), an end without an error has read all of
them. The inputs are any sequences, so this needs no induction over data.

*Barrier* (`ParsecBarrierProofs`). `IndInv` adds to the types: `n` counts the
threads inside; `PhaseOK`: in an arrival phase all threads have finished equally
many uses, in a departure phase exactly those inside are one behind; and
`ElectionOK`: a use that has begun has exactly one thread that has returned, or
will return, as the serial one. `LastToArrive` is the only counting argument:
if `n + 1` reaches `max`, everybody else is inside. From these follow
`NobodyIsEarly`, `NoWakeupIsLost`, `SerialThreadIsUnique` and
`BarrierImplementsRendezvous`, for both builds and any number of threads.

*Graph search* (`TestPathProofs`). A node is reachable if every set that is
closed under successors and holds the source holds it, so that no recursion is
needed. `IndInv` says that only reachable nodes are ever touched (`Sound`), that
a node that was seen is in work or has all its successors seen (`Complete`), that
waiting threads hold nothing and all wait only when the pool is empty. When
everybody has ended without finding the target, the nodes seen are a closed
set without it (`AnswerHolds`). `NoNodeIsTwiceInWork` needs `FirstNode`: the source
is pushed without being marked, and only because it is then the only node in
work can an arc back to it do no harm.

*Canneal* (`ParsecAppsProofs`). `IndInv` adds to the types `PhaseOK` (what a thread
that exchanges has in hand), `CheckedOut` (an element lacks its location if and
only if exactly one thread holds it as its first) and `Distinct` (no two elements
have the same place). `Place` chooses the holder; `PlaceIsKnown` shows that with
`CheckedOut` there is nothing to choose. `EveryStep` sorts the steps: a check-out,
the compare-and-set of the second element, a check-in, or one that leaves
pointers and holders alone (`Quiet`). `PlaceStep` then says that only that
compare-and-set moves anything, and it exchanges two places. From it follow both
`Distinct`, so `NoLocationIsLost`, and `AnnealerRefinesPlacement`. `EndTemp` needs
that `arrived` is exactly the set of threads at the barrier: the last one resets
all of them, and none may hold an element.

*Ferret* (`ParsecAppsProofs`). `SeqnByCases`, `RingInsert` and `RingRemove` are the
ring with its moduli replaced by cases. `FerretInv` consists of the types; `DeedsOK`
(a thread holds an image exactly when it has one to pass on or write); `CountOK`
(`end_count` is the number of threads of the stage before that have ended); `EndOK` (a
thread ends only when its queue is drained: empty, with all its producers ended);
`ImagesOK` (an image that was found is in one place, the hands of one thread, one slot
of one queue between tail and head, or written; any other is nowhere); and that
`cnt_dequeue` counts the images written. When all have ended every
queue is drained and every hand empty, so every image is written
(`EveryImageWrittenHolds`). `QueuesAreChannelsHolds` shows for each queue that a
step of any thread is a step of `Channel` on it, or leaves it alone.

*Search over MPI* (`BfsSimpleProofs`). `Control` is about two ranks at a time:
`LinkOK` says that the empty message by which `r` tells `d` that it is done is the last one
from `r` to `d`, and that nothing is left in the buffer after it; `CountOK` that
`num_ranks_done` is one more than the number of ranks heard of. As the ranks are told in
the order `r + 1, r + 2, ...` modulo the number of ranks, `Destinations` shows that each is
told once, and `AllHeard` that a rank that has counted to `Size` has heard from all
of them: `LevelsDoNotOverlapHolds`. `Search` adds that only edges of the level are
processed or on their way (`Sound`), and that an edge that was scanned has its target visited
or is on its way to the target's owner (`Scanned`). With nothing on its way at the
reduction, the vertices of all `newq` are exactly those one edge further
(`NextLevel`): `ImplementsLevelBfsHolds`. A message is a batch of edges, processed by a
fold (`ReachAll`). The fold of the community modules unfolds one edge at a time by `FoldSteps`,
and `ReachAllOK` is then an induction over the edges of a batch. The library's induction theorems are out of
the provers' reach; `UpTo` takes their place: for a *set* `T` of numbers it follows
from the well-foundedness of proper inclusion among finite sets of numbers.

Only model-checked: every liveness property (the prover does not handle
fairness and ENABLED), and `ImplementsEarlyChunks`, as `ReorderCache` works on heaps and
trees by recursion. That the array `chunks_per_anchor` may be overrun is one of the
disagreements of section 4; `ArchiveInv` says nothing of the archive after that.

## 6. Abstractions and what is not modelled

- Cutting of the input (Rabin fingerprints), SHA1 and compression: contents that
  are equal have equal fingerprints and the other way round; the inputs of a run
  name the chunks directly.
- Errors that end the program (`EXIT_TRACE`: out of memory, failing writes).
- `xread`: it stores the result of `read` in an unsigned variable, so its error
  branch is dead code. The decoder is modelled for files that read without error.
- `UNCOMPRESS_BOUND`: a chunk longer than this is archived but not decodable. It
  is the set `Oversized` in `Decoder`, and the exception in `ErrorsAreJustified`.
- An encoder that is stopped between two records leaves an archive that decodes
  without an error to a prefix of the input: there is no end marker. `RoundTrip`
  therefore speaks of what was archived.
- `lock_hash` maps control blocks to shared spinlocks; no function holds two, so
  that sharing costs time only.
- The bitmap of visited vertices in `bfs` is written together with `pred` and
  left out; messages are copied when they are sent, since the code leaves a
  buffer alone until its send is complete.
- The routing costs of canneal: whether a move is accepted is open. `Checkin` is
  an ordinary store instead of a release store, because the macro around it is
  misspelled (`ENABLE_TRHEADS`, `AtomicPtr.h:293`); as the locations themselves
  never change, nothing else has to become visible with it.
- `DEPTH = 1` on ferret's command line makes queues whose only slot is the spare
  one, so that every `enqueue` waits for ever. `FerretAssumption` excludes it.
- Components with status `not_modelled` in `PROJECT.json`, each with its reason.

## 7. Plan

Done: sections 2 to 5. Next, in this order:

1. `ImplementsEarlyChunks`: `ReorderCache` with its heaps and trees as recursive
   functions, so that a module of proofs can reach them.
2. `XRead` (short, interrupted and failing reads), the `TPI` thread pool, facesim's
   and radiosity's task queues, bodytrack's worker commands.

## 8. Running

    tlc -config MCDedupQueue.cfg MCDedupQueue.tla
    tlapm DedupQueueProofs.tla

and likewise for the other runs listed in `PROJECT.json`. Each takes from a
second to about a minute. Operators marked "Faulty variant" are deliberate
mistakes: `PROJECT.json` names, for each property, the definition one of them
replaces to show that the property notices.
