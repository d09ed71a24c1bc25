-------------------------------- MODULE MBuffer --------------------------------
(***************************************************************************)
(* The memory buffers of dedup (mbuffer.c).  An mbuffer_t is a piece, from *)
(* ptr on and n long, of a block of memory; the pieces of a block share a  *)
(* control block (mcb) that counts them, and whoever gives up the last one *)
(* frees the block.  Threads pass pieces on through the queues, so that    *)
(* pieces of one block are split and freed by several threads at a time.   *)
(*                                                                         *)
(* A counter is read and written under the spinlock of its mcb (lock_hash),*)
(* but mbuffer_free frees the block after it has released the lock: that   *)
(* is a step of its own.  As mbuffer.h demands, only its owner calls a     *)
(* function on an mbuffer_t.  A call whose malloc fails changes nothing.   *)
(* A pointer is a place, where malloc or realloc has put the block, and an *)
(* offset into it: realloc may move the block and frees its old place.     *)
(***************************************************************************)
EXTENDS Integers, FiniteSets

CONSTANTS Threads,
          Blocks,     \* what malloc returns; no block is returned twice
          Buffers,    \* the mbuffer_t structures
          Places,     \* the addresses at which a block may be
          MaxSize,    \* bound on the size of a block
          None

ASSUME MBufferAssumption ==
    /\ MaxSize \in Nat \ {0}
    /\ IsFiniteSet(Buffers)
    /\ None \notin Blocks \cup Threads

VARIABLES
    mbuf,       \* the piece each mbuffer_t holds: mcb is None if it holds none
    owner,      \* the thread that has exclusive access to it
    block,      \* the size, place (mcb->ptr) and counter (mcb->i) of each
                \* block, and how often free() was called on it
    freeing,    \* mbuffer_free after its unlock: the block and the counter read
    cloned      \* the blocks that mbuffer_clone made a second name for

vars == <<mbuf, owner, block, freeing, cloned>>

NoPiece == [mcb |-> None, place |-> None, ptr |-> 0, n |-> 0]

Idle == [mcb |-> None, ref |-> 0]

Sizes == 1 .. MaxSize

Live == {m \in Buffers : mbuf[m].mcb # None}

Allocated(b) == block[b].size > 0 /\ block[b].frees = 0

Init ==
    /\ mbuf = [m \in Buffers |-> NoPiece]
    /\ owner \in [Buffers -> Threads]
    /\ block = [b \in Blocks |-> [size |-> 0, place |-> None, i |-> 0, frees |-> 0]]
    /\ freeing = [t \in Threads |-> Idle]
    /\ cloned = {}

(* t may call a function on m.                                             *)
Calls(t, m) == freeing[t] = Idle /\ owner[m] = t /\ m \in Live

(* t has an mbuffer_t to put a new piece in.                               *)
Spare(t, m) == freeing[t] = Idle /\ owner[m] = t /\ m \notin Live

-------------------------------------------------------------------------------

mbuffer_create(t, m, size) ==
    /\ Spare(t, m)
    /\ \E b \in Blocks, place \in Places :
          /\ block[b].size = 0
          /\ block' = [block EXCEPT ![b].size = size, ![b].place = place, ![b].i = 1]
          /\ mbuf' = [mbuf EXCEPT ![m] = [mcb |-> b, place |-> place, ptr |-> 0, n |-> size]]
    /\ UNCHANGED <<owner, freeing, cloned>>

(* A deep copy is a block of its own.                                      *)
mbuffer_copy(t, m, copy) == Calls(t, m) /\ mbuffer_create(t, copy, mbuf[m].n)

(* Faulty variant: does not count the clone.                              *)
mbuffer_clone_Uncounted(t, m, clone) ==
    /\ Calls(t, m) /\ Spare(t, clone)
    /\ mbuf' = [mbuf EXCEPT ![clone] = mbuf[m]]
    /\ cloned' = cloned \cup {mbuf[m].mcb}
    /\ UNCHANGED <<owner, block, freeing>>

mbuffer_clone(t, m, clone) ==
    /\ Calls(t, m) /\ Spare(t, clone)
    /\ block' = [block EXCEPT ![mbuf[m].mcb].i = @ + 1]
    /\ mbuf' = [mbuf EXCEPT ![clone] = mbuf[m]]
    /\ cloned' = cloned \cup {mbuf[m].mcb}
    /\ UNCHANGED <<owner, freeing>>

(* Faulty variant: leaves the first piece as long as it was.              *)
mbuffer_split_Overlap(t, m1, m2, split) ==
    /\ Calls(t, m1) /\ Spare(t, m2)
    /\ split < mbuf[m1].n
    /\ block' = [block EXCEPT ![mbuf[m1].mcb].i = @ + 1]
    /\ mbuf' = [mbuf EXCEPT ![m2] = [mbuf[m1] EXCEPT !.ptr = @ + split, !.n = @ - split]]
    /\ UNCHANGED <<owner, freeing, cloned>>

mbuffer_split(t, m1, m2, split) ==
    /\ Calls(t, m1) /\ Spare(t, m2)
    /\ split < mbuf[m1].n
    /\ block' = [block EXCEPT ![mbuf[m1].mcb].i = @ + 1]
    /\ mbuf' = [mbuf EXCEPT ![m1].n = split,
                            ![m2] = [mbuf[m1] EXCEPT !.ptr = @ + split, !.n = @ - split]]
    /\ UNCHANGED <<owner, freeing, cloned>>

(* The piece starts where its block does (m->ptr = m->mcb->ptr).           *)
IsOriginal(m) == mbuf[m].place = block[mbuf[m].mcb].place /\ mbuf[m].ptr = 0

(* Faulty variant: does not look whether there are other pieces.          *)
mbuffer_realloc_Shared(t, m, size) ==
    /\ Calls(t, m)
    /\ IsOriginal(m)
    /\ \E place \in Places :
          /\ block' = [block EXCEPT ![mbuf[m].mcb].size = size, ![mbuf[m].mcb].place = place]
          /\ mbuf' = [mbuf EXCEPT ![m].n = size, ![m].place = place]
    /\ UNCHANGED <<owner, freeing, cloned>>

(* Only the one piece left, and only if it starts where the block does, can*)
(* be resized, and may then be moved; otherwise the call returns -1.       *)
mbuffer_realloc(t, m, size) ==
    /\ Calls(t, m)
    /\ block[mbuf[m].mcb].i <= 1
    /\ IsOriginal(m)
    /\ \E place \in Places :
          /\ block' = [block EXCEPT ![mbuf[m].mcb].size = size, ![mbuf[m].mcb].place = place]
          /\ mbuf' = [mbuf EXCEPT ![m].n = size, ![m].place = place]
    /\ UNCHANGED <<owner, freeing, cloned>>

(* Faulty variant: reads the counter before it decrements it.             *)
mbuffer_free_ReadFirst(t, m) ==
    /\ Calls(t, m)
    /\ LET b == mbuf[m].mcb IN
          /\ block' = [block EXCEPT ![b].i = @ - 1]
          /\ freeing' = [freeing EXCEPT ![t] = [mcb |-> b, ref |-> block[b].i]]
    /\ mbuf' = [mbuf EXCEPT ![m] = NoPiece]
    /\ UNCHANGED <<owner, cloned>>

(* The critical section of mbuffer_free.                                   *)
mbuffer_free(t, m) ==
    /\ Calls(t, m)
    /\ LET b == mbuf[m].mcb IN
          /\ block' = [block EXCEPT ![b].i = @ - 1]
          /\ freeing' = [freeing EXCEPT ![t] = [mcb |-> b, ref |-> block[b].i - 1]]
    /\ mbuf' = [mbuf EXCEPT ![m] = NoPiece]
    /\ UNCHANGED <<owner, cloned>>

(* Faulty variant: reads the counter again after the unlock.              *)
Release_Reread(t) ==
    /\ freeing[t] # Idle
    /\ block' = IF block[freeing[t].mcb].i = 0
                THEN [block EXCEPT ![freeing[t].mcb].frees = @ + 1]
                ELSE block
    /\ freeing' = [freeing EXCEPT ![t] = Idle]
    /\ UNCHANGED <<mbuf, owner, cloned>>

(* "No need to synchronize access to ref counter value again because if it *)
(* has hit 0 the buffer is dead."                                          *)
Release(t) ==
    /\ freeing[t] # Idle
    /\ block' = IF freeing[t].ref = 0
                THEN [block EXCEPT ![freeing[t].mcb].frees = @ + 1]
                ELSE block
    /\ freeing' = [freeing EXCEPT ![t] = Idle]
    /\ UNCHANGED <<mbuf, owner, cloned>>

(* A queue hands the chunk with its mbuffer_t over to another thread.      *)
HandOver(t, m, other) ==
    /\ Calls(t, m) /\ other # t
    /\ owner' = [owner EXCEPT ![m] = other]
    /\ UNCHANGED <<mbuf, block, freeing, cloned>>

Step(t) ==
    \/ Release(t)
    \/ \E m \in Buffers :
          \/ mbuffer_free(t, m)
          \/ \E size \in Sizes : mbuffer_create(t, m, size) \/ mbuffer_realloc(t, m, size)
          \/ \E other \in Threads : HandOver(t, m, other)
          \/ \E m2 \in Buffers :
                \/ mbuffer_copy(t, m, m2)
                \/ mbuffer_clone(t, m, m2)
                \/ \E split \in Sizes : mbuffer_split(t, m, m2, split)

Next == \E t \in Threads : Step(t)

Spec == Init /\ [][Next]_vars

-------------------------------------------------------------------------------
(* Properties.                                                             *)

Pieces(b) == {m \in Buffers : mbuf[m].mcb = b}

Releasers(b) == {t \in Threads : freeing[t].mcb = b /\ freeing[t].ref = 0}

(* The counter of a block is the number of its pieces (the assertions that *)
(* it is at least 1, mbuffer.c:141, 281).                                  *)
CounterIsExact == \A b \in Blocks : block[b].i = Cardinality(Pieces(b))

(* Every piece that a thread holds is memory of its block: the block has   *)
(* not been freed, and has not been moved away or cut off behind the back  *)
(* of the piece by a realloc of another ("We cannot resize a buffer if more*)
(* than one pointer to it is in circulation", mbuffer.c:233).              *)
NoDanglingPiece ==
    \A m \in Live :
        LET b == mbuf[m].mcb IN
        /\ Allocated(b) /\ mbuf[m].place = block[b].place
        /\ mbuf[m].ptr + mbuf[m].n <= block[b].size

(* free() is called at most once on a block, although the decision is taken*)
(* under the lock and carried out after it.                                *)
FreedOnce == \A b \in Blocks : block[b].frees <= 1

(* A block that nobody holds a piece of is freed, or about to be by exactly*)
(* one thread ("The memory for the encapsulated buffer is always freed     *)
(* automatically", mbuffer.h).                                             *)
NoLeak ==
    \A b \in Blocks : Allocated(b) /\ Pieces(b) = {} => Cardinality(Releasers(b)) = 1

(* Unless they are clones, two pieces of a block do not overlap: threads   *)
(* that write to pieces of their own do not disturb each other.            *)
PiecesAreDisjoint ==
    \A m1, m2 \in Live :
        m1 # m2 /\ mbuf[m1].mcb = mbuf[m2].mcb /\ mbuf[m1].mcb \notin cloned =>
            \/ mbuf[m1].ptr + mbuf[m1].n <= mbuf[m2].ptr
            \/ mbuf[m2].ptr + mbuf[m2].n <= mbuf[m1].ptr

===============================================================================
