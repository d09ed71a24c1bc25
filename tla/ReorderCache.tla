------------------------------ MODULE ReorderCache ------------------------------
(***************************************************************************)
(* The chunks that reach dedup's Reorder thread too early, as they are     *)
(* stored: a search tree (tree.c) with a node for each coarse chunk, and   *)
(* in each node a binary heap (binheap.c) of chunks.  DedupPipeline has    *)
(* both as one set with a least element; EarlyChunks is what they promise. *)
(*                                                                         *)
(* A heap is the sequence of its elements 1 .. Size: growing its array     *)
(* changes nothing else.  The tree is a value instead of linked nodes, and *)
(* pos, which Reorder looks up again after each deletion, is looked up     *)
(* whenever it is used.  tree.c keeps a pointer pmin to the least node     *)
(* that is never set, so that it is left out.                              *)
(***************************************************************************)
EXTENDS Integers, Sequences, FiniteSets

CONSTANTS Coarse,    \* the number of chunks in each coarse chunk of the input
          NULL

ASSUME CoarseAssumption ==
    /\ DOMAIN Coarse = 0 .. Cardinality(DOMAIN Coarse) - 1
    /\ Coarse \in [DOMAIN Coarse -> Nat \ {0}]

(* A chunk is its sequence number <<l1num, l2num>>.                        *)
CachedChunks == UNION {{l1} \X (0 .. Coarse[l1] - 1) : l1 \in DOMAIN Coarse}

ASSUME NullAssumption == NULL \notin CachedChunks

LastOfCoarse(c) == c[2] = Coarse[c[1]] - 1

-------------------------------------------------------------------------------
(* binheap.c                                                               *)

Swapped(H, i, j) == [H EXCEPT ![i] = H[j], ![j] = H[i]]

RECURSIVE PercolateUp(_, _)
PercolateUp(H, i) ==
    IF i > 1 /\ H[i \div 2][2] > H[i][2]
    THEN PercolateUp(Swapped(H, i \div 2, i), i \div 2)
    ELSE H

Insert(X, H) == PercolateUp(Append(H, X), Len(H) + 1)

(* Faulty variant: forgets that there is a right child.                    *)
SmallerChild_Left(H, i) == 2 * i

SmallerChild(H, i) ==
    IF 2 * i # Len(H) /\ H[2 * i + 1][2] < H[2 * i][2] THEN 2 * i + 1 ELSE 2 * i

RECURSIVE PercolateDown(_, _)
PercolateDown(H, i) ==
    IF 2 * i <= Len(H) /\ H[i][2] > H[SmallerChild(H, i)][2]
    THEN PercolateDown(Swapped(H, i, SmallerChild(H, i)), SmallerChild(H, i))
    ELSE H

(* The last element takes the place of the first.                          *)
DeleteMin(H) ==
    IF Len(H) = 1 THEN <<>>
    ELSE PercolateDown([k \in 1 .. Len(H) - 1 |-> IF k = 1 THEN H[Len(H)] ELSE H[k]], 1)

FindMin(H) == H[1]

-------------------------------------------------------------------------------
(* tree.c                                                                  *)

RECURSIVE TreeFind(_, _)
TreeFind(value, T) ==
    IF T = NULL \/ value = T.l1num THEN T
    ELSE TreeFind(value, IF value < T.l1num THEN T.Left ELSE T.Right)

RECURSIVE TreeFindMin(_)
TreeFindMin(T) == IF T = NULL \/ T.Left = NULL THEN T ELSE TreeFindMin(T.Left)

RECURSIVE TreeInsert(_, _, _)
TreeInsert(value, queue, T) ==
    IF T = NULL
    THEN [l1num |-> value, queue |-> queue, Left |-> NULL, Right |-> NULL]
    ELSE IF value < T.l1num
    THEN [T EXCEPT !.Left = TreeInsert(value, queue, @)]
    ELSE [T EXCEPT !.Right = TreeInsert(value, queue, @)]

(* Reorder deletes only the least node, which never has two children.      *)
RECURSIVE TreeDelete(_, _)
TreeDelete(value, T) ==
    IF value < T.l1num THEN [T EXCEPT !.Left = TreeDelete(value, @)]
    ELSE IF value > T.l1num THEN [T EXCEPT !.Right = TreeDelete(value, @)]
    ELSE IF T.Left = NULL THEN T.Right
    ELSE IF T.Right = NULL THEN T.Left
    ELSE LET least == TreeFindMin(T.Right) IN
         [T EXCEPT !.l1num = least.l1num, !.queue = least.queue,
                   !.Right = TreeDelete(least.l1num, @)]

(* A change of the heap that a node points to.                             *)
RECURSIVE WithQueue(_, _, _)
WithQueue(value, queue, T) ==
    IF value = T.l1num THEN [T EXCEPT !.queue = queue]
    ELSE IF value < T.l1num THEN [T EXCEPT !.Left = WithQueue(value, queue, @)]
    ELSE [T EXCEPT !.Right = WithQueue(value, queue, @)]

-------------------------------------------------------------------------------
(* Reorder.                                                                *)

VARIABLES arriving,    \* the chunks that Reorder has not received
          tree,        \* T
          next,        \* the sequence number to be written next
          chunk,       \* the chunk to be written now, or NULL
          anchorSizes, \* chunks_per_anchor
          order,       \* the chunks written
          phase

cacheVars == <<arriving, tree, next, chunk, anchorSizes, order, phase>>

CacheInit ==
    /\ arriving = CachedChunks
    /\ tree = NULL
    /\ next = <<0, 0>>
    /\ chunk = NULL
    /\ anchorSizes = [l1 \in 0 .. Cardinality(DOMAIN Coarse) |-> 0]
    /\ order = <<>>
    /\ phase = "run"

Kept(c) ==
    LET pos == TreeFind(c[1], tree) IN
    IF pos = NULL THEN TreeInsert(c[1], <<c>>, tree)
    ELSE WithQueue(c[1], Insert(c, pos.queue), tree)

(* A chunk that is not the next one goes into the cache.                   *)
Receive(c) ==
    /\ phase = "run" /\ chunk = NULL
    /\ arriving' = arriving \ {c}
    /\ anchorSizes' = IF LastOfCoarse(c) THEN [anchorSizes EXCEPT ![c[1]] = c[2] + 1]
                      ELSE anchorSizes
    /\ IF c = next THEN chunk' = c /\ UNCHANGED tree
       ELSE tree' = Kept(c) /\ UNCHANGED chunk
    /\ UNCHANGED <<next, order, phase>>

(* sequence_inc_l2, and sequence_inc_l1 after the last of a coarse chunk.  *)
NextAfter(c) ==
    IF anchorSizes[c[1]] # 0 /\ c[2] + 1 = anchorSizes[c[1]]
    THEN <<c[1] + 1, 0>> ELSE <<c[1], c[2] + 1>>

WithoutMin(pos) ==
    IF Len(pos.queue) = 1 THEN TreeDelete(pos.l1num, tree)
    ELSE WithQueue(pos.l1num, DeleteMin(pos.queue), tree)

(* Write a chunk and go on with the least one of the cache, if it is next. *)
WriteThrough ==
    LET pos == TreeFindMin(tree) IN
    /\ phase = "run" /\ chunk # NULL
    /\ order' = Append(order, chunk)
    /\ next' = NextAfter(next)
    /\ IF pos # NULL /\ pos.l1num = next'[1] /\ FindMin(pos.queue) = next'
       THEN chunk' = FindMin(pos.queue) /\ tree' = WithoutMin(pos)
       ELSE chunk' = NULL /\ UNCHANGED tree
    /\ UNCHANGED <<arriving, anchorSizes, phase>>

(* One turn of the loop that flushes what is left.                         *)
FlushCache ==
    LET pos == TreeFindMin(tree) IN
    /\ phase = "run" /\ chunk = NULL /\ arriving = {}
    /\ IF pos # NULL /\ pos.l1num = next[1] /\ FindMin(pos.queue) = next
       THEN /\ tree' = WithoutMin(pos)
            /\ order' = Append(order, next)
            /\ next' = NextAfter(next)
            /\ UNCHANGED phase
       ELSE /\ phase' = IF pos = NULL THEN "end" ELSE "sequence number mismatch"
            /\ UNCHANGED <<tree, order, next>>
    /\ UNCHANGED <<arriving, chunk, anchorSizes>>

CacheNext == (\E c \in arriving : Receive(c)) \/ WriteThrough \/ FlushCache

-------------------------------------------------------------------------------
RECURSIVE InTree(_)
InTree(T) ==
    IF T = NULL THEN {}
    ELSE {T.queue[k] : k \in DOMAIN T.queue} \cup InTree(T.Left) \cup InTree(T.Right)

RECURSIVE OrderFrom(_, _)
OrderFrom(l1, l2) ==
    IF l1 \notin DOMAIN Coarse THEN <<>>
    ELSE IF l2 = Coarse[l1] THEN OrderFrom(l1 + 1, 0)
    ELSE <<<<l1, l2>>>> \o OrderFrom(l1, l2 + 1)

(* Whatever order chunks arrive in, the heaps and the tree lose none, hand *)
(* them out in sequence, and hold none when Reorder ends (it never reports *)
(* a mismatch of sequence numbers).                                        *)
Early == INSTANCE EarlyChunks WITH
             Order <- OrderFrom(0, 0),
             held <- InTree(tree) \cup ({chunk} \ {NULL}),
             written <- order,
             ended <- phase # "run"

ImplementsEarlyChunks == Early!Init /\ [][Early!Next]_(Early!vars)

===============================================================================
