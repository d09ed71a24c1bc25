----------------------------- MODULE MBufferProofs -----------------------------
(***************************************************************************)
(* Proofs about MBuffer: for any number of threads, structures and blocks  *)
(* of any size, the counter of a block is exact at every moment, so that   *)
(* the block is freed once, when nobody has a piece of it any more, and    *)
(* by somebody.                                                            *)
(***************************************************************************)
EXTENDS MBuffer, FiniteSetTheorems, TLAPS

Piece == [mcb : Blocks \cup {None}, place : Places \cup {None}, ptr : Nat, n : Nat]

Block == [size : Nat, place : Places \cup {None}, i : Int, frees : Nat]

TypeOK ==
    /\ mbuf \in [Buffers -> Piece]
    /\ owner \in [Buffers -> Threads]
    /\ block \in [Blocks -> Block]
    /\ freeing \in [Threads -> [mcb : Blocks \cup {None}, ref : Int]]
    /\ cloned \subseteq Blocks

(* A piece is memory of its block, as in NoDanglingPiece, and not empty.   *)
PiecesFit ==
    \A m \in Live :
        /\ Allocated(mbuf[m].mcb) /\ mbuf[m].place = block[mbuf[m].mcb].place
        /\ mbuf[m].n > 0 /\ mbuf[m].ptr + mbuf[m].n <= block[mbuf[m].mcb].size

(* Nobody frees a block that malloc has not returned yet.                  *)
Unallocated == \A b \in Blocks : block[b].size = 0 => block[b].frees = 0

(* The thread that read a counter of 0 frees a block that is still         *)
(* allocated and whose counter is still 0, and no other thread does.       *)
ReleasersOK ==
    \A b \in Blocks : \A t \in Releasers(b) :
        /\ Allocated(b) /\ block[b].i = 0
        /\ \A u \in Releasers(b) : u = t

(* A block whose counter is 0 has not been freed only if somebody is about *)
(* to free it.                                                             *)
Released == \A b \in Blocks : Allocated(b) /\ block[b].i = 0 => Releasers(b) # {}

IndInv ==
    /\ TypeOK /\ CounterIsExact /\ PiecesFit /\ FreedOnce
    /\ Unallocated /\ ReleasersOK /\ Released
-------------------------------------------------------------------------------
LEMMA FinitePieces == ASSUME NEW b PROVE IsFiniteSet(Pieces(b))
BY FS_Subset, MBufferAssumption DEF Pieces

(* The counter of a block is 0 just when it has no piece.                  *)
LEMMA NoPieces ==
    ASSUME CounterIsExact, NEW b \in Blocks
    PROVE  block[b].i \in Nat /\ (block[b].i = 0 <=> Pieces(b) = {})
BY FinitePieces, FS_CardinalityType, FS_EmptySet DEF CounterIsExact

(* One piece more, in a structure that was free.                           *)
LEMMA OneMore ==
    ASSUME NEW b, NEW m, m \notin Pieces(b)
    PROVE  Cardinality(Pieces(b) \cup {m}) = Cardinality(Pieces(b)) + 1
BY FinitePieces, FS_AddElement

LEMMA OneLess ==
    ASSUME NEW b, NEW m \in Pieces(b)
    PROVE  Cardinality(Pieces(b) \ {m}) = Cardinality(Pieces(b)) - 1
BY FinitePieces, FS_RemoveElement

LEMMA InitInv == Init => IndInv
<1> SUFFICES ASSUME Init
             PROVE  IndInv
  OBVIOUS
<1> USE DEF Init, NoPiece, Idle
<1>1. TypeOK
  BY DEF TypeOK, Piece, Block
<1>2. Live = {} /\ \A b \in Blocks : Pieces(b) = {} /\ Releasers(b) = {}
  BY MBufferAssumption DEF Live, Pieces, Releasers
<1>3. CounterIsExact
  BY <1>2, FS_EmptySet DEF CounterIsExact
<1> QED
  BY <1>1, <1>2, <1>3
  DEF IndInv, PiecesFit, FreedOnce, Unallocated, ReleasersOK, Released, Allocated

-------------------------------------------------------------------------------
(* mbuffer_create takes a block that has never been allocated.             *)
LEMMA CreateInv ==
    ASSUME IndInv, NEW t \in Threads, NEW m \in Buffers, NEW size \in Nat \ {0},
           mbuffer_create(t, m, size)
    PROVE  IndInv'
<1> USE MBufferAssumption DEF IndInv
<1>1. PICK b \in Blocks, place \in Places :
         /\ block[b].size = 0
         /\ block' = [block EXCEPT ![b].size = size, ![b].place = place, ![b].i = 1]
         /\ mbuf' = [mbuf EXCEPT ![m] = [mcb |-> b, place |-> place, ptr |-> 0, n |-> size]]
  BY DEF mbuffer_create
<1>2. m \notin Live /\ UNCHANGED <<owner, freeing, cloned>>
  BY DEF mbuffer_create, Spare
<1>3. Pieces(b) = {} /\ block[b].frees = 0 /\ Releasers(b) = {}
  BY <1>1 DEF PiecesFit, Pieces, Live, Allocated, Unallocated, ReleasersOK
<1>4. /\ block'[b] = [size |-> size, place |-> place, i |-> 1, frees |-> 0]
      /\ \A c \in Blocks \ {b} : block'[c] = block[c]
  BY <1>1, <1>3 DEF TypeOK, Piece, Block
<1>5. TypeOK'
  <2>1. block' \in [Blocks -> Block]
    <3>1. block' = [c \in Blocks |-> block'[c]]
      BY <1>1 DEF TypeOK
    <3>2. block'[b] \in Block
      BY <1>4 DEF Block
    <3>3. \A c \in Blocks \ {b} : block'[c] \in Block
      BY <1>4 DEF TypeOK
    <3> QED
      BY <3>1, <3>2, <3>3
  <2>2. mbuf' \in [Buffers -> Piece]
    BY <1>1 DEF TypeOK, Piece, Block
  <2> QED
    BY <1>2, <2>1, <2>2 DEF TypeOK
<1>6. /\ Pieces(b)' = {m}
      /\ \A c \in Blocks \ {b} : Pieces(c)' = Pieces(c)
      /\ \A c \in Blocks : Releasers(c)' = Releasers(c)
  BY <1>1, <1>2, <1>3 DEF TypeOK, Pieces, Live, Releasers
<1>7. CounterIsExact'
  <2>1. Cardinality({m}) = 1
    BY FS_Singleton
  <2>2. block'[b].i = Cardinality(Pieces(b)')
    BY <1>4, <1>6, <2>1
  <2>3. \A c \in Blocks \ {b} : block'[c].i = Cardinality(Pieces(c)')
    BY <1>4, <1>6 DEF CounterIsExact
  <2> QED
    BY <2>2, <2>3 DEF CounterIsExact
<1>8. PiecesFit'
  <2>1. /\ mbuf'[m] = [mcb |-> b, place |-> place, ptr |-> 0, n |-> size]
        /\ \A l \in Buffers \ {m} : mbuf'[l] = mbuf[l]
    BY <1>1 DEF TypeOK
  <2>2. ASSUME NEW l \in Live', l # m
        PROVE  l \in Live /\ mbuf[l].mcb \in Blocks \ {b} /\ mbuf'[l] = mbuf[l]
    BY <1>3, <2>1, <2>2 DEF TypeOK, Piece, Live, Pieces
  <2>3. ASSUME NEW l \in Live', l # m
        PROVE  /\ Allocated(mbuf[l].mcb)' /\ mbuf'[l].place = block'[mbuf'[l].mcb].place
               /\ mbuf'[l].n > 0
               /\ mbuf'[l].ptr + mbuf'[l].n <= block'[mbuf'[l].mcb].size
    BY <1>4, <2>2, <2>3 DEF PiecesFit, Allocated
  <2>4. /\ Allocated(mbuf[m].mcb)' /\ mbuf'[m].place = block'[mbuf'[m].mcb].place
        /\ mbuf'[m].n > 0
        /\ mbuf'[m].ptr + mbuf'[m].n <= block'[mbuf'[m].mcb].size
    BY <1>4, <2>1 DEF Allocated
  <2> QED
    BY <2>3, <2>4 DEF PiecesFit
<1>9. FreedOnce' /\ Unallocated' /\ ReleasersOK' /\ Released'
  <2>1. FreedOnce' /\ Unallocated'
    BY <1>3, <1>4 DEF FreedOnce, Unallocated
  <2>2. ReleasersOK'
    BY <1>3, <1>4, <1>6 DEF ReleasersOK, Allocated, TypeOK
  <2>3. Released'
    BY <1>3, <1>4, <1>6 DEF Released, Allocated, TypeOK
  <2> QED
    BY <2>1, <2>2, <2>3
<1> QED
  BY <1>5, <1>7, <1>8, <1>9

(* mbuffer_clone and mbuffer_split count the piece they add.               *)
LEMMA CloneInv ==
    ASSUME IndInv, NEW t \in Threads, NEW m \in Buffers, NEW clone \in Buffers,
           mbuffer_clone(t, m, clone)
    PROVE  IndInv'
<1> USE MBufferAssumption DEF IndInv
<1>0. PICK b \in Blocks : b = mbuf[m].mcb
  BY DEF mbuffer_clone, Calls, TypeOK, Piece, Block, Live
<1>1. /\ m \in Live /\ clone \notin Live
      /\ block' = [block EXCEPT ![b].i = @ + 1]
      /\ mbuf' = [mbuf EXCEPT ![clone] = mbuf[m]]
      /\ cloned' = cloned \cup {b}
      /\ UNCHANGED <<owner, freeing>>
  BY <1>0 DEF mbuffer_clone, Calls, Spare
<1>2. TypeOK'
  BY <1>0, <1>1 DEF TypeOK, Piece, Block
<1>3. /\ block'[b] = [block[b] EXCEPT !.i = block[b].i + 1]
      /\ \A c \in Blocks \ {b} : block'[c] = block[c]
  BY <1>0, <1>1 DEF TypeOK
<1>4. /\ Pieces(b)' = Pieces(b) \cup {clone} /\ clone \notin Pieces(b)
      /\ \A c \in Blocks \ {b} : Pieces(c)' = Pieces(c)
      /\ \A c \in Blocks : Releasers(c)' = Releasers(c)
  BY <1>0, <1>1 DEF TypeOK, Pieces, Live, Releasers
<1>5. CounterIsExact'
  BY <1>0, <1>3, <1>4, OneMore DEF CounterIsExact, TypeOK, Piece, Block
<1>6. PiecesFit'
  BY <1>0, <1>1, <1>3 DEF PiecesFit, TypeOK, Live, Allocated
<1>7. m \in Pieces(b) /\ block[b].i > 0
  BY <1>0, <1>1, NoPieces DEF Pieces, Live
<1>8. FreedOnce' /\ Unallocated' /\ ReleasersOK' /\ Released'
  <2>1. FreedOnce' /\ Unallocated'
    BY <1>0, <1>1, <1>3, <1>4, <1>7 DEF FreedOnce, Unallocated, Allocated, TypeOK
  <2>2. ReleasersOK'
    BY <1>0, <1>1, <1>3, <1>4, <1>7 DEF ReleasersOK, Allocated, TypeOK
  <2>3. Released'
    BY <1>0, <1>1, <1>3, <1>4, <1>7 DEF Released, Allocated, TypeOK, Piece, Block
  <2> QED
    BY <2>1, <2>2, <2>3
<1> QED
  BY <1>0, <1>2, <1>5, <1>6, <1>8

LEMMA SplitInv ==
    ASSUME IndInv, NEW t \in Threads, NEW m1 \in Buffers, NEW m2 \in Buffers,
           NEW split \in Nat \ {0}, mbuffer_split(t, m1, m2, split)
    PROVE  IndInv'
<1> USE MBufferAssumption DEF IndInv
<1> m1 # m2
  BY DEF mbuffer_split, Calls, Spare
<1>0. PICK b \in Blocks : b = mbuf[m1].mcb
  BY DEF mbuffer_split, Calls, TypeOK, Piece, Block, Live
<1>1. /\ m1 \in Live /\ m2 \notin Live /\ split < mbuf[m1].n
      /\ block' = [block EXCEPT ![b].i = @ + 1]
      /\ UNCHANGED <<owner, freeing, cloned>>
  BY <1>0 DEF mbuffer_split, Calls, Spare
<1>2. /\ mbuf'[m1] = [mbuf[m1] EXCEPT !.n = split]
      /\ mbuf'[m2] = [mbuf[m1] EXCEPT !.ptr = mbuf[m1].ptr + split,
                                      !.n = mbuf[m1].n - split]
      /\ \A m \in Buffers \ {m1, m2} : mbuf'[m] = mbuf[m]
      /\ DOMAIN mbuf' = Buffers /\ mbuf' = [m \in Buffers |-> mbuf'[m]]
  BY <1>0, <1>1 DEF mbuffer_split, TypeOK
<1>3. TypeOK'
  <2>1. mbuf[m1] \in Piece /\ block[b] \in Block
    BY <1>0 DEF TypeOK
  <2>2. mbuf'[m1] \in Piece
    BY <1>2, <2>1 DEF Piece
  <2>3. mbuf'[m2] \in Piece
    <3>1. mbuf[m1].ptr + split \in Nat /\ mbuf[m1].n - split \in Nat
      BY <1>1, <2>1 DEF Piece
    <3> QED
      BY <1>2, <2>1, <3>1 DEF Piece
  <2>4. mbuf' \in [Buffers -> Piece]
    BY <1>2, <2>2, <2>3 DEF TypeOK
  <2>5. [block[b] EXCEPT !.i = @ + 1] \in Block
    BY <2>1 DEF Block
  <2>6. block' \in [Blocks -> Block]
    BY <1>1, <2>5 DEF TypeOK
  <2> QED
    BY <1>1, <2>4, <2>6 DEF TypeOK
<1>4. /\ block'[b] = [block[b] EXCEPT !.i = block[b].i + 1]
      /\ \A c \in Blocks \ {b} : block'[c] = block[c]
  BY <1>0, <1>1 DEF TypeOK
<1>5. /\ Pieces(b)' = Pieces(b) \cup {m2} /\ m2 \notin Pieces(b)
      /\ \A c \in Blocks \ {b} : Pieces(c)' = Pieces(c)
      /\ \A c \in Blocks : Releasers(c)' = Releasers(c)
  <2>1. mbuf[m1] \in Piece /\ mbuf[m1].mcb = b /\ mbuf[m2].mcb = None
    BY <1>0, <1>1 DEF TypeOK, Live
  <2>2. mbuf'[m1].mcb = b /\ mbuf'[m2].mcb = b
    BY <1>2, <2>1 DEF Piece
  <2>3. \A m \in Buffers \ {m2} : mbuf'[m].mcb = mbuf[m].mcb
    BY <1>2, <2>1, <2>2
  <2> QED
    BY <1>1, <2>1, <2>2, <2>3 DEF Pieces, Releasers
<1>6. CounterIsExact'
  BY <1>0, <1>4, <1>5, OneMore DEF CounterIsExact, TypeOK, Piece, Block
<1>7. PiecesFit'
  <2>1. /\ Allocated(b) /\ mbuf[m1].n > 0 /\ mbuf[m1].place = block[b].place
        /\ mbuf[m1].ptr + mbuf[m1].n <= block[b].size
        /\ mbuf[m1] \in Piece /\ block[b] \in Block
    BY <1>0, <1>1 DEF PiecesFit, TypeOK
  <2>2. \A c \in Blocks : /\ block'[c].size = block[c].size
                          /\ block'[c].place = block[c].place
                          /\ Allocated(c)' = Allocated(c)
    BY <1>4 DEF TypeOK, Block, Allocated
  <2>3. /\ mbuf'[m1].mcb = b /\ mbuf'[m1].place = mbuf[m1].place
        /\ mbuf'[m1].ptr = mbuf[m1].ptr /\ mbuf'[m1].n = split
        /\ mbuf'[m2].mcb = b /\ mbuf'[m2].place = mbuf[m1].place
        /\ mbuf'[m2].ptr = mbuf[m1].ptr + split /\ mbuf'[m2].n = mbuf[m1].n - split
        /\ mbuf[m1].ptr \in Nat /\ mbuf[m1].n \in Nat /\ block[b].size \in Nat
    BY <1>0, <1>2, <2>1 DEF Piece, Block
  <2>4. ASSUME NEW m \in {m1, m2}
        PROVE  /\ Allocated(mbuf[m].mcb)' /\ mbuf'[m].place = block'[mbuf'[m].mcb].place
               /\ mbuf'[m].n > 0 /\ mbuf'[m].ptr + mbuf'[m].n <= block'[mbuf'[m].mcb].size
    BY <1>1, <2>1, <2>2, <2>3, <2>4 DEF Allocated
  <2>5. ASSUME NEW m \in Live', m \notin {m1, m2}
        PROVE  /\ Allocated(mbuf[m].mcb)' /\ mbuf'[m].place = block'[mbuf'[m].mcb].place
               /\ mbuf'[m].n > 0 /\ mbuf'[m].ptr + mbuf'[m].n <= block'[mbuf'[m].mcb].size
    <3>1. m \in Live /\ mbuf'[m] = mbuf[m] /\ mbuf[m].mcb \in Blocks
      BY <1>2, <2>5 DEF TypeOK, Piece, Live
    <3> QED
      BY <2>2, <3>1 DEF PiecesFit, Allocated
  <2> QED
    BY <2>4, <2>5 DEF PiecesFit
<1>8. m1 \in Pieces(b) /\ block[b].i > 0
  BY <1>0, <1>1, NoPieces DEF Pieces, Live
<1>9. FreedOnce' /\ Unallocated' /\ ReleasersOK' /\ Released'
  <2>1. FreedOnce' /\ Unallocated'
    BY <1>0, <1>1, <1>4, <1>5, <1>8 DEF FreedOnce, Unallocated, Allocated, TypeOK
  <2>2. ReleasersOK'
    BY <1>0, <1>1, <1>4, <1>5, <1>8 DEF ReleasersOK, Allocated, TypeOK
  <2>3. Released'
    BY <1>0, <1>1, <1>4, <1>5, <1>8 DEF Released, Allocated, TypeOK, Piece, Block
  <2> QED
    BY <2>1, <2>2, <2>3
<1> QED
  BY <1>0, <1>3, <1>6, <1>7, <1>9

(* mbuffer_realloc only touches a block that has a single piece.           *)
LEMMA SinglePiece ==
    ASSUME IndInv, NEW m \in Live, block[mbuf[m].mcb].i <= 1
    PROVE  \A l \in Live : mbuf[l].mcb = mbuf[m].mcb => l = m
<1> DEFINE b == mbuf[m].mcb
<1>1. b \in Blocks /\ m \in Pieces(b) /\ IsFiniteSet(Pieces(b))
  BY FinitePieces DEF IndInv, TypeOK, Piece, Block, Live, Pieces
<1>2. Cardinality(Pieces(b)) = 1
  BY <1>1, NoPieces DEF IndInv, CounterIsExact
<1>3. PICK x : Pieces(b) = {x}
  BY <1>1, <1>2, FS_Singleton
<1> QED
  BY <1>1, <1>3 DEF Pieces, Live

LEMMA ReallocInv ==
    ASSUME IndInv, NEW t \in Threads, NEW m \in Buffers, NEW size \in Nat \ {0},
           mbuffer_realloc(t, m, size)
    PROVE  IndInv'
<1> USE MBufferAssumption DEF IndInv
<1>0. PICK b \in Blocks : b = mbuf[m].mcb
  BY DEF mbuffer_realloc, Calls, TypeOK, Piece, Block, Live
<1>1. /\ m \in Live /\ block[b].i <= 1 /\ mbuf[m].ptr = 0
      /\ UNCHANGED <<owner, freeing, cloned>>
  BY <1>0 DEF mbuffer_realloc, IsOriginal, Calls
<1>2. PICK place \in Places :
         /\ block' = [block EXCEPT ![b].size = size, ![b].place = place]
         /\ mbuf' = [mbuf EXCEPT ![m].n = size, ![m].place = place]
  BY <1>0 DEF mbuffer_realloc
<1>3. TypeOK'
  <2>1. mbuf[m] \in Piece /\ block[b] \in Block
    BY DEF TypeOK
  <2>2. [mbuf[m] EXCEPT !.n = size, !.place = place] \in Piece
    BY <2>1 DEF Piece
  <2>3. [block[b] EXCEPT !.size = size, !.place = place] \in Block
    BY <2>1 DEF Block
  <2>4. mbuf' = [mbuf EXCEPT ![m] = [mbuf[m] EXCEPT !.n = size, !.place = place]]
    BY <1>2, Zenon DEF TypeOK
  <2>5. block' = [block EXCEPT ![b] = [block[b] EXCEPT !.size = size, !.place = place]]
    BY <1>2, Zenon DEF TypeOK
  <2> QED
    BY <1>1, <2>2, <2>3, <2>4, <2>5 DEF TypeOK
<1>4. /\ block'[b].size = size /\ block'[b].place = place
      /\ block'[b].i = block[b].i /\ block'[b].frees = block[b].frees
      /\ \A c \in Blocks \ {b} : block'[c] = block[c]
  BY <1>0, <1>2 DEF TypeOK, Block
<1>5. \A c \in Blocks : Pieces(c)' = Pieces(c) /\ Releasers(c)' = Releasers(c)
  BY <1>0, <1>1, <1>2 DEF TypeOK, Pieces, Live, Releasers
<1>6. CounterIsExact'
  BY <1>0, <1>4, <1>5 DEF CounterIsExact, TypeOK
<1>7. PiecesFit'
  <2>1. \A l \in Live \ {m} : mbuf[l].mcb # b
    BY <1>0, <1>1, SinglePiece
  <2>2. /\ mbuf'[m] = [mbuf[m] EXCEPT !.n = size, !.place = place]
        /\ \A l \in Buffers \ {m} : mbuf'[l] = mbuf[l]
    <3>1. mbuf' = [mbuf EXCEPT ![m] = [mbuf[m] EXCEPT !.n = size, !.place = place]]
      BY <1>2, Zenon DEF TypeOK
    <3> QED
      BY <3>1 DEF TypeOK
  <2>3. /\ mbuf'[m].mcb = b /\ mbuf'[m].place = place
        /\ mbuf'[m].ptr = 0 /\ mbuf'[m].n = size
    <3>1. mbuf[m] \in Piece
      BY DEF TypeOK
    <3> QED
      BY <1>0, <1>1, <2>2, <3>1 DEF Piece
  <2>4. Live' = Live
    BY <1>0, <1>1, <2>2, <2>3 DEF Live
  <2>5. Allocated(b)' /\ \A c \in Blocks \ {b} : Allocated(c)' = Allocated(c)
    BY <1>0, <1>1, <1>4 DEF PiecesFit, Allocated
  <2>6. ASSUME NEW l \in Live, l # m
        PROVE  mbuf[l].mcb \in Blocks \ {b} /\ mbuf'[l] = mbuf[l]
    BY <2>1, <2>2, <2>6 DEF TypeOK, Piece, Block, Live
  <2> QED
    BY <1>4, <2>3, <2>4, <2>5, <2>6 DEF PiecesFit
<1>8. Allocated(b)
  BY <1>0, <1>1 DEF PiecesFit
<1>9. FreedOnce' /\ Unallocated' /\ ReleasersOK' /\ Released'
  <2>1. FreedOnce' /\ Unallocated'
    BY <1>0, <1>4, <1>5, <1>8 DEF FreedOnce, Unallocated, Allocated, TypeOK
  <2>2. ReleasersOK'
    BY <1>0, <1>4, <1>5, <1>8 DEF ReleasersOK, Allocated, TypeOK
  <2>3. Released'
    BY <1>0, <1>4, <1>5, <1>8 DEF Released, Allocated, TypeOK
  <2> QED
    BY <2>1, <2>2, <2>3
<1> QED
  BY <1>0, <1>3, <1>6, <1>7, <1>9

(* The thread that gives up the last piece is the one that reads 0.        *)
LEMMA FreeInv ==
    ASSUME IndInv, NEW t \in Threads, NEW m \in Buffers, mbuffer_free(t, m)
    PROVE  IndInv'
<1> USE MBufferAssumption DEF IndInv, NoPiece, Idle
<1>0. PICK b \in Blocks : b = mbuf[m].mcb
  BY DEF mbuffer_free, Calls, TypeOK, Piece, Block, Live
<1>1. /\ m \in Live /\ freeing[t] = Idle
      /\ block' = [block EXCEPT ![b].i = @ - 1]
      /\ freeing' = [freeing EXCEPT ![t] = [mcb |-> b, ref |-> block[b].i - 1]]
      /\ mbuf' = [mbuf EXCEPT ![m] = NoPiece]
      /\ UNCHANGED <<owner, cloned>>
  BY <1>0 DEF mbuffer_free, Calls
<1>2. TypeOK'
  <2>1. block[b] \in Block /\ NoPiece \in Piece
    BY <1>0 DEF TypeOK, Piece
  <2>2. [block[b] EXCEPT !.i = @ - 1] \in Block /\ block[b].i - 1 \in Int
    BY <2>1 DEF Block
  <2>3. block' \in [Blocks -> Block] /\ mbuf' \in [Buffers -> Piece]
    BY <1>1, <2>1, <2>2 DEF TypeOK
  <2>4. freeing' \in [Threads -> [mcb : Blocks \cup {None}, ref : Int]]
    BY <1>0, <1>1, <2>2 DEF TypeOK
  <2> QED
    BY <1>1, <2>3, <2>4 DEF TypeOK
<1>3. /\ block'[b].i = block[b].i - 1
      /\ block'[b].size = block[b].size /\ block'[b].frees = block[b].frees
      /\ \A c \in Blocks \ {b} : block'[c] = block[c]
  BY <1>0, <1>1 DEF TypeOK
<1>4. /\ Pieces(b)' = Pieces(b) \ {m} /\ m \in Pieces(b)
      /\ \A c \in Blocks \ {b} : Pieces(c)' = Pieces(c)
  BY <1>0, <1>1 DEF TypeOK, Pieces, Live
<1>5. CounterIsExact'
  BY <1>0, <1>3, <1>4, OneLess DEF CounterIsExact, TypeOK
<1>6. PiecesFit'
  BY <1>0, <1>1, <1>3 DEF PiecesFit, TypeOK, Live, Allocated
<1>7. Allocated(b) /\ block[b].i > 0 /\ Releasers(b) = {}
  BY <1>0, <1>1, <1>4, NoPieces DEF PiecesFit, ReleasersOK
<1>8. /\ Releasers(b)' = IF block[b].i = 1 THEN {t} ELSE {}
      /\ \A c \in Blocks \ {b} : Releasers(c)' = Releasers(c)
  <2>1. \A u \in Threads \ {t} : freeing'[u] = freeing[u]
    BY <1>0, <1>1 DEF TypeOK
  <2>2. freeing'[t] = [mcb |-> b, ref |-> block[b].i - 1]
    BY <1>0, <1>1 DEF TypeOK
  <2> QED
    BY <1>0, <1>1, <1>7, <2>1, <2>2 DEF Releasers, TypeOK
<1>9. FreedOnce' /\ Unallocated' /\ ReleasersOK' /\ Released'
  <2>1. FreedOnce' /\ Unallocated'
    BY <1>0, <1>3, <1>7, <1>8 DEF FreedOnce, Unallocated, Allocated, TypeOK
  <2>2. ReleasersOK'
    BY <1>0, <1>3, <1>7, <1>8 DEF ReleasersOK, Allocated, TypeOK
  <2>3. Released'
    <3>1. Allocated(b)' /\ block'[b].i = 0 => Releasers(b)' # {}
      BY <1>3, <1>8 DEF TypeOK, Piece, Block
    <3>2. \A c \in Blocks \ {b} : Allocated(c)' /\ block'[c].i = 0 => Releasers(c)' # {}
      BY <1>3, <1>8 DEF Released, Allocated
    <3> QED
      BY <3>1, <3>2 DEF Released
  <2> QED
    BY <2>1, <2>2, <2>3
<1> QED
  BY <1>0, <1>2, <1>5, <1>6, <1>9

(* The block is freed after the lock was released; nothing has happened to *)
(* it in between.                                                          *)
LEMMA ReleaseInv ==
    ASSUME IndInv, NEW t \in Threads, Release(t)
    PROVE  IndInv'
<1> USE MBufferAssumption DEF IndInv, Idle
<1>0. PICK b \in Blocks \cup {None} : b = freeing[t].mcb
  BY DEF TypeOK
<1>1. /\ freeing' = [freeing EXCEPT ![t] = Idle]
      /\ UNCHANGED <<mbuf, owner, cloned>>
      /\ \A c \in Blocks : Pieces(c)' = Pieces(c)
      /\ \A c \in Blocks : Releasers(c)' = Releasers(c) \ {t}
  BY <1>0 DEF Release, TypeOK, Pieces, Releasers
<1>2. CASE t \in Releasers(b) /\ b \in Blocks
  <2>1. block' = [block EXCEPT ![b].frees = @ + 1]
    BY <1>0, <1>2 DEF Release, Releasers
  <2>2. Allocated(b) /\ block[b].i = 0 /\ Pieces(b) = {} /\ Releasers(b) = {t}
    BY <1>0, <1>2, NoPieces DEF ReleasersOK
  <2>3. /\ block'[b].frees = 1
        /\ block'[b].i = block[b].i /\ block'[b].size = block[b].size
        /\ \A c \in Blocks \ {b} : block'[c] = block[c]
        /\ \A c \in Blocks \ {b} : t \notin Releasers(c)
    BY <1>0, <1>2, <2>1, <2>2 DEF TypeOK, Allocated, Releasers
  <2>4. TypeOK'
    <3>1. block[b] \in Block
      BY <1>2 DEF TypeOK
    <3>2. [block[b] EXCEPT !.frees = @ + 1] \in Block
      BY <3>1 DEF Block
    <3>3. block' \in [Blocks -> Block]
      BY <1>2, <2>1, <3>2 DEF TypeOK
    <3> QED
      BY <1>1, <3>3 DEF TypeOK
  <2>5. CounterIsExact'
    BY <1>0, <1>1, <2>3 DEF CounterIsExact, TypeOK
  <2>6. PiecesFit'
    BY <1>0, <1>1, <2>2, <2>3 DEF PiecesFit, Live, Allocated, Pieces, TypeOK, Piece, Block
  <2>7. FreedOnce' /\ Unallocated' /\ ReleasersOK' /\ Released'
    <3>1. FreedOnce' /\ Unallocated'
      <4>1. block'[b].frees = 1 /\ block'[b].size # 0
        BY <2>2, <2>3 DEF Allocated, TypeOK
      <4> QED
        BY <2>3, <4>1 DEF FreedOnce, Unallocated
    <3>2. ReleasersOK'
      BY <1>0, <1>1, <2>2, <2>3 DEF ReleasersOK, Allocated, TypeOK
    <3>3. Released'
      BY <1>0, <1>1, <2>2, <2>3 DEF Released, Allocated, TypeOK
    <3> QED
      BY <3>1, <3>2, <3>3
  <2> QED
    BY <1>0, <2>4, <2>5, <2>6, <2>7
<1>3. CASE t \notin Releasers(b) \/ b \notin Blocks
  <2>1. UNCHANGED block /\ \A c \in Blocks : t \notin Releasers(c)
    BY <1>0, <1>3 DEF Release, Releasers, TypeOK
  <2> QED
    BY <1>0, <1>1, <2>1
    DEF TypeOK, CounterIsExact, PiecesFit, FreedOnce, Unallocated, ReleasersOK,
        Released, Live, Allocated
<1> QED
  BY <1>0, <1>2, <1>3

LEMMA HandOverInv ==
    ASSUME IndInv, NEW t \in Threads, NEW m \in Buffers, NEW other \in Threads,
           HandOver(t, m, other)
    PROVE  IndInv'
BY DEF HandOver, IndInv, TypeOK, Piece, Block, CounterIsExact, PiecesFit, FreedOnce, Unallocated,
       ReleasersOK, Released, Live, Allocated, Pieces, Releasers

LEMMA StepInv == IndInv /\ [Next]_vars => IndInv'
<1> SUFFICES ASSUME IndInv, [Next]_vars
             PROVE  IndInv'
  OBVIOUS
<1> USE MBufferAssumption DEF Sizes
<1>1. ASSUME NEW t \in Threads, Step(t)
      PROVE  IndInv'
  <2>1. CASE Release(t)
    BY <2>1, ReleaseInv
  <2>2. ASSUME NEW m \in Buffers, mbuffer_free(t, m)
        PROVE  IndInv'
    BY <2>2, FreeInv
  <2>3. ASSUME NEW m \in Buffers, NEW size \in Sizes, mbuffer_create(t, m, size)
        PROVE  IndInv'
    BY <2>3, CreateInv
  <2>4. ASSUME NEW m \in Buffers, NEW size \in Sizes, mbuffer_realloc(t, m, size)
        PROVE  IndInv'
    BY <2>4, ReallocInv
  <2>5. ASSUME NEW m \in Buffers, NEW other \in Threads, HandOver(t, m, other)
        PROVE  IndInv'
    BY <2>5, HandOverInv
  <2>6. ASSUME NEW m \in Buffers, NEW m2 \in Buffers, mbuffer_copy(t, m, m2)
        PROVE  IndInv'
    <3>1. mbuf[m].n \in Nat \ {0}
      BY <2>6 DEF mbuffer_copy, Calls, IndInv, TypeOK, Piece, Block, PiecesFit
    <3> QED
      BY <2>6, <3>1, CreateInv DEF mbuffer_copy
  <2>7. ASSUME NEW m \in Buffers, NEW m2 \in Buffers, mbuffer_clone(t, m, m2)
        PROVE  IndInv'
    BY <2>7, CloneInv
  <2>8. ASSUME NEW m \in Buffers, NEW m2 \in Buffers, NEW split \in Sizes,
               mbuffer_split(t, m, m2, split)
        PROVE  IndInv'
    BY <2>8, SplitInv
  <2> QED
    BY <1>1, <2>1, <2>2, <2>3, <2>4, <2>5, <2>6, <2>7, <2>8 DEF Step
<1>2. CASE UNCHANGED vars
  BY <1>2
  DEF vars, IndInv, TypeOK, CounterIsExact, PiecesFit, FreedOnce, Unallocated,
      ReleasersOK, Released, Live, Allocated, Pieces, Releasers
<1> QED
  BY <1>1, <1>2 DEF Next

(* Every reachable state satisfies the inductive invariant.                *)
THEOREM IndInvHolds == Spec => []IndInv
BY InitInv, StepInv, PTL DEF Spec

(* The counter of a block is the number of its pieces, whatever threads    *)
(* split, copy, clone, resize, hand over and free at the same time         *)
(* (mbuffer.c:133-141, 273-281).                                           *)
THEOREM CounterIsExactHolds == Spec => []CounterIsExact
<1>1. IndInv => CounterIsExact
  BY DEF IndInv
<1> QED
  BY <1>1, IndInvHolds, PTL

(* No thread ever holds a piece of memory that was freed, by mbuffer_free  *)
(* or by a realloc that moved or shrank the block.                         *)
THEOREM NoDanglingPieceHolds == Spec => []NoDanglingPiece
<1>1. IndInv => NoDanglingPiece
  BY DEF IndInv, PiecesFit, NoDanglingPiece
<1> QED
  BY <1>1, IndInvHolds, PTL

(* free() is called at most once on a block, although mbuffer_free calls it*)
(* after it has released the lock of the counter.                          *)
THEOREM FreedOnceHolds == Spec => []FreedOnce
<1>1. IndInv => FreedOnce
  BY DEF IndInv
<1> QED
  BY <1>1, IndInvHolds, PTL

(* A block that nobody has a piece of is freed, or will be by the one      *)
(* thread that gave up the last piece.                                     *)
THEOREM NoLeakHolds == Spec => []NoLeak
<1>1. ASSUME IndInv, NEW b \in Blocks, Allocated(b), Pieces(b) = {}
      PROVE  Cardinality(Releasers(b)) = 1
  <2>1. block[b].i = 0
    BY <1>1, NoPieces DEF IndInv
  <2>2. PICK t \in Releasers(b) : TRUE
    BY <1>1, <2>1 DEF IndInv, Released
  <2>3. Releasers(b) = {t}
    BY <1>1, <2>2 DEF IndInv, ReleasersOK
  <2> QED
    BY <2>3, FS_Singleton
<1>2. IndInv => NoLeak
  BY <1>1 DEF NoLeak
<1> QED
  BY <1>2, IndInvHolds, PTL

-------------------------------------------------------------------------------
(* Which bytes the pieces cover: a step of the proof for each action that  *)
(* places or resizes one.                                                  *)
LEMMA DisjointInit == Init => PiecesAreDisjoint
BY DEF Init, NoPiece, Live, PiecesAreDisjoint

LEMMA DisjointStep ==
    PiecesAreDisjoint /\ IndInv /\ IndInv' /\ [Next]_vars => PiecesAreDisjoint'
<1> SUFFICES ASSUME PiecesAreDisjoint, IndInv, [Next]_vars,
                    NEW l1 \in Live', NEW l2 \in Live', l1 # l2,
                    mbuf'[l1].mcb = mbuf'[l2].mcb, mbuf'[l1].mcb \notin cloned'
             PROVE  \/ mbuf'[l1].ptr + mbuf'[l1].n <= mbuf'[l2].ptr
                    \/ mbuf'[l2].ptr + mbuf'[l2].n <= mbuf'[l1].ptr
  BY DEF PiecesAreDisjoint
<1> DEFINE Same(l) == l \in Live /\ mbuf'[l] = mbuf[l]
<1> USE MBufferAssumption
<1>0. TypeOK /\ PiecesFit /\ l1 \in Buffers /\ l2 \in Buffers
  BY DEF IndInv, Live
<1>1. cloned \subseteq cloned'
  <2>1. ASSUME NEW t \in Threads, Release(t)
        PROVE  cloned' = cloned
    BY <2>1 DEF Release
  <2>2. ASSUME NEW t \in Threads, NEW m \in Buffers,
               \/ mbuffer_free(t, m)
               \/ \E size : mbuffer_create(t, m, size) \/ mbuffer_realloc(t, m, size)
               \/ \E other \in Threads : HandOver(t, m, other)
        PROVE  cloned' = cloned
    BY <2>2 DEF mbuffer_free, mbuffer_create, mbuffer_realloc, HandOver
  <2>3. ASSUME NEW t \in Threads, NEW m \in Buffers, NEW m2 \in Buffers,
               \/ mbuffer_copy(t, m, m2) \/ mbuffer_clone(t, m, m2)
               \/ \E split \in Sizes : mbuffer_split(t, m, m2, split)
        PROVE  cloned \subseteq cloned'
    BY <2>3 DEF mbuffer_copy, mbuffer_create, mbuffer_clone, mbuffer_split
  <2>4. CASE UNCHANGED vars
    BY <2>4 DEF vars
  <2>5. ASSUME NEW t \in Threads, Step(t)
        PROVE  cloned \subseteq cloned'
    BY <2>1, <2>2, <2>3, <2>5 DEF Step
  <2> QED
    BY <2>4, <2>5 DEF Next
<1>2. ASSUME Same(l1), Same(l2)
      PROVE  \/ mbuf'[l1].ptr + mbuf'[l1].n <= mbuf'[l2].ptr
             \/ mbuf'[l2].ptr + mbuf'[l2].n <= mbuf'[l1].ptr
  BY <1>1, <1>2 DEF PiecesAreDisjoint
<1>3. ASSUME NEW t \in Threads, NEW m \in Buffers, NEW size,
             mbuffer_create(t, m, size)
      PROVE  Same(l1) /\ Same(l2)
  <2>1. PICK b \in Blocks, place \in Places :
           /\ block[b].size = 0
           /\ mbuf' = [mbuf EXCEPT ![m] = [mcb |-> b, place |-> place, ptr |-> 0, n |-> size]]
    BY <1>3 DEF mbuffer_create
  <2>2. \A l \in Buffers \ {m} : mbuf'[l] = mbuf[l] /\ mbuf[l].mcb # b
    BY <1>0, <2>1 DEF TypeOK, PiecesFit, Live, Allocated
  <2>3. mbuf'[m].mcb = b
    BY <1>0, <2>1 DEF TypeOK
  <2>4. l1 # m /\ l2 # m
    BY <1>0, <2>2, <2>3
  <2> QED
    BY <1>0, <2>2, <2>4 DEF Live
<1>4. ASSUME NEW t \in Threads, NEW m \in Buffers, NEW size,
             mbuffer_realloc(t, m, size)
      PROVE  Same(l1) /\ Same(l2)
  <2>1. PICK place \in Places :
           /\ m \in Live /\ block[mbuf[m].mcb].i <= 1
           /\ mbuf' = [mbuf EXCEPT ![m].n = size, ![m].place = place]
    BY <1>4 DEF mbuffer_realloc, Calls
  <2>2. \A l \in Buffers : mbuf'[l].mcb = mbuf[l].mcb
    BY <1>0, <2>1 DEF TypeOK
  <2>3. \A l \in Live : mbuf[l].mcb = mbuf[m].mcb => l = m
    BY <2>1, SinglePiece
  <2>4. l1 # m /\ l2 # m /\ l1 \in Live /\ l2 \in Live
    BY <1>0, <2>1, <2>2, <2>3 DEF Live
  <2> QED
    BY <1>0, <2>1, <2>4 DEF TypeOK
<1>5. ASSUME NEW t \in Threads, NEW m \in Buffers, NEW m2 \in Buffers,
             mbuffer_clone(t, m, m2)
      PROVE  Same(l1) /\ Same(l2)
  <2>1. /\ m \in Live /\ mbuf' = [mbuf EXCEPT ![m2] = mbuf[m]]
        /\ cloned' = cloned \cup {mbuf[m].mcb}
    BY <1>5 DEF mbuffer_clone, Calls
  <2>2. mbuf'[m2].mcb \in cloned' /\ \A l \in Buffers \ {m2} : mbuf'[l] = mbuf[l]
    BY <1>0, <2>1 DEF TypeOK
  <2> QED
    BY <1>0, <2>2 DEF Live
<1>6. ASSUME NEW t \in Threads, NEW m1 \in Buffers, NEW m2 \in Buffers,
             NEW split \in Sizes, mbuffer_split(t, m1, m2, split)
      PROVE  \/ mbuf'[l1].ptr + mbuf'[l1].n <= mbuf'[l2].ptr
             \/ mbuf'[l2].ptr + mbuf'[l2].n <= mbuf'[l1].ptr
  <2>1. /\ m1 \in Live /\ m2 \notin Live /\ split \in Nat /\ split < mbuf[m1].n
        /\ cloned' = cloned
    BY <1>6 DEF mbuffer_split, Calls, Spare, Sizes
  <2>2. /\ mbuf'[m1] = [mbuf[m1] EXCEPT !.n = split]
        /\ mbuf'[m2] = [mbuf[m1] EXCEPT !.ptr = mbuf[m1].ptr + split,
                                        !.n = mbuf[m1].n - split]
        /\ \A l \in Buffers \ {m1, m2} : mbuf'[l] = mbuf[l]
    BY <1>0, <1>6, <2>1 DEF mbuffer_split, TypeOK
  <2>3. \A l \in Live \ {m1} :
           mbuf[l].mcb = mbuf[m1].mcb /\ mbuf[l].mcb \notin cloned =>
               \/ mbuf[l].ptr + mbuf[l].n <= mbuf[m1].ptr
               \/ mbuf[m1].ptr + mbuf[m1].n <= mbuf[l].ptr
    BY <2>1 DEF PiecesAreDisjoint
  <2>4. /\ \A l \in Buffers : mbuf[l].ptr \in Nat /\ mbuf[l].n \in Nat
        /\ mbuf'[m1].mcb = mbuf[m1].mcb /\ mbuf'[m1].ptr = mbuf[m1].ptr
        /\ mbuf'[m1].n = split
        /\ mbuf'[m2].mcb = mbuf[m1].mcb /\ mbuf'[m2].ptr = mbuf[m1].ptr + split
        /\ mbuf'[m2].n = mbuf[m1].n - split
        /\ \A l \in Buffers \ {m1, m2} : mbuf'[l] = mbuf[l]
    <3>1. \A l \in Buffers : mbuf[l] \in Piece
      BY <1>0 DEF TypeOK
    <3> QED
      BY <2>2, <3>1 DEF Piece
  <2>5. CASE l1 \notin {m1, m2} /\ l2 \notin {m1, m2}
    BY <1>0, <1>2, <2>4, <2>5 DEF Live
  <2>6. CASE l1 \in {m1, m2} /\ l2 \notin {m1, m2}
    BY <1>0, <2>1, <2>3, <2>4, <2>6 DEF Live
  <2>7. CASE l1 \notin {m1, m2} /\ l2 \in {m1, m2}
    BY <1>0, <2>1, <2>3, <2>4, <2>7 DEF Live
  <2>8. CASE l1 \in {m1, m2} /\ l2 \in {m1, m2}
    BY <1>0, <2>1, <2>4, <2>8
  <2> QED
    BY <2>5, <2>6, <2>7, <2>8
<1>7. ASSUME NEW t \in Threads, NEW m \in Buffers, mbuffer_free(t, m)
      PROVE  Same(l1) /\ Same(l2)
  BY <1>0, <1>7 DEF mbuffer_free, NoPiece, Live, TypeOK
<1>8. ASSUME UNCHANGED mbuf
      PROVE  Same(l1) /\ Same(l2)
  BY <1>8 DEF Live
<1>9. CASE Next
  <2>1. PICK t \in Threads : Step(t)
    BY <1>9 DEF Next
  <2> QED
    BY <1>2, <1>3, <1>4, <1>5, <1>6, <1>7, <1>8, <2>1
    DEF Step, Release, HandOver, mbuffer_copy
<1> QED
  BY <1>2, <1>8, <1>9 DEF vars

(* Every piece lies in the memory that its block has at that moment, and   *)
(* two pieces of a block that was not cloned never overlap, so that threads*)
(* that write to pieces of their own disturb neither each other nor other  *)
(* blocks.                                                                 *)
THEOREM PiecesAreDisjointHolds == Spec => [](NoDanglingPiece /\ PiecesAreDisjoint)
BY DisjointInit, DisjointStep, IndInvHolds, NoDanglingPieceHolds, PTL DEF Spec

===============================================================================
