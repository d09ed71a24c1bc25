------------------------------ MODULE RingBuffer ------------------------------
(***************************************************************************)
(* The ring buffer of dedup's queue.h: the storage of every queue between  *)
(* two pipeline stages, and of the private buffers in which a stage        *)
(* gathers the items it sends or receives in one batch.                    *)
(*                                                                         *)
(* A ring buffer for n elements has n + 1 slots, 0 .. n; the slot before   *)
(* tail stays unused, so that head = tail means empty and never full.      *)
(***************************************************************************)
EXTENDS Integers, Sequences

CONSTANT Unset   \* the content of a slot that nobody has written yet

ringbuffer_init(n) ==
    [head |-> 0, tail |-> 0, size |-> n + 1, data |-> [s \in 0 .. n |-> Unset]]

ringbuffer_isEmpty(rb) == rb.tail = rb.head

ringbuffer_isFull(rb) == rb.head = (rb.tail - 1 + rb.size) % rb.size

(* The index after i, wrapping around (queue.h:78-79, 90-91).              *)
Advance(rb, i) == IF i + 1 = rb.size THEN 0 ELSE i + 1

(* The element ringbuffer_remove returns, and the buffer it leaves.  The   *)
(* slot keeps its stale pointer, as in the code.                           *)
Oldest(rb) == rb.data[rb.tail]

ringbuffer_remove(rb) == [rb EXCEPT !.tail = Advance(rb, rb.tail)]

ringbuffer_insert(rb, x) ==
    [rb EXCEPT !.data = [@ EXCEPT ![rb.head] = x], !.head = Advance(rb, rb.head)]

-------------------------------------------------------------------------------

(* What a ring buffer means: the sequence of its elements, oldest first.   *)
Count(rb) ==
    IF rb.tail <= rb.head THEN rb.head - rb.tail ELSE rb.head - rb.tail + rb.size

SlotOf(rb, i) ==
    IF rb.tail + i - 1 < rb.size THEN rb.tail + i - 1 ELSE rb.tail + i - 1 - rb.size

Contents(rb) == [i \in 1 .. Count(rb) |-> rb.data[SlotOf(rb, i)]]

(* The ring buffers with room for n elements of S.                         *)
RingBuffers(S, n) ==
    [head : 0 .. n, tail : 0 .. n, size : {n + 1}, data : [0 .. n -> S \cup {Unset}]]

===============================================================================
