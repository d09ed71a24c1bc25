------------------------------ MODULE EarlyChunks ------------------------------
(***************************************************************************)
(* What the cache of early chunks is for: chunks come in any order and are *)
(* written in one order, and at the end none is left.                      *)
(***************************************************************************)
EXTENDS Naturals, Sequences

CONSTANT Order       \* all chunks, in the order in which they must be written

VARIABLES held,      \* the chunks that have come and are not written
          written,   \* the chunks written, in order
          ended

vars == <<held, written, ended>>

Chunks == {Order[k] : k \in DOMAIN Order}

Init == held = {} /\ written = <<>> /\ ended = FALSE

Arrive(c) ==
    /\ ~ended /\ c \notin held
    /\ \A k \in DOMAIN written : written[k] # c
    /\ held' = held \cup {c}
    /\ UNCHANGED <<written, ended>>

Write(c) ==
    /\ ~ended /\ c \in held /\ c = Order[Len(written) + 1]
    /\ held' = held \ {c}
    /\ written' = Append(written, c)
    /\ UNCHANGED ended

End ==
    /\ ~ended /\ written = Order
    /\ ended' = TRUE
    /\ UNCHANGED <<held, written>>

Next == (\E c \in Chunks : Arrive(c) \/ Write(c)) \/ End

Spec == Init /\ [][Next]_vars

===============================================================================
