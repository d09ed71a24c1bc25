-------------------------------- MODULE Channel --------------------------------
(***************************************************************************)
(* What a queue of the dedup pipeline promises the stages on both sides: a *)
(* bounded first-in first-out channel that its producers close one by one. *)
(* A receiver may conclude that the stream has ended only when every       *)
(* producer has closed the channel and it is empty.                        *)
(***************************************************************************)
EXTENDS Integers, Sequences

CONSTANTS Msgs,        \* the items that may be sent
          Writers,     \* the threads counted in nProducers
          Readers,     \* the threads that receive
          Capacity     \* the most items the channel holds

VARIABLES chan,        \* the items in flight, oldest first
          closed,      \* the writers that have terminated the channel
          ended        \* the readers that were told the stream has ended

vars == <<chan, closed, ended>>

Init == chan = <<>> /\ closed = {} /\ ended = {}

Send == /\ closed # Writers
        /\ Len(chan) < Capacity
        /\ \E m \in Msgs : chan' = Append(chan, m)
        /\ UNCHANGED <<closed, ended>>

Receive == /\ chan # <<>>
           /\ chan' = Tail(chan)
           /\ UNCHANGED <<closed, ended>>

Close(w) == /\ w \notin closed
            /\ closed' = closed \cup {w}
            /\ UNCHANGED <<chan, ended>>

End(r) == /\ chan = <<>> /\ closed = Writers
          /\ ended' = ended \cup {r}
          /\ UNCHANGED <<chan, closed>>

Next == \/ Send
        \/ Receive
        \/ \E w \in Writers : Close(w)
        \/ \E r \in Readers : End(r)

Spec == Init /\ [][Next]_vars

===============================================================================
