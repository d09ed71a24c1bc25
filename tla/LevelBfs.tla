-------------------------------- MODULE LevelBfs --------------------------------
(***************************************************************************)
(* Breadth-first search on one machine, a level at a time: every vertex    *)
(* that is reached for the first time gets a predecessor in the level      *)
(* before, and the search ends with the first empty level.                 *)
(***************************************************************************)
CONSTANTS Vertices,
          Root,
          Neighbours,    \* the set of neighbours of each vertex
          NotVisited

VARIABLES pred,          \* the predecessor map
          frontier,      \* the vertices reached in the last level
          ended

vars == <<pred, frontier, ended>>

Init ==
    /\ pred = [v \in Vertices |-> IF v = Root THEN Root ELSE NotVisited]
    /\ frontier = {Root}
    /\ ended = FALSE

Reached ==
    {v \in Vertices : pred[v] = NotVisited /\ \E u \in frontier : v \in Neighbours[u]}

Level ==
    /\ ~ended
    /\ Reached # {}
    /\ frontier' = Reached
    /\ DOMAIN pred' = Vertices
    /\ \A v \in Vertices :
          IF v \in Reached
          THEN pred'[v] \in frontier /\ v \in Neighbours[pred'[v]]
          ELSE pred'[v] = pred[v]
    /\ UNCHANGED ended

End ==
    /\ ~ended
    /\ Reached = {}
    /\ ended' = TRUE
    /\ UNCHANGED <<pred, frontier>>

Next == Level \/ End

Spec == Init /\ [][Next]_vars

===============================================================================
