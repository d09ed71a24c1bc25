------------------------------- MODULE Placement -------------------------------
(***************************************************************************)
(* What annealing does to a chip, whoever does it: every element has a     *)
(* location of its own, and a move exchanges the locations of two elements *)
(* in one step.                                                            *)
(***************************************************************************)
CONSTANTS Elements,
          Initial      \* where the elements are when annealing begins

VARIABLE place         \* the location of each element

Init == place = Initial

Exchange(x, y) ==
    /\ x # y
    /\ place' = [place EXCEPT ![x] = place[y], ![y] = place[x]]

Next == \E x, y \in Elements : Exchange(x, y)

Spec == Init /\ [][Next]_place

===============================================================================
