------------------------------ MODULE MCBfsSimple ------------------------------
(* An undirected graph, whose edges stand at both their ends.  Vertex 0    *)
(* fills a buffer for the owner of 1 and 4, three vertices compete for 5,  *)
(* two edges are double or loops, and 3 is out of reach.                   *)
EXTENDS BfsSimple

MCColumn == 0 :> <<1, 4, 2>> @@ 1 :> <<0, 5, 1>> @@ 2 :> <<0, 5>>
         @@ 3 :> <<3>> @@ 4 :> <<0, 5, 5>> @@ 5 :> <<1, 4, 4, 2>>

===============================================================================
