------------------------------ MODULE MCTestPath -------------------------------
(* All graphs in which n2 has an arc to n3 at most, and n3 to n1 at most:  *)
(* forks, chains, loops and parts that cannot be reached.                  *)
EXTENDS TestPath

CONSTANTS n1, n2, n3, t1, t2, t3

MCGraphs == {g \in [Nodes -> SUBSET Nodes] : g[n2] \subseteq {n3} /\ g[n3] \subseteq {n1}}

===============================================================================
