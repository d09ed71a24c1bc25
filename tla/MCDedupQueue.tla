----------------------------- MODULE MCDedupQueue -----------------------------
(* Small instances of DedupQueue for TLC.                                  *)
EXTENDS DedupQueue, TLC

CONSTANTS p1, p2, c1, c2

(* The producers make different numbers of items, so that one terminates   *)
(* with a partly filled private buffer while the other still sends.        *)
MCQuota == (p1 :> 4) @@ (p2 :> 3)
===============================================================================
