---------------------------- MODULE MCParsecBarrier ----------------------------
(* Small instances of ParsecBarrier for TLC.                               *)
EXTENDS ParsecBarrier

CONSTANTS t1, t2, t3, t4

===============================================================================
