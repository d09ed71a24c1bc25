------------------------------- MODULE MCMBuffer -------------------------------
(* A small instance of MBuffer for TLC.                                    *)
EXTENDS MBuffer, TLC

CONSTANTS t1, t2, m1, m2, m3, b1, b2, here, there

(* Threads, structures, blocks and places are interchangeable.             *)
MCSymmetry == Permutations({t1, t2}) \cup Permutations({m1, m2, m3})
              \cup Permutations({b1, b2}) \cup Permutations({here, there})
===============================================================================
