------------------------------- MODULE Rendezvous -------------------------------
(***************************************************************************)
(* What a barrier promises, whatever it is made of: nobody returns from his*)
(* k-th call before everybody has made his k-th call.                      *)
(***************************************************************************)
EXTENDS Naturals

CONSTANT Threads

VARIABLES calls,    \* how often each thread has called the barrier
          returns   \* and how many of these calls have returned

vars == <<calls, returns>>

Init == calls = [t \in Threads |-> 0] /\ returns = [t \in Threads |-> 0]

Call(t) ==
    /\ calls[t] = returns[t]
    /\ calls' = [calls EXCEPT ![t] = @ + 1]
    /\ UNCHANGED returns

Return(t) ==
    /\ returns[t] < calls[t]
    /\ \A u \in Threads : calls[u] >= calls[t]
    /\ returns' = [returns EXCEPT ![t] = @ + 1]
    /\ UNCHANGED calls

Spec == Init /\ [][\E t \in Threads : Call(t) \/ Return(t)]_vars

===============================================================================
