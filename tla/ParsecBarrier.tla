----------------------------- MODULE ParsecBarrier -----------------------------
(***************************************************************************)
(* The barrier of PARSEC (parsec_barrier.cpp), in its two builds: blocking *)
(* on a condition variable, and polling before it blocks.  One counter and *)
(* one flag serve every use of the barrier: a use has an arrival phase, in *)
(* which n counts up, and a departure phase, in which it counts down, and  *)
(* a thread that is back early has to wait until the others have left.     *)
(*                                                                         *)
(* parsec_barrier_wait holds the mutex except while it waits, so that each *)
(* action below is what a thread does from getting the mutex to giving it  *)
(* up.  A thread that polls is one that is inside or blocked and not       *)
(* asleep: the flag it reads without the mutex only tells it when to ask   *)
(* for the mutex, and there it looks again.                                *)
(***************************************************************************)
EXTENDS Integers, FiniteSets

CONSTANTS Threads,               \* all threads that use the barrier, max of them
          Rounds,                \* how often each of them calls it
          ENABLE_SPIN_BARRIER    \* which build

ASSUME BarrierAssumption ==
    /\ IsFiniteSet(Threads) /\ Threads # {}
    /\ Rounds \in Nat
    /\ ENABLE_SPIN_BARRIER \in BOOLEAN

max == Cardinality(Threads)

VARIABLES
    n, is_arrival_phase,   \* the fields of the barrier
    at,        \* "outside", "called" it, "blocked" until the last use is over,
               \* or "inside": counted by n, and waiting for the others
    asleep,    \* the threads asleep on barrier->cond
    master,    \* the local variable of each thread
    returns,   \* how many calls of each thread have returned
    serial     \* <<t, k>>: t's k-th call returned PARSEC_BARRIER_SERIAL_THREAD

vars == <<n, is_arrival_phase, at, asleep, master, returns, serial>>

Init ==
    /\ n = 0 /\ is_arrival_phase = TRUE
    /\ at = [t \in Threads |-> "outside"]
    /\ asleep = {}
    /\ master = [t \in Threads |-> FALSE]
    /\ returns = [t \in Threads |-> 0]
    /\ serial = {}

Call(t) ==
    /\ at[t] = "outside" /\ returns[t] < Rounds
    /\ at' = [at EXCEPT ![t] = "called"]
    /\ UNCHANGED <<n, is_arrival_phase, asleep, master, returns, serial>>

(* t gets the mutex before it has been counted.                            *)
Enters(t) == at[t] \in {"called", "blocked"} /\ t \notin asleep

(* The departure phase of the last use is not over: poll or sleep.         *)
EnterBlocked(t) ==
    /\ Enters(t) /\ ~is_arrival_phase
    /\ at' = [at EXCEPT ![t] = "blocked"]
    /\ asleep' = IF ENABLE_SPIN_BARRIER /\ at[t] = "called" THEN asleep ELSE asleep \cup {t}
    /\ UNCHANGED <<n, is_arrival_phase, master, returns, serial>>

(* Faulty variant: does not wait for the departure phase to end.          *)
EnterWait_AnyPhase(t) ==
    /\ Enters(t) /\ n + 1 < max
    /\ n' = n + 1
    /\ master' = [master EXCEPT ![t] = (n = 0)]
    /\ at' = [at EXCEPT ![t] = "inside"]
    /\ asleep' = asleep
    /\ UNCHANGED <<is_arrival_phase, returns, serial>>

(* Others are still to arrive: poll or sleep.                              *)
EnterWait(t) ==
    /\ Enters(t) /\ is_arrival_phase /\ n + 1 < max
    /\ n' = n + 1
    /\ master' = [master EXCEPT ![t] = (n = 0)]
    /\ at' = [at EXCEPT ![t] = "inside"]
    /\ asleep' = IF ENABLE_SPIN_BARRIER THEN asleep ELSE asleep \cup {t}
    /\ UNCHANGED <<is_arrival_phase, returns, serial>>

Returns(t, isMaster) ==
    /\ at' = [at EXCEPT ![t] = "outside"]
    /\ returns' = [returns EXCEPT ![t] = @ + 1]
    /\ serial' = IF isMaster THEN serial \cup {<<t, returns[t] + 1>>} ELSE serial

(* Faulty variant: wakes one thread only.                                 *)
EnterLast_Signal(t) ==
    /\ Enters(t) /\ is_arrival_phase /\ n + 1 >= max
    /\ is_arrival_phase' = (n = 0)
    /\ IF asleep = {} THEN UNCHANGED asleep ELSE \E u \in asleep : asleep' = asleep \ {u}
    /\ master' = [master EXCEPT ![t] = (n = 0)]
    /\ Returns(t, n = 0)
    /\ UNCHANGED n

(* Faulty variant: the last to arrive is taken for the serial thread,     *)
(* too.                                                                   *)
EnterLast_Serial(t) ==
    /\ Enters(t) /\ is_arrival_phase /\ n + 1 >= max
    /\ is_arrival_phase' = (n = 0)
    /\ asleep' = {}
    /\ master' = [master EXCEPT ![t] = (n = 0)]
    /\ Returns(t, TRUE)
    /\ UNCHANGED n

(* The last to arrive starts the departure phase, wakes everybody, and     *)
(* leaves at once.  Alone, it is the last to leave as well.                *)
EnterLast(t) ==
    /\ Enters(t) /\ is_arrival_phase /\ n + 1 >= max
    /\ is_arrival_phase' = (n = 0)
    /\ asleep' = {}
    /\ master' = [master EXCEPT ![t] = (n = 0)]
    /\ Returns(t, n = 0)
    /\ UNCHANGED n

(* t has polled long enough, or was woken without need.                    *)
Stay(t) ==
    /\ at[t] = "inside" /\ t \notin asleep /\ is_arrival_phase
    /\ asleep' = asleep \cup {t}
    /\ UNCHANGED <<n, is_arrival_phase, at, master, returns, serial>>

(* Faulty variant: leaves after polling without a second look at the      *)
(* flag.                                                                  *)
Leave_NoRecheck(t) ==
    /\ at[t] = "inside" /\ t \notin asleep
    /\ n' = n - 1
    /\ is_arrival_phase' = (n = 1)
    /\ asleep' = IF n = 1 THEN {} ELSE asleep
    /\ Returns(t, master[t])
    /\ UNCHANGED master

(* Faulty variant: the last to leave wakes nobody.                        *)
Leave_NoBroadcast(t) ==
    /\ at[t] = "inside" /\ t \notin asleep /\ ~is_arrival_phase
    /\ n' = n - 1
    /\ is_arrival_phase' = (n = 1)
    /\ Returns(t, master[t])
    /\ UNCHANGED <<asleep, master>>

(* The last to leave starts the next arrival phase and wakes the threads   *)
(* that are back already.                                                  *)
Leave(t) ==
    /\ at[t] = "inside" /\ t \notin asleep /\ ~is_arrival_phase
    /\ n' = n - 1
    /\ is_arrival_phase' = (n = 1)
    /\ asleep' = IF n = 1 THEN {} ELSE asleep
    /\ Returns(t, master[t])
    /\ UNCHANGED master

(* pthread_cond_wait may return although nobody signalled.                 *)
SpuriousWakeup ==
    /\ \E t \in asleep : asleep' = asleep \ {t}
    /\ UNCHANGED <<n, is_arrival_phase, at, master, returns, serial>>

parsec_barrier_wait(t) ==
    Call(t) \/ EnterBlocked(t) \/ EnterWait(t) \/ EnterLast(t) \/ Stay(t) \/ Leave(t)

AllReturned == \A t \in Threads : returns[t] = Rounds

Joined == AllReturned /\ UNCHANGED vars

Next == (\E t \in Threads : parsec_barrier_wait(t)) \/ SpuriousWakeup \/ Joined

Spec == Init /\ [][Next]_vars

(* A thread that is neither asleep nor outside for good gets the mutex: it *)
(* is held for a few instructions only.                                    *)
FairSpec == Spec /\ \A t \in Threads : WF_vars(parsec_barrier_wait(t))

-------------------------------------------------------------------------------
(* Properties.                                                             *)

Inside == {t \in Threads : at[t] = "inside"}

TypeOK ==
    /\ n \in 0 .. max - 1
    /\ is_arrival_phase \in BOOLEAN
    /\ at \in [Threads -> {"outside", "called", "blocked", "inside"}]
    /\ asleep \subseteq {t \in Threads : at[t] \in {"blocked", "inside"}}
    /\ master \in [Threads -> BOOLEAN]
    /\ returns \in [Threads -> 0 .. Rounds]
    /\ serial \subseteq Threads \X (1 .. Rounds)

Calls(t) == returns[t] + (IF at[t] = "outside" THEN 0 ELSE 1)

(* Nobody returns from his k-th call before everybody has made his k-th    *)
(* call, however fast some threads come round again.                       *)
NoEarlyReturn == \A t, u \in Threads : returns[t] <= Calls(u)

(* Of all calls of one use of the barrier exactly one returns              *)
(* PARSEC_BARRIER_SERIAL_THREAD (the users let that thread do serial work).*)
OneSerialThread ==
    \A k \in 1 .. Rounds :
        /\ \A t, u \in Threads : <<t, k>> \in serial /\ <<u, k>> \in serial => t = u
        /\ (\A t \in Threads : returns[t] >= k) => \E t \in Threads : <<t, k>> \in serial

(* Threads that wait for opposite things sleep on one condition variable:  *)
(* those counted for the end of the arrival phase, those not counted for   *)
(* its beginning.  Nobody sleeps on when what he waits for has happened.   *)
NoLostWakeup ==
    \A t \in asleep : IF at[t] = "inside" THEN is_arrival_phase ELSE ~is_arrival_phase

(* The barrier is a rendezvous of all threads, use after use.              *)
Meeting == INSTANCE Rendezvous WITH calls <- [t \in Threads |-> Calls(t)]

ImplementsRendezvous == Meeting!Spec

(* Every call returns.                                                     *)
Termination == <>AllReturned

-------------------------------------------------------------------------------
(* The inductive invariant behind the theorems of ParsecBarrierProofs.     *)

(* In an arrival phase all threads have finished the same number of uses;  *)
(* in a departure phase exactly those inside are one use behind.           *)
PhaseOK ==
    IF is_arrival_phase
    THEN \A t, u \in Threads : returns[t] = returns[u]
    ELSE /\ n > 0
         /\ \A t, u \in Threads :
               t \in Inside => returns[u] = returns[t] + (IF u \in Inside THEN 0 ELSE 1)

(* Who has returned as the serial thread of the k-th use, or will.         *)
Elected(k) == {t \in Threads : \/ <<t, k>> \in serial
                               \/ t \in Inside /\ master[t] /\ returns[t] + 1 = k}

Begun(k) == \E t \in Threads : returns[t] >= k \/ (t \in Inside /\ returns[t] + 1 = k)

ElectionOK ==
    \A k \in 1 .. Rounds :
        /\ \A t, u \in Elected(k) : t = u
        /\ Begun(k) <=> Elected(k) # {}

IndInv ==
    /\ TypeOK
    /\ n = Cardinality(Inside)
    /\ \A t \in Threads : at[t] # "outside" => returns[t] < Rounds
    /\ PhaseOK
    /\ NoLostWakeup
    /\ ElectionOK

===============================================================================
