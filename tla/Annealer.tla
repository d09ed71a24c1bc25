-------------------------------- MODULE Annealer --------------------------------
(***************************************************************************)
(* Simulated annealing in canneal: threads that exchange the locations of  *)
(* pairs of elements with atomic pointers (AtomicPtr.h), without locks     *)
(* around a move, in temperature steps that a barrier separates            *)
(* (annealer_thread.cpp).                                                  *)
(*                                                                         *)
(* An exchange checks out the element with the lower address, puts its     *)
(* location into the other element by compare-and-set, and checks the      *)
(* other's former location in.  Every load, compare-and-set and store of a *)
(* shared pointer is a step.  A spinning thread is one whose step waits    *)
(* for the pointer to be checked in.  Checkin is an ordinary store (the    *)
(* macro around its release form is misspelled), which is atomic for an    *)
(* aligned pointer.                                                        *)
(*                                                                         *)
(* The costs are left out: which locations are read is part of the model,  *)
(* since Get spins, and accept_move may decide in every way.               *)
(***************************************************************************)
EXTENDS Integers, FiniteSets

CONSTANTS ChipSize,           \* _chip_size: elements, blank ones included
          Threads,
          MovesPerTemp,       \* _moves_per_thread_temp
          NumberTempSteps,    \* _number_temp_steps; -1: run until design converges
          Neighbours,         \* fanin and fanout of each element
          ATOMIC_NULL

(* Elements stand in one vector: their index is the order of their         *)
(* addresses.  Locations are named by the element first placed there.      *)
Elements == 0 .. ChipSize - 1
Locations == Elements

ASSUME AnnealerAssumption ==
    /\ ChipSize \in Nat /\ ChipSize > 1
    /\ IsFiniteSet(Threads) /\ Threads # {}
    /\ MovesPerTemp \in Nat
    /\ NumberTempSteps \in Nat \cup {-1}
    /\ Neighbours \in [Elements -> SUBSET Elements]
    /\ ATOMIC_NULL \notin Locations

VARIABLES
    present_loc,      \* the atomic pointer of each element
    keep_going_flag,  \* _keep_going_global_flag
    arrived,          \* threads at the pthread barrier
    at,               \* where each thread is
    a, b,             \* the two elements of each thread's move
    toRead,           \* elements whose location the cost still needs
    seen,             \* what PrivateSet has read and will compare with
    val,              \* valFirst, and from the second compare-and-set on valLast
    good, bad,        \* accepted_good_moves, accepted_bad_moves
    moves,            \* the loop counter
    steps             \* temp_steps_completed

vars == <<present_loc, keep_going_flag, arrived, at, a, b, toRead, seen, val, good, bad, moves, steps>>

moveVars == <<a, b, toRead, good, bad, moves>>

Init ==
    /\ present_loc = [e \in Elements |-> e]
    /\ keep_going_flag = TRUE
    /\ arrived = {}
    /\ at = [t \in Threads |-> "keep going?"]
    /\ b \in [Threads -> Elements]
    /\ a = b                  \* overwritten by the first move
    /\ toRead = [t \in Threads |-> {}]
    /\ seen = [t \in Threads |-> ATOMIC_NULL]
    /\ val = [t \in Threads |-> ATOMIC_NULL]
    /\ good = [t \in Threads |-> 0]
    /\ bad = [t \in Threads |-> -1]
    /\ moves = [t \in Threads |-> 0]
    /\ steps = [t \in Threads |-> 0]

Goto(t, where) == at' = [at EXCEPT ![t] = where]

UntilConverged == NumberTempSteps = -1

(* keep_going reads either the steps or the moves of the last step.  What  *)
(* it will not read is not counted, to keep the states few.                *)
Counted(count, t, read) == [count EXCEPT ![t] = IF read THEN @ + 1 ELSE @]

(* keep_going.  With a fixed number of steps the flag is not used.         *)
keep_going(t) ==
    IF UntilConverged
    THEN keep_going_flag /\ good[t] > bad[t]
    ELSE steps[t] < NumberTempSteps

BeginTemp(t) ==
    /\ at[t] = "keep going?" /\ keep_going(t)
    /\ good' = [good EXCEPT ![t] = 0]
    /\ bad' = [bad EXCEPT ![t] = 0]
    /\ moves' = [moves EXCEPT ![t] = 0]
    /\ Goto(t, "move")
    /\ UNCHANGED <<present_loc, keep_going_flag, arrived, a, b, toRead, seen, val, steps>>

StopAnnealing(t) ==
    /\ at[t] = "keep going?" /\ ~keep_going(t)
    /\ keep_going_flag' = (keep_going_flag /\ ~UntilConverged)
    /\ Goto(t, "end")
    /\ UNCHANGED <<present_loc, arrived, moveVars, seen, val, steps>>

(* The second element of the last move becomes the first of this one.      *)
BeginMove(t) ==
    /\ at[t] = "move" /\ moves[t] < MovesPerTemp
    /\ a' = [a EXCEPT ![t] = b[t]]
    /\ \E e \in Elements \ {b[t]} :
          /\ b' = [b EXCEPT ![t] = e]
          /\ toRead' = [toRead EXCEPT ![t] = {b[t], e} \cup Neighbours[b[t]] \cup Neighbours[e]]
    /\ Goto(t, "cost")
    /\ UNCHANGED <<present_loc, keep_going_flag, arrived, seen, val, good, bad, moves, steps>>

(* Get spins while the pointer is checked out.                             *)
ReadLocation(t) ==
    /\ at[t] = "cost"
    /\ \E e \in toRead[t] :
          /\ present_loc[e] # ATOMIC_NULL
          /\ toRead' = [toRead EXCEPT ![t] = @ \ {e}]
    /\ UNCHANGED <<present_loc, keep_going_flag, arrived, at, a, b, seen, val, good, bad, moves, steps>>

accept_move(t) ==
    /\ at[t] = "cost" /\ toRead[t] = {}
    /\ \/ /\ good' = Counted(good, t, UntilConverged) /\ UNCHANGED bad
          /\ Goto(t, "read first")
       \/ /\ bad' = Counted(bad, t, UntilConverged) /\ UNCHANGED good
          /\ Goto(t, "read first")
       \/ /\ Goto(t, "move") /\ UNCHANGED <<good, bad>>
    /\ moves' = [moves EXCEPT ![t] = @ + 1]
    /\ UNCHANGED <<present_loc, keep_going_flag, arrived, a, b, toRead, seen, val, steps>>

(* Faulty variant: no order among the elements.                            *)
first_Unordered(t) == a[t]

(* "always process elements from lower to higher memory addresses"         *)
first(t) == IF a[t] < b[t] THEN a[t] ELSE b[t]
last(t) == IF first(t) = a[t] THEN b[t] ELSE a[t]

(* Get in PrivateSet(ATOMIC_NULL), and its compare-and-set.                *)
ReadFirst(t) ==
    /\ at[t] = "read first" /\ present_loc[first(t)] # ATOMIC_NULL
    /\ seen' = [seen EXCEPT ![t] = present_loc[first(t)]]
    /\ Goto(t, "check out")
    /\ UNCHANGED <<present_loc, keep_going_flag, arrived, moveVars, val, steps>>

Checkout(t) ==
    /\ at[t] = "check out"
    /\ IF present_loc[first(t)] = seen[t]
       THEN /\ present_loc' = [present_loc EXCEPT ![first(t)] = ATOMIC_NULL]
            /\ val' = [val EXCEPT ![t] = seen[t]]
            /\ Goto(t, "read last")
       ELSE /\ Goto(t, "read first")
            /\ UNCHANGED <<present_loc, val>>
    /\ seen' = [seen EXCEPT ![t] = ATOMIC_NULL]
    /\ UNCHANGED <<keep_going_flag, arrived, moveVars, steps>>

(* The same in PrivateSet(valFirst) on the other element.                  *)
ReadLast(t) ==
    /\ at[t] = "read last" /\ present_loc[last(t)] # ATOMIC_NULL
    /\ seen' = [seen EXCEPT ![t] = present_loc[last(t)]]
    /\ Goto(t, "set last")
    /\ UNCHANGED <<present_loc, keep_going_flag, arrived, moveVars, val, steps>>

(* Faulty variant: stores without comparing.                               *)
SetLast_NoCompare(t) ==
    /\ at[t] = "set last"
    /\ present_loc' = [present_loc EXCEPT ![last(t)] = val[t]]
    /\ val' = [val EXCEPT ![t] = seen[t]]
    /\ Goto(t, "check in")
    /\ seen' = [seen EXCEPT ![t] = ATOMIC_NULL]
    /\ UNCHANGED <<keep_going_flag, arrived, moveVars, steps>>

SetLast(t) ==
    /\ at[t] = "set last"
    /\ IF present_loc[last(t)] = seen[t]
       THEN /\ present_loc' = [present_loc EXCEPT ![last(t)] = val[t]]
            /\ val' = [val EXCEPT ![t] = seen[t]]
            /\ Goto(t, "check in")
       ELSE /\ Goto(t, "read last")
            /\ UNCHANGED <<present_loc, val>>
    /\ seen' = [seen EXCEPT ![t] = ATOMIC_NULL]
    /\ UNCHANGED <<keep_going_flag, arrived, moveVars, steps>>

(* Faulty variant: checks in the location it has just given away.          *)
Checkin_First(t) ==
    /\ at[t] = "check in"
    /\ present_loc' = [present_loc EXCEPT ![first(t)] = present_loc[last(t)]]
    /\ val' = [val EXCEPT ![t] = ATOMIC_NULL]
    /\ Goto(t, "move")
    /\ UNCHANGED <<keep_going_flag, arrived, moveVars, seen, steps>>

Checkin(t) ==
    /\ at[t] = "check in"
    /\ present_loc' = [present_loc EXCEPT ![first(t)] = val[t]]
    /\ val' = [val EXCEPT ![t] = ATOMIC_NULL]
    /\ Goto(t, "move")
    /\ UNCHANGED <<keep_going_flag, arrived, moveVars, seen, steps>>

(* pthread_barrier_wait counts to nthreads, whether all of them still run  *)
(* or not.                                                                 *)
EndTemp(t) ==
    /\ at[t] = "move" /\ moves[t] = MovesPerTemp
    /\ steps' = Counted(steps, t, ~UntilConverged)
    /\ IF arrived \cup {t} = Threads
       THEN /\ arrived' = {}
            /\ at' = [u \in Threads |-> "keep going?"]
       ELSE /\ arrived' = arrived \cup {t}
            /\ Goto(t, "barrier")
    /\ UNCHANGED <<present_loc, keep_going_flag, moveVars, seen, val>>

swap_locations(t) ==
    ReadFirst(t) \/ Checkout(t) \/ ReadLast(t) \/ SetLast(t) \/ Checkin(t)

Run(t) ==
    \/ BeginTemp(t) \/ StopAnnealing(t) \/ EndTemp(t)
    \/ BeginMove(t) \/ ReadLocation(t) \/ accept_move(t) \/ swap_locations(t)

AllEnded == \A t \in Threads : at[t] = "end"

Joined == AllEnded /\ UNCHANGED vars

Next == (\E t \in Threads : Run(t)) \/ Joined

Spec == Init /\ [][Next]_vars

(* The scheduler runs every thread that does not spin in vain.             *)
Fairness == \A t \in Threads : WF_vars(Run(t))

FairSpec == Spec /\ Fairness

-------------------------------------------------------------------------------
(* Properties.                                                             *)

(* The threads between Checkout and Checkin, each with the location that   *)
(* its first element lacks.                                                *)
Holders == {t \in Threads : at[t] \in {"read last", "set last", "check in"}}

(* Where an element is: a checked out one is where its holder will put it. *)
Place(e) ==
    IF present_loc[e] # ATOMIC_NULL
    THEN present_loc[e]
    ELSE val[CHOOSE t \in Holders : first(t) = e]

(* No exchange loses a location or gives it to two elements, whatever      *)
(* exchanges overlap with it: an element is checked out by at most one     *)
(* thread, and all elements have different places at every instant.        *)
NoLocationLost ==
    /\ \A e \in Elements : present_loc[e] = ATOMIC_NULL <=> \E t \in Holders : first(t) = e
    /\ \A t, u \in Holders : first(t) = first(u) => t = u
    /\ \A e, f \in Elements : Place(e) = Place(f) => e = f

(* Seen through Place, every step of every thread either changes nothing   *)
(* or exchanges two elements at once.                                      *)
Chip == INSTANCE Placement WITH
            place <- [e \in Elements |-> Place(e)],
            Initial <- [e \in Elements |-> e]

ImplementsPlacement == Chip!Spec

(* Exchanges in opposite directions do not wait for each other for ever,   *)
(* and with a fixed number of temperature steps every thread ends.         *)
Termination == <>AllEnded

(* annealer_thread.cpp:139, "signal we have converged": once a thread has  *)
(* seen that the design has converged, annealing comes to an end.          *)
ConvergenceEndsAnnealing == ~keep_going_flag ~> AllEnded

===============================================================================
