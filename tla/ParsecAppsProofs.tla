---------------------------- MODULE ParsecAppsProofs ----------------------------
(***************************************************************************)
(* Proofs about two programs of PARSEC, canneal (Annealer) and ferret      *)
(* (FerretPipeline), which share nothing.                                  *)
(*                                                                         *)
(* canneal: for any number of threads and elements and any length of the   *)
(* annealing, no exchange loses a location, and every exchange looks       *)
(* atomic.                                                                 *)
(*                                                                         *)
(* ferret: for every number of stages, threads, slots and images, each     *)
(* image that is found is in exactly one place until it is written, every  *)
(* queue is a bounded first-in first-out channel, and when the last thread *)
(* ends every image has been written exactly once.                         *)
(***************************************************************************)
EXTENDS Annealer, FerretPipeline, FiniteSetTheorems, TLAPS

(* canneal. *)

Exchanging == {"read first", "check out", "read last", "set last", "check in"}

Places == {"keep going?", "move", "cost", "barrier", "end"} \cup Exchanging

TypeOK ==
    /\ present_loc \in [Elements -> Locations \cup {ATOMIC_NULL}]
    /\ at \in [Threads -> Places]
    /\ a \in [Threads -> Elements] /\ b \in [Threads -> Elements]
    /\ seen \in [Threads -> Locations \cup {ATOMIC_NULL}]
    /\ val \in [Threads -> Locations \cup {ATOMIC_NULL}]
    /\ arrived = {t \in Threads : at[t] = "barrier"}

(* What a thread has in hand follows from where it is.                     *)
PhaseOK ==
    \A t \in Threads :
        /\ at[t] \in Exchanging \cup {"cost"} => a[t] # b[t]
        /\ at[t] \in {"check out", "set last"} => seen[t] \in Locations
        /\ t \in Holders => val[t] \in Locations

(* An element is checked out by exactly the thread that will check it in.  *)
CheckedOut ==
    /\ \A e \in Elements :
          present_loc[e] = ATOMIC_NULL <=> \E t \in Holders : first(t) = e
    /\ \A t, u \in Holders : first(t) = first(u) => t = u

Distinct == \A e, f \in Elements : Place(e) = Place(f) => e = f

Control == TypeOK /\ PhaseOK /\ CheckedOut

IndInv == Control /\ Distinct

-------------------------------------------------------------------------------
(* The two elements of an exchange are different.                          *)
LEMMA FirstLast ==
    ASSUME TypeOK, NEW t \in Threads, a[t] # b[t]
    PROVE  /\ first(t) \in Elements /\ last(t) \in Elements
           /\ first(t) # last(t)
BY DEF TypeOK, first, last

(* Place without its CHOOSE.                                               *)
PlaceKnown ==
    /\ \A e \in Elements : present_loc[e] # ATOMIC_NULL => Place(e) = present_loc[e]
    /\ \A t \in Holders : first(t) \in Elements /\ Place(first(t)) = val[t]

LEMMA PlaceIsKnown == Control => PlaceKnown
<1> SUFFICES ASSUME Control
             PROVE  PlaceKnown
  OBVIOUS
<1>1. \A e \in Elements : present_loc[e] # ATOMIC_NULL => Place(e) = present_loc[e]
  BY DEF Place
<1>2. ASSUME NEW t \in Holders
      PROVE  first(t) \in Elements /\ Place(first(t)) = val[t]
  <2> DEFINE c == CHOOSE u \in Holders : first(u) = first(t)
  <2>1. first(t) \in Elements
    BY DEF Control, TypeOK, Holders, first
  <2>2. c \in Holders /\ first(c) = first(t)
    BY Zenon
  <2>3. c = t
    BY <2>2 DEF Control, CheckedOut
  <2>4. present_loc[first(t)] = ATOMIC_NULL
    BY <2>1 DEF Control, CheckedOut
  <2> QED
    BY <2>1, <2>3, <2>4 DEF Place
<1> QED
  BY <1>1, <1>2 DEF PlaceKnown

-------------------------------------------------------------------------------
LEMMA ControlInit == Init => Control
<1> SUFFICES ASSUME Init
             PROVE  Control
  OBVIOUS
<1>1. TypeOK
  BY DEF Init, TypeOK, Places, Exchanging, Locations
<1>2. Holders = {}
  BY DEF Init, Holders
<1>3. PhaseOK
  BY <1>2 DEF Init, PhaseOK, Exchanging
<1>4. CheckedOut
  BY <1>2, AnnealerAssumption DEF Init, CheckedOut, Locations
<1> QED
  BY <1>1, <1>3, <1>4 DEF Control

(* A step outside an exchange, or one that fails or only reads: who holds  *)
(* what stays.                                                             *)
Quiet ==
    /\ present_loc' = present_loc
    /\ Holders' = Holders
    /\ \A t \in Holders : val'[t] = val[t] /\ a'[t] = a[t] /\ b'[t] = b[t]

LEMMA QuietCheckedOut ==
    ASSUME CheckedOut, Quiet
    PROVE  CheckedOut'
<1>1. \A t \in Holders : first(t)' = first(t)
  BY DEF Quiet, first
<1> QED
  BY <1>1 DEF CheckedOut, Quiet

LEMMA QuietPlace ==
    ASSUME Control, PlaceKnown, PlaceKnown', Quiet, NEW e \in Elements
    PROVE  Place(e)' = Place(e)
<1>1. \A t \in Holders : first(t)' = first(t)
  BY DEF Quiet, first
<1>2. CASE present_loc[e] # ATOMIC_NULL
  BY <1>2 DEF Quiet, PlaceKnown
<1>3. CASE present_loc[e] = ATOMIC_NULL
  <2>1. PICK t \in Holders : first(t) = e
    BY <1>3 DEF Control, CheckedOut
  <2>2. t \in Holders' /\ first(t)' = e
    BY <1>1, <2>1 DEF Quiet
  <2> QED
    BY <2>1, <2>2 DEF Quiet, PlaceKnown
<1> QED
  BY <1>2, <1>3

-------------------------------------------------------------------------------
LEMMA TypeStep ==
    ASSUME TypeOK, PhaseOK, [Next]_vars
    PROVE  TypeOK'
<1> USE DEF TypeOK, Places, Exchanging, Goto, moveVars, Locations
<1>1. ASSUME NEW t \in Threads, BeginTemp(t) \/ StopAnnealing(t)
      PROVE  TypeOK'
  BY <1>1 DEF BeginTemp, StopAnnealing
<1>2. ASSUME NEW t \in Threads, EndTemp(t)
      PROVE  TypeOK'
  <2>1. CASE arrived \cup {t} = Threads
    <3>1. at' = [u \in Threads |-> "keep going?"] /\ arrived' = {}
      BY <1>2, <2>1 DEF EndTemp
    <3>2. arrived' = {u \in Threads : at'[u] = "barrier"}
      BY <3>1
    <3> QED
      BY <1>2, <3>1, <3>2 DEF EndTemp
  <2>2. CASE arrived \cup {t} # Threads
    BY <1>2, <2>2 DEF EndTemp
  <2> QED
    BY <2>1, <2>2
<1>3. ASSUME NEW t \in Threads, BeginMove(t)
      PROVE  TypeOK'
  <2>1. PICK e \in Elements : b' = [b EXCEPT ![t] = e]
    BY <1>3 DEF BeginMove
  <2>2. /\ at[t] = "move" /\ at' = [at EXCEPT ![t] = "cost"]
        /\ a' = [a EXCEPT ![t] = b[t]]
        /\ UNCHANGED <<present_loc, arrived, seen, val>>
    BY <1>3 DEF BeginMove
  <2> QED
    BY <2>1, <2>2
<1>4. ASSUME NEW t \in Threads, ReadLocation(t)
      PROVE  TypeOK'
  BY <1>4 DEF ReadLocation
<1>5. ASSUME NEW t \in Threads, accept_move(t)
      PROVE  TypeOK'
  <2>1. at' = [at EXCEPT ![t] = "read first"] \/ at' = [at EXCEPT ![t] = "move"]
    BY <1>5 DEF accept_move
  <2>2. at[t] = "cost" /\ UNCHANGED <<present_loc, arrived, a, b, seen, val>>
    BY <1>5 DEF accept_move
  <2> QED
    BY <2>1, <2>2
<1>6. ASSUME NEW t \in Threads, ReadFirst(t) \/ ReadLast(t)
      PROVE  TypeOK'
  BY <1>6 DEF ReadFirst, ReadLast, first, last
<1>7. ASSUME NEW t \in Threads, Checkout(t) \/ SetLast(t) \/ Checkin(t)
      PROVE  TypeOK'
  BY <1>7 DEF Checkout, SetLast, Checkin
<1>8. CASE UNCHANGED vars
  BY <1>8 DEF vars
<1> QED
  BY <1>1, <1>2, <1>3, <1>4, <1>5, <1>6, <1>7, <1>8 DEF Next, Run, swap_locations, Joined

LEMMA PhaseStep ==
    ASSUME TypeOK, PhaseOK, [Next]_vars
    PROVE  PhaseOK'
<1> USE DEF TypeOK, PhaseOK, Exchanging, Holders, Goto, moveVars, Locations
<1>1. ASSUME NEW t \in Threads, BeginTemp(t) \/ StopAnnealing(t)
      PROVE  PhaseOK'
  BY <1>1 DEF BeginTemp, StopAnnealing
<1>2. ASSUME NEW t \in Threads, EndTemp(t)
      PROVE  PhaseOK'
  <2>1. CASE arrived \cup {t} = Threads
    BY <1>2, <2>1 DEF EndTemp
  <2>2. CASE arrived \cup {t} # Threads
    BY <1>2, <2>2 DEF EndTemp
  <2> QED
    BY <2>1, <2>2
<1>3. ASSUME NEW t \in Threads, BeginMove(t) \/ ReadLocation(t) \/ accept_move(t)
      PROVE  PhaseOK'
  BY <1>3 DEF BeginMove, ReadLocation, accept_move
<1>4. ASSUME NEW t \in Threads, ReadFirst(t) \/ ReadLast(t)
      PROVE  PhaseOK'
  BY <1>4 DEF ReadFirst, ReadLast, first, last
<1>5. ASSUME NEW t \in Threads, Checkout(t) \/ SetLast(t) \/ Checkin(t)
      PROVE  PhaseOK'
  BY <1>5 DEF Checkout, SetLast, Checkin
<1>6. CASE UNCHANGED vars
  BY <1>6 DEF vars
<1> QED
  BY <1>1, <1>2, <1>3, <1>4, <1>5, <1>6 DEF Next, Run, swap_locations, Joined

(* The compare-and-set that checks an element out, and the one that puts   *)
(* its location into the other.                                            *)
TakeOut(t) == Checkout(t) /\ present_loc[first(t)] = seen[t]
GiveAway(t) == SetLast(t) /\ present_loc[last(t)] = seen[t]

LEMMA EveryStep ==
    ASSUME TypeOK, PhaseOK, [Next]_vars
    PROVE  Quiet \/ \E t \in Threads : TakeOut(t) \/ GiveAway(t) \/ Checkin(t)
<1> USE DEF TypeOK, Quiet, Holders, Goto, moveVars
<1>1. ASSUME NEW t \in Threads, BeginTemp(t) \/ StopAnnealing(t)
      PROVE  Quiet
  BY <1>1 DEF BeginTemp, StopAnnealing
<1>2. ASSUME NEW t \in Threads, EndTemp(t)
      PROVE  Quiet
  <2>1. CASE arrived \cup {t} = Threads
    BY <1>2, <2>1 DEF EndTemp
  <2>2. CASE arrived \cup {t} # Threads
    BY <1>2, <2>2 DEF EndTemp
  <2> QED
    BY <2>1, <2>2
<1>3. ASSUME NEW t \in Threads, BeginMove(t) \/ ReadLocation(t) \/ accept_move(t)
      PROVE  Quiet
  BY <1>3 DEF BeginMove, ReadLocation, accept_move
<1>4. ASSUME NEW t \in Threads, ReadFirst(t) \/ ReadLast(t)
      PROVE  Quiet
  BY <1>4 DEF ReadFirst, ReadLast
<1>5. ASSUME NEW t \in Threads, Checkout(t), ~TakeOut(t)
      PROVE  Quiet
  BY <1>5 DEF Checkout, TakeOut
<1>6. ASSUME NEW t \in Threads, SetLast(t), ~GiveAway(t)
      PROVE  Quiet
  BY <1>6 DEF SetLast, GiveAway
<1>7. CASE UNCHANGED vars
  BY <1>7 DEF vars
<1> QED
  BY <1>1, <1>2, <1>3, <1>4, <1>5, <1>6, <1>7 DEF Next, Run, swap_locations, Joined

-------------------------------------------------------------------------------
LEMMA CheckedOutStep ==
    ASSUME Control, TypeOK', PhaseOK', [Next]_vars
    PROVE  CheckedOut'
<1>1. CASE Quiet
  BY <1>1, QuietCheckedOut DEF Control
<1>2. ASSUME NEW t \in Threads, TakeOut(t)
      PROVE  CheckedOut'
  <2>1. /\ first(t) \in Elements /\ present_loc[first(t)] # ATOMIC_NULL
        /\ present_loc' = [present_loc EXCEPT ![first(t)] = ATOMIC_NULL]
    BY <1>2, FirstLast, AnnealerAssumption
    DEF Control, PhaseOK, Exchanging, TakeOut, Checkout
  <2>2. Holders' = Holders \cup {t} /\ t \notin Holders
    <3>1. at[t] = "check out" /\ at' = [at EXCEPT ![t] = "read last"]
      BY <1>2 DEF TakeOut, Checkout, Goto
    <3> QED
      BY <3>1 DEF Control, TypeOK, Holders
  <2>3. \A u \in Threads : first(u)' = first(u)
    BY <1>2 DEF TakeOut, Checkout, moveVars, first
  <2>4. Holders \subseteq Threads
    BY DEF Holders
  <2> QED
    BY <1>2, <2>1, <2>2, <2>3, <2>4 DEF Control, TypeOK, CheckedOut
<1>3. ASSUME NEW t \in Threads, GiveAway(t)
      PROVE  CheckedOut'
  <2>1. /\ last(t) \in Elements
        /\ present_loc[last(t)] # ATOMIC_NULL /\ val[t] # ATOMIC_NULL
        /\ present_loc' = [present_loc EXCEPT ![last(t)] = val[t]]
    BY <1>3, FirstLast, AnnealerAssumption
    DEF Control, PhaseOK, Exchanging, GiveAway, SetLast, Holders
  <2>2. Holders' = Holders
    BY <1>3 DEF Control, TypeOK, GiveAway, SetLast, Goto, Holders
  <2>3. \A u \in Threads : first(u)' = first(u)
    BY <1>3 DEF GiveAway, SetLast, moveVars, first
  <2>4. Holders \subseteq Threads
    BY DEF Holders
  <2>5. \A e \in Elements : present_loc'[e] = ATOMIC_NULL <=> present_loc[e] = ATOMIC_NULL
    BY <2>1 DEF Control, TypeOK
  <2> QED
    BY <2>2, <2>3, <2>4, <2>5 DEF Control, CheckedOut
<1>4. ASSUME NEW t \in Threads, Checkin(t)
      PROVE  CheckedOut'
  <2>1. /\ first(t) \in Elements /\ val[t] # ATOMIC_NULL
        /\ present_loc' = [present_loc EXCEPT ![first(t)] = val[t]]
    BY <1>4, FirstLast, AnnealerAssumption
    DEF Control, PhaseOK, Exchanging, Checkin, Holders
  <2>2. Holders' = Holders \ {t} /\ t \in Holders
    BY <1>4 DEF Control, TypeOK, Checkin, Goto, Holders
  <2>3. \A u \in Threads : first(u)' = first(u)
    BY <1>4 DEF Checkin, moveVars, first
  <2>4. Holders \subseteq Threads
    BY DEF Holders
  <2>5. \A e \in Elements :
          present_loc'[e] = ATOMIC_NULL <=> present_loc[e] = ATOMIC_NULL /\ e # first(t)
    BY <2>1 DEF Control, TypeOK
  <2> QED
    BY <2>2, <2>3, <2>4, <2>5 DEF Control, CheckedOut
<1> QED
  BY <1>1, <1>2, <1>3, <1>4, EveryStep DEF Control

(* Seen through Place, a step changes nothing, or exchanges two elements.  *)
SamePlaces == \A e \in Elements : Place(e)' = Place(e)

Exchanged(x, y) ==
    /\ x # y /\ Place(x)' = Place(y) /\ Place(y)' = Place(x)
    /\ \A e \in Elements \ {x, y} : Place(e)' = Place(e)

LEMMA PlaceStep ==
    ASSUME Control, Control', PlaceKnown, PlaceKnown', [Next]_vars
    PROVE  SamePlaces \/ \E x, y \in Elements : Exchanged(x, y)
<1>1. CASE Quiet
  BY <1>1, QuietPlace DEF SamePlaces
<1>2. ASSUME NEW t \in Threads, TakeOut(t), NEW e \in Elements
      PROVE  Place(e)' = Place(e)
  <2>1. /\ first(t) \in Elements /\ present_loc[first(t)] # ATOMIC_NULL
        /\ present_loc' = [present_loc EXCEPT ![first(t)] = ATOMIC_NULL]
        /\ val' = [val EXCEPT ![t] = present_loc[first(t)]]
    BY <1>2, FirstLast, AnnealerAssumption
    DEF Control, PhaseOK, Exchanging, TakeOut, Checkout
  <2>2. Holders' = Holders \cup {t} /\ t \notin Holders /\ Holders \subseteq Threads
    <3>1. at[t] = "check out" /\ at' = [at EXCEPT ![t] = "read last"]
      BY <1>2 DEF TakeOut, Checkout, Goto
    <3> QED
      BY <3>1 DEF Control, TypeOK, Holders
  <2>3. \A u \in Threads : first(u)' = first(u)
    BY <1>2 DEF TakeOut, Checkout, moveVars, first
  <2>4. CASE e = first(t)
    BY <1>2, <2>1, <2>2, <2>3, <2>4 DEF Control, TypeOK, PlaceKnown
  <2>5. CASE e # first(t) /\ present_loc[e] # ATOMIC_NULL
    BY <2>1, <2>5 DEF Control, TypeOK, PlaceKnown
  <2>6. CASE e # first(t) /\ present_loc[e] = ATOMIC_NULL
    <3>1. PICK u \in Holders : first(u) = e
      BY <2>6 DEF Control, CheckedOut
    <3>2. u \in Holders' /\ first(u)' = e /\ val'[u] = val[u]
      BY <2>1, <2>2, <2>3, <3>1 DEF Control, TypeOK
    <3> QED
      BY <3>1, <3>2 DEF PlaceKnown
  <2> QED
    BY <2>4, <2>5, <2>6
<1>3. ASSUME NEW t \in Threads, GiveAway(t)
      PROVE  \E x, y \in Elements : Exchanged(x, y)
  <2>1. /\ first(t) \in Elements /\ last(t) \in Elements /\ first(t) # last(t)
        /\ present_loc[last(t)] # ATOMIC_NULL /\ val[t] # ATOMIC_NULL
        /\ present_loc' = [present_loc EXCEPT ![last(t)] = val[t]]
        /\ val' = [val EXCEPT ![t] = present_loc[last(t)]]
    BY <1>3, FirstLast, AnnealerAssumption
    DEF Control, PhaseOK, Exchanging, GiveAway, SetLast, Holders
  <2>2. Holders' = Holders /\ t \in Holders /\ Holders \subseteq Threads
    BY <1>3 DEF Control, TypeOK, GiveAway, SetLast, Goto, Holders
  <2>3. \A u \in Threads : first(u)' = first(u)
    BY <1>3 DEF GiveAway, SetLast, moveVars, first
  <2>4. Place(first(t)) = val[t] /\ Place(last(t)) = present_loc[last(t)]
    BY <2>1, <2>2 DEF PlaceKnown
  <2>5. \A x \in Elements : x = first(t) => Place(x)' = present_loc[last(t)]
    BY <1>3, <2>1, <2>2, <2>3 DEF PlaceKnown, Control, TypeOK
  <2>6. \A x \in Elements : x = last(t) => Place(x)' = val[t]
    BY <2>1 DEF PlaceKnown, Control, TypeOK
  <2>7. ASSUME NEW e \in Elements \ {first(t), last(t)}
        PROVE  Place(e)' = Place(e)
    <3>1. CASE present_loc[e] # ATOMIC_NULL
      BY <2>1, <3>1 DEF Control, TypeOK, PlaceKnown
    <3>2. CASE present_loc[e] = ATOMIC_NULL
      <4>1. PICK u \in Holders : first(u) = e
        BY <3>2 DEF Control, CheckedOut
      <4>2. u \in Holders' /\ first(u)' = e /\ val'[u] = val[u]
        BY <2>1, <2>2, <2>3, <4>1 DEF Control, TypeOK
      <4> QED
        BY <4>1, <4>2 DEF PlaceKnown
    <3> QED
      BY <3>1, <3>2
  <2>8. PICK x, y \in Elements : x = first(t) /\ y = last(t)
    BY <2>1
  <2>9. Exchanged(x, y)
    BY <2>1, <2>4, <2>5, <2>6, <2>7, <2>8 DEF Exchanged
  <2> QED
    BY <2>9
<1>4. ASSUME NEW t \in Threads, Checkin(t), NEW e \in Elements
      PROVE  Place(e)' = Place(e)
  <2>1. /\ first(t) \in Elements /\ val[t] # ATOMIC_NULL
        /\ present_loc' = [present_loc EXCEPT ![first(t)] = val[t]]
        /\ val' = [val EXCEPT ![t] = ATOMIC_NULL]
    BY <1>4, FirstLast, AnnealerAssumption
    DEF Control, PhaseOK, Exchanging, Checkin, Holders
  <2>2. Holders' = Holders \ {t} /\ t \in Holders /\ Holders \subseteq Threads
    BY <1>4 DEF Control, TypeOK, Checkin, Goto, Holders
  <2>3. \A u \in Threads : first(u)' = first(u)
    BY <1>4 DEF Checkin, moveVars, first
  <2>4. CASE e = first(t)
    BY <2>1, <2>2, <2>4 DEF Control, TypeOK, PlaceKnown
  <2>5. CASE e # first(t) /\ present_loc[e] # ATOMIC_NULL
    BY <2>1, <2>5 DEF Control, TypeOK, PlaceKnown
  <2>6. CASE e # first(t) /\ present_loc[e] = ATOMIC_NULL
    <3>1. PICK u \in Holders : first(u) = e
      BY <2>6 DEF Control, CheckedOut
    <3>2. u \in Holders' /\ first(u)' = e /\ val'[u] = val[u]
      BY <2>1, <2>2, <2>3, <2>6, <3>1 DEF Control, TypeOK
    <3> QED
      BY <3>1, <3>2 DEF PlaceKnown
  <2> QED
    BY <2>4, <2>5, <2>6
<1> QED
  BY <1>1, <1>2, <1>3, <1>4, EveryStep DEF Control, SamePlaces

-------------------------------------------------------------------------------
LEMMA DistinctStep ==
    ASSUME Distinct, SamePlaces \/ \E x, y \in Elements : Exchanged(x, y)
    PROVE  Distinct'
<1>1. CASE SamePlaces
  BY <1>1 DEF Distinct, SamePlaces
<1>2. ASSUME NEW x \in Elements, NEW y \in Elements, Exchanged(x, y)
      PROVE  Distinct'
  BY <1>2 DEF Distinct, Exchanged
<1> QED
  BY <1>1, <1>2

LEMMA PlaceInit == Init => \A e \in Elements : Place(e) = e
<1> SUFFICES ASSUME Init, NEW e \in Elements
             PROVE  Place(e) = e
  OBVIOUS
<1>1. present_loc[e] = e /\ e # ATOMIC_NULL
  BY AnnealerAssumption DEF Init, Locations
<1> QED
  BY <1>1 DEF Place

LEMMA DistinctInit == Init => Distinct
BY PlaceInit DEF Distinct

(* The inductive invariant, with what Place is in both states of a step.   *)
THEOREM InductiveInvariant == Spec => []IndInv
<1>1. Init => IndInv
  BY ControlInit, DistinctInit DEF IndInv
<1>2. Control /\ [Next]_vars => Control'
  <2> SUFFICES ASSUME Control, [Next]_vars
               PROVE  Control'
    OBVIOUS
  <2>1. TypeOK'
    BY TypeStep DEF Control
  <2>2. PhaseOK'
    BY PhaseStep DEF Control
  <2>3. CheckedOut'
    BY <2>1, <2>2, CheckedOutStep
  <2> QED
    BY <2>1, <2>2, <2>3 DEF Control
<1>3. Control' => PlaceKnown'
  BY PlaceIsKnown, PTL
<1>4. IndInv /\ [Next]_vars => IndInv'
  <2> SUFFICES ASSUME IndInv, [Next]_vars
               PROVE  IndInv'
    OBVIOUS
  <2>1. Control /\ Control' /\ PlaceKnown /\ PlaceKnown'
    BY <1>2, <1>3, PlaceIsKnown DEF IndInv
  <2>2. SamePlaces \/ \E x, y \in Elements : Exchanged(x, y)
    BY <2>1, PlaceStep
  <2> QED
    BY <2>1, <2>2, DistinctStep DEF IndInv
<1> QED
  BY <1>1, <1>4, PTL DEF Spec

(* Every variable that the moves of an exchange rely on keeps its type,    *)
(* and arrived holds exactly the threads that wait at the barrier, so that *)
(* the threads waiting there hold no element.                              *)
THEOREM TypeCorrect == Spec => []TypeOK
<1>1. IndInv => TypeOK
  BY DEF IndInv, Control
<1> QED
  BY <1>1, InductiveInvariant, PTL

(* However the compare-and-sets and stores of overlapping exchanges        *)
(* interleave, no location is lost or given to two elements.               *)
THEOREM NoLocationIsLost == Spec => []NoLocationLost
<1>1. IndInv => NoLocationLost
  BY DEF IndInv, Control, CheckedOut, Distinct, NoLocationLost
<1> QED
  BY <1>1, InductiveInvariant, PTL

(* Annealing without locks implements exchanges in one step: SetLast is    *)
(* where an exchange happens.                                              *)
THEOREM AnnealerRefinesPlacement == Spec => ImplementsPlacement
<1>1. Init => Chip!Init
  BY PlaceInit DEF Chip!Init
<1>2. Control' => PlaceKnown'
  BY PlaceIsKnown, PTL
<1>3. IndInv /\ IndInv' /\ [Next]_vars => [Chip!Next]_([e \in Elements |-> Place(e)])
  <2> SUFFICES ASSUME IndInv, IndInv', [Next]_vars
               PROVE  [Chip!Next]_([e \in Elements |-> Place(e)])
    OBVIOUS
  <2>1. SamePlaces \/ \E x, y \in Elements : Exchanged(x, y)
    BY <1>2, PlaceIsKnown, PlaceStep DEF IndInv
  <2>2. CASE SamePlaces
    BY <2>2 DEF SamePlaces
  <2>3. ASSUME NEW x \in Elements, NEW y \in Elements, Exchanged(x, y)
        PROVE  Chip!Next
    <3>1. Chip!Exchange(x, y)
      BY <2>3 DEF Exchanged, Chip!Exchange
    <3> QED
      BY <3>1 DEF Chip!Next
  <2> QED
    BY <2>1, <2>2, <2>3
<1> QED
  BY <1>1, <1>3, InductiveInvariant, PTL DEF Spec, ImplementsPlacement, Chip!Spec

-------------------------------------------------------------------------------
(* ferret. *)

Slots == 0 .. DEPTH - 1

Deeds(w) ==
    IF w = Load THEN {"load", "enqueue", "terminate", "end"}
    ELSE IF w = Out THEN {"dequeue", "write", "end"}
    ELSE {"dequeue", "enqueue", "terminate", "end"}

FerretTypeOK ==
    /\ data \in [Queues -> [Slots -> Images \cup {NoImage}]]
    /\ head \in [Queues -> Slots] /\ tail \in [Queues -> Slots]
    /\ end_count \in [Queues -> Nat]
    /\ empty \in [Queues -> SUBSET Workers] /\ full \in [Queues -> SUBSET Workers]
    /\ holds \in [Workers -> Images \cup {NoImage}]
    /\ doing \in [Workers -> {"load", "dequeue", "enqueue", "write", "terminate", "end"}]
    /\ cnt_enqueue \in 0 .. MaxImages /\ cnt_dequeue \in Nat
    /\ written \subseteq Images

(* What a thread may be doing, and when it has an image in its hands.      *)
DeedsOK ==
    \A w \in Workers :
        /\ doing[w] \in Deeds(w)
        /\ holds[w] # NoImage <=> doing[w] \in {"enqueue", "write"}

(* end_count counts the threads before the queue that have ended.          *)
Ended(q) == {w \in ProducersOf(q) : doing[w] = "end"}

CountOK == \A q \in Queues : end_count[q] = Cardinality(Ended(q))

(* A thread that was told the end: nothing is left before it, in whichever *)
(* stage, and nobody there runs any more.                                  *)
Drained(q) == IsEmpty(q) /\ Ended(q) = ProducersOf(q)

EndOK ==
    \A w \in Workers \ {Load} :
        doing[w] \in {"terminate", "end"} => \A q \in 0 .. Before(w) : Drained(q)

(* The slots from tail up to head.                                         *)
Between(h, t) ==
    {k \in Slots : IF t <= h THEN t <= k /\ k < h ELSE t <= k \/ k < h}

Used(q) == Between(head[q], tail[q])

(* The threads and the slots in which an image is.                         *)
Hands(x) == {w \in Workers : holds[w] = x}

Spots(x) == {s \in Queues \X Slots : s[2] \in Used(s[1]) /\ data[s[1]][s[2]] = x}

(* An image that was found is in the output, in one thread's hands or in   *)
(* one slot, and nowhere else; one that was not found yet is nowhere.      *)
OnePlace(x) ==
    \/ x \in written /\ Hands(x) = {} /\ Spots(x) = {}
    \/ x \notin written /\ Spots(x) = {} /\ \E w \in Workers : Hands(x) = {w}
    \/ x \notin written /\ Hands(x) = {} /\ \E s \in Queues \X Slots : Spots(x) = {s}

Nowhere(x) == x \notin written /\ Hands(x) = {} /\ Spots(x) = {}

ImagesOK ==
    /\ \A q \in Queues : \A k \in Used(q) : data[q][k] \in Images
    /\ \A x \in Images : IF x <= cnt_enqueue THEN OnePlace(x) ELSE Nowhere(x)

WrittenCounted == IsFiniteSet(written) /\ cnt_dequeue = Cardinality(written)

FerretInv ==
    FerretTypeOK /\ DeedsOK /\ CountOK /\ EndOK /\ ImagesOK /\ WrittenCounted

-------------------------------------------------------------------------------
(* The threads and the queues between them.                                *)

LEMMA WorkerFacts ==
    ASSUME NEW w \in Workers
    PROVE  /\ w = Load <=> w[1] = 0
           /\ w = Out <=> w[1] = NStages + 1
           /\ w \in Middle <=> w[1] \in 1 .. NStages
           /\ w[1] \in 0 .. NStages + 1
           /\ w # Out => After(w) \in Queues
           /\ w # Load => Before(w) \in Queues
           /\ w = Out => After(w) \notin Queues
           /\ w = Load => Before(w) \notin Queues
<1>1. CASE w = Load
  BY <1>1, FerretAssumption DEF Load, Out, Middle, After, Before, Queues
<1>2. CASE w = Out
  BY <1>2, FerretAssumption DEF Load, Out, Middle, After, Before, Queues
<1>3. CASE w \in Middle
  <2>1. w[1] \in 1 .. NStages
    BY <1>3 DEF Middle
  <2>2. w # Load /\ w # Out
    BY <2>1, FerretAssumption DEF Load, Out
  <2> QED
    BY <1>3, <2>1, <2>2, FerretAssumption DEF After, Before, Queues
<1> QED
  BY <1>1, <1>2, <1>3 DEF Workers

LEMMA Ends ==
    /\ Load \in Workers /\ Out \in Workers /\ Load # Out
    /\ Before(Out) = NStages /\ After(Load) = 0
    /\ Load \notin Middle /\ Out \notin Middle
<1>1. Load \in Workers /\ Out \in Workers
  BY DEF Workers
<1>2. Load[1] = 0 /\ Out[1] = NStages + 1
  BY DEF Load, Out
<1> QED
  BY <1>1, <1>2, WorkerFacts, FerretAssumption DEF Before, After

(* end_count reaches prod_threads when all the producers have ended.       *)
LEMMA ProducersCounted ==
    ASSUME NEW q \in Queues
    PROVE  /\ IsFiniteSet(ProducersOf(q))
           /\ Cardinality(ProducersOf(q)) = prod_threads(q)
           /\ ProducersOf(q) # {}
<1>1. CASE q = 0
  <2>1. ProducersOf(q) = {Load}
    BY <1>1, WorkerFacts, Ends DEF ProducersOf, After
  <2> QED
    BY <1>1, <2>1, FS_Singleton DEF prod_threads
<1>2. CASE q # 0
  <2>1. q \in 1 .. NStages
    BY <1>2, FerretAssumption DEF Queues
  <2>2. ProducersOf(q) = {q} \X (1 .. NThreads)
    <3>1. ASSUME NEW w \in ProducersOf(q)
          PROVE  w \in {q} \X (1 .. NThreads)
      <4>1. w \in Workers /\ w[1] = q
        BY DEF ProducersOf, After
      <4>2. w \in Middle
        BY <2>1, <4>1, WorkerFacts
      <4> QED
        BY <4>1, <4>2 DEF Middle
    <3>2. ASSUME NEW w \in {q} \X (1 .. NThreads)
          PROVE  w \in ProducersOf(q)
      BY <2>1 DEF ProducersOf, After, Workers, Middle
    <3> QED
      BY <3>1, <3>2
  <2> DEFINE f == [k \in 1 .. NThreads |-> <<q, k>>]
  <2>3. f \in Bijection(1 .. NThreads, ProducersOf(q))
    <3>1. f \in [1 .. NThreads -> ProducersOf(q)]
      BY <2>2
    <3>2. \A j, k \in 1 .. NThreads : f[j] = f[k] => j = k
      OBVIOUS
    <3>3. \A w \in ProducersOf(q) : \E k \in 1 .. NThreads : f[k] = w
      <4> SUFFICES ASSUME NEW w \in ProducersOf(q)
                   PROVE  \E k \in 1 .. NThreads : f[k] = w
        OBVIOUS
      <4>1. w = <<q, w[2]>> /\ w[2] \in 1 .. NThreads
        BY <2>2
      <4> QED
        BY <4>1
    <3> QED
      BY <3>1, <3>2, <3>3 DEF Bijection, Injection, Surjection, IsInjective
  <2>4. NThreads \in Nat /\ NThreads # 0
    BY FerretAssumption
  <2>5. ExistsBijection(1 .. NThreads, ProducersOf(q))
    BY <2>3 DEF ExistsBijection
  <2>6. IsFiniteSet(ProducersOf(q)) /\ Cardinality(ProducersOf(q)) = NThreads
    BY <2>4, <2>5, FS_NatBijection, FS_CountingElements
  <2> QED
    BY <1>2, <2>4, <2>6, FS_EmptySet DEF prod_threads
<1> QED
  BY <1>1, <1>2

-------------------------------------------------------------------------------
(* The ring: what IsFull, Following and Contents mean without a modulus.   *)

Seqn(d, h, t) ==
    [k \in 1 .. (h - t + DEPTH) % DEPTH |-> d[(t + k - 1) % DEPTH]]

LEMMA Wrap ==
    ASSUME NEW k \in Slots
    PROVE  k % DEPTH = k /\ (k + DEPTH) % DEPTH = k
BY FerretAssumption DEF Slots

(* The number of elements, and where the k-th of them is.                  *)
Count(h, t) == IF t <= h THEN h - t ELSE h - t + DEPTH

Spot(t, k) == IF t + k - 1 < DEPTH THEN t + k - 1 ELSE t + k - 1 - DEPTH

Queued(d, h, t) == [k \in 1 .. Count(h, t) |-> d[Spot(t, k)]]

LEMMA SeqnByCases ==
    ASSUME NEW d, NEW h \in Slots, NEW t \in Slots
    PROVE  /\ Count(h, t) \in Slots
           /\ \A k \in 1 .. Count(h, t) : Spot(t, k) \in Slots
           /\ Seqn(d, h, t) = Queued(d, h, t)
<1>1. h \in Int /\ t \in Int /\ 0 <= h /\ 0 <= t /\ h < DEPTH /\ t < DEPTH /\ DEPTH \in Nat
  BY FerretAssumption DEF Slots
<1>2. Count(h, t) \in Slots
  BY <1>1 DEF Count, Slots
<1>3. (h - t + DEPTH) % DEPTH = Count(h, t)
  <2>1. CASE t <= h
    <3>1. h - t \in Slots
      BY <1>1, <2>1 DEF Slots
    <3>2. (h - t + DEPTH) % DEPTH = h - t
      BY <3>1, Wrap
    <3> QED
      BY <2>1, <3>2 DEF Count
  <2>2. CASE ~(t <= h)
    <3>1. h - t + DEPTH \in Slots
      BY <1>1, <2>2 DEF Slots
    <3>2. (h - t + DEPTH) % DEPTH = h - t + DEPTH
      BY <3>1, Wrap
    <3> QED
      BY <2>2, <3>2 DEF Count
  <2> QED
    BY <2>1, <2>2
<1>4. ASSUME NEW k \in 1 .. Count(h, t)
      PROVE  Spot(t, k) \in Slots /\ (t + k - 1) % DEPTH = Spot(t, k)
  <2>1. k \in Int /\ 1 <= k /\ k < DEPTH
    BY <1>1, <1>2 DEF Slots
  <2>2. Spot(t, k) \in Slots
    BY <1>1, <2>1 DEF Spot, Slots
  <2>3. Spot(t, k) % DEPTH = Spot(t, k) /\ (Spot(t, k) + DEPTH) % DEPTH = Spot(t, k)
    BY <2>2, Wrap
  <2>4. t + k - 1 = Spot(t, k) \/ t + k - 1 = Spot(t, k) + DEPTH
    BY <1>1, <2>1 DEF Spot
  <2> QED
    BY <2>2, <2>3, <2>4
<1> QED
  BY <1>2, <1>3, <1>4 DEF Seqn, Queued

LEMMA FullByCases ==
    ASSUME NEW h \in Slots, NEW t \in Slots
    PROVE  h = (t - 1 + DEPTH) % DEPTH <=> Count(h, t) = DEPTH - 1
<1>1. h \in Int /\ t \in Int /\ 0 <= h /\ 0 <= t /\ h < DEPTH /\ t < DEPTH /\ DEPTH \in Nat
  BY FerretAssumption DEF Slots
<1>2. CASE t = 0
  <2>1. t - 1 + DEPTH \in Slots
    BY <1>1, <1>2 DEF Slots
  <2>2. (t - 1 + DEPTH) % DEPTH = t - 1 + DEPTH
    BY <2>1, Wrap
  <2> QED
    BY <1>1, <1>2, <2>2 DEF Count
<1>3. CASE t # 0
  <2>1. t - 1 \in Slots
    BY <1>1, <1>3 DEF Slots
  <2>2. (t - 1 + DEPTH) % DEPTH = t - 1
    BY <2>1, Wrap
  <2> QED
    BY <1>1, <1>3, <2>2 DEF Count
<1> QED
  BY <1>2, <1>3

Stores(d, h, x, e) == \A k \in Slots : e[k] = IF k = h THEN x ELSE d[k]

(* Storing at head appends, as long as a slot is spare.                    *)
LEMMA RingInsert ==
    ASSUME NEW d, NEW e, NEW x, NEW h \in Slots, NEW t \in Slots,
           Count(h, t) # DEPTH - 1,
           Stores(d, h, x, e)
    PROVE  /\ Following(h) \in Slots
           /\ h \notin Between(h, t)
           /\ Between(Following(h), t) = Between(h, t) \cup {h}
           /\ Len(Seqn(d, h, t)) < DEPTH - 1
           /\ Seqn(e, Following(h), t) = Append(Seqn(d, h, t), x)
<1>1. h \in Int /\ t \in Int /\ 0 <= h /\ 0 <= t /\ h < DEPTH /\ t < DEPTH /\ DEPTH \in Nat
  BY FerretAssumption DEF Slots
<1> DEFINE g == Following(h)
           c == Count(h, t)
<1>2. g \in Slots
  BY <1>1 DEF Following, Slots
<1>3. c \in Slots /\ c # DEPTH - 1
  BY SeqnByCases
<1>4. g # t
  BY <1>1, <1>3 DEF Count, Following
<1>5. Count(g, t) = c + 1
  BY <1>1, <1>3 DEF Count, Following
<1>6. h \notin Between(h, t)
  BY <1>1 DEF Between
<1>7. Between(g, t) = Between(h, t) \cup {h}
  <2>1. ASSUME NEW k \in Slots
        PROVE  k \in Between(g, t) <=> k \in Between(h, t) \/ k = h
    <3>1. k \in Int /\ 0 <= k /\ k < DEPTH
      BY <1>1 DEF Slots
    <3>2. CASE h + 1 = DEPTH
      BY <1>1, <1>4, <3>1, <3>2 DEF Between, Following
    <3>3. CASE h + 1 # DEPTH
      BY <1>1, <1>4, <3>1, <3>3 DEF Between, Following
    <3> QED
      BY <3>2, <3>3
  <2> QED
    BY <2>1 DEF Between
<1>8. Seqn(d, h, t) = [k \in 1 .. c |-> d[Spot(t, k)]]
  <2>1. Seqn(d, h, t) = Queued(d, h, t)
    BY SeqnByCases
  <2> QED
    BY <2>1 DEF Queued
<1>9. Len(Seqn(d, h, t)) = c /\ c < DEPTH - 1
  BY <1>1, <1>3, <1>8 DEF Slots
<1>10. Seqn(e, g, t) = [k \in 1 .. c + 1 |-> e[Spot(t, k)]]
  <2>1. Seqn(e, g, t) = Queued(e, g, t)
    BY <1>2, SeqnByCases
  <2> QED
    BY <1>5, <2>1 DEF Queued
<1>11. ASSUME NEW k \in 1 .. c
       PROVE  e[Spot(t, k)] = d[Spot(t, k)]
  <2>1. Spot(t, k) \in Slots
    BY SeqnByCases
  <2>2. Spot(t, k) # h
    BY <1>1 DEF Spot, Count
  <2> QED
    BY <2>1, <2>2 DEF Stores
<1>12. e[Spot(t, c + 1)] = x
  <2>1. Spot(t, c + 1) = h
    BY <1>1 DEF Spot, Count
  <2> QED
    BY <2>1 DEF Stores
<1>13. Append(Seqn(d, h, t), x) = [k \in 1 .. c + 1 |-> IF k = c + 1 THEN x ELSE d[Spot(t, k)]]
  BY <1>3, <1>8, <1>9 DEF Slots
<1>14. c \in Nat
  BY <1>3 DEF Slots
<1>15. Seqn(e, g, t) = Append(Seqn(d, h, t), x)
  BY <1>10, <1>11, <1>12, <1>13, <1>14
<1> QED
  BY <1>2, <1>6, <1>7, <1>9, <1>15

(* Fetching at tail takes the oldest element.                              *)
LEMMA RingRemove ==
    ASSUME NEW d, NEW h \in Slots, NEW t \in Slots, t # h
    PROVE  /\ Following(t) \in Slots
           /\ t \in Between(h, t)
           /\ Between(h, Following(t)) = Between(h, t) \ {t}
           /\ Seqn(d, h, t) # <<>>
           /\ Seqn(d, h, Following(t)) = Tail(Seqn(d, h, t))
<1>1. h \in Int /\ t \in Int /\ 0 <= h /\ 0 <= t /\ h < DEPTH /\ t < DEPTH /\ DEPTH \in Nat
  BY FerretAssumption DEF Slots
<1> DEFINE g == Following(t)
           c == Count(h, t)
<1>2. g \in Slots
  BY <1>1 DEF Following, Slots
<1>3. c \in Slots /\ c # 0 /\ c \in Nat
  BY <1>1 DEF Count, Slots
<1>4. Count(h, g) = c - 1
  BY <1>1 DEF Count, Following
<1>5. t \in Between(h, t)
  BY <1>1 DEF Between
<1>6. Between(h, g) = Between(h, t) \ {t}
  <2>1. ASSUME NEW k \in Slots
        PROVE  k \in Between(h, g) <=> k \in Between(h, t) /\ k # t
    <3>1. k \in Int /\ 0 <= k /\ k < DEPTH
      BY <1>1 DEF Slots
    <3>2. CASE t + 1 = DEPTH
      BY <1>1, <3>1, <3>2 DEF Between, Following
    <3>3. CASE t + 1 # DEPTH
      BY <1>1, <3>1, <3>3 DEF Between, Following
    <3> QED
      BY <3>2, <3>3
  <2> QED
    BY <2>1 DEF Between
<1>7. Seqn(d, h, t) = [k \in 1 .. c |-> d[Spot(t, k)]]
  <2>1. Seqn(d, h, t) = Queued(d, h, t)
    BY SeqnByCases
  <2> QED
    BY <2>1 DEF Queued
<1>8. Seqn(d, h, g) = [k \in 1 .. c - 1 |-> d[Spot(g, k)]]
  <2>1. Seqn(d, h, g) = Queued(d, h, g)
    BY <1>2, SeqnByCases
  <2> QED
    BY <1>4, <2>1 DEF Queued
<1>9. ASSUME NEW k \in 1 .. c - 1
      PROVE  Spot(g, k) = Spot(t, k + 1)
  BY <1>1, <1>3 DEF Spot, Following, Slots
<1>10. Len(Seqn(d, h, t)) = c
  BY <1>3, <1>7
<1>11. Seqn(d, h, t) # <<>>
  BY <1>3, <1>10
<1>12. Tail(Seqn(d, h, t)) = [k \in 1 .. c - 1 |-> d[Spot(t, k + 1)]]
  BY <1>3, <1>7, <1>10
<1>13. Seqn(d, h, g) = Tail(Seqn(d, h, t))
  BY <1>8, <1>9, <1>12
<1> QED
  BY <1>2, <1>5, <1>6, <1>11, <1>13

LEMMA RingEmpty ==
    ASSUME NEW d, NEW h \in Slots
    PROVE  Between(h, h) = {} /\ Seqn(d, h, h) = <<>>
<1>1. h \in Int /\ Count(h, h) = 0
  BY FerretAssumption DEF Slots, Count
<1>2. Seqn(d, h, h) = [k \in 1 .. Count(h, h) |-> d[Spot(h, k)]]
  BY SeqnByCases DEF Queued
<1>3. Between(h, h) = {}
  BY <1>1 DEF Between, Slots
<1>4. Seqn(d, h, h) = <<>>
  BY <1>1, <1>2
<1> QED
  BY <1>3, <1>4

-------------------------------------------------------------------------------
(* What the state of a thread says about its place in the pipeline.        *)

LEMMA Roles ==
    ASSUME DeedsOK, NEW w \in Workers
    PROVE  /\ doing[w] \in {"enqueue", "terminate"} =>
                 w # Out /\ After(w) \in Queues /\ w \in ProducersOf(After(w))
           /\ doing[w] = "dequeue" =>
                 w # Load /\ Before(w) \in Queues /\ w \in ConsumersOf(Before(w))
<1>1. doing[w] \in Deeds(w)
  BY DEF DeedsOK
<1>2. doing[w] \in {"enqueue", "terminate"} => w # Out
  BY <1>1, Ends DEF Deeds
<1>3. doing[w] = "dequeue" => w # Load
  BY <1>1 DEF Deeds
<1> QED
  BY <1>2, <1>3, WorkerFacts DEF ProducersOf, ConsumersOf

(* Steps after which the same threads have ended.                          *)
LEMMA EndedStays ==
    ASSUME FerretTypeOK, CountOK, end_count' = end_count,
           \A w \in Workers \ {Out} : doing'[w] = "end" <=> doing[w] = "end"
    PROVE  CountOK' /\ \A q \in Queues : Ended(q)' = Ended(q)
<1>1. ASSUME NEW q \in Queues
      PROVE  Ended(q)' = Ended(q)
  <2>1. Out \notin ProducersOf(q)
    BY Ends, WorkerFacts DEF ProducersOf
  <2> QED
    BY <2>1 DEF Ended, ProducersOf
<1>2. ASSUME NEW q \in Queues
      PROVE  end_count'[q] = Cardinality(Ended(q)')
  BY <1>1 DEF CountOK
<1> QED
  BY <1>1, <1>2 DEF CountOK

(* Steps that tell nobody the end.                                         *)
LEMMA NobodyTold ==
    ASSUME EndOK,
           \A q \in Queues : Drained(q) => Drained(q)',
           \A w \in Workers \ {Load} :
              doing'[w] \in {"terminate", "end"} => doing[w] \in {"terminate", "end"}
    PROVE  EndOK'
<1> SUFFICES ASSUME NEW w \in Workers \ {Load}, doing'[w] \in {"terminate", "end"},
                    NEW q \in 0 .. Before(w)
             PROVE  Drained(q)'
  BY DEF EndOK
<1>1. Drained(q)
  BY DEF EndOK
<1>2. q \in Queues
  BY WorkerFacts, FerretAssumption DEF Queues
<1> QED
  BY <1>1, <1>2

(* Steps that move no image.                                               *)
LEMMA ImagesStay ==
    ASSUME FerretTypeOK, ImagesOK, WrittenCounted,
           UNCHANGED <<data, head, tail, holds, countVars>>
    PROVE  ImagesOK' /\ WrittenCounted'
<1> USE DEF countVars
<1>1. /\ \A q \in Queues : Used(q)' = Used(q)
      /\ \A x \in Images : Hands(x)' = Hands(x) /\ Spots(x)' = Spots(x)
  BY DEF Used, Hands, Spots
<1>2. \A x \in Images : (OnePlace(x)' <=> OnePlace(x)) /\ (Nowhere(x)' <=> Nowhere(x))
  BY <1>1 DEF OnePlace, Nowhere
<1>3. (\A q \in Queues : \A k \in Used(q) : data[q][k] \in Images)'
  BY <1>1 DEF ImagesOK
<1>4. (\A x \in Images : IF x <= cnt_enqueue THEN OnePlace(x) ELSE Nowhere(x))'
  BY <1>2 DEF ImagesOK
<1> QED
  BY <1>3, <1>4 DEF ImagesOK, WrittenCounted

(* Steps that only send threads to sleep or wake them.                     *)
LEMMA NothingMoves ==
    ASSUME FerretInv,
           UNCHANGED <<data, head, tail, end_count, holds, doing, countVars>>,
           empty' \in [Queues -> SUBSET Workers], full' \in [Queues -> SUBSET Workers]
    PROVE  FerretInv'
<1> USE DEF FerretInv
<1>1. FerretTypeOK'
  BY DEF FerretTypeOK, countVars
<1>2. DeedsOK'
  BY DEF DeedsOK
<1>3. CountOK' /\ \A q \in Queues : Ended(q)' = Ended(q)
  BY EndedStays
<1>4. EndOK'
  <2>1. \A q \in Queues : Drained(q) => Drained(q)'
    BY <1>3 DEF Drained, IsEmpty, ProducersOf
  <2> QED
    BY <2>1, NobodyTold
<1>5. ImagesOK' /\ WrittenCounted'
  BY ImagesStay
<1> QED
  BY <1>1, <1>2, <1>3, <1>4, <1>5

LEMMA InitOK ==
    FerretInit => FerretInv
<1> SUFFICES ASSUME FerretInit
             PROVE  FerretInv
  OBVIOUS
<1> USE DEF FerretInit
<1>1. FerretTypeOK
  BY FerretAssumption DEF FerretTypeOK, Slots
<1>2. DeedsOK
  BY Ends DEF DeedsOK, Deeds
<1>3. \A q \in Queues : Ended(q) = {}
  BY DEF Ended, ProducersOf
<1>4. CountOK
  BY <1>3, FS_EmptySet DEF CountOK
<1>5. EndOK
  BY DEF EndOK
<1>6. \A q \in Queues : Used(q) = {}
  BY <1>1, RingEmpty DEF Used, FerretTypeOK
<1>7. \A x \in Images : Nowhere(x)
  <2>1. \A x \in Images : x # NoImage
    BY FerretAssumption DEF Images
  <2>2. \A x \in Images : Hands(x) = {}
    BY <2>1 DEF Hands
  <2>3. \A x \in Images : Spots(x) = {}
    BY <1>6 DEF Spots
  <2> QED
    BY <2>2, <2>3 DEF Nowhere
<1>8. \A x \in Images : ~(x <= cnt_enqueue)
  BY DEF Images
<1>9. ImagesOK
  BY <1>6, <1>7, <1>8 DEF ImagesOK
<1>10. WrittenCounted
  BY FS_EmptySet DEF WrittenCounted
<1> QED
  BY <1>1, <1>2, <1>4, <1>5, <1>9, <1>10 DEF FerretInv

LEMMA SleepOK ==
    ASSUME FerretInv, NEW w \in Workers, EnqueueWait(w) \/ DequeueWait(w)
    PROVE  FerretInv'
<1>1. empty' \in [Queues -> SUBSET Workers] /\ full' \in [Queues -> SUBSET Workers]
  <2>1. CASE EnqueueWait(w)
    BY <2>1 DEF EnqueueWait, Sleep, FerretInv, FerretTypeOK
  <2>2. CASE DequeueWait(w)
    BY <2>2 DEF DequeueWait, Sleep, FerretInv, FerretTypeOK
  <2> QED
    BY <2>1, <2>2
<1>2. UNCHANGED <<data, head, tail, end_count, holds, doing, countVars>>
  BY DEF EnqueueWait, DequeueWait
<1> QED
  BY <1>1, <1>2, NothingMoves

LEMMA WakeupOK ==
    ASSUME FerretInv, NEW q \in Queues, SpuriousWakeup(q)
    PROVE  FerretInv'
<1>1. empty' \in [Queues -> SUBSET Workers] /\ full' \in [Queues -> SUBSET Workers]
  <2>1. CASE UNCHANGED full
    <3>1. PICK w \in Workers : empty' = [empty EXCEPT ![q] = @ \ {w}] \/ empty' = empty
      BY <2>1, Ends DEF SpuriousWakeup, FerretInv, FerretTypeOK
    <3> QED
      BY <2>1, <3>1 DEF FerretInv, FerretTypeOK
  <2>2. CASE UNCHANGED empty
    <3>1. PICK w \in Workers : full' = [full EXCEPT ![q] = @ \ {w}] \/ full' = full
      BY <2>2, Ends DEF SpuriousWakeup, FerretInv, FerretTypeOK
    <3> QED
      BY <2>2, <3>1 DEF FerretInv, FerretTypeOK
  <2> QED
    BY <2>1, <2>2 DEF SpuriousWakeup
<1>2. UNCHANGED <<data, head, tail, end_count, holds, doing, countVars>>
  BY DEF SpuriousWakeup
<1> QED
  BY <1>1, <1>2, NothingMoves

-------------------------------------------------------------------------------
(* The steps that end a thread's work move no image.                       *)

LEMMA NothingLeft ==
    ASSUME FerretInv, NEW q \in Queues, IsEmpty(q), end_count[q] = prod_threads(q)
    PROVE  \A p \in 0 .. q : Drained(p)
<1>1. Ended(q) \subseteq ProducersOf(q) /\ Cardinality(Ended(q)) = Cardinality(ProducersOf(q))
  BY ProducersCounted DEF Ended, FerretInv, CountOK
<1>2. Ended(q) = ProducersOf(q)
  BY <1>1, ProducersCounted, FS_Subset
<1>3. Drained(q)
  BY <1>2 DEF Drained
<1>4. ASSUME NEW p \in 0 .. q, p # q
      PROVE  Drained(p)
  <2>1. PICK v \in ProducersOf(q) : TRUE
    BY ProducersCounted
  <2>2. v \in Workers /\ After(v) = q /\ doing[v] = "end"
    BY <1>2 DEF ProducersOf, Ended
  <2>3. q \in Nat /\ p \in 0 .. q - 1
    BY <1>4, FerretAssumption DEF Queues
  <2>4. v # Load /\ Before(v) = q - 1
    BY <2>2, <2>3, Ends DEF After, Before
  <2> QED
    BY <2>2, <2>3, <2>4 DEF FerretInv, EndOK
<1> QED
  BY <1>3, <1>4

LEMMA EndLoadOK ==
    ASSUME FerretInv, EndLoad
    PROVE  FerretInv'
<1> USE DEF FerretInv
<1>1. doing' = [doing EXCEPT ![Load] = "terminate"] /\ doing[Load] = "load"
  BY DEF EndLoad, Does
<1>2. UNCHANGED <<data, head, tail, end_count, empty, full, holds, countVars>>
  BY DEF EndLoad, queueVars
<1>3. FerretTypeOK'
  BY <1>1, <1>2 DEF FerretTypeOK, countVars
<1>4. \A v \in Workers : doing'[v] = IF v = Load THEN "terminate" ELSE doing[v]
  BY <1>1 DEF FerretTypeOK
<1>5. DeedsOK'
  BY <1>1, <1>2, <1>4 DEF DeedsOK, Deeds
<1>6. CountOK' /\ \A q \in Queues : Ended(q)' = Ended(q)
  BY <1>1, <1>2, <1>4, EndedStays
<1>7. EndOK'
  <2>1. \A q \in Queues : Drained(q) => Drained(q)'
    BY <1>2, <1>6 DEF Drained, IsEmpty, ProducersOf
  <2> QED
    BY <1>4, <2>1, NobodyTold
<1>8. ImagesOK' /\ WrittenCounted'
  BY <1>2, ImagesStay
<1> QED
  BY <1>3, <1>5, <1>6, <1>7, <1>8

LEMMA DequeueEndOK ==
    ASSUME FerretInv, NEW w \in Workers, DequeueEnd(w)
    PROVE  FerretInv'
<1> USE DEF FerretInv
<1> DEFINE q == Before(w)
<1>1. /\ doing[w] = "dequeue" /\ IsEmpty(q) /\ end_count[q] = prod_threads(q)
      /\ doing' = [doing EXCEPT ![w] = IF w = Out THEN "end" ELSE "terminate"]
      /\ empty' = [empty EXCEPT ![q] = {}]
  BY DEF DequeueEnd, Does, Broadcast
<1>2. UNCHANGED <<data, head, tail, end_count, full, holds, countVars>>
  BY DEF DequeueEnd
<1>3. w # Load /\ q \in Queues
  BY <1>1, Roles
<1>4. FerretTypeOK'
  BY <1>1, <1>2 DEF FerretTypeOK, countVars
<1>5. \A v \in Workers :
         doing'[v] = IF v = w THEN (IF w = Out THEN "end" ELSE "terminate") ELSE doing[v]
  BY <1>1 DEF FerretTypeOK
<1>6. DeedsOK'
  BY <1>1, <1>2, <1>3, <1>5 DEF DeedsOK, Deeds
<1>7. CountOK' /\ \A p \in Queues : Ended(p)' = Ended(p)
  BY <1>1, <1>2, <1>5, EndedStays
<1>8. \A p \in Queues : Drained(p)' <=> Drained(p)
  BY <1>2, <1>7 DEF Drained, IsEmpty, ProducersOf
<1>9. EndOK'
  <2> SUFFICES ASSUME NEW v \in Workers \ {Load}, doing'[v] \in {"terminate", "end"},
                      NEW p \in 0 .. Before(v)
               PROVE  Drained(p)'
    BY DEF EndOK
  <2>1. p \in Queues
    BY WorkerFacts, FerretAssumption DEF Queues
  <2>2. CASE v = w
    BY <1>1, <1>3, <1>8, <2>1, <2>2, NothingLeft
  <2>3. CASE v # w
    BY <1>5, <1>8, <2>1, <2>3 DEF EndOK
  <2> QED
    BY <2>2, <2>3
<1>10. ImagesOK' /\ WrittenCounted'
  BY <1>2, ImagesStay
<1> QED
  BY <1>4, <1>6, <1>7, <1>9, <1>10

LEMMA TerminateOK ==
    ASSUME FerretInv, NEW w \in Workers, queue_signal_terminate(w)
    PROVE  FerretInv'
<1> USE DEF FerretInv
<1> DEFINE q == After(w)
<1>1. /\ doing[w] = "terminate"
      /\ end_count' = [end_count EXCEPT ![q] = @ + 1]
      /\ doing' = [doing EXCEPT ![w] = "end"]
      /\ empty' = [empty EXCEPT ![q] = {}]
  BY DEF queue_signal_terminate, Does, Broadcast
<1>2. UNCHANGED <<data, head, tail, full, holds, countVars>>
  BY DEF queue_signal_terminate
<1>3. w # Out /\ q \in Queues /\ w \in ProducersOf(q)
  BY <1>1, Roles
<1>4. FerretTypeOK'
  <2>1. end_count' \in [Queues -> Nat]
    BY <1>1, <1>3 DEF FerretTypeOK
  <2>2. empty' \in [Queues -> SUBSET Workers]
    BY <1>1 DEF FerretTypeOK
  <2>3. doing' \in [Workers -> {"load", "dequeue", "enqueue", "write", "terminate", "end"}]
    BY <1>1 DEF FerretTypeOK
  <2> QED
    BY <1>2, <2>1, <2>2, <2>3 DEF FerretTypeOK, countVars
<1>5. \A v \in Workers : doing'[v] = IF v = w THEN "end" ELSE doing[v]
  BY <1>1 DEF FerretTypeOK
<1>6. DeedsOK'
  BY <1>1, <1>2, <1>3, <1>5 DEF DeedsOK, Deeds
<1>7. \A p \in Queues : Ended(p)' = IF p = q THEN Ended(q) \cup {w} ELSE Ended(p)
  BY <1>3, <1>5 DEF Ended, ProducersOf
<1>8. CountOK'
  <2>1. w \notin Ended(q) /\ IsFiniteSet(Ended(q))
    <3>1. Ended(q) \subseteq ProducersOf(q)
      BY DEF Ended
    <3> QED
      BY <1>1, <1>3, <3>1, ProducersCounted, FS_Subset DEF Ended
  <2>2. Cardinality(Ended(q) \cup {w}) = Cardinality(Ended(q)) + 1
    BY <2>1, FS_AddElement
  <2> SUFFICES ASSUME NEW p \in Queues
               PROVE  end_count'[p] = Cardinality(Ended(p)')
    BY DEF CountOK
  <2>3. CASE p = q
    BY <1>1, <1>7, <2>2, <2>3 DEF CountOK, FerretTypeOK
  <2>4. CASE p # q
    BY <1>1, <1>3, <1>7, <2>4 DEF CountOK, FerretTypeOK
  <2> QED
    BY <2>3, <2>4
<1>9. EndOK'
  <2>1. \A p \in Queues : Drained(p) => Drained(p)'
    BY <1>2, <1>3, <1>7 DEF Drained, IsEmpty, ProducersOf
  <2> QED
    BY <1>1, <1>5, <2>1, NobodyTold
<1>10. ImagesOK' /\ WrittenCounted'
  BY <1>2, ImagesStay
<1> QED
  BY <1>4, <1>6, <1>8, <1>9, <1>10

-------------------------------------------------------------------------------
(* The steps that move one image from one place to another.                *)

LEMMA ImageFacts ==
    ASSUME FerretInv, NEW w \in Workers, holds[w] # NoImage
    PROVE  /\ holds[w] \in Images /\ holds[w] <= cnt_enqueue
           /\ holds[w] \notin written
           /\ Hands(holds[w]) = {w} /\ Spots(holds[w]) = {}
<1> USE DEF FerretInv
<1>1. PICK x \in Images : x = holds[w]
  BY DEF FerretTypeOK
<1>2. w \in Hands(x)
  BY <1>1 DEF Hands
<1>3. x <= cnt_enqueue /\ OnePlace(x)
  BY <1>2 DEF ImagesOK, Nowhere
<1>4. x \notin written /\ Spots(x) = {} /\ Hands(x) = {w}
  BY <1>2, <1>3 DEF OnePlace
<1> QED
  BY <1>1, <1>3, <1>4

LEMMA FileOK ==
    ASSUME FerretInv, file_helper
    PROVE  FerretInv'
<1> USE DEF FerretInv
<1>1. /\ doing[Load] = "load" /\ cnt_enqueue < MaxImages
      /\ doing' = [doing EXCEPT ![Load] = "enqueue"]
      /\ holds' = [holds EXCEPT ![Load] = cnt_enqueue + 1]
      /\ cnt_enqueue' = cnt_enqueue + 1
  BY DEF file_helper, Does
<1>2. UNCHANGED <<data, head, tail, end_count, empty, full, cnt_dequeue, written>>
  BY DEF file_helper, queueVars
<1>3. PICK y \in Images : y = cnt_enqueue + 1
  BY <1>1, FerretAssumption DEF FerretTypeOK, Images
<1>4. cnt_enqueue \in Nat /\ y # NoImage /\ cnt_enqueue' \in 0 .. MaxImages
  BY <1>1, <1>3, FerretAssumption DEF FerretTypeOK, Images
<1>5. FerretTypeOK'
  BY <1>1, <1>2, <1>3, <1>4 DEF FerretTypeOK
<1>6. \A v \in Workers : /\ doing'[v] = IF v = Load THEN "enqueue" ELSE doing[v]
                         /\ holds'[v] = IF v = Load THEN y ELSE holds[v]
  BY <1>1, <1>3 DEF FerretTypeOK
<1>7. DeedsOK'
  BY <1>4, <1>6 DEF DeedsOK, Deeds
<1>8. CountOK' /\ \A q \in Queues : Ended(q)' = Ended(q)
  BY <1>1, <1>2, <1>6, EndedStays
<1>9. EndOK'
  <2>1. \A q \in Queues : Drained(q) => Drained(q)'
    BY <1>2, <1>8 DEF Drained, IsEmpty, ProducersOf
  <2> QED
    BY <1>6, <2>1, NobodyTold
<1>10. ImagesOK'
  <2>1. \A q \in Queues : Used(q)' = Used(q)
    BY <1>2 DEF Used
  <2>2. \A x \in Images : Spots(x)' = Spots(x)
    BY <1>2, <2>1 DEF Spots
  <2>3. Nowhere(y)
    BY <1>3, <1>4 DEF ImagesOK
  <2>4. holds[Load] = NoImage
    BY <1>1, Ends DEF DeedsOK
  <2>5. \A x \in Images : x # NoImage
    BY FerretAssumption DEF Images
  <2>6. \A x \in Images : Hands(x)' = IF x = y THEN {Load} ELSE Hands(x)
    <3> SUFFICES ASSUME NEW x \in Images
                 PROVE  Hands(x)' = IF x = y THEN {Load} ELSE Hands(x)
      OBVIOUS
    <3>1. CASE x = y
      BY <1>6, <2>3, <3>1, Ends DEF Hands, Nowhere
    <3>2. CASE x # y
      BY <1>6, <2>4, <2>5, <3>2 DEF Hands
    <3> QED
      BY <3>1, <3>2
  <2>7. OnePlace(y)'
    BY <1>2, <2>2, <2>3, <2>6, Ends DEF OnePlace, Nowhere
  <2>8. \A x \in Images : x # y => /\ OnePlace(x) => OnePlace(x)'
                                   /\ Nowhere(x) => Nowhere(x)'
    BY <1>2, <2>2, <2>6 DEF OnePlace, Nowhere
  <2>9. ASSUME NEW x \in Images
        PROVE  IF x <= cnt_enqueue' THEN OnePlace(x)' ELSE Nowhere(x)'
    <3>1. x \in Nat
      BY DEF Images
    <3>2. CASE x = y
      BY <1>1, <1>3, <1>4, <2>7, <3>2
    <3>3. CASE x # y
      <4>1. x <= cnt_enqueue' <=> x <= cnt_enqueue
        BY <1>1, <1>3, <1>4, <3>1, <3>3
      <4> QED
        BY <2>8, <3>3, <4>1 DEF ImagesOK
    <3> QED
      BY <3>2, <3>3
  <2>10. \A q \in Queues : \A k \in Used(q)' : data'[q][k] \in Images
    BY <1>2, <2>1 DEF ImagesOK
  <2> QED
    BY <2>9, <2>10 DEF ImagesOK
<1>11. WrittenCounted'
  BY <1>2 DEF WrittenCounted
<1> QED
  BY <1>5, <1>7, <1>8, <1>9, <1>10, <1>11

LEMMA WriteOK ==
    ASSUME FerretInv, Write
    PROVE  FerretInv'
<1> USE DEF FerretInv
<1>1. doing[Out] = "write" /\ holds[Out] # NoImage
  BY Ends DEF Write, DeedsOK
<1>2. PICK y \in Images : y = holds[Out]
  BY <1>1, Ends, ImageFacts
<1>3. /\ doing' = [doing EXCEPT ![Out] = "dequeue"]
      /\ holds' = [holds EXCEPT ![Out] = NoImage]
      /\ written' = written \cup {y}
      /\ cnt_dequeue' = cnt_dequeue + 1
  BY <1>2 DEF Write, Does
<1>4. UNCHANGED <<data, head, tail, end_count, empty, full, cnt_enqueue>>
  BY DEF Write, queueVars
<1>5. FerretTypeOK'
  <2>1. holds' \in [Workers -> Images \cup {NoImage}]
    BY <1>3 DEF FerretTypeOK
  <2>2. doing' \in [Workers -> {"load", "dequeue", "enqueue", "write", "terminate", "end"}]
    BY <1>3 DEF FerretTypeOK
  <2>3. written' \subseteq Images /\ cnt_dequeue' \in Nat
    BY <1>3 DEF FerretTypeOK
  <2> QED
    BY <1>4, <2>1, <2>2, <2>3 DEF FerretTypeOK
<1>6. \A v \in Workers : /\ doing'[v] = IF v = Out THEN "dequeue" ELSE doing[v]
                         /\ holds'[v] = IF v = Out THEN NoImage ELSE holds[v]
  BY <1>3 DEF FerretTypeOK
<1>7. DeedsOK'
  BY <1>6, Ends DEF DeedsOK, Deeds
<1>8. CountOK' /\ \A q \in Queues : Ended(q)' = Ended(q)
  BY <1>1, <1>4, <1>6, EndedStays
<1>9. EndOK'
  <2>1. \A q \in Queues : Drained(q) => Drained(q)'
    BY <1>4, <1>8 DEF Drained, IsEmpty, ProducersOf
  <2> QED
    BY <1>6, <2>1, NobodyTold
<1>10. /\ y <= cnt_enqueue /\ y \notin written
       /\ Hands(y) = {Out} /\ Spots(y) = {}
  BY <1>1, <1>2, Ends, ImageFacts
<1>11. ImagesOK'
  <2>1. \A q \in Queues : Used(q)' = Used(q)
    BY <1>4 DEF Used
  <2>2. \A x \in Images : Spots(x)' = Spots(x)
    BY <1>4, <2>1 DEF Spots
  <2>3. \A x \in Images : x # NoImage
    BY FerretAssumption DEF Images
  <2>4. \A x \in Images : Hands(x)' = IF x = y THEN {} ELSE Hands(x)
    <3> SUFFICES ASSUME NEW x \in Images
                 PROVE  Hands(x)' = IF x = y THEN {} ELSE Hands(x)
      OBVIOUS
    <3>1. CASE x = y
      BY <1>6, <1>10, <2>3, <3>1 DEF Hands
    <3>2. CASE x # y
      BY <1>2, <1>6, <2>3, <3>2 DEF Hands
    <3> QED
      BY <3>1, <3>2
  <2>5. OnePlace(y)'
    BY <1>3, <1>10, <2>2, <2>4 DEF OnePlace
  <2>6. \A x \in Images : x # y => /\ OnePlace(x) => OnePlace(x)'
                                   /\ Nowhere(x) => Nowhere(x)'
    BY <1>3, <2>2, <2>4 DEF OnePlace, Nowhere
  <2>7. \A x \in Images : IF x <= cnt_enqueue' THEN OnePlace(x)' ELSE Nowhere(x)'
    BY <1>4, <1>10, <2>5, <2>6 DEF ImagesOK
  <2>8. \A q \in Queues : \A k \in Used(q)' : data'[q][k] \in Images
    BY <1>4, <2>1 DEF ImagesOK
  <2> QED
    BY <2>7, <2>8 DEF ImagesOK
<1>12. WrittenCounted'
  <2>1. IsFiniteSet(written \cup {y}) /\ Cardinality(written \cup {y}) = Cardinality(written) + 1
    BY <1>10, FS_AddElement DEF WrittenCounted
  <2> QED
    BY <1>3, <2>1 DEF WrittenCounted
<1> QED
  BY <1>5, <1>7, <1>8, <1>9, <1>11, <1>12

(* What an enqueue does to the queue it is about; no other queue changes.  *)
LEMMA EnqueueRing ==
    ASSUME FerretInv, NEW w \in Workers, enqueue(w), NEW q \in Queues, q = After(w)
    PROVE  /\ q \in Queues /\ w \in ProducersOf(q) /\ w # Out
           /\ doing[w] = "enqueue" /\ holds[w] \in Images
           /\ data' = [data EXCEPT ![q] = [data[q] EXCEPT ![head[q]] = holds[w]]]
           /\ head' = [head EXCEPT ![q] = Following(head[q])]
           /\ Following(head[q]) \in Slots
           /\ head[q] \notin Used(q)
           /\ Used(q)' = Used(q) \cup {head[q]}
           /\ Len(Contents(q)) < DEPTH - 1
           /\ Contents(q)' = Append(Contents(q), holds[w])
           /\ \A p \in Queues \ {q} : /\ Used(p)' = Used(p) /\ Contents(p)' = Contents(p)
                                      /\ data'[p] = data[p]
<1> USE DEF FerretInv
<1>1. doing[w] = "enqueue"
  BY DEF enqueue
<1>2. w \in ProducersOf(q) /\ w # Out
  BY <1>1, Roles
<1>3. holds[w] \in Images
  BY <1>1, ImageFacts DEF DeedsOK
<1>4. /\ ~IsFull(q) /\ tail' = tail
      /\ data' = [data EXCEPT ![q] = [data[q] EXCEPT ![head[q]] = holds[w]]]
      /\ head' = [head EXCEPT ![q] = Following(head[q])]
  BY DEF enqueue
<1>5. PICK d \in [Slots -> Images \cup {NoImage}] : d = data[q]
  BY DEF FerretTypeOK
<1>6. PICK h \in Slots : h = head[q]
  BY DEF FerretTypeOK
<1>7. PICK t \in Slots : t = tail[q]
  BY DEF FerretTypeOK
<1>8. PICK x : x = holds[w]
  OBVIOUS
<1>9. Count(h, t) # DEPTH - 1
  BY <1>4, <1>6, <1>7, FullByCases DEF IsFull
<1>10. PICK e : e = [d EXCEPT ![h] = x]
  OBVIOUS
<1>11. Stores(d, h, x, e)
  BY <1>10 DEF Stores
<1>12. /\ Following(h) \in Slots
       /\ h \notin Between(h, t)
       /\ Between(Following(h), t) = Between(h, t) \cup {h}
       /\ Len(Seqn(d, h, t)) < DEPTH - 1
       /\ Seqn(e, Following(h), t) = Append(Seqn(d, h, t), x)
  BY <1>9, <1>11, RingInsert
<1>13. data'[q] = [d EXCEPT ![h] = x] /\ head'[q] = Following(h) /\ tail'[q] = t
  BY <1>4, <1>5, <1>6, <1>7, <1>8 DEF FerretTypeOK
<1>14. Contents(q) = Seqn(d, h, t) /\ Used(q) = Between(h, t)
  BY <1>5, <1>6, <1>7 DEF Contents, Seqn, Used
<1>15. Used(q)' = Between(Following(h), t)
  BY <1>13 DEF Used
<1>16. PICK g : g = Following(h)
  OBVIOUS
<1>17. Contents(q)' = Seqn(e, g, t)
  BY <1>13, <1>10, <1>16 DEF Contents, Seqn
<1>18. \A p \in Queues \ {q} : data'[p] = data[p] /\ head'[p] = head[p] /\ tail'[p] = tail[p]
  BY <1>4 DEF FerretTypeOK
<1>19. \A p \in Queues \ {q} : Used(p)' = Used(p) /\ Contents(p)' = Contents(p)
  BY <1>18 DEF Used, Contents
<1>20. Contents(q)' = Append(Contents(q), holds[w])
  BY <1>8, <1>12, <1>14, <1>10, <1>16, <1>17
<1> QED
  BY <1>1, <1>2, <1>3, <1>4, <1>6, <1>12, <1>14, <1>15, <1>18, <1>19, <1>20

LEMMA DequeueRing ==
    ASSUME FerretInv, NEW w \in Workers, dequeue(w), NEW q \in Queues, q = Before(w)
    PROVE  /\ q \in Queues /\ w \in ConsumersOf(q) /\ w # Load
           /\ doing[w] = "dequeue" /\ holds[w] = NoImage
           /\ tail' = [tail EXCEPT ![q] = Following(tail[q])]
           /\ Following(tail[q]) \in Slots
           /\ tail[q] \in Used(q) /\ data[q][tail[q]] \in Images
           /\ Used(q)' = Used(q) \ {tail[q]}
           /\ Contents(q) # <<>>
           /\ Contents(q)' = Tail(Contents(q))
           /\ \A p \in Queues \ {q} : Used(p)' = Used(p) /\ Contents(p)' = Contents(p)
<1> USE DEF FerretInv
<1>1. doing[w] = "dequeue"
  BY DEF dequeue
<1>2. w \in ConsumersOf(q) /\ w # Load
  BY <1>1, Roles
<1>3. holds[w] = NoImage
  BY <1>1 DEF DeedsOK
<1>4. /\ ~IsEmpty(q) /\ head' = head /\ data' = data
      /\ tail' = [tail EXCEPT ![q] = Following(tail[q])]
  BY DEF dequeue
<1>5. PICK d \in [Slots -> Images \cup {NoImage}] : d = data[q]
  BY DEF FerretTypeOK
<1>6. PICK h \in Slots : h = head[q]
  BY DEF FerretTypeOK
<1>7. PICK t \in Slots : t = tail[q]
  BY DEF FerretTypeOK
<1>8. t # h
  BY <1>4, <1>6, <1>7 DEF IsEmpty
<1>9. /\ Following(t) \in Slots
       /\ t \in Between(h, t)
       /\ Between(h, Following(t)) = Between(h, t) \ {t}
       /\ Seqn(d, h, t) # <<>>
       /\ Seqn(d, h, Following(t)) = Tail(Seqn(d, h, t))
  BY <1>8, RingRemove
<1>10. data'[q] = d /\ head'[q] = h /\ tail'[q] = Following(t)
  BY <1>4, <1>5, <1>6, <1>7 DEF FerretTypeOK
<1>11. Contents(q) = Seqn(d, h, t) /\ Used(q) = Between(h, t)
  BY <1>5, <1>6, <1>7 DEF Contents, Seqn, Used
<1>12. Used(q)' = Between(h, Following(t))
  BY <1>10 DEF Used
<1>13. PICK g : g = Following(t)
  OBVIOUS
<1>14. Contents(q)' = Seqn(d, h, g)
  BY <1>10, <1>13 DEF Contents, Seqn
<1>15. \A p \in Queues \ {q} : data'[p] = data[p] /\ head'[p] = head[p] /\ tail'[p] = tail[p]
  BY <1>4 DEF FerretTypeOK
<1>16. \A p \in Queues \ {q} : Used(p)' = Used(p) /\ Contents(p)' = Contents(p)
  BY <1>15 DEF Used, Contents
<1>17. tail[q] \in Used(q) /\ data[q][tail[q]] \in Images
  BY <1>7, <1>9, <1>11 DEF ImagesOK
<1> QED
  BY <1>1, <1>2, <1>3, <1>4, <1>7, <1>9, <1>11, <1>12, <1>13, <1>14, <1>16, <1>17

LEMMA EnqueueOK ==
    ASSUME FerretInv, NEW w \in Workers, enqueue(w)
    PROVE  FerretInv'
<1> USE DEF FerretInv
<1>1. PICK q \in Queues : q = After(w)
  BY Roles DEF enqueue
<1>2. PICK y \in Images : y = holds[w]
  BY <1>1, EnqueueRing
<1>3. PICK h \in Slots : h = head[q]
  BY DEF FerretTypeOK
<1>4. /\ w \in ProducersOf(q) /\ w # Out /\ doing[w] = "enqueue"
      /\ data' = [data EXCEPT ![q] = [data[q] EXCEPT ![h] = y]]
      /\ head' = [head EXCEPT ![q] = Following(h)] /\ Following(h) \in Slots
      /\ h \notin Used(q) /\ Used(q)' = Used(q) \cup {h}
      /\ \A p \in Queues \ {q} : Used(p)' = Used(p) /\ data'[p] = data[p]
  BY <1>1, <1>2, <1>3, EnqueueRing
<1>5. /\ holds' = [holds EXCEPT ![w] = NoImage]
      /\ doing' = [doing EXCEPT ![w] = IF w = Load THEN "load" ELSE "dequeue"]
      /\ UNCHANGED <<tail, end_count, full, cnt_enqueue, cnt_dequeue, written>>
  BY DEF enqueue, Does, countVars
<1>6. empty' \in [Queues -> SUBSET Workers]
  BY DEF enqueue, Signal, FerretTypeOK
<1>7. FerretTypeOK'
  <2>1. holds' \in [Workers -> Images \cup {NoImage}]
    BY <1>5 DEF FerretTypeOK
  <2>2. doing' \in [Workers -> {"load", "dequeue", "enqueue", "write", "terminate", "end"}]
    BY <1>5 DEF FerretTypeOK
  <2>3. data' \in [Queues -> [Slots -> Images \cup {NoImage}]]
    <3>1. [data[q] EXCEPT ![h] = y] \in [Slots -> Images \cup {NoImage}]
      BY DEF FerretTypeOK
    <3> QED
      BY <1>4, <3>1 DEF FerretTypeOK
  <2>4. head' \in [Queues -> Slots]
    BY <1>4 DEF FerretTypeOK
  <2> QED
    BY <1>5, <1>6, <2>1, <2>2, <2>3, <2>4 DEF FerretTypeOK
<1>8. \A v \in Workers :
         /\ doing'[v] = IF v = w THEN (IF w = Load THEN "load" ELSE "dequeue") ELSE doing[v]
         /\ holds'[v] = IF v = w THEN NoImage ELSE holds[v]
  BY <1>5 DEF FerretTypeOK
<1>9. DeedsOK'
  BY <1>4, <1>8, Ends DEF DeedsOK, Deeds
<1>10. CountOK' /\ \A p \in Queues : Ended(p)' = Ended(p)
  BY <1>4, <1>5, <1>8, EndedStays
<1>11. EndOK'
  <2>1. \A p \in Queues : Drained(p) => Drained(p)'
    <3> SUFFICES ASSUME NEW p \in Queues, Drained(p)
                 PROVE  Drained(p)'
      OBVIOUS
    <3>1. p # q
      BY <1>4 DEF Drained, Ended
    <3>2. IsEmpty(p)'
      BY <1>4, <1>5, <3>1 DEF Drained, IsEmpty, FerretTypeOK
    <3> QED
      BY <1>10, <3>2 DEF Drained, ProducersOf
  <2> QED
    BY <1>4, <1>8, <2>1, NobodyTold
<1>12. y <= cnt_enqueue /\ y \notin written /\ Hands(y) = {w} /\ Spots(y) = {}
  BY <1>2, ImageFacts, FerretAssumption DEF Images
<1>13. ImagesOK'
  <2>1. \A x \in Images : x # NoImage
    BY FerretAssumption DEF Images
  <2>2. \A x \in Images : Hands(x)' = IF x = y THEN {} ELSE Hands(x)
    <3> SUFFICES ASSUME NEW x \in Images
                 PROVE  Hands(x)' = IF x = y THEN {} ELSE Hands(x)
      OBVIOUS
    <3>1. CASE x = y
      BY <1>8, <1>12, <2>1, <3>1 DEF Hands
    <3>2. CASE x # y
      BY <1>2, <1>8, <2>1, <3>2 DEF Hands
    <3> QED
      BY <3>1, <3>2
  <2>3. ASSUME NEW p \in Queues, NEW k \in Slots
        PROVE  /\ k \in Used(p)' <=> k \in Used(p) \/ <<p, k>> = <<q, h>>
               /\ data'[p][k] = IF <<p, k>> = <<q, h>> THEN y ELSE data[p][k]
    <3>1. CASE p = q
      <4>1. data'[q] = [data[q] EXCEPT ![h] = y]
        BY <1>4 DEF FerretTypeOK
      <4> QED
        BY <1>4, <3>1, <4>1 DEF FerretTypeOK
    <3>2. CASE p # q
      BY <1>4, <3>2
    <3> QED
      BY <3>1, <3>2
  <2>4. \A x \in Images : Spots(x)' = IF x = y THEN {<<q, h>>} ELSE Spots(x)
    <3> SUFFICES ASSUME NEW x \in Images
                 PROVE  Spots(x)' = IF x = y THEN {<<q, h>>} ELSE Spots(x)
      OBVIOUS
    <3>1. ASSUME NEW s \in Queues \X Slots
          PROVE  s \in Spots(x)' <=> s \in (IF x = y THEN {<<q, h>>} ELSE Spots(x))
      <4>1. PICK p \in Queues, k \in Slots : s = <<p, k>>
        OBVIOUS
      <4>2. s \in Spots(x)' <=> k \in Used(p)' /\ data'[p][k] = x
        BY <4>1 DEF Spots
      <4>3. s \in Spots(x) <=> k \in Used(p) /\ data[p][k] = x
        BY <4>1 DEF Spots
      <4>4. s = <<q, h>> => s \notin Spots(x)
        BY <1>4, <4>1, <4>3
      <4>5. CASE x = y
        BY <1>12, <2>3, <4>1, <4>2, <4>3, <4>5
      <4>6. CASE x # y
        BY <2>3, <4>1, <4>2, <4>3, <4>4, <4>6
      <4> QED
        BY <4>5, <4>6
    <3>2. Spots(x)' \subseteq Queues \X Slots /\ Spots(x) \subseteq Queues \X Slots
      BY DEF Spots
    <3> QED
      BY <3>1, <3>2
  <2>5. OnePlace(y)'
    BY <1>5, <1>12, <2>2, <2>4 DEF OnePlace
  <2>6. \A x \in Images : x # y => /\ OnePlace(x) => OnePlace(x)'
                                   /\ Nowhere(x) => Nowhere(x)'
    BY <1>5, <2>2, <2>4 DEF OnePlace, Nowhere
  <2>7. \A x \in Images : IF x <= cnt_enqueue' THEN OnePlace(x)' ELSE Nowhere(x)'
    BY <1>5, <1>12, <2>5, <2>6 DEF ImagesOK
  <2>8. \A p \in Queues : \A k \in Used(p)' : data'[p][k] \in Images
    BY <2>3 DEF ImagesOK, Used, Between
  <2> QED
    BY <2>7, <2>8 DEF ImagesOK
<1>14. WrittenCounted'
  BY <1>5 DEF WrittenCounted
<1> QED
  BY <1>7, <1>9, <1>10, <1>11, <1>13, <1>14

LEMMA DequeueOK ==
    ASSUME FerretInv, NEW w \in Workers, dequeue(w)
    PROVE  FerretInv'
<1> USE DEF FerretInv
<1>1. PICK q \in Queues : q = Before(w)
  BY Roles DEF dequeue
<1>2. PICK t \in Slots : t = tail[q]
  BY DEF FerretTypeOK
<1>3. PICK y \in Images : y = data[q][t]
  BY <1>1, <1>2, DequeueRing
<1>4. /\ w # Load /\ doing[w] = "dequeue" /\ holds[w] = NoImage
      /\ tail' = [tail EXCEPT ![q] = Following(t)] /\ Following(t) \in Slots
      /\ t \in Used(q) /\ Used(q)' = Used(q) \ {t}
      /\ \A p \in Queues \ {q} : Used(p)' = Used(p)
  BY <1>1, <1>2, DequeueRing
<1>5. /\ holds' = [holds EXCEPT ![w] = y]
      /\ doing' = [doing EXCEPT ![w] = IF w = Out THEN "write" ELSE "enqueue"]
      /\ ~IsEmpty(q)
      /\ UNCHANGED <<data, head, end_count, empty, cnt_enqueue, cnt_dequeue, written>>
  BY <1>1, <1>2, <1>3 DEF dequeue, Does, countVars
<1>6. full' \in [Queues -> SUBSET Workers]
  BY DEF dequeue, Signal, FerretTypeOK
<1>7. FerretTypeOK'
  <2>1. holds' \in [Workers -> Images \cup {NoImage}]
    BY <1>5 DEF FerretTypeOK
  <2>2. doing' \in [Workers -> {"load", "dequeue", "enqueue", "write", "terminate", "end"}]
    BY <1>5 DEF FerretTypeOK
  <2>3. tail' \in [Queues -> Slots]
    BY <1>4 DEF FerretTypeOK
  <2> QED
    BY <1>5, <1>6, <2>1, <2>2, <2>3 DEF FerretTypeOK
<1>8. \A v \in Workers :
         /\ doing'[v] = IF v = w THEN (IF w = Out THEN "write" ELSE "enqueue") ELSE doing[v]
         /\ holds'[v] = IF v = w THEN y ELSE holds[v]
  BY <1>5 DEF FerretTypeOK
<1>9. \A x \in Images : x # NoImage
  BY FerretAssumption DEF Images
<1>10. DeedsOK'
  BY <1>4, <1>8, <1>9, Ends DEF DeedsOK, Deeds
<1>11. CountOK' /\ \A p \in Queues : Ended(p)' = Ended(p)
  BY <1>4, <1>5, <1>8, EndedStays
<1>12. EndOK'
  <2>1. \A p \in Queues : Drained(p) => Drained(p)'
    <3> SUFFICES ASSUME NEW p \in Queues, Drained(p)
                 PROVE  Drained(p)'
      OBVIOUS
    <3>1. p # q
      BY <1>5 DEF Drained
    <3>2. IsEmpty(p)'
      BY <1>4, <1>5, <3>1 DEF Drained, IsEmpty, FerretTypeOK
    <3> QED
      BY <1>11, <3>2 DEF Drained, ProducersOf
  <2> QED
    BY <1>4, <1>8, <2>1, NobodyTold
<1>13. y <= cnt_enqueue /\ y \notin written /\ Hands(y) = {} /\ Spots(y) = {<<q, t>>}
  <2>1. <<q, t>> \in Spots(y)
    BY <1>3, <1>4 DEF Spots
  <2>2. y <= cnt_enqueue /\ OnePlace(y)
    BY <2>1 DEF ImagesOK, Nowhere
  <2> QED
    BY <2>1, <2>2 DEF OnePlace
<1>14. ImagesOK'
  <2>1. \A x \in Images : Hands(x)' = IF x = y THEN {w} ELSE Hands(x)
    <3> SUFFICES ASSUME NEW x \in Images
                 PROVE  Hands(x)' = IF x = y THEN {w} ELSE Hands(x)
      OBVIOUS
    <3>1. CASE x = y
      BY <1>8, <1>13, <3>1 DEF Hands
    <3>2. CASE x # y
      BY <1>4, <1>8, <1>9, <3>2 DEF Hands
    <3> QED
      BY <3>1, <3>2
  <2>2. ASSUME NEW p \in Queues, NEW k \in Slots
        PROVE  k \in Used(p)' <=> k \in Used(p) /\ <<p, k>> # <<q, t>>
    <3>1. CASE p = q
      BY <1>4, <3>1
    <3>2. CASE p # q
      BY <1>4, <3>2
    <3> QED
      BY <3>1, <3>2
  <2>3. \A x \in Images : Spots(x)' = IF x = y THEN {} ELSE Spots(x)
    <3> SUFFICES ASSUME NEW x \in Images
                 PROVE  Spots(x)' = IF x = y THEN {} ELSE Spots(x)
      OBVIOUS
    <3>1. ASSUME NEW s \in Queues \X Slots
          PROVE  s \in Spots(x)' <=> s \in (IF x = y THEN {} ELSE Spots(x))
      <4>1. PICK p \in Queues, k \in Slots : s = <<p, k>>
        OBVIOUS
      <4>2. s \in Spots(x)' <=> k \in Used(p)' /\ data[p][k] = x
        BY <1>5, <4>1 DEF Spots
      <4>3. s \in Spots(x) <=> k \in Used(p) /\ data[p][k] = x
        BY <4>1 DEF Spots
      <4>4. CASE x = y
        BY <1>13, <2>2, <4>1, <4>2, <4>3, <4>4
      <4>5. CASE x # y
        BY <1>3, <2>2, <4>1, <4>2, <4>3, <4>5
      <4> QED
        BY <4>4, <4>5
    <3>2. Spots(x)' \subseteq Queues \X Slots /\ Spots(x) \subseteq Queues \X Slots
      BY DEF Spots
    <3> QED
      BY <3>1, <3>2
  <2>4. OnePlace(y)'
    BY <1>5, <1>13, <2>1, <2>3 DEF OnePlace
  <2>5. \A x \in Images : x # y => /\ OnePlace(x) => OnePlace(x)'
                                   /\ Nowhere(x) => Nowhere(x)'
    BY <1>5, <2>1, <2>3 DEF OnePlace, Nowhere
  <2>6. \A x \in Images : IF x <= cnt_enqueue' THEN OnePlace(x)' ELSE Nowhere(x)'
    BY <1>5, <1>13, <2>4, <2>5 DEF ImagesOK
  <2>7. \A p \in Queues : \A k \in Used(p)' : data'[p][k] \in Images
    BY <1>5, <2>2 DEF ImagesOK, Used, Between
  <2> QED
    BY <2>6, <2>7 DEF ImagesOK
<1>15. WrittenCounted'
  BY <1>5 DEF WrittenCounted
<1> QED
  BY <1>7, <1>10, <1>11, <1>12, <1>14, <1>15

-------------------------------------------------------------------------------
(* The invariant and what follows from it.                                 *)

LEMMA StepOK ==
    FerretInv /\ [FerretNext]_ferretVars => FerretInv'
<1> SUFFICES ASSUME FerretInv, [FerretNext]_ferretVars
             PROVE  FerretInv'
  OBVIOUS
<1>1. CASE file_helper
  BY <1>1, FileOK
<1>2. CASE EndLoad
  BY <1>2, EndLoadOK
<1>3. ASSUME NEW w \in Workers, EnqueueWait(w) \/ DequeueWait(w)
      PROVE  FerretInv'
  BY <1>3, SleepOK
<1>4. ASSUME NEW w \in Workers, enqueue(w)
      PROVE  FerretInv'
  BY <1>4, EnqueueOK
<1>5. ASSUME NEW w \in Workers, dequeue(w)
      PROVE  FerretInv'
  BY <1>5, DequeueOK
<1>6. ASSUME NEW w \in Workers, DequeueEnd(w)
      PROVE  FerretInv'
  BY <1>6, DequeueEndOK
<1>7. ASSUME NEW w \in Workers, queue_signal_terminate(w)
      PROVE  FerretInv'
  BY <1>7, TerminateOK
<1>8. CASE Write
  BY <1>8, WriteOK
<1>9. ASSUME NEW q \in Queues, SpuriousWakeup(q)
      PROVE  FerretInv'
  BY <1>9, WakeupOK
<1>10. CASE UNCHANGED ferretVars
  BY <1>10, NothingMoves DEF ferretVars, queueVars, FerretInv, FerretTypeOK
<1>11. \A w \in Middle : w \in Workers
  BY DEF Workers
<1>12. CASE t_load
  BY <1>1, <1>2, <1>3, <1>4, <1>7, <1>12, Ends DEF t_load
<1>13. CASE t_out
  BY <1>3, <1>5, <1>6, <1>8, <1>13, Ends DEF t_out
<1>14. ASSUME NEW w \in Middle, t_middle(w)
       PROVE  FerretInv'
  BY <1>3, <1>4, <1>5, <1>6, <1>7, <1>11, <1>14 DEF t_middle
<1> QED
  BY <1>9, <1>10, <1>12, <1>13, <1>14 DEF FerretNext, FerretThreads

(* Every image that was found is in exactly one place, in every reachable  *)
(* state, and a thread is told the end only when nothing is left before it.*)
THEOREM FerretInvHolds == FerretSpec => []FerretInv
<1>1. FerretInit => FerretInv
  BY InitOK
<1>2. FerretInv /\ [FerretNext]_ferretVars => FerretInv'
  BY StepOK
<1> QED
  BY <1>1, <1>2, PTL DEF FerretSpec

LEMMA AllWritten ==
    FerretInv => EveryImageWritten
<1> SUFFICES ASSUME FerretInv, doing[Out] = "end"
             PROVE  /\ cnt_dequeue = cnt_enqueue
                    /\ written = 1 .. cnt_enqueue
                    /\ \A w \in Workers : holds[w] = NoImage
  BY DEF EveryImageWritten
<1> USE DEF FerretInv
<1>1. \A q \in Queues : Drained(q)
  BY Ends DEF EndOK, Queues
<1>2. \A w \in Workers : doing[w] = "end"
  <2> SUFFICES ASSUME NEW w \in Workers, w # Out
               PROVE  doing[w] = "end"
    OBVIOUS
  <2>1. After(w) \in Queues /\ w \in ProducersOf(After(w))
    BY WorkerFacts DEF ProducersOf
  <2> QED
    BY <1>1, <2>1 DEF Drained, Ended
<1>3. \A w \in Workers : holds[w] = NoImage
  BY <1>2 DEF DeedsOK
<1>4. \A q \in Queues : Used(q) = {}
  BY <1>1, RingEmpty DEF Drained, IsEmpty, Used, FerretTypeOK
<1>5. \A x \in Images : Hands(x) = {} /\ Spots(x) = {}
  BY <1>3, <1>4, FerretAssumption DEF Hands, Spots, Images
<1>6. \A x \in Images : x \in written <=> x <= cnt_enqueue
  BY <1>5 DEF ImagesOK, OnePlace, Nowhere
<1>7. cnt_enqueue \in Nat /\ cnt_enqueue <= MaxImages /\ MaxImages \in Nat
  BY FerretAssumption DEF FerretTypeOK
<1>8. written = 1 .. cnt_enqueue
  <2>1. ASSUME NEW x \in written
        PROVE  x \in 1 .. cnt_enqueue
    <3>1. x \in Images
      BY DEF FerretTypeOK
    <3> QED
      BY <1>6, <1>7, <3>1 DEF Images
  <2>2. ASSUME NEW x \in 1 .. cnt_enqueue
        PROVE  x \in written
    <3>1. x \in Images /\ x <= cnt_enqueue
      BY <1>7 DEF Images
    <3> QED
      BY <1>6, <3>1
  <2> QED
    BY <2>1, <2>2
<1>9. Cardinality(1 .. cnt_enqueue) = cnt_enqueue
  BY <1>7, FS_Interval
<1> QED
  BY <1>3, <1>8, <1>9 DEF WrittenCounted

(* When t_out ends, every image that t_load found was written exactly once *)
(* and no thread has one in its hands.                                     *)
THEOREM EveryImageWrittenHolds == FerretSpec => []EveryImageWritten
BY FerretInvHolds, AllWritten, PTL

-------------------------------------------------------------------------------
(* Every queue implements Channel.                                         *)

LEMMA EnqueueSends ==
    ASSUME FerretInv, NEW w \in Workers, enqueue(w), NEW p \in Queues
    PROVE  [Pipe(p)!Next]_(Pipe(p)!vars)
<1> USE DEF FerretInv
<1>1. PICK q \in Queues : q = After(w)
  BY Roles DEF enqueue
<1>2. /\ w \in ProducersOf(q) /\ doing[w] = "enqueue" /\ holds[w] \in Images
      /\ Len(Contents(q)) < DEPTH - 1
      /\ Contents(q)' = Append(Contents(q), holds[w])
      /\ p # q => Contents(p)' = Contents(p)
  BY <1>1, EnqueueRing
<1>3. doing' = [doing EXCEPT ![w] = IF w = Load THEN "load" ELSE "dequeue"]
  BY DEF enqueue, Does
<1>4. \A v \in Workers : v # w => doing'[v] = doing[v]
  BY <1>3 DEF FerretTypeOK
<1>5. doing'[w] \notin {"terminate", "end"} /\ doing[w] \notin {"terminate", "end"}
  BY <1>2, <1>3 DEF FerretTypeOK
<1>6. /\ {v \in ProducersOf(p) : doing'[v] = "end"} = {v \in ProducersOf(p) : doing[v] = "end"}
      /\ {v \in ConsumersOf(p) : doing'[v] \in {"terminate", "end"}} =
         {v \in ConsumersOf(p) : doing[v] \in {"terminate", "end"}}
  BY <1>4, <1>5 DEF ProducersOf, ConsumersOf
<1>7. CASE p = q
  <2>1. {v \in ProducersOf(p) : doing[v] = "end"} # ProducersOf(p)
    BY <1>2, <1>7
  <2>2. Pipe(p)!Send
    BY <1>2, <1>6, <1>7, <2>1 DEF Pipe!Send, ProducersOf, ConsumersOf
  <2> QED
    BY <2>2 DEF Pipe!Next
<1>8. CASE p # q
  BY <1>2, <1>6, <1>8 DEF Pipe!vars, ProducersOf, ConsumersOf
<1> QED
  BY <1>7, <1>8

LEMMA DequeueReceives ==
    ASSUME FerretInv, NEW w \in Workers, dequeue(w), NEW p \in Queues
    PROVE  [Pipe(p)!Next]_(Pipe(p)!vars)
<1> USE DEF FerretInv
<1>1. PICK q \in Queues : q = Before(w)
  BY Roles DEF dequeue
<1>2. /\ doing[w] = "dequeue" /\ Contents(q) # <<>>
      /\ Contents(q)' = Tail(Contents(q))
      /\ p # q => Contents(p)' = Contents(p)
  BY <1>1, DequeueRing
<1>3. doing' = [doing EXCEPT ![w] = IF w = Out THEN "write" ELSE "enqueue"]
  BY DEF dequeue, Does
<1>4. \A v \in Workers : v # w => doing'[v] = doing[v]
  BY <1>3 DEF FerretTypeOK
<1>5. doing'[w] \notin {"terminate", "end"} /\ doing[w] \notin {"terminate", "end"}
  BY <1>2, <1>3 DEF FerretTypeOK
<1>6. /\ {v \in ProducersOf(p) : doing'[v] = "end"} = {v \in ProducersOf(p) : doing[v] = "end"}
      /\ {v \in ConsumersOf(p) : doing'[v] \in {"terminate", "end"}} =
         {v \in ConsumersOf(p) : doing[v] \in {"terminate", "end"}}
  BY <1>4, <1>5 DEF ProducersOf, ConsumersOf
<1>7. CASE p = q
  <2>1. Pipe(p)!Receive
    BY <1>2, <1>6, <1>7 DEF Pipe!Receive, ProducersOf, ConsumersOf
  <2> QED
    BY <2>1 DEF Pipe!Next
<1>8. CASE p # q
  BY <1>2, <1>6, <1>8 DEF Pipe!vars, ProducersOf, ConsumersOf
<1> QED
  BY <1>7, <1>8

LEMMA DequeueEndEnds ==
    ASSUME FerretInv, NEW w \in Workers, DequeueEnd(w), NEW p \in Queues
    PROVE  [Pipe(p)!Next]_(Pipe(p)!vars)
<1> USE DEF FerretInv
<1>1. PICK q \in Queues : q = Before(w)
  BY Roles DEF DequeueEnd
<1>2. /\ doing[w] = "dequeue" /\ IsEmpty(q) /\ end_count[q] = prod_threads(q)
      /\ doing' = [doing EXCEPT ![w] = IF w = Out THEN "end" ELSE "terminate"]
      /\ UNCHANGED <<data, head, tail>>
  BY <1>1 DEF DequeueEnd, Does
<1>3. Contents(p)' = Contents(p)
  BY <1>2 DEF Contents
<1>4. \A v \in Workers : v # w => doing'[v] = doing[v]
  BY <1>2 DEF FerretTypeOK
<1>5. /\ doing'[w] \in {"terminate", "end"}
      /\ w # Out => doing'[w] # "end"
      /\ w = Out => w \notin ProducersOf(p)
  BY <1>2, WorkerFacts DEF FerretTypeOK, ProducersOf
<1>6. {v \in ProducersOf(p) : doing'[v] = "end"} = {v \in ProducersOf(p) : doing[v] = "end"}
  BY <1>2, <1>4, <1>5 DEF ProducersOf
<1>7. CASE p = q
  <2>1. w \in ConsumersOf(p)
    BY <1>1, <1>7 DEF ConsumersOf
  <2>2. {v \in ConsumersOf(p) : doing'[v] \in {"terminate", "end"}} =
        {v \in ConsumersOf(p) : doing[v] \in {"terminate", "end"}} \cup {w}
    BY <1>4, <1>5, <2>1 DEF ConsumersOf
  <2>3. Drained(p)
    <3>1. p \in 0 .. p
      BY FerretAssumption DEF Queues
    <3> QED
      BY <1>2, <1>7, <3>1, NothingLeft
  <2>4. Contents(p) = <<>>
    <3>1. Contents(p) = Seqn(data[p], head[p], tail[p])
      BY DEF Contents, Seqn
    <3>2. head[p] \in Slots /\ tail[p] = head[p]
      BY <2>3 DEF Drained, IsEmpty, FerretTypeOK
    <3> QED
      BY <3>1, <3>2, RingEmpty
  <2>5. {v \in ProducersOf(p) : doing[v] = "end"} = ProducersOf(p)
    BY <2>3 DEF Drained, Ended
  <2>6. Pipe(p)!End(w)
    BY <1>3, <1>6, <2>2, <2>4, <2>5 DEF Pipe!End, ProducersOf, ConsumersOf
  <2> QED
    BY <2>1, <2>6 DEF Pipe!Next
<1>8. CASE p # q
  <2>1. w \notin ConsumersOf(p)
    BY <1>1, <1>8 DEF ConsumersOf
  <2>2. {v \in ConsumersOf(p) : doing'[v] \in {"terminate", "end"}} =
        {v \in ConsumersOf(p) : doing[v] \in {"terminate", "end"}}
    BY <1>4, <2>1 DEF ConsumersOf
  <2> QED
    BY <1>3, <1>6, <2>2 DEF Pipe!vars, ProducersOf, ConsumersOf
<1> QED
  BY <1>7, <1>8

LEMMA TerminateCloses ==
    ASSUME FerretInv, NEW w \in Workers, queue_signal_terminate(w), NEW p \in Queues
    PROVE  [Pipe(p)!Next]_(Pipe(p)!vars)
<1> USE DEF FerretInv
<1>1. PICK q \in Queues : q = After(w)
  BY Roles DEF queue_signal_terminate
<1>2. /\ doing[w] = "terminate" /\ doing' = [doing EXCEPT ![w] = "end"]
      /\ UNCHANGED <<data, head, tail>>
  BY DEF queue_signal_terminate, Does
<1>3. Contents(p)' = Contents(p)
  BY <1>2 DEF Contents
<1>4. doing'[w] = "end" /\ \A v \in Workers : v # w => doing'[v] = doing[v]
  BY <1>2 DEF FerretTypeOK
<1>5. {v \in ConsumersOf(p) : doing'[v] \in {"terminate", "end"}} =
      {v \in ConsumersOf(p) : doing[v] \in {"terminate", "end"}}
  BY <1>2, <1>4 DEF ConsumersOf
<1>6. CASE p = q
  <2>1. w \in ProducersOf(p) /\ w \notin {v \in ProducersOf(p) : doing[v] = "end"}
    BY <1>1, <1>2, <1>6 DEF ProducersOf
  <2>2. {v \in ProducersOf(p) : doing'[v] = "end"} =
        {v \in ProducersOf(p) : doing[v] = "end"} \cup {w}
    BY <1>4, <2>1 DEF ProducersOf
  <2>3. Pipe(p)!Close(w)
    BY <1>3, <1>5, <2>1, <2>2 DEF Pipe!Close, ProducersOf, ConsumersOf
  <2> QED
    BY <2>1, <2>3 DEF Pipe!Next
<1>7. CASE p # q
  <2>1. w \notin ProducersOf(p)
    BY <1>1, <1>7 DEF ProducersOf
  <2>2. {v \in ProducersOf(p) : doing'[v] = "end"} = {v \in ProducersOf(p) : doing[v] = "end"}
    BY <1>4, <2>1 DEF ProducersOf
  <2> QED
    BY <1>3, <1>5, <2>2 DEF Pipe!vars, ProducersOf, ConsumersOf
<1> QED
  BY <1>6, <1>7

(* The steps that leave the queues and the ends of the threads alone.      *)
LEMMA OthersStutter ==
    ASSUME FerretInv, NEW p \in Queues,
           \/ file_helper \/ EndLoad \/ Write
           \/ \E w \in Workers : EnqueueWait(w) \/ DequeueWait(w)
           \/ \E q \in Queues : SpuriousWakeup(q)
           \/ UNCHANGED ferretVars
    PROVE  [Pipe(p)!Next]_(Pipe(p)!vars)
<1>1. UNCHANGED <<data, head, tail>>
  BY DEF file_helper, EndLoad, Write, EnqueueWait, DequeueWait, SpuriousWakeup, ferretVars, queueVars
<1>2. \A w \in Workers :
         \/ doing'[w] = doing[w]
         \/ doing[w] \notin {"terminate", "end"} /\ doing'[w] \notin {"terminate", "end"}
         \/ w = Load /\ doing[w] # "end" /\ doing'[w] # "end"
  BY DEF file_helper, EndLoad, Write, EnqueueWait, DequeueWait, SpuriousWakeup, ferretVars, Does,
         FerretInv, FerretTypeOK
<1>3. Load \notin ConsumersOf(p)
  BY Ends, WorkerFacts DEF ConsumersOf
<1>4. {v \in ProducersOf(p) : doing'[v] = "end"} = {v \in ProducersOf(p) : doing[v] = "end"}
  BY <1>2 DEF ProducersOf
<1>5. {v \in ConsumersOf(p) : doing'[v] \in {"terminate", "end"}} =
      {v \in ConsumersOf(p) : doing[v] \in {"terminate", "end"}}
  BY <1>2, <1>3 DEF ConsumersOf
<1>6. Contents(p)' = Contents(p)
  BY <1>1 DEF Contents
<1> QED
  BY <1>4, <1>5, <1>6 DEF Pipe!vars, ProducersOf, ConsumersOf

LEMMA StepIsChannels ==
    FerretInv /\ [FerretNext]_ferretVars => \A p \in Queues : [Pipe(p)!Next]_(Pipe(p)!vars)
<1> SUFFICES ASSUME FerretInv, [FerretNext]_ferretVars, NEW p \in Queues
             PROVE  [Pipe(p)!Next]_(Pipe(p)!vars)
  OBVIOUS
<1> DEFINE Goal == [Pipe(p)!Next]_(Pipe(p)!vars)
<1>1. ASSUME NEW w \in Workers, enqueue(w)
      PROVE  Goal
  BY <1>1, EnqueueSends
<1>2. ASSUME NEW w \in Workers, dequeue(w)
      PROVE  Goal
  BY <1>2, DequeueReceives
<1>3. ASSUME NEW w \in Workers, DequeueEnd(w)
      PROVE  Goal
  BY <1>3, DequeueEndEnds
<1>4. ASSUME NEW w \in Workers, queue_signal_terminate(w)
      PROVE  Goal
  BY <1>4, TerminateCloses
<1>5. ASSUME \/ file_helper \/ EndLoad \/ Write
             \/ \E w \in Workers : EnqueueWait(w) \/ DequeueWait(w)
             \/ \E q \in Queues : SpuriousWakeup(q)
             \/ UNCHANGED ferretVars
      PROVE  Goal
  BY <1>5, OthersStutter
<1> HIDE DEF Goal
<1>6. \A w \in Middle : w \in Workers
  BY DEF Workers
<1>7. ASSUME t_load
      PROVE  Goal
  BY <1>1, <1>4, <1>5, <1>7, Ends DEF t_load
<1>8. ASSUME t_out
      PROVE  Goal
  BY <1>2, <1>3, <1>5, <1>8, Ends DEF t_out
<1>9. ASSUME NEW w \in Middle, t_middle(w)
      PROVE  Goal
  BY <1>1, <1>2, <1>3, <1>4, <1>5, <1>6, <1>9 DEF t_middle
<1>10. Goal
  BY <1>5, <1>7, <1>8, <1>9 DEF FerretNext, FerretThreads
<1> QED
  BY <1>10 DEF Goal

LEMMA ChannelsStartEmpty ==
    ASSUME FerretInit, NEW q \in Queues
    PROVE  Pipe(q)!Init
<1>1. Contents(q) = <<>>
  <2>1. Contents(q) = Seqn(data[q], head[q], tail[q]) /\ head[q] = 0 /\ tail[q] = 0
    BY DEF Contents, Seqn, FerretInit
  <2>2. 0 \in Slots
    BY FerretAssumption DEF Slots
  <2> QED
    BY <2>1, <2>2, RingEmpty
<1>2. {w \in ProducersOf(q) : doing[w] = "end"} = {}
  BY DEF FerretInit, ProducersOf
<1>3. {w \in ConsumersOf(q) : doing[w] \in {"terminate", "end"}} = {}
  BY DEF FerretInit, ConsumersOf
<1> QED
  BY <1>1, <1>2, <1>3 DEF Pipe!Init

(* Every queue starts empty and open, and every step of every thread is a  *)
(* step of its bounded first-in first-out channel or leaves it alone.      *)
THEOREM QueuesAreChannelsHolds ==
    FerretSpec => (\A q \in Queues : Pipe(q)!Init) /\ QueuesAreChannels
<1>1. FerretInit => \A q \in Queues : Pipe(q)!Init
  BY ChannelsStartEmpty
<1>2. FerretInv /\ [FerretNext]_ferretVars => \A q \in Queues : [Pipe(q)!Next]_(Pipe(q)!vars)
  BY StepIsChannels
<1> QED
  BY <1>1, <1>2, FerretInvHolds, PTL DEF FerretSpec, QueuesAreChannels

===============================================================================
