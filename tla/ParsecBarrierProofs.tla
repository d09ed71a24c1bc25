-------------------------- MODULE ParsecBarrierProofs --------------------------
(***************************************************************************)
(* The barrier of PARSEC for every number of threads and of uses, in both  *)
(* builds: IndInv is inductive, and with it nobody returns early, no wakeup*)
(* is lost, each use has one serial thread, and the barrier implements     *)
(* Rendezvous.                                                             *)
(***************************************************************************)
EXTENDS ParsecBarrier, FiniteSetTheorems, TLAPS

USE BarrierAssumption

LEMMA MaxType == max \in Nat \ {0}
  BY FS_CardinalityType, FS_EmptySet DEF max

LEMMA InsideFinite == IsFiniteSet(Inside) /\ Cardinality(Inside) \in Nat /\ Inside \subseteq Threads
  BY FS_Subset, FS_CardinalityType DEF Inside

(* n counts the threads inside.                                            *)
LEMMA NobodyInside == ASSUME IndInv PROVE n = 0 <=> Inside = {}
  BY InsideFinite, FS_EmptySet DEF IndInv

(* The last to arrive is the only one outside.                             *)
LEMMA LastToArrive ==
    ASSUME IndInv, NEW t \in Threads, t \notin Inside, n + 1 >= max
    PROVE  n + 1 = max /\ Inside = Threads \ {t}
<1>1. IsFiniteSet(Inside \cup {t}) /\ Cardinality(Inside \cup {t}) = n + 1
  BY InsideFinite, FS_AddElement DEF IndInv
<1>2. n + 1 <= max /\ (n + 1 = max => Inside \cup {t} = Threads)
  BY <1>1, InsideFinite, FS_Subset DEF max
<1> QED
  BY <1>2, MaxType DEF IndInv, TypeOK

(* What the steps into and out of the barrier do to the set of threads     *)
(* inside.                                                                 *)
LEMMA InsideSteps ==
    ASSUME TypeOK, NEW t \in Threads
    PROVE  /\ EnterWait(t) => Inside' = Inside \cup {t} /\ t \notin Inside
           /\ Leave(t) => Inside' = Inside \ {t} /\ t \in Inside
           /\ Call(t) \/ EnterBlocked(t) \/ EnterLast(t) \/ Stay(t) =>
                 Inside' = Inside
           /\ EnterBlocked(t) \/ EnterLast(t) \/ Call(t) => t \notin Inside
  BY DEF TypeOK, EnterWait, Enters, Leave, Returns, Call, EnterBlocked, EnterLast, Stay, Inside

-------------------------------------------------------------------------------

LEMMA InitEstablishes == Init => IndInv
<1> SUFFICES ASSUME Init PROVE IndInv
  OBVIOUS
<1>1. Inside = {} /\ Cardinality(Inside) = 0
  BY FS_EmptySet DEF Init, Inside
<1>2. TypeOK
  BY MaxType DEF Init, TypeOK
<1>3. ElectionOK
  BY <1>1 DEF Init, ElectionOK, Elected, Begun
<1> QED
  BY <1>1, <1>2, <1>3 DEF Init, IndInv, PhaseOK, NoLostWakeup

LEMMA TypeOKStep == IndInv /\ [Next]_vars => TypeOK'
<1> SUFFICES ASSUME IndInv, [Next]_vars PROVE TypeOK'
  OBVIOUS
<1> USE MaxType DEF IndInv, TypeOK
<1>1. ASSUME NEW t \in Threads, Call(t) PROVE TypeOK'
  BY <1>1 DEF Call
<1>2. ASSUME NEW t \in Threads, EnterBlocked(t) PROVE TypeOK'
  BY <1>2 DEF EnterBlocked, Enters
<1>3. ASSUME NEW t \in Threads, EnterWait(t) PROVE TypeOK'
  BY <1>3 DEF EnterWait, Enters
<1>4. ASSUME NEW t \in Threads, EnterLast(t) PROVE TypeOK'
  <2>1. returns[t] + 1 \in 1 .. Rounds
    BY <1>4 DEF EnterLast, Enters
  <2> QED
    BY <1>4, <2>1 DEF EnterLast, Enters, Returns
<1>5. ASSUME NEW t \in Threads, Stay(t) PROVE TypeOK'
  BY <1>5 DEF Stay
<1>6. ASSUME NEW t \in Threads, Leave(t) PROVE TypeOK'
  <2>1. returns[t] + 1 \in 1 .. Rounds
    BY <1>6 DEF Leave
  <2>2. n > 0
    BY <1>6 DEF Leave, PhaseOK
  <2> QED
    BY <1>6, <2>1, <2>2 DEF Leave, Returns
<1>7. CASE SpuriousWakeup
  BY <1>7 DEF SpuriousWakeup
<1>8. CASE Joined \/ UNCHANGED vars
  BY <1>8 DEF Joined, vars
<1> QED
  BY <1>1, <1>2, <1>3, <1>4, <1>5, <1>6, <1>7, <1>8 DEF Next, parsec_barrier_wait

LEMMA CountStep == IndInv /\ [Next]_vars => (n = Cardinality(Inside))'
<1> SUFFICES ASSUME IndInv, [Next]_vars PROVE n' = Cardinality(Inside')
  OBVIOUS
<1> USE DEF IndInv
<1>1. ASSUME NEW t \in Threads, Call(t) \/ EnterBlocked(t) \/ EnterLast(t) \/ Stay(t)
      PROVE  n' = Cardinality(Inside')
  <2>1. n' = n
    BY <1>1 DEF Call, EnterBlocked, EnterLast, Stay
  <2> QED
    BY <1>1, <2>1, InsideSteps
<1>2. ASSUME NEW t \in Threads, EnterWait(t) PROVE n' = Cardinality(Inside')
  <2>1. n' = n + 1
    BY <1>2 DEF EnterWait
  <2> QED
    BY <1>2, <2>1, InsideSteps, InsideFinite, FS_AddElement
<1>3. ASSUME NEW t \in Threads, Leave(t) PROVE n' = Cardinality(Inside')
  <2>1. n' = n - 1
    BY <1>3 DEF Leave
  <2> QED
    BY <1>3, <2>1, InsideSteps, InsideFinite, FS_RemoveElement
<1>4. CASE SpuriousWakeup \/ Joined \/ UNCHANGED vars
  <2>1. n' = n /\ at' = at
    BY <1>4 DEF SpuriousWakeup, Joined, vars
  <2> QED
    BY <2>1 DEF Inside
<1> QED
  BY <1>1, <1>2, <1>3, <1>4 DEF Next, parsec_barrier_wait

LEMMA RoundsStep ==
    IndInv /\ [Next]_vars => (\A t \in Threads : at[t] # "outside" => returns[t] < Rounds)'
  BY DEF IndInv, TypeOK, Next, parsec_barrier_wait, Call, EnterBlocked, EnterWait, EnterLast,
         Enters, Returns, Stay, Leave, SpuriousWakeup, Joined, vars

LEMMA PhaseOKStep == IndInv /\ [Next]_vars => PhaseOK'
<1> SUFFICES ASSUME IndInv, [Next]_vars PROVE PhaseOK'
  OBVIOUS
<1> USE DEF IndInv, TypeOK, PhaseOK
<1>1. ASSUME NEW t \in Threads, Call(t) \/ EnterBlocked(t) \/ Stay(t) PROVE PhaseOK'
  <2>1. UNCHANGED <<n, is_arrival_phase, returns>>
    BY <1>1 DEF Call, EnterBlocked, Stay
  <2> QED
    BY <1>1, <2>1, InsideSteps
<1>2. ASSUME NEW t \in Threads, EnterWait(t) PROVE PhaseOK'
  BY <1>2 DEF EnterWait
<1>3. ASSUME NEW t \in Threads, EnterLast(t) PROVE PhaseOK'
  <2>1. Inside = Threads \ {t} /\ Inside' = Inside
    BY <1>3, InsideSteps, LastToArrive DEF EnterLast
  <2>2. \A u \in Threads : returns'[u] = returns[u] + (IF u = t THEN 1 ELSE 0)
    BY <1>3 DEF EnterLast, Returns
  <2>3. CASE n = 0
    <3>1. Threads = {t}
      BY <2>1, <2>3, NobodyInside
    <3> QED
      BY <1>3, <2>3, <3>1 DEF EnterLast
  <2>4. CASE n > 0
    <3>0. n # 0
      BY <2>4
    <3>1. ~is_arrival_phase' /\ n' = n
      BY <1>3, <3>0, Zenon DEF EnterLast
    <3>2. \A u, v \in Threads : returns[u] = returns[v]
      BY <1>3 DEF EnterLast
    <3>3. ASSUME NEW u \in Threads, NEW v \in Threads, u \in Inside'
          PROVE  returns'[v] = returns'[u] + (IF v \in Inside' THEN 0 ELSE 1)
      <4>1. returns'[u] = returns[u]
        BY <2>1, <2>2, <3>3
      <4>2. v \in Inside' <=> v # t
        BY <2>1
      <4>3. returns[v] = returns[u]
        BY <3>2
      <4> QED
        BY <2>2, <4>1, <4>2, <4>3
    <3> QED
      BY <2>4, <3>1, <3>3
  <2> QED
    BY <2>3, <2>4
<1>4. ASSUME NEW t \in Threads, Leave(t) PROVE PhaseOK'
  <2>1. Inside' = Inside \ {t} /\ t \in Inside
    BY <1>4, InsideSteps
  <2>2. \A u \in Threads : returns'[u] = returns[u] + (IF u = t THEN 1 ELSE 0)
    BY <1>4 DEF Leave, Returns
  <2>3. CASE n = 1
    <3>1. Inside' = {}
      <4> HIDE DEF IndInv
      <4>1. Cardinality(Inside) = 1
        BY <2>3 DEF IndInv
      <4>2. IsFiniteSet(Inside \ {t}) /\ Cardinality(Inside \ {t}) = 0
        BY <2>1, <4>1, InsideFinite, FS_RemoveElement
      <4> QED
        BY <2>1, <4>2, FS_EmptySet
    <3>2. is_arrival_phase'
      BY <1>4, <2>3 DEF Leave
    <3> QED
      BY <1>4, <2>1, <2>2, <3>1, <3>2 DEF Leave
  <2>4. CASE n # 1
    BY <1>4, <2>1, <2>2, <2>4 DEF Leave
  <2> QED
    BY <2>3, <2>4
<1>5. CASE SpuriousWakeup \/ Joined \/ UNCHANGED vars
  BY <1>5 DEF SpuriousWakeup, Joined, vars, Inside
<1> QED
  BY <1>1, <1>2, <1>3, <1>4, <1>5 DEF Next, parsec_barrier_wait

LEMMA NoLostWakeupStep == IndInv /\ [Next]_vars => NoLostWakeup'
<1> SUFFICES ASSUME IndInv, [Next]_vars PROVE NoLostWakeup'
  OBVIOUS
<1> USE DEF IndInv, TypeOK, NoLostWakeup
<1>1. ASSUME NEW t \in Threads, Call(t) PROVE NoLostWakeup'
  BY <1>1 DEF Call
<1>2. ASSUME NEW t \in Threads, EnterBlocked(t) PROVE NoLostWakeup'
  BY <1>2 DEF EnterBlocked, Enters
<1>3. ASSUME NEW t \in Threads, EnterWait(t) PROVE NoLostWakeup'
  BY <1>3 DEF EnterWait, Enters
<1>4. ASSUME NEW t \in Threads, EnterLast(t) PROVE NoLostWakeup'
  BY <1>4 DEF EnterLast
<1>5. ASSUME NEW t \in Threads, Stay(t) PROVE NoLostWakeup'
  BY <1>5 DEF Stay
<1>6. ASSUME NEW t \in Threads, Leave(t) PROVE NoLostWakeup'
  BY <1>6 DEF Leave, Returns
<1>7. CASE SpuriousWakeup
  BY <1>7 DEF SpuriousWakeup
<1>8. CASE Joined \/ UNCHANGED vars
  BY <1>8 DEF Joined, vars
<1> QED
  BY <1>1, <1>2, <1>3, <1>4, <1>5, <1>6, <1>7, <1>8 DEF Next, parsec_barrier_wait

(* A step that changes neither who is elected nor which uses have begun.   *)
LEMMA SameElection ==
    ASSUME ElectionOK,
           \A k \in 1 .. Rounds : Elected(k)' = Elected(k) /\ (Begun(k)' <=> Begun(k))
    PROVE  ElectionOK'
  BY DEF ElectionOK

LEMMA ElectionOKStep == IndInv /\ [Next]_vars => ElectionOK'
<1> SUFFICES ASSUME IndInv, [Next]_vars PROVE ElectionOK'
  OBVIOUS
<1>0. TypeOK /\ PhaseOK /\ ElectionOK
  BY DEF IndInv
<1>1. CASE UNCHANGED <<Inside, master, returns, serial>>
  BY <1>0, <1>1, SameElection DEF Elected, Begun
<1>2. ASSUME NEW t \in Threads, Call(t) \/ EnterBlocked(t) \/ Stay(t) PROVE ElectionOK'
  <2>1. UNCHANGED <<master, returns, serial>>
    BY <1>2 DEF Call, EnterBlocked, Stay
  <2> QED
    BY <1>0, <1>1, <1>2, <2>1, InsideSteps
<1>3. ASSUME NEW t \in Threads, EnterWait(t) PROVE ElectionOK'
  <2> DEFINE r == returns[t] + 1
  <2>1. Inside' = Inside \cup {t} /\ t \notin Inside
    BY <1>0, <1>3, InsideSteps
  <2>2. /\ UNCHANGED <<returns, serial>>
        /\ \A u \in Threads : u # t => master'[u] = master[u]
        /\ \A u \in Threads : returns[u] = returns[t]
    BY <1>0, <1>3 DEF EnterWait, TypeOK, PhaseOK
  <2>3. \A k \in 1 .. Rounds : k # r => Elected(k)' = Elected(k) /\ (Begun(k)' <=> Begun(k))
    BY <1>0, <2>1, <2>2 DEF Elected, Begun, TypeOK
  <2>4. \A k \in 1 .. Rounds : k = r => Begun(k)'
    BY <2>1, <2>2 DEF Begun
  <2>5. CASE n = 0
    <3>1. Inside = {}
      BY <2>5, NobodyInside
    <3>2. ~Begun(r)
      BY <1>0, <2>2, <3>1 DEF Begun, TypeOK
    <3>3. r \in 1 .. Rounds => Elected(r) = {}
      BY <1>0, <3>2 DEF ElectionOK
    <3>4. master'[t] = TRUE
      BY <1>0, <1>3, <2>5, Zenon DEF EnterWait, TypeOK
    <3>5. \A k \in 1 .. Rounds : k = r => Elected(k)' = {t}
      BY <2>1, <2>2, <3>1, <3>3, <3>4 DEF Elected
    <3> QED
      BY <1>0, <2>3, <2>4, <3>5 DEF ElectionOK
  <2>6. CASE n # 0
    <3>1. PICK u \in Threads : u \in Inside
      BY <2>6, NobodyInside DEF Inside
    <3>2. Begun(r)
      BY <2>2, <3>1 DEF Begun
    <3>3. ~master'[t]
      BY <1>0, <1>3, <2>6, Zenon DEF EnterWait, TypeOK
    <3>4. \A k \in 1 .. Rounds : k = r => Elected(k)' = Elected(k)
      BY <2>1, <2>2, <3>3 DEF Elected
    <3> QED
      BY <1>0, <2>3, <2>4, <3>2, <3>4, SameElection
  <2> QED
    BY <2>5, <2>6
<1>4. ASSUME NEW t \in Threads, EnterLast(t) PROVE ElectionOK'
  <2> DEFINE r == returns[t] + 1
  <2>1. Inside' = Inside /\ Inside = Threads \ {t}
    BY <1>0, <1>4, InsideSteps, LastToArrive DEF EnterLast
  <2>2. /\ returns' = [returns EXCEPT ![t] = r]
        /\ \A u \in Threads : u # t => master'[u] = master[u]
        /\ \A u \in Threads : returns[u] = returns[t]
    BY <1>0, <1>4 DEF EnterLast, Returns, TypeOK, PhaseOK
  <2>3. r \in 1 .. Rounds
    BY <1>0, <1>4 DEF EnterLast, Enters, IndInv, TypeOK
  <2>4. CASE n = 0
    <3>1. Threads = {t} /\ Inside = {}
      BY <2>1, <2>4, NobodyInside
    <3>2. serial' = serial \cup {<<t, r>>}
      BY <1>4, <2>4 DEF EnterLast, Returns
    <3>3. returns'[t] = r /\ returns[t] \in Nat
      BY <1>0, <2>2 DEF TypeOK
    <3>4. \A k \in 1 .. Rounds : Begun(k)' <=> Begun(k) \/ k = r
      BY <2>1, <3>1, <3>3 DEF Begun
    <3>5. Elected(r) = {}
      BY <1>0, <2>3, <3>1, <3>3 DEF ElectionOK, Begun
    <3>6. \A k \in 1 .. Rounds : Elected(k)' = IF k = r THEN {t} ELSE Elected(k)
      BY <2>1, <3>1, <3>2, <3>5 DEF Elected
    <3> QED
      BY <1>0, <2>3, <3>4, <3>6 DEF ElectionOK
  <2>5. CASE n # 0
    <3>1. serial' = serial
      BY <1>4, <2>5 DEF EnterLast, Returns
    <3>2. PICK u \in Threads : u \in Inside
      BY <2>5, NobodyInside DEF Inside
    <3>3. \A k \in 1 .. Rounds : Elected(k)' = Elected(k)
      BY <1>0, <2>1, <2>2, <3>1 DEF Elected, TypeOK
    <3>4. \A v \in Threads : v \in Inside => returns'[v] = returns[v]
      BY <1>0, <2>1, <2>2 DEF TypeOK
    <3>5. returns'[t] = r /\ returns[u] + 1 = r /\ returns[t] \in Nat
      BY <1>0, <2>2 DEF TypeOK
    <3>6. \A k \in 1 .. Rounds : Begun(k)' <=> Begun(k)
      BY <2>1, <3>2, <3>4, <3>5 DEF Begun
    <3> QED
      BY <1>0, <3>3, <3>6, SameElection
  <2> QED
    BY <2>4, <2>5
<1>5. ASSUME NEW t \in Threads, Leave(t) PROVE ElectionOK'
  <2> DEFINE r == returns[t] + 1
  <2>1. Inside' = Inside \ {t} /\ t \in Inside
    BY <1>0, <1>5, InsideSteps
  <2>2. /\ returns'[t] = r /\ returns[t] \in Nat
        /\ \A u \in Threads : u # t => returns'[u] = returns[u]
        /\ master' = master
    BY <1>0, <1>5 DEF Leave, Returns, TypeOK
  <2>3. serial' = IF master[t] THEN serial \cup {<<t, r>>} ELSE serial
    BY <1>5 DEF Leave, Returns
  <2>4. \A k \in 1 .. Rounds : Elected(k)' = Elected(k)
    BY <2>1, <2>2, <2>3 DEF Elected
  <2>5. \A k \in 1 .. Rounds : Begun(k)' <=> Begun(k)
    BY <2>1, <2>2 DEF Begun
  <2> QED
    BY <1>0, <2>4, <2>5, SameElection
<1>6. CASE SpuriousWakeup \/ Joined \/ UNCHANGED vars
  BY <1>1, <1>6 DEF SpuriousWakeup, Joined, vars, Inside
<1> QED
  BY <1>2, <1>3, <1>4, <1>5, <1>6 DEF Next, parsec_barrier_wait

-------------------------------------------------------------------------------

(* IndInv holds in every reachable state.                                  *)
THEOREM IndInvHolds == Spec => []IndInv
<1>1. IndInv /\ [Next]_vars => IndInv'
  BY TypeOKStep, CountStep, RoundsStep, PhaseOKStep, NoLostWakeupStep, ElectionOKStep
     DEF IndInv
<1> QED
  BY <1>1, InitEstablishes, PTL DEF Spec

(* Every variable keeps its type: n never reaches max outside a critical   *)
(* section and never becomes negative.                                     *)
THEOREM TypesHold == Spec => []TypeOK
  BY IndInvHolds, PTL DEF IndInv

(* parsec_barrier_wait holds every thread until all have called it.        *)
THEOREM NobodyIsEarly == Spec => []NoEarlyReturn
<1>1. ASSUME IndInv PROVE NoEarlyReturn
  <2> SUFFICES ASSUME NEW t \in Threads, NEW u \in Threads PROVE returns[t] <= Calls(u)
    BY DEF NoEarlyReturn
  <2>1. returns[t] \in Nat /\ returns[u] \in Nat
    BY <1>1 DEF IndInv, TypeOK
  <2>2. CASE is_arrival_phase
    BY <1>1, <2>1, <2>2 DEF IndInv, PhaseOK, Calls
  <2>3. CASE ~is_arrival_phase
    <3>1. PICK w \in Threads : w \in Inside
      BY <1>1, <2>3, NobodyInside DEF IndInv, PhaseOK, Inside
    <3>2. returns[w] \in Nat
      BY <1>1 DEF IndInv, TypeOK
    <3>3. /\ returns[t] = returns[w] + (IF t \in Inside THEN 0 ELSE 1)
          /\ returns[u] = returns[w] + (IF u \in Inside THEN 0 ELSE 1)
      BY <1>1, <2>3, <3>1 DEF IndInv, PhaseOK
    <3> QED
      BY <3>2, <3>3 DEF Calls, Inside
  <2> QED
    BY <2>2, <2>3
<1> QED
  BY <1>1, IndInvHolds, PTL

(* No thread sleeps on the shared condition variable when the phase it     *)
(* waits for has come.                                                     *)
THEOREM NoWakeupIsLost == Spec => []NoLostWakeup
  BY IndInvHolds, PTL DEF IndInv

(* Each use of the barrier has exactly one serial thread.                  *)
THEOREM SerialThreadIsUnique == Spec => []OneSerialThread
<1>1. ASSUME IndInv PROVE OneSerialThread
  <2> SUFFICES ASSUME NEW k \in 1 .. Rounds
               PROVE  /\ \A t, u \in Threads : <<t, k>> \in serial /\ <<u, k>> \in serial => t = u
                      /\ (\A t \in Threads : returns[t] >= k)
                            => \E t \in Threads : <<t, k>> \in serial
    BY DEF OneSerialThread
  <2>1. \A t, u \in Threads : <<t, k>> \in serial /\ <<u, k>> \in serial => t = u
    BY <1>1 DEF IndInv, ElectionOK, Elected
  <2>2. ASSUME \A t \in Threads : returns[t] >= k PROVE \E t \in Threads : <<t, k>> \in serial
    <3>1. Begun(k)
      BY <2>2 DEF Begun
    <3>2. PICK t \in Threads : <<t, k>> \in serial \/ returns[t] + 1 = k
      BY <1>1, <3>1 DEF IndInv, ElectionOK, Elected
    <3>3. returns[t] \in Nat /\ returns[t] >= k
      BY <1>1, <2>2 DEF IndInv, TypeOK
    <3> QED
      BY <3>2, <3>3
  <2> QED
    BY <2>1, <2>2
<1> QED
  BY <1>1, IndInvHolds, PTL

-------------------------------------------------------------------------------

(* Leaving the barrier, as the last to arrive or after a wait, is Return.  *)
LEMMA ReturnImplements ==
    ASSUME IndInv, NEW t \in Threads, EnterLast(t) \/ Leave(t)
    PROVE  Meeting!Return(t)
<1>1. /\ returns[t] \in Nat /\ at[t] # "outside"
      /\ returns' = [returns EXCEPT ![t] = @ + 1]
      /\ at' = [at EXCEPT ![t] = "outside"]
      /\ DOMAIN at = Threads /\ DOMAIN returns = Threads
  BY DEF IndInv, TypeOK, EnterLast, Enters, Leave, Returns
<1>2. ASSUME NEW u \in Threads PROVE Calls(u) >= Calls(t)
  <2>0. returns[u] \in Nat
    BY DEF IndInv, TypeOK
  <2>1. CASE EnterLast(t)
    <3>1. returns[u] = returns[t]
      BY <2>1 DEF IndInv, PhaseOK, EnterLast
    <3>2. at[u] # "outside"
      BY <1>1, <2>1, LastToArrive, InsideSteps DEF EnterLast, IndInv, Inside
    <3> QED
      BY <1>1, <3>1, <3>2 DEF Calls
  <2>2. CASE Leave(t)
    <3>1. returns[u] = returns[t] + (IF u \in Inside THEN 0 ELSE 1)
      BY <2>2, InsideSteps DEF IndInv, PhaseOK, Leave
    <3> QED
      BY <1>1, <2>0, <3>1 DEF Calls, Inside
  <2> QED
    BY <2>1, <2>2
<1>3. \A u \in Threads : Calls(u)' = Calls(u)
  BY <1>1 DEF Calls
<1> QED
  BY <1>1, <1>2, <1>3 DEF Meeting!Return, Calls

LEMMA StepImplements ==
    IndInv /\ [Next]_vars
        => [\E t \in Threads : Meeting!Call(t) \/ Meeting!Return(t)]_(Meeting!vars)
<1> SUFFICES ASSUME IndInv, [Next]_vars
             PROVE  [\E t \in Threads : Meeting!Call(t) \/ Meeting!Return(t)]_(Meeting!vars)
  OBVIOUS
<1>1. ASSUME NEW t \in Threads, Call(t) PROVE Meeting!Call(t)
  <2>1. /\ at[t] = "outside" /\ at' = [at EXCEPT ![t] = "called"] /\ returns' = returns
        /\ DOMAIN at = Threads /\ returns[t] \in Nat
    BY <1>1 DEF Call, IndInv, TypeOK
  <2>2. \A u \in Threads : Calls(u)' = IF u = t THEN Calls(u) + 1 ELSE Calls(u)
    BY <2>1 DEF Calls
  <2>3. Calls(t) = returns[t]
    BY <2>1 DEF Calls
  <2> QED
    BY <2>1, <2>2, <2>3 DEF Meeting!Call
<1>2. ASSUME NEW t \in Threads, EnterBlocked(t) \/ EnterWait(t) \/ Stay(t)
      PROVE  UNCHANGED Meeting!vars
  <2>1. returns' = returns /\ \A u \in Threads : (at'[u] = "outside") <=> (at[u] = "outside")
    BY <1>2 DEF EnterBlocked, EnterWait, Stay, Enters, IndInv, TypeOK
  <2> QED
    BY <2>1 DEF Meeting!vars, Calls
<1>3. CASE SpuriousWakeup \/ Joined \/ UNCHANGED vars
  BY <1>3 DEF SpuriousWakeup, Joined, vars, Meeting!vars, Calls
<1> QED
  BY <1>1, <1>2, <1>3, ReturnImplements DEF Next, parsec_barrier_wait

(* The barrier of parsec_barrier.cpp is a rendezvous of all its threads.   *)
THEOREM BarrierImplementsRendezvous == Spec => ImplementsRendezvous
<1>1. Init => Meeting!Init
  BY DEF Init, Meeting!Init, Calls
<1> QED
  BY <1>1, StepImplements, IndInvHolds, PTL DEF Spec, ImplementsRendezvous, Meeting!Spec

===============================================================================
