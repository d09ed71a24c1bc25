---------------------------- MODULE TestPathProofs -----------------------------
(* Proofs about the parallel search: its answer is right for every graph,  *)
(* every team of threads and every interleaving.                           *)
EXTENDS TestPath, FiniteSetTheorems, TLAPS

(* Reachability.                                                           *)

LEMMA ReachSource == Reachable(source)
BY DEF Reachable, Closed

(* Whatever has an arc from a node that can be reached can be reached.     *)
LEMMA ReachSuccessor ==
    ASSUME NEW u, NEW v \in graph[u], Reachable(u)
    PROVE  Reachable(v)
BY DEF Reachable, Closed

(* Reachability does not change during the search.                         *)
LEMMA ReachStable ==
    ASSUME graph' = graph, NEW v
    PROVE  Reachable(v)' <=> Reachable(v)
BY DEF Reachable, Closed

(* A closed set of nodes without v shows that v cannot be reached.         *)
LEMMA NotReachable ==
    ASSUME NEW S \in SUBSET Nodes, Closed(S), NEW v, v \notin S
    PROVE  ~Reachable(v)
BY DEF Reachable

-------------------------------------------------------------------------------
(* The stack as a sequence.                                                *)

Elements(s) == {s[i] : i \in DOMAIN s}

Distinct(s) == \A i, j \in DOMAIN s : s[i] = s[j] => i = j

(* Popping takes the top and leaves the rest.                              *)
LEMMA PopElements ==
    ASSUME NEW s \in Seq(Nodes), s # <<>>
    PROVE  LET top == s[Len(s)]
               rest == SubSeq(s, 1, Len(s) - 1) IN
           /\ top \in Nodes /\ rest \in Seq(Nodes)
           /\ Elements(s) = Elements(rest) \cup {top}
           /\ Distinct(s) => Distinct(rest) /\ top \notin Elements(rest)
<1> DEFINE top == s[Len(s)]
           rest == SubSeq(s, 1, Len(s) - 1)
<1>1. Len(s) \in Nat \ {0} /\ DOMAIN s = 1 .. Len(s) /\ top \in Nodes
  OBVIOUS
<1>2. /\ rest \in Seq(Nodes) /\ Len(rest) = Len(s) - 1 /\ DOMAIN rest = 1 .. Len(s) - 1
      /\ \A i \in 1 .. Len(s) - 1 : rest[i] = s[i]
  BY <1>1
<1> HIDE DEF rest
<1>3. Elements(s) = Elements(rest) \cup {top}
  BY <1>1, <1>2 DEF Elements
<1>4. Distinct(s) => Distinct(rest) /\ top \notin Elements(rest)
  BY <1>1, <1>2 DEF Elements, Distinct
<1> QED
  BY <1>1, <1>2, <1>3, <1>4 DEF rest

(* Pushing the elements of a set in some order adds them.                  *)
LEMMA PushElements ==
    ASSUME NEW s \in Seq(Nodes), NEW S \in SUBSET Nodes, IsFiniteSet(S), NEW new \in Orders(S)
    PROVE  /\ s \o new \in Seq(Nodes)
           /\ Elements(s \o new) = Elements(s) \cup S
           /\ Distinct(s) /\ S \cap Elements(s) = {} => Distinct(s \o new)
<1>1. Cardinality(S) \in Nat
  BY FS_CardinalityType
<1>2. new \in Seq(Nodes) /\ Len(new) = Cardinality(S) /\ DOMAIN new = 1 .. Cardinality(S)
  BY <1>1 DEF Orders
<1>3. Elements(new) = S
  BY <1>2 DEF Orders, Elements
<1>4. Distinct(new)
  <2>1. IsFiniteSet(1 .. Cardinality(S)) /\ Cardinality(1 .. Cardinality(S)) = Cardinality(S)
    BY <1>1, FS_Interval
  <2>2. new \in Surjection(1 .. Cardinality(S), S)
    BY DEF Orders, Surjection
  <2>3. new \in Injection(1 .. Cardinality(S), S)
    BY <2>1, <2>2, FS_SurjSameCardinalityImpliesInj
  <2> QED
    BY <2>3, <1>2 DEF Injection, IsInjective, Distinct
<1>5. s \o new \in Seq(Nodes)
  BY <1>2
<1>6. Elements(s \o new) = Elements(s) \cup S
  <2>1. /\ Len(s \o new) = Len(s) + Len(new) /\ DOMAIN (s \o new) = 1 .. Len(s) + Len(new)
        /\ DOMAIN s = 1 .. Len(s) /\ Len(s) \in Nat /\ Len(new) \in Nat
        /\ \A i \in 1 .. Len(s) : (s \o new)[i] = s[i]
        /\ \A i \in 1 .. Len(new) : (s \o new)[Len(s) + i] = new[i]
    BY <1>1, <1>2
  <2>2. \A i \in DOMAIN (s \o new) : (s \o new)[i] \in Elements(s) \cup Elements(new)
    <3> SUFFICES ASSUME NEW i \in 1 .. Len(s) + Len(new)
                 PROVE  (s \o new)[i] \in Elements(s) \cup Elements(new)
      BY <2>1
    <3>1. CASE i <= Len(s)
      BY <3>1, <2>1 DEF Elements
    <3>2. CASE i > Len(s)
      <4>1. i - Len(s) \in 1 .. Len(new) /\ Len(s) + (i - Len(s)) = i
        BY <3>2, <2>1
      <4> QED
        BY <4>1, <2>1, <1>2 DEF Elements
    <3> QED
      BY <3>1, <3>2, <2>1
  <2>3. \A i \in DOMAIN s : s[i] \in Elements(s \o new)
    BY <2>1 DEF Elements
  <2>4. \A i \in 1 .. Len(new) : new[i] \in Elements(s \o new)
    <3> SUFFICES ASSUME NEW i \in 1 .. Len(new)
                 PROVE  new[i] \in Elements(s \o new)
      OBVIOUS
    <3>1. Len(s) + i \in DOMAIN (s \o new)
      BY <2>1
    <3> QED
      BY <3>1, <2>1 DEF Elements
  <2> QED
    BY <2>2, <2>3, <2>4, <1>2, <1>3 DEF Elements
<1>7. ASSUME Distinct(s), S \cap Elements(s) = {}
      PROVE  Distinct(s \o new)
  <2> DEFINE both == s \o new
  <2>1. /\ DOMAIN both = 1 .. Len(s) + Len(new)
        /\ DOMAIN s = 1 .. Len(s) /\ Len(s) \in Nat /\ Len(new) \in Nat
        /\ \A i \in 1 .. Len(s) + Len(new) :
              IF i <= Len(s) THEN both[i] = s[i] /\ both[i] \in Elements(s)
              ELSE both[i] = new[i - Len(s)] /\ both[i] \in S /\ i - Len(s) \in DOMAIN new
    BY <1>1, <1>2, <1>3 DEF Elements
  <2> HIDE DEF both
  <2>2. \A i, j \in 1 .. Len(s) + Len(new) : both[i] = both[j] => i = j
    <3> SUFFICES ASSUME NEW i \in 1 .. Len(s) + Len(new), NEW j \in 1 .. Len(s) + Len(new),
                        both[i] = both[j]
                 PROVE  i = j
      OBVIOUS
    <3>1. CASE i <= Len(s) /\ j <= Len(s)
      BY <3>1, <2>1, <1>7 DEF Distinct
    <3>2. CASE i > Len(s) /\ j > Len(s)
      <4>1. i - Len(s) = j - Len(s)
        BY <3>2, <2>1, <1>4 DEF Distinct
      <4> QED
        BY <4>1, <2>1
    <3>3. CASE (i <= Len(s)) # (j <= Len(s))
      BY <3>3, <2>1, <1>7
    <3> QED
      BY <3>1, <3>2, <3>3, <2>1
  <2> QED
    BY <2>1, <2>2 DEF Distinct, both
<1> QED
  BY <1>5, <1>6, <1>7

-------------------------------------------------------------------------------
(* The nodes in the hands of the threads, and the threads that wait.       *)

LEMMA HeldPut ==
    ASSUME next \in [Threads -> Nodes \cup {TG_NULLID}], NEW t \in Threads, NEW v \in Nodes,
           next[t] = TG_NULLID, next' = [next EXCEPT ![t] = v]
    PROVE  Held' = Held \cup {v}
<1>1. v # TG_NULLID
  BY TestPathAssumption
<1>2. \A u \in Threads : next'[u] = IF u = t THEN v ELSE next[u]
  OBVIOUS
<1> QED
  BY <1>1, <1>2 DEF Held

LEMMA HeldDrop ==
    ASSUME next \in [Threads -> Nodes \cup {TG_NULLID}], NEW t \in Threads,
           \A u, w \in Threads : next[u] = next[w] /\ next[u] # TG_NULLID => u = w,
           next' = [next EXCEPT ![t] = TG_NULLID]
    PROVE  Held' = Held \ {next[t]}
<1>1. \A u \in Threads : next'[u] = IF u = t THEN TG_NULLID ELSE next[u]
  OBVIOUS
<1> QED
  BY <1>1 DEF Held

LEMMA WaitingFinite ==
    /\ IsFiniteSet(Waiting) /\ Cardinality(Waiting) \in 0 .. nthreads
    /\ Cardinality(Waiting) = nthreads => Waiting = Threads
<1>1. Waiting \in SUBSET Threads
  BY DEF Waiting
<1>2. /\ IsFiniteSet(Waiting) /\ Cardinality(Waiting) <= Cardinality(Threads)
      /\ Cardinality(Threads) = Cardinality(Waiting) => Threads = Waiting
  BY <1>1, FS_Subset, TestPathAssumption
<1>3. Cardinality(Waiting) \in Nat /\ Cardinality(Threads) \in Nat
  BY <1>2, FS_CardinalityType, TestPathAssumption
<1> QED
  BY <1>2, <1>3 DEF nthreads

(* A thread that gets work, or finds none, keeps the count right.          *)
LEMMA WaitingLess ==
    ASSUME waiting \in [Threads -> BOOLEAN], NEW t \in Threads,
           num_waiting = Cardinality(Waiting),
           waiting' = [waiting EXCEPT ![t] = FALSE],
           num_waiting' = IF waiting[t] THEN num_waiting - 1 ELSE num_waiting
    PROVE  Waiting' = Waiting \ {t} /\ num_waiting' = Cardinality(Waiting')
<1>1. Waiting' = Waiting \ {t}
  BY ZenonT(30) DEF Waiting
<1>2. t \in Waiting <=> waiting[t]
  BY DEF Waiting
<1>3. Cardinality(Waiting \ {t}) = IF t \in Waiting THEN Cardinality(Waiting) - 1 ELSE Cardinality(Waiting)
  BY FS_RemoveElement, WaitingFinite
<1> QED
  BY <1>1, <1>2, <1>3

LEMMA WaitingMore ==
    ASSUME waiting \in [Threads -> BOOLEAN], NEW t \in Threads,
           num_waiting = Cardinality(Waiting),
           waiting' = [waiting EXCEPT ![t] = TRUE],
           num_waiting' = IF waiting[t] THEN num_waiting ELSE num_waiting + 1
    PROVE  Waiting' = Waiting \cup {t} /\ num_waiting' = Cardinality(Waiting')
<1>1. Waiting' = Waiting \cup {t}
  BY ZenonT(30) DEF Waiting
<1>2. t \in Waiting <=> waiting[t]
  BY DEF Waiting
<1>3. Cardinality(Waiting \cup {t}) = IF t \in Waiting THEN Cardinality(Waiting) ELSE Cardinality(Waiting) + 1
  BY FS_AddElement, WaitingFinite
<1> QED
  BY <1>1, <1>2, <1>3

-------------------------------------------------------------------------------
(* The invariant.                                                          *)

LEMMA InitInv == Init => IndInv
<1> SUFFICES ASSUME Init PROVE IndInv
  OBVIOUS
<1>1. Cardinality(Threads) \in Nat \ {0}
  BY FS_CardinalityType, FS_EmptySet, TestPathAssumption
<1>2. TypeOK
  <2>1. waiting \in [Threads -> BOOLEAN] /\ found \in BOOLEAN
    BY Zenon DEF Init
  <2>2. pool \in Seq(Nodes) /\ num_waiting \in 0 .. nthreads
    BY <1>1, TestPathAssumption DEF Init, nthreads
  <2>3. /\ next \in [Threads -> Nodes \cup {TG_NULLID}]
        /\ at \in [Threads -> {"work", "work on", "get", "get on", "pop", "process", "push", "end"}]
    BY DEF Init
  <2> QED
    BY <2>1, <2>2, <2>3 DEF Init, TypeOK
<1>3. InPool = {source} /\ Held = {} /\ searched = {}
  BY DEF Init, InPool, Held
<1>4. Waiting = {} /\ num_waiting = Cardinality(Waiting)
  BY FS_EmptySet DEF Init, Waiting
<1>5. Waiting # Threads
  BY <1>4, TestPathAssumption
<1>6. ThreadsOK
  BY DEF Init, ThreadsOK
<1>7. \A t \in Threads : at[t] # "end"
  BY DEF Init
<1>8. Sound /\ Complete /\ FirstNode
  BY <1>3, ReachSource DEF Sound, Complete, FirstNode, InWork, Init
<1>9. NoNodeTwice
  <2>1. \A t \in Threads : next[t] = TG_NULLID
    BY DEF Init
  <2>2. \A i, j \in DOMAIN pool : pool[i] = pool[j] => i = j
    <3>1. DOMAIN pool = 1 .. 1
      BY DEF Init
    <3> QED
      BY <3>1
  <2> QED
    BY <2>1, <2>2, <1>3, TestPathAssumption DEF NoNodeTwice
<1> QED
  BY <1>2, <1>4, <1>5, <1>6, <1>7, <1>8, <1>9 DEF IndInv

(* A step that only moves a thread t on, to a place p.                     *)
LEMMA MoveInv ==
    ASSUME IndInv, NEW t \in Threads,
           NEW p \in {"work", "work on", "get", "get on", "pop", "process", "push", "end"},
           at' = [at EXCEPT ![t] = p],
           UNCHANGED <<graph, target, pool, searched, found, num_waiting, waiting, next>>,
           next[t] # TG_NULLID => p \in {"get", "process", "push"},
           p = "push" => next[t] \notin {TG_NULLID, target},
           p = "end" => found \/ num_waiting = nthreads
    PROVE  IndInv'
<1>1. TypeOK'
  BY DEF IndInv, TypeOK, nthreads
<1>2. ThreadsOK'
  BY DEF IndInv, ThreadsOK, TypeOK
<1>3. Waiting' = Waiting /\ InPool' = InPool /\ Held' = Held /\ InWork' = InWork
  BY DEF Waiting, InPool, Held, InWork
<1>4. \A u \in Threads : at'[u] = "end" => found' \/ Waiting' = Threads
  <2>1. num_waiting = nthreads => Waiting = Threads
    BY WaitingFinite DEF IndInv
  <2> QED
    BY <2>1, <1>3 DEF IndInv, TypeOK
<1>5. Sound'
  BY <1>3, ReachStable DEF IndInv, Sound
<1>6. Complete' /\ FirstNode'
  BY <1>3 DEF IndInv, Complete, FirstNode
<1>7. NoNodeTwice'
  BY <1>3 DEF IndInv, NoNodeTwice
<1> QED
  BY <1>1, <1>2, <1>3, <1>4, <1>5, <1>6, <1>7 DEF IndInv

(* A thread takes a node.                                                  *)
LEMMA PopNode ==
    ASSUME IndInv, NEW t \in Threads, Pop(t), pool # <<>>
    PROVE  IndInv'
<1> DEFINE v == pool[Len(pool)]
<1>1. /\ v \in Nodes /\ v # TG_NULLID /\ pool' \in Seq(Nodes) /\ InPool = InPool' \cup {v}
      /\ v \notin InPool' /\ (\A i, j \in DOMAIN pool' : pool'[i] = pool'[j] => i = j)
  <2>1. pool \in Seq(Nodes) /\ pool # <<>> /\ pool' = SubSeq(pool, 1, Len(pool) - 1)
    BY DEF IndInv, TypeOK, Pop
  <2>2. /\ v \in Nodes /\ pool' \in Seq(Nodes) /\ Elements(pool) = Elements(pool') \cup {v}
        /\ Distinct(pool) => Distinct(pool') /\ v \notin Elements(pool')
    BY <2>1, PopElements
  <2>3. Distinct(pool)
    BY DEF IndInv, NoNodeTwice, Distinct
  <2>4. InPool = Elements(pool) /\ InPool' = Elements(pool')
    BY DEF InPool, Elements
  <2> HIDE DEF v
  <2> QED
    BY <2>2, <2>3, <2>4, TestPathAssumption DEF Distinct
<1>2. /\ next[t] = TG_NULLID /\ next' = [next EXCEPT ![t] = v]
      /\ next \in [Threads -> Nodes \cup {TG_NULLID}] /\ waiting \in [Threads -> BOOLEAN]
  BY DEF IndInv, ThreadsOK, TypeOK, Pop
<1>3. Held' = Held \cup {v}
  BY <1>1, <1>2, HeldPut
<1>4. InWork' = InWork
  BY <1>1, <1>3 DEF InWork
<1>5. waiting' = [waiting EXCEPT ![t] = FALSE]
  BY DEF Pop
<1>6. Waiting' = Waiting \ {t} /\ num_waiting' = Cardinality(Waiting')
  BY <1>2, <1>5, WaitingLess DEF IndInv, Pop
<1> HIDE DEF v
<1>7. TypeOK'
  <2>1. waiting' \in [Threads -> BOOLEAN]
    BY <1>2, <1>5, ZenonT(30)
  <2>2. next' \in [Threads -> Nodes \cup {TG_NULLID}]
    BY <1>1, <1>2
  <2>3. num_waiting' \in 0 .. nthreads /\ nthreads' = nthreads
    <3>1. Waiting' \in SUBSET Threads /\ IsFiniteSet(Threads)
      BY <1>6, TestPathAssumption DEF Waiting
    <3>2. /\ IsFiniteSet(Waiting') /\ Cardinality(Waiting') <= nthreads
      BY <3>1, FS_Subset DEF nthreads
    <3> QED
      BY <3>2, <1>6, FS_CardinalityType, TestPathAssumption DEF nthreads
  <2> QED
    BY <1>1, <2>1, <2>2, <2>3 DEF IndInv, TypeOK, Pop
<1>8. ThreadsOK'
  <2>1. ~waiting'[t] /\ \A u \in Threads \ {t} : waiting'[u] = waiting[u]
    BY <1>2, <1>5, ZenonT(30)
  <2>2. /\ at'[t] = "get" /\ next'[t] = v
        /\ \A u \in Threads \ {t} : at'[u] = at[u] /\ next'[u] = next[u]
    BY <1>2 DEF IndInv, TypeOK, Pop
  <2>3. target' = target
    BY DEF Pop
  <2> QED
    BY <1>1, <2>1, <2>2, <2>3 DEF IndInv, ThreadsOK
<1>9. t \notin Waiting'
  BY <1>6
<1>10. \A u \in Threads : at'[u] = "end" => found'
  BY <1>2 DEF IndInv, Pop, TypeOK
<1>11. Sound'
  BY <1>4, ReachStable DEF IndInv, Sound, Pop
<1>12. Complete' /\ FirstNode'
  BY <1>4 DEF IndInv, Complete, FirstNode, Pop
<1>13. NoNodeTwice'
  <2>1. \A u \in Threads : next'[u] = IF u = t THEN v ELSE next[u]
    BY <1>2
  <2>2. \A u \in Threads : next[u] # v /\ next[u] \notin InPool'
    BY <1>1 DEF IndInv, NoNodeTwice
  <2> QED
    BY <1>1, <2>1, <2>2 DEF IndInv, NoNodeTwice
<1> QED
  BY <1>6, <1>7, <1>8, <1>9, <1>10, <1>11, <1>12, <1>13 DEF IndInv

(* A thread finds no node and is counted as waiting.                       *)
LEMMA PopNothing ==
    ASSUME IndInv, NEW t \in Threads, Pop(t), pool = <<>>
    PROVE  IndInv'
<1>1. UNCHANGED <<graph, target, pool, searched, found, next>>
  BY DEF Pop
<1>2. waiting' = [waiting EXCEPT ![t] = TRUE] /\ waiting \in [Threads -> BOOLEAN]
  BY DEF Pop, IndInv, TypeOK
<1>3. Waiting' = Waiting \cup {t} /\ num_waiting' = Cardinality(Waiting')
  BY <1>2, WaitingMore DEF IndInv, Pop
<1>4. InPool' = InPool /\ Held' = Held /\ InWork' = InWork
  BY <1>1 DEF InPool, Held, InWork
<1>5. TypeOK'
  <2>1. waiting' \in [Threads -> BOOLEAN]
    BY <1>2, ZenonT(30)
  <2>2. num_waiting' \in 0 .. nthreads /\ nthreads' = nthreads
    <3>1. Waiting' \in SUBSET Threads /\ IsFiniteSet(Threads)
      BY <1>3, TestPathAssumption DEF Waiting
    <3>2. /\ IsFiniteSet(Waiting') /\ Cardinality(Waiting') <= nthreads
      BY <3>1, FS_Subset DEF nthreads
    <3> QED
      BY <3>2, <1>3, FS_CardinalityType, TestPathAssumption DEF nthreads
  <2> QED
    BY <1>1, <2>1, <2>2 DEF IndInv, TypeOK, Pop
<1>6. ThreadsOK'
  <2>1. \A u \in Threads \ {t} : waiting'[u] = waiting[u]
    BY <1>2, ZenonT(30)
  <2>2. at'[t] = "get" /\ \A u \in Threads \ {t} : at'[u] = at[u]
    BY DEF IndInv, TypeOK, Pop
  <2>3. next[t] = TG_NULLID
    BY DEF IndInv, ThreadsOK, Pop
  <2> QED
    BY <1>1, <2>1, <2>2, <2>3 DEF IndInv, ThreadsOK
<1>7. \A u \in Threads : at'[u] = "end" => found' \/ Waiting' = Threads
  <2>1. \A u \in Threads : at'[u] = "end" => at[u] = "end"
    BY DEF IndInv, TypeOK, Pop
  <2> QED
    BY <1>1, <1>3, <2>1 DEF IndInv
<1>8. Sound'
  BY <1>1, <1>4, ReachStable DEF IndInv, Sound
<1>9. Complete' /\ FirstNode' /\ NoNodeTwice'
  BY <1>1, <1>4 DEF IndInv, Complete, FirstNode, NoNodeTwice
<1> QED
  BY <1>1, <1>3, <1>5, <1>6, <1>7, <1>8, <1>9 DEF IndInv

(* A thread is done with its node: it was the target, or a sink, or there  *)
(* was none.                                                               *)
LEMMA ProcessEnds ==
    ASSUME IndInv, NEW t \in Threads, Process(t),
           next[t] = TG_NULLID \/ next[t] = target \/ graph[next[t]] = {}
    PROVE  IndInv'
<1>1. /\ UNCHANGED <<graph, target, pool, searched, num_waiting, waiting>>
      /\ next' = [next EXCEPT ![t] = TG_NULLID] /\ at' = [at EXCEPT ![t] = "work"]
      /\ found' = (found \/ next[t] = target)
  BY Zenon DEF Process
<1>2. next \in [Threads -> Nodes \cup {TG_NULLID}]
  BY DEF IndInv, TypeOK
<1>3. Held' = Held \ {next[t]}
  BY <1>1, <1>2, HeldDrop DEF IndInv, NoNodeTwice
<1>4. InPool' = InPool /\ Waiting' = Waiting /\ next[t] \notin InPool
  BY <1>1 DEF InPool, Waiting, IndInv, NoNodeTwice
<1>5. InWork' = InWork \ {next[t]}
  BY <1>3, <1>4 DEF InWork
<1>6. (found => found') /\ (found' => found \/ next[t] = target)
  BY <1>1
<1>7. TypeOK'
  <2>1. found' \in BOOLEAN
    BY <1>1, Zenon
  <2>2. /\ next' \in [Threads -> Nodes \cup {TG_NULLID}]
        /\ at' \in [Threads -> {"work", "work on", "get", "get on", "pop", "process", "push", "end"}]
    BY <1>1, <1>2 DEF IndInv, TypeOK
  <2> QED
    BY <1>1, <2>1, <2>2 DEF IndInv, TypeOK, nthreads
<1>8. ThreadsOK'
  BY <1>1, <1>2 DEF IndInv, ThreadsOK, TypeOK
<1>9. \A u \in Threads : at'[u] = "end" => found' \/ Waiting' = Threads
  BY <1>1, <1>4, <1>6 DEF IndInv, TypeOK
<1>10. Sound'
  <2>1. next[t] = target => target \in InWork
    BY TestPathAssumption DEF IndInv, TypeOK, InWork, Held
  <2> QED
    BY <1>1, <1>5, <1>6, <2>1, ReachStable DEF IndInv, Sound
<1>11. Complete'
  <2> SUFFICES ASSUME NEW v \in searched \cup {source}
               PROVE  \/ v \in InWork'
                      \/ v = target /\ found'
                      \/ v # target /\ graph[v] \subseteq searched
    BY <1>1 DEF Complete
  <2>1. CASE v = next[t]
    <3>1. v # TG_NULLID
      BY TestPathAssumption DEF IndInv, TypeOK
    <3> QED
      BY <2>1, <3>1, <1>1
  <2>2. CASE v # next[t]
    BY <2>2, <1>5, <1>6 DEF IndInv, Complete
  <2> QED
    BY <2>1, <2>2
<1>12. FirstNode'
  BY <1>1, <1>5 DEF IndInv, FirstNode
<1>13. NoNodeTwice'
  <2>1. \A u \in Threads : next'[u] = IF u = t THEN TG_NULLID ELSE next[u]
    BY <1>1, <1>2
  <2>2. TG_NULLID \notin InPool
    <3>1. pool \in Seq(Nodes)
      BY DEF IndInv, TypeOK
    <3> QED
      BY <3>1, TestPathAssumption DEF InPool
  <2>3. \A u \in Threads : next'[u] \notin InPool'
    BY <1>4, <2>1, <2>2 DEF IndInv, NoNodeTwice
  <2>4. \A u, w \in Threads : next'[u] = next'[w] /\ next'[u] # TG_NULLID => u = w
    BY <2>1 DEF IndInv, NoNodeTwice
  <2>5. \A i, j \in DOMAIN pool' : pool'[i] = pool'[j] => i = j
    BY <1>1 DEF IndInv, NoNodeTwice
  <2> QED
    BY <2>3, <2>4, <2>5 DEF NoNodeTwice
<1> QED
  BY <1>1, <1>4, <1>7, <1>8, <1>9, <1>10, <1>11, <1>12, <1>13 DEF IndInv

(* A thread pushes the new successors of its node.                         *)
LEMMA PushInv ==
    ASSUME IndInv, NEW t \in Threads, Push(t)
    PROVE  IndInv'
<1> DEFINE v == next[t]
           S == graph[v] \ searched
<1>1. PICK new \in Orders(S) : pool' = pool \o new
  BY DEF Push
<1>2. /\ UNCHANGED <<graph, target, found, num_waiting, waiting>>
      /\ searched' = searched \cup graph[v]
      /\ next' = [next EXCEPT ![t] = TG_NULLID] /\ at' = [at EXCEPT ![t] = "work"]
  BY DEF Push
<1>3. v \in Nodes /\ v # TG_NULLID /\ v # target /\ v \in Held /\ ~waiting[t]
  BY DEF IndInv, ThreadsOK, TypeOK, Push, Held
<1>4. graph[v] \in SUBSET Nodes /\ IsFiniteSet(S)
  <2>1. graph[v] \in SUBSET Nodes
    BY <1>3, TestPathAssumption DEF IndInv, TypeOK
  <2> QED
    BY <2>1, FS_Subset, TestPathAssumption
<1>5. next \in [Threads -> Nodes \cup {TG_NULLID}] /\ pool \in Seq(Nodes)
  BY DEF IndInv, TypeOK
<1>6. v \notin InPool
  BY DEF IndInv, NoNodeTwice
<1>7. Held' = Held \ {v}
  BY <1>2, <1>5, HeldDrop DEF IndInv, NoNodeTwice
<1> HIDE DEF v, S
<1>8. /\ pool' \in Seq(Nodes) /\ Elements(pool') = Elements(pool) \cup S
      /\ Distinct(pool) /\ S \cap Elements(pool) = {} => Distinct(pool')
  BY <1>1, <1>4, <1>5, PushElements DEF S
<1>9. InPool' = InPool \cup S
  BY <1>8 DEF InPool, Elements
<1>10. Waiting' = Waiting /\ Waiting # Threads
  BY <1>2, <1>3 DEF Waiting
(* What is pushed is not in work anywhere else.                            *)
<1>11. \A u \in S : u \notin InWork \ {v}
  <2> SUFFICES ASSUME NEW u \in S, u \in InWork, u # v
               PROVE  FALSE
    OBVIOUS
  <2>1. u = source /\ u \notin searched
    BY DEF IndInv, FirstNode, S
  <2>2. InWork = {source}
    BY <2>1 DEF IndInv, FirstNode
  <2> QED
    BY <1>3, <2>1, <2>2 DEF InWork
<1>12. InWork' = (InWork \ {v}) \cup S
  BY <1>6, <1>7, <1>9, <1>11 DEF InWork, S
<1>13. TypeOK'
  <2>1. /\ next' \in [Threads -> Nodes \cup {TG_NULLID}]
        /\ at' \in [Threads -> {"work", "work on", "get", "get on", "pop", "process", "push", "end"}]
    BY <1>2, <1>5 DEF IndInv, TypeOK
  <2> QED
    BY <1>2, <1>4, <1>8, <2>1 DEF IndInv, TypeOK, nthreads
<1>14. ThreadsOK'
  BY <1>2, <1>5 DEF IndInv, ThreadsOK, TypeOK
<1>15. \A u \in Threads : at'[u] = "end" => found' \/ Waiting' = Threads
  BY <1>2, <1>10 DEF IndInv, TypeOK
<1>16. Sound'
  <2>1. Reachable(v)
    BY <1>3 DEF IndInv, Sound, InWork
  <2>2. \A u \in graph[v] : Reachable(u)
    BY <2>1, ReachSuccessor
  <2> QED
    BY <1>2, <1>12, <2>2, ReachStable DEF IndInv, Sound, S
<1>17. Complete'
  <2> SUFFICES ASSUME NEW u \in searched' \cup {source}
               PROVE  \/ u \in InWork'
                      \/ u = target /\ found
                      \/ u # target /\ graph[u] \subseteq searched'
    BY <1>2 DEF Complete
  <2>1. CASE u = v
    BY <2>1, <1>2, <1>3
  <2>2. CASE u # v /\ u \in S
    BY <2>2, <1>12
  <2>3. CASE u # v /\ u \notin S
    <3>1. u \in searched \cup {source}
      BY <2>3, <1>2 DEF S
    <3> QED
      BY <2>3, <3>1, <1>2, <1>12 DEF IndInv, Complete
  <2> QED
    BY <2>1, <2>2, <2>3
<1>18. FirstNode'
  <2>1. InWork' \subseteq searched' \cup {source}
    BY <1>2, <1>12 DEF IndInv, FirstNode, S
  <2>2. source \notin InWork' \ searched'
    <3> SUFFICES ASSUME source \in InWork', source \notin searched'
                 PROVE  FALSE
      OBVIOUS
    <3>1. source \notin S /\ source \notin searched
      BY <1>2 DEF S
    <3>2. source \in InWork \ searched /\ source # v
      BY <3>1, <1>12
    <3> QED
      BY <3>2, <1>3 DEF IndInv, FirstNode, InWork
  <2> QED
    BY <2>1, <2>2 DEF FirstNode
<1>19. NoNodeTwice'
  <2>1. \A u \in Threads : next'[u] = IF u = t THEN TG_NULLID ELSE next[u]
    BY <1>2, <1>5
  <2>2. \A u \in Threads \ {t} : next[u] # v
    BY <1>3 DEF IndInv, NoNodeTwice, v
  <2>3. TG_NULLID \notin InPool'
    BY <1>4, <1>5, <1>8, TestPathAssumption DEF InPool
  <2>4. \A u \in Threads : next'[u] \notin InPool'
    <3> SUFFICES ASSUME NEW u \in Threads, next'[u] \in InPool'
                 PROVE  FALSE
      OBVIOUS
    <3>1. u # t /\ next[u] \in InPool \cup S /\ next[u] # TG_NULLID
      BY <1>9, <2>1, <2>3
    <3>2. next[u] \in S /\ next[u] \in InWork /\ next[u] # v
      BY <3>1, <2>2 DEF IndInv, NoNodeTwice, InWork, Held
    <3> QED
      BY <3>2, <1>11
  <2>5. \A u, w \in Threads : next'[u] = next'[w] /\ next'[u] # TG_NULLID => u = w
    BY <2>1 DEF IndInv, NoNodeTwice
  <2>6. Distinct(pool')
    <3>1. S \cap InPool = {}
      BY <1>6, <1>11 DEF InWork
    <3>2. Distinct(pool)
      BY DEF IndInv, NoNodeTwice, Distinct
    <3> QED
      BY <1>8, <3>1, <3>2 DEF InPool, Elements
  <2> QED
    BY <2>4, <2>5, <2>6 DEF NoNodeTwice, Distinct
<1>20. num_waiting' = Cardinality(Waiting')
  BY <1>2, <1>10 DEF IndInv
<1> QED
  BY <1>10, <1>13, <1>14, <1>15, <1>16, <1>17, <1>18, <1>19, <1>20 DEF IndInv

LEMMA StepInv == IndInv /\ [Next]_vars => IndInv'
<1> SUFFICES ASSUME IndInv, [Next]_vars
             PROVE  IndInv'
  OBVIOUS
<1>1. CASE UNCHANGED vars
  <2>1. Waiting' = Waiting /\ InPool' = InPool /\ Held' = Held /\ InWork' = InWork
    BY <1>1 DEF vars, Waiting, InPool, Held, InWork
  <2>2. Sound'
    BY <1>1, <2>1, ReachStable DEF IndInv, Sound, vars
  <2>3. TypeOK' /\ ThreadsOK' /\ Complete' /\ FirstNode' /\ NoNodeTwice'
    BY <1>1, <2>1 DEF IndInv, TypeOK, ThreadsOK, Complete, FirstNode, NoNodeTwice, vars, nthreads
  <2> QED
    BY <1>1, <2>1, <2>2, <2>3 DEF IndInv, vars
<1>2. ASSUME NEW t \in Threads, Worker(t)
      PROVE  IndInv'
  <2> USE <1>2
  <2>1. CASE WorkUntilAllWait(t)
    <3>1. next[t] = TG_NULLID
      BY <2>1 DEF IndInv, ThreadsOK, WorkUntilAllWait
    <3>2. PICK p \in {"work on", "end"} : /\ at' = [at EXCEPT ![t] = p]
                                          /\ p = "end" => num_waiting = nthreads
      BY <2>1 DEF WorkUntilAllWait
    <3> QED
      <4>1. UNCHANGED <<graph, target, pool, searched, found, num_waiting, waiting, next>>
        BY <2>1 DEF WorkUntilAllWait
      <4> QED
        BY <3>1, <3>2, <4>1, MoveInv
  <2>2. CASE WorkUntilFound(t)
    <3>1. next[t] = TG_NULLID
      BY <2>2 DEF IndInv, ThreadsOK, WorkUntilFound
    <3>2. PICK p \in {"get", "end"} : at' = [at EXCEPT ![t] = p] /\ (p = "end" => found)
      BY <2>2 DEF WorkUntilFound
    <3> QED
      <4>1. UNCHANGED <<graph, target, pool, searched, found, num_waiting, waiting, next>>
        BY <2>2 DEF WorkUntilFound
      <4> QED
        BY <3>1, <3>2, <4>1, MoveInv
  <2>3. CASE GetUntilAllWait(t)
    <3>1. PICK p \in {"get on", "process"} : /\ at' = [at EXCEPT ![t] = p]
                                             /\ p = "get on" => next[t] = TG_NULLID
      BY <2>3 DEF GetUntilAllWait
    <3> QED
      <4>1. UNCHANGED <<graph, target, pool, searched, found, num_waiting, waiting, next>>
        BY <2>3 DEF GetUntilAllWait
      <4> QED
        BY <3>1, <4>1, MoveInv
  <2>4. CASE GetUntilFound(t)
    <3>1. next[t] = TG_NULLID
      BY <2>4 DEF IndInv, ThreadsOK, GetUntilFound
    <3>2. PICK p \in {"pop", "process"} : at' = [at EXCEPT ![t] = p]
      BY <2>4 DEF GetUntilFound
    <3> QED
      <4>1. UNCHANGED <<graph, target, pool, searched, found, num_waiting, waiting, next>>
        BY <2>4 DEF GetUntilFound
      <4> QED
        BY <3>1, <3>2, <4>1, MoveInv
  <2>5. CASE Pop(t)
    BY <2>5, PopNode, PopNothing
  <2>6. CASE Process(t)
    <3>1. CASE next[t] = TG_NULLID \/ next[t] = target \/ graph[next[t]] = {}
      BY <2>6, <3>1, ProcessEnds
    <3>2. CASE next[t] # TG_NULLID /\ next[t] # target /\ graph[next[t]] # {}
      <4>1. /\ at' = [at EXCEPT ![t] = "push"]
            /\ UNCHANGED <<graph, target, pool, searched, found, num_waiting, waiting, next>>
        BY <2>6, <3>2 DEF Process
      <4> QED
        BY <3>2, <4>1, MoveInv
    <3> QED
      BY <3>1, <3>2
  <2>7. CASE Push(t)
    BY <2>7, PushInv
  <2> QED
    BY <2>1, <2>2, <2>3, <2>4, <2>5, <2>6, <2>7 DEF Worker
<1> QED
  BY <1>1, <1>2 DEF Next, Report

(* The invariant holds throughout the search.                              *)
THEOREM IndInvHolds == Spec => []IndInv
BY InitInv, StepInv, PTL DEF Spec

(* The types of the variables (c_testPath.c's declarations).               *)
THEOREM TypesHold == Spec => []TypeOK
<1>1. IndInv => TypeOK
  BY DEF IndInv
<1> QED
  BY <1>1, IndInvHolds, PTL

-------------------------------------------------------------------------------
(* What the invariant gives.                                               *)

(* What testPath prints is right: found is TRUE at the end if and only if  *)
(* there is a path from the source to the target.                          *)
THEOREM AnswerHolds == Spec => []AnswerIsRight
<1>1. IndInv => AnswerIsRight
  <2> SUFFICES ASSUME IndInv, AllEnded
               PROVE  found <=> Reachable(target)
    BY DEF AnswerIsRight
  <2>1. found => Reachable(target)
    BY DEF IndInv, Sound
  <2>2. ASSUME ~found PROVE ~Reachable(target)
    <3>1. Waiting = Threads /\ pool = <<>>
      BY <2>2, TestPathAssumption DEF IndInv, AllEnded
    <3>2. InPool = {} /\ Held = {}
      BY <3>1 DEF InPool, Held, IndInv, ThreadsOK, Waiting
    <3> DEFINE Seen == searched \cup {source}
    <3>3. \A v \in Seen : v # target /\ graph[v] \subseteq Seen
      BY <2>2, <3>2 DEF IndInv, Complete, InWork
    <3>4. Seen \in SUBSET Nodes
      BY TestPathAssumption DEF IndInv, TypeOK
    <3>5. Closed(Seen) /\ target \notin Seen
      BY <3>3 DEF Closed
    <3> QED
      BY <3>4, <3>5, NotReachable
  <2> QED
    BY <2>1, <2>2
<1> QED
  BY <1>1, IndInvHolds, PTL

(* The count of waiting threads detects the end correctly, although it is  *)
(* read outside of the critical sections.                                  *)
THEOREM NoWorkIsAbandoned == Spec => []NoWorkAbandoned
<1>1. IndInv => NoWorkAbandoned
  <2> SUFFICES ASSUME IndInv PROVE NoWorkAbandoned
    OBVIOUS
  <2>1. num_waiting = nthreads <=> Waiting = Threads
    BY WaitingFinite DEF IndInv, nthreads
  <2>2. Waiting = Threads => InPool = {} /\ Held = {}
    BY DEF InPool, Held, IndInv, ThreadsOK, Waiting
  <2> QED
    BY <2>1, <2>2 DEF IndInv, NoWorkAbandoned
<1> QED
  BY <1>1, IndInvHolds, PTL

(* No node is in the pool or in the hands of threads twice.                *)
THEOREM NoNodeIsTwiceInWork == Spec => []NoNodeTwice
<1>1. IndInv => NoNodeTwice
  BY DEF IndInv
<1> QED
  BY <1>1, IndInvHolds, PTL

===============================================================================
