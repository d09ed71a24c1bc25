---------------------------- MODULE BfsSimpleProofs ----------------------------
(***************************************************************************)
(* Proofs about BfsSimple: for any number of ranks, any graph and any size *)
(* of the messages, no message crosses the end of a level, and what the    *)
(* ranks compute together is a level-synchronous search.                   *)
(***************************************************************************)
EXTENDS BfsSimple, FiniteSetTheorems, SequenceTheorems, TLAPS

Edges == [tgt : Vertices, src : Vertices]

Places == {"scan", "edges", "flush", "signalled", "wait", "allreduce", "end"}

TypeOK ==
    /\ pred \in [Vertices -> Vertices \cup {NotVisited}]
    /\ oldq \in [Ranks -> Seq(Vertices)] /\ newq \in [Ranks -> Seq(Vertices)]
    /\ i \in [Ranks -> Nat \ {0}]
    /\ edges \in [Ranks -> Seq(Vertices)]
    /\ outgoing \in [Ranks -> [Ranks -> Seq(Edges)]]
    /\ active \in [Ranks -> [Ranks -> BOOLEAN]]
    /\ net \in [Ranks -> [Ranks -> Seq(Seq(Edges))]]
    /\ num_ranks_done \in [Ranks -> Nat]
    /\ offset \in [Ranks -> 1 .. Size]
    /\ at \in [Ranks -> Places]

(* Where a rank is in its level.                                           *)
PhaseOK ==
    \A r \in Ranks :
        /\ at[r] = "edges" => i[r] <= Len(oldq[r])
        /\ at[r] \in {"scan", "edges"} => offset[r] = 1
        /\ at[r] \notin {"scan", "edges"} => i[r] > Len(oldq[r])
        /\ at[r] = "signalled" => offset[r] < Size
        /\ at[r] \in {"wait", "allreduce", "end"} => offset[r] = Size
        /\ at[r] \in {"allreduce", "end"} => num_ranks_done[r] = Size
        /\ at[r] = "end" => \A s \in Ranks : at[s] = "end"

(* The ranks that r has told in this level that it is done, and those of   *)
(* which r knows.                                                          *)
Limit(r) == IF at[r] = "signalled" THEN offset[r] ELSE offset[r] - 1

Told(r) == {(r + k) % Size : k \in 1 .. Limit(r)}

Heard(r) == {s \in Ranks \ {r} : r \in Told(s) /\ net[s][r] = <<>>}

(* From r to d: the message that r is done is the last one, after which    *)
(* nothing is left in the buffer.                                          *)
LinkOK(r, d) ==
    /\ \A k \in 1 .. Len(net[r][d]) :
          net[r][d][k] = <<>> => d \in Told(r) /\ k = Len(net[r][d])
    /\ d \in Told(r) =>
          /\ outgoing[r][d] = <<>>
          /\ net[r][d] # <<>> => net[r][d][Len(net[r][d])] = <<>>
          /\ active[r][d] => at[r] = "signalled" /\ d = dest(r)

LinksOK ==
    \A r \in Ranks :
        /\ net[r][r] = <<>> /\ outgoing[r][r] = <<>>
        /\ \A d \in Ranks \ {r} : LinkOK(r, d)

CountOK == \A r \in Ranks : num_ranks_done[r] = 1 + Cardinality(Heard(r))

Control == TypeOK /\ PhaseOK /\ LinksOK /\ CountOK

(* An edge of the level that is searched.                                  *)
LevelEdge(e) == e.src \in Level(oldq) /\ e.tgt \in ToSet(column[e.src])

InTransit(r, d) == ToSet(outgoing[r][d]) \cup UNION {ToSet(m) : m \in ToSet(net[r][d])}

(* Nothing but edges of this level is processed or sent.                   *)
Sound ==
    /\ \A r \in Ranks : at[r] = "edges" => ToSet(edges[r]) \subseteq ToSet(column[src(r)])
    /\ \A r, d \in Ranks : \A e \in InTransit(r, d) : LevelEdge(e)
    /\ \A v \in Level(newq) : pred[v] # NotVisited /\ LevelEdge([tgt |-> v, src |-> pred[v]])

(* The target of an edge that r has scanned is visited, or on its way to   *)
(* its owner.                                                              *)
Handled(r, v) == pred[v] # NotVisited \/ \E d \in Ranks : \E e \in InTransit(r, d) : e.tgt = v

(* The edge to v from the k-th vertex of its queue is not scanned yet.     *)
Waiting(r, k, v) == k > i[r] \/ (k = i[r] /\ (at[r] = "scan" \/ v \in ToSet(edges[r])))

Scanned ==
    \A r \in Ranks : \A k \in 1 .. Len(oldq[r]) : \A v \in ToSet(column[oldq[r][k]]) :
        Waiting(r, k, v) \/ Handled(r, v)

-------------------------------------------------------------------------------
(* Induction up to a bound, for the set T of the numbers that have some    *)
(* property: the intervals 1 .. k with k not in T have no smallest element.*)
LEMMA UpTo ==
    ASSUME NEW N \in Nat, NEW T, 0 \in T, \A k \in 0 .. N - 1 : k \in T => k + 1 \in T
    PROVE  \A k \in 0 .. N : k \in T
<1> DEFINE D == 1 .. N
           Bad == {X \in SUBSET D : \E k \in 0 .. N : k \notin T /\ X = 1 .. k}
<1> SUFFICES ASSUME NEW n \in 0 .. N, n \notin T
             PROVE  FALSE
  OBVIOUS
<1>1. IsFiniteSet(D)
  BY FS_Interval
<1>2. IsWellFoundedOn(StrictSubsetOrdering(D), SUBSET D)
  BY <1>1, FS_StrictSubsetOrderingWellFounded, FS_FiniteSubsetsOfFinite
<1>3. 1 .. n \in Bad
  OBVIOUS
<1>4. PICK X \in Bad : \A Y \in Bad : ~(<<Y, X>> \in StrictSubsetOrdering(D))
  BY <1>2, <1>3, WFMin
<1>5. PICK k \in 0 .. N : k \notin T /\ X = 1 .. k
  BY <1>4
<1>6. k - 1 \in 0 .. N - 1 /\ k - 1 \notin T
  BY <1>5
<1>7. 1 .. (k - 1) \in Bad
  BY <1>6
<1>8. 1 .. (k - 1) \subseteq X /\ 1 .. (k - 1) # X /\ X \subseteq D
  <2>1. k \in 1 .. k /\ k \notin 1 .. (k - 1)
    BY <1>6
  <2> QED
    BY <1>5, <1>6, <2>1
<1> QED
  BY <1>4, <1>7, <1>8 DEF StrictSubsetOrdering

(* The fold of ReachAll, and the states it goes through.                   *)
Processed(base, es) == FoldLeft(Reach, base, es)

LEMMA FoldSteps ==
    ASSUME NEW base, NEW es, NEW n \in Nat, DOMAIN es = 1 .. n
    PROVE  \E h : /\ h[0] = base
                  /\ \A k \in 0 .. n - 1 : h[k + 1] = Reach(h[k], es[k + 1])
                  /\ Processed(base, es) = h[n]
<1> DEFINE Body(f, s) == IF s = {} THEN base ELSE Reach(f[s \ {Max(s)}], es[Max(s)])
           Iter(f, k) == f = [s \in SUBSET (1 .. k) |-> Body(f, s)]
           T == {k \in 0 .. n : \E f : Iter(f, k)}
<1>1. \A k \in Nat : \A s \in SUBSET (1 .. k + 1) : k + 1 \in s => Max(s) = k + 1
  <2> SUFFICES ASSUME NEW k \in Nat, NEW s \in SUBSET (1 .. k + 1), k + 1 \in s
               PROVE  Max(s) = k + 1
    OBVIOUS
  <2>1. \A y \in s : k + 1 >= y
    OBVIOUS
  <2>2. \A x \in s : (\A y \in s : x >= y) => x = k + 1
    OBVIOUS
  <2> QED
    BY <2>1, <2>2 DEF Max
<1>2. 0 \in T
  <2> DEFINE f0 == [s \in SUBSET (1 .. 0) |-> base]
  <2>1. SUBSET (1 .. 0) = {{}}
    OBVIOUS
  <2>2. Iter(f0, 0)
    BY <2>1
  <2> HIDE DEF Iter, f0
  <2> QED
    BY <2>2
<1>3. ASSUME NEW k \in 0 .. n - 1, k \in T
      PROVE  k + 1 \in T
  <2>1. PICK f : Iter(f, k)
    BY <1>3
  <2> DEFINE g == [s \in SUBSET (1 .. k + 1) |->
                      IF k + 1 \in s THEN Reach(f[s \ {k + 1}], es[k + 1]) ELSE f[s]]
  <2>2. ASSUME NEW s \in SUBSET (1 .. k + 1)
        PROVE  g[s] = Body(g, s)
    <3>1. CASE k + 1 \in s
      <4>1. s \ {k + 1} \in SUBSET (1 .. k) /\ k + 1 \notin s \ {k + 1}
        OBVIOUS
      <4>2. g[s \ {k + 1}] = f[s \ {k + 1}]
        BY <4>1
      <4>3. Max(s) = k + 1
        BY <1>1, <3>1
      <4> HIDE DEF Iter
      <4> QED
        BY <3>1, <4>2, <4>3
    <3>2. CASE k + 1 \notin s
      <4>1. s \in SUBSET (1 .. k)
        BY <3>2
      <4>2. g[s] = f[s] /\ f[s] = Body(f, s)
        BY <2>1, <3>2, <4>1
      <4>3. g[s \ {Max(s)}] = f[s \ {Max(s)}]
        BY <3>2
      <4> QED
        BY <4>2, <4>3
    <3> QED
      BY <3>1, <3>2
  <2>3. Iter(g, k + 1)
    BY <2>2
  <2> HIDE DEF Iter
  <2> QED
    BY <2>3
<1>4. n \in T
  <2>1. \A k \in 0 .. n - 1 : k \in T => k + 1 \in T
    BY <1>3
  <2> HIDE DEF T
  <2>2. \A k \in 0 .. n : k \in T
    BY <1>2, <2>1, UpTo
  <2> QED
    BY <2>2
<1> DEFINE iter == CHOOSE f : Iter(f, n)
<1>5. Iter(iter, n)
  BY <1>4
<1>6. Processed(base, es) = iter[1 .. n]
  BY DEF Processed, FoldLeft, MapThenFoldSet
<1> DEFINE h == [k \in 0 .. n |-> iter[1 .. k]]
<1>7. h[0] = base
  <2>1. 1 .. 0 = {} /\ {} \in SUBSET (1 .. n)
    OBVIOUS
  <2>2. iter[{}] = base
    BY <1>5, <2>1
  <2> HIDE DEF iter
  <2> QED
    BY <2>1, <2>2
<1>8. ASSUME NEW k \in 0 .. n - 1
      PROVE  h[k + 1] = Reach(h[k], es[k + 1])
  <2>1. 1 .. k + 1 \in SUBSET (1 .. n) /\ k + 1 \in 1 .. k + 1 /\ (1 .. k + 1) \ {k + 1} = 1 .. k
    OBVIOUS
  <2>2. Max(1 .. k + 1) = k + 1
    BY <1>1, <2>1
  <2>3. iter[1 .. k + 1] = Body(iter, 1 .. k + 1)
    BY <1>5, <2>1
  <2>4. 1 .. k + 1 # {}
    BY <2>1
  <2> HIDE DEF iter
  <2>5. iter[1 .. k + 1] = Reach(iter[1 .. k], es[k + 1])
    BY <2>1, <2>2, <2>3, <2>4
  <2>6. h[k + 1] = iter[1 .. k + 1] /\ h[k] = iter[1 .. k]
    OBVIOUS
  <2> QED
    BY <2>5, <2>6
<1>9. h[n] = iter[1 .. n]
  OBVIOUS
<1> HIDE DEF h
<1> QED
  BY <1>6, <1>7, <1>8, <1>9

-------------------------------------------------------------------------------
(* What Append, Head and Tail do to the set of elements.                   *)
LEMMA AppendSet ==
    ASSUME NEW S, NEW s \in Seq(S), NEW x \in S
    PROVE  /\ Append(s, x) \in Seq(S) /\ ToSet(Append(s, x)) = ToSet(s) \cup {x}
           /\ Len(Append(s, x)) = Len(s) + 1
           /\ \A k \in 1 .. Len(s) + 1 : Append(s, x)[k] = IF k = Len(s) + 1 THEN x ELSE s[k]
<1>1. /\ Append(s, x) \in Seq(S) /\ Len(Append(s, x)) = Len(s) + 1
      /\ \A k \in 1 .. Len(s) : Append(s, x)[k] = s[k]
      /\ Append(s, x)[Len(s) + 1] = x /\ Len(s) \in Nat
  OBVIOUS
<1>2. DOMAIN Append(s, x) = 1 .. Len(s) + 1 /\ DOMAIN s = 1 .. Len(s)
  BY <1>1
<1>3. \A k \in 1 .. Len(s) + 1 : k \in 1 .. Len(s) \/ k = Len(s) + 1
  BY <1>1
<1>4. \A k \in 1 .. Len(s) : k \in 1 .. Len(s) + 1 /\ k # Len(s) + 1
  BY <1>1
<1>5. Len(s) + 1 \in 1 .. Len(s) + 1
  BY <1>1
<1> QED
  BY <1>1, <1>2, <1>3, <1>4, <1>5 DEF ToSet

LEMMA TailSet ==
    ASSUME NEW S, NEW s \in Seq(S), s # <<>>
    PROVE  /\ Head(s) \in S /\ Tail(s) \in Seq(S) /\ Head(s) = s[1]
           /\ ToSet(s) = ToSet(Tail(s)) \cup {Head(s)}
           /\ Len(Tail(s)) = Len(s) - 1 /\ Len(s) \in Nat \ {0}
           /\ \A k \in 1 .. Len(s) - 1 : Tail(s)[k] = s[k + 1]
<1>1. /\ Head(s) \in S /\ Tail(s) \in Seq(S) /\ Head(s) = s[1]
      /\ Len(Tail(s)) = Len(s) - 1 /\ Len(s) \in Nat \ {0}
      /\ \A k \in 1 .. Len(s) - 1 : Tail(s)[k] = s[k + 1]
  <2>1. Len(s) \in Nat \ {0}
    BY EmptySeq
  <2>2. /\ Head(s) \in S /\ Tail(s) \in Seq(S) /\ Len(Tail(s)) = Len(s) - 1
        /\ \A k \in 1 .. Len(Tail(s)) : Tail(s)[k] = s[k + 1]
    BY HeadTailProperties
  <2>3. Head(s) = s[1]
    BY <2>1
  <2> QED
    BY <2>1, <2>2, <2>3
<1>2. DOMAIN Tail(s) = 1 .. Len(s) - 1 /\ DOMAIN s = 1 .. Len(s)
  BY <1>1
<1>3. \A k \in 1 .. Len(s) : k = 1 \/ (k - 1 \in 1 .. Len(s) - 1 /\ (k - 1) + 1 = k)
  BY <1>1
<1>4. \A k \in 1 .. Len(s) - 1 : k + 1 \in 1 .. Len(s)
  BY <1>1
<1>5. 1 \in 1 .. Len(s)
  BY <1>1
<1>6. ToSet(s) \subseteq ToSet(Tail(s)) \cup {Head(s)}
  <2>1. ASSUME NEW k \in 1 .. Len(s), k # 1
        PROVE  s[k] = Tail(s)[k - 1] /\ k - 1 \in 1 .. Len(s) - 1
    BY <1>1, <1>3, <2>1
  <2>2. \A k \in 1 .. Len(s) : s[k] = Head(s) \/ s[k] \in ToSet(Tail(s))
    BY <1>1, <1>2, <2>1 DEF ToSet
  <2> QED
    BY <1>2, <2>2 DEF ToSet
<1>7. ToSet(Tail(s)) \cup {Head(s)} \subseteq ToSet(s)
  BY <1>1, <1>2, <1>4, <1>5 DEF ToSet
<1> QED
  BY <1>1, <1>6, <1>7

(* What processing the edges of a message does.                            *)
LEMMA ReachAllOK ==
    ASSUME TypeOK, NEW r \in Ranks, NEW es \in Seq(Edges), ReachAll(r, es)
    PROVE  /\ pred' \in [Vertices -> Vertices \cup {NotVisited}]
           /\ newq' \in [Ranks -> Seq(Vertices)]
           /\ \A v \in Vertices : pred[v] # NotVisited => pred'[v] = pred[v]
           /\ \A e \in ToSet(es) : pred'[e.tgt] # NotVisited
           /\ \A v \in Vertices : pred[v] = NotVisited /\ pred'[v] # NotVisited =>
                  [tgt |-> v, src |-> pred'[v]] \in ToSet(es)
           /\ Level(newq') = Level(newq) \cup
                  {v \in Vertices : pred[v] = NotVisited /\ pred'[v] # NotVisited}
<1> DEFINE n == Len(es)
           base == [pred |-> pred, newq |-> newq[r]]
           Fresh(st) == {v \in Vertices : pred[v] = NotVisited /\ st.pred[v] # NotVisited}
           After(st, k) ==
               /\ st \in [pred : [Vertices -> Vertices \cup {NotVisited}], newq : Seq(Vertices)]
               /\ \A v \in Vertices : pred[v] # NotVisited => st.pred[v] = pred[v]
               /\ \A j \in 1 .. k : st.pred[es[j].tgt] # NotVisited
               /\ \A v \in Fresh(st) : \E j \in 1 .. n : es[j] = [tgt |-> v, src |-> st.pred[v]]
               /\ ToSet(st.newq) = ToSet(newq[r]) \cup Fresh(st)
<1>0. n \in Nat /\ DOMAIN es = 1 .. n /\ \A j \in 1 .. n : es[j] \in Edges
  OBVIOUS
<1>1. PICK h : /\ h[0] = base
               /\ \A k \in 0 .. n - 1 : h[k + 1] = Reach(h[k], es[k + 1])
               /\ Processed(base, es) = h[n]
  BY <1>0, FoldSteps
<1> DEFINE T == {k \in 0 .. n : After(h[k], k)}
<1>2. 0 \in T
  <2>1. Fresh(base) = {} /\ base.pred = pred /\ base.newq = newq[r]
    OBVIOUS
  <2>2. After(base, 0)
    BY <2>1 DEF TypeOK
  <2> HIDE DEF After, base
  <2> QED
    BY <1>0, <1>1, <2>2
<1>3. ASSUME NEW k \in 0 .. n - 1, k \in T
      PROVE  k + 1 \in T
  <2> DEFINE st == h[k]
             e == es[k + 1]
  <2>1. After(st, k) /\ h[k + 1] = Reach(st, e)
    BY <1>1, <1>3
  <2>2. e \in Edges /\ e.tgt \in Vertices /\ e.src \in Vertices /\ e = [tgt |-> e.tgt, src |-> e.src]
    BY <1>0 DEF Edges
  <2> HIDE DEF st, e
  <2>3. CASE st.pred[e.tgt] # NotVisited
    <3>1. h[k + 1] = st
      BY <2>1, <2>3 DEF Reach
    <3>2. \A j \in 1 .. k + 1 : j \in 1 .. k \/ es[j] = e
      BY DEF e
    <3>3. After(st, k + 1)
      BY <2>1, <2>3, <3>2
    <3> HIDE DEF After
    <3> QED
      BY <3>1, <3>3
  <2>4. CASE st.pred[e.tgt] = NotVisited
    <3> DEFINE nx == [pred |-> [st.pred EXCEPT ![e.tgt] = e.src], newq |-> Append(st.newq, e.tgt)]
    <3>1. h[k + 1] = nx
      BY <2>1, <2>4 DEF Reach
    <3>2. \A j \in 1 .. k + 1 : j \in 1 .. k \/ es[j] = e
      BY DEF e
    <3>3. e.src # NotVisited
      BY <2>2, BfsAssumption
    <3>4. /\ nx.pred \in [Vertices -> Vertices \cup {NotVisited}]
          /\ nx.pred[e.tgt] = e.src
          /\ \A v \in Vertices \ {e.tgt} : nx.pred[v] = st.pred[v]
      BY <2>1, <2>2
    <3>5. /\ nx.newq \in Seq(Vertices)
          /\ ToSet(nx.newq) = ToSet(st.newq) \cup {e.tgt}
      <4>1. st.newq \in Seq(Vertices) /\ nx.newq = Append(st.newq, e.tgt)
        BY <2>1
      <4> HIDE DEF nx
      <4> QED
        BY <2>2, <4>1, AppendSet
    <3>6. pred[e.tgt] = NotVisited
      BY <2>1, <2>2, <2>4
    <3>7. Fresh(nx) = Fresh(st) \cup {e.tgt}
      BY <2>2, <3>3, <3>4, <3>6
    <3>8. nx \in [pred : [Vertices -> Vertices \cup {NotVisited}], newq : Seq(Vertices)]
      BY <3>4, <3>5
    <3>9. e = es[k + 1] /\ k + 1 \in 1 .. n
      BY DEF e
    <3> HIDE DEF nx
    <3>10. \A v \in Vertices : pred[v] # NotVisited => nx.pred[v] = pred[v]
      BY <2>1, <3>4, <3>6
    <3>11. \A j \in 1 .. k + 1 : nx.pred[es[j].tgt] # NotVisited
      <4>1. \A j \in 1 .. k : es[j].tgt \in Vertices /\ es[j].tgt # e.tgt
        BY <1>0, <2>1, <2>4 DEF Edges
      <4>2. \A j \in 1 .. k : nx.pred[es[j].tgt] # NotVisited
        BY <2>1, <3>4, <4>1
      <4> QED
        BY <3>2, <3>3, <3>4, <4>2
    <3>12. \A v \in Fresh(nx) : \E j \in 1 .. n : es[j] = [tgt |-> v, src |-> nx.pred[v]]
      <4>1. \A v \in Fresh(st) : v # e.tgt
        BY <2>4
      <4> HIDE DEF Fresh
      <4>2. \A v \in Fresh(st) : nx.pred[v] = st.pred[v]
        BY <3>4, <4>1 DEF Fresh
      <4> QED
        BY <2>1, <2>2, <3>4, <3>7, <3>9, <4>2
    <3>13. ToSet(nx.newq) = ToSet(newq[r]) \cup Fresh(nx)
      <4> HIDE DEF Fresh
      <4> QED
        BY <2>1, <3>5, <3>7
    <3>14. After(nx, k + 1)
      BY <3>8, <3>10, <3>11, <3>12, <3>13
    <3> HIDE DEF After
    <3> QED
      BY <3>1, <3>14
  <2> QED
    BY <2>3, <2>4
<1>4. n \in T
  <2>1. \A k \in 0 .. n - 1 : k \in T => k + 1 \in T
    BY <1>3
  <2> HIDE DEF T
  <2>2. \A k \in 0 .. n : k \in T
    BY <1>0, <1>2, <2>1, UpTo
  <2> QED
    BY <1>0, <2>2
<1>5. PICK st : st = Processed(base, es)
  OBVIOUS
<1>6. After(st, n) /\ pred' = st.pred /\ newq' = [newq EXCEPT ![r] = st.newq]
  <2>1. pred' = st.pred /\ newq' = [newq EXCEPT ![r] = st.newq]
    BY <1>5 DEF ReachAll, Processed
  <2> QED
    BY <1>1, <1>4, <1>5, <2>1
<1>7. newq' \in [Ranks -> Seq(Vertices)]
  BY <1>6 DEF TypeOK
<1>8. Level(newq') = Level(newq) \cup Fresh(st)
  <2>1. /\ newq'[r] = st.newq
        /\ \A q \in Ranks \ {r} : newq'[q] = newq[q]
    BY <1>6 DEF TypeOK
  <2>2. ToSet(st.newq) = ToSet(newq[r]) \cup Fresh(st)
    BY <1>6
  <2> HIDE DEF Fresh
  <2> QED
    BY <2>1, <2>2 DEF Level
<1>9. \A e : e \in ToSet(es) <=> \E j \in 1 .. n : es[j] = e
  BY <1>0 DEF ToSet
<1>10. \A e \in ToSet(es) : pred'[e.tgt] # NotVisited
  BY <1>6, <1>9
<1>11. \A v \in Fresh(st) : [tgt |-> v, src |-> pred'[v]] \in ToSet(es)
  BY <1>6, <1>9
<1>12. Fresh(st) = {v \in Vertices : pred[v] = NotVisited /\ pred'[v] # NotVisited}
  BY <1>6
<1>13. /\ pred' \in [Vertices -> Vertices \cup {NotVisited}]
       /\ \A v \in Vertices : pred[v] # NotVisited => pred'[v] = pred[v]
  BY <1>6
<1> HIDE DEF Fresh
<1> QED
  BY <1>7, <1>8, <1>10, <1>11, <1>12, <1>13

-------------------------------------------------------------------------------
(* The destinations of a rank, (r + k) % Size for k from 1 to Size - 1.    *)
LEMMA RingStep ==
    ASSUME NEW r \in Ranks, NEW k \in 0 .. Size - 1
    PROVE  (r + k) % Size = IF r + k < Size THEN r + k ELSE r + k - Size
<1>1. Size \in Nat \ {0} /\ r \in 0 .. Size - 1
  BY BfsAssumption DEF Ranks
<1>2. CASE r + k < Size
  BY <1>1, <1>2
<1>3. CASE r + k >= Size
  <2>1. r + k - Size \in 0 .. Size - 1 /\ r + k = 1 * Size + (r + k - Size)
    BY <1>1, <1>3
  <2> QED
    BY <1>1, <1>3, <2>1
<1> QED
  BY <1>1, <1>2, <1>3

LEMMA Destinations ==
    ASSUME NEW r \in Ranks
    PROVE  /\ \A k \in 1 .. Size - 1 : (r + k) % Size \in Ranks \ {r}
           /\ \A j, k \in 1 .. Size - 1 : (r + j) % Size = (r + k) % Size => j = k
           /\ \A d \in Ranks \ {r} : \E k \in 1 .. Size - 1 : d = (r + k) % Size
<1>1. Size \in Nat \ {0} /\ Ranks = 0 .. Size - 1
  BY BfsAssumption DEF Ranks
<1>2. \A k \in 1 .. Size - 1 : (r + k) % Size = IF r + k < Size THEN r + k ELSE r + k - Size
  BY <1>1, RingStep
<1>3. ASSUME NEW d \in Ranks \ {r}
      PROVE  \E k \in 1 .. Size - 1 : d = (r + k) % Size
  <2>1. CASE d > r
    <3>1. d - r \in 1 .. Size - 1 /\ d = (r + (d - r)) % Size
      BY <1>1, <1>2, <2>1
    <3> QED
      BY <3>1
  <2>2. CASE d < r
    <3>1. d - r + Size \in 1 .. Size - 1 /\ d = (r + (d - r + Size)) % Size
      BY <1>1, <1>2, <2>2
    <3> QED
      BY <3>1
  <2> QED
    BY <1>1, <2>1, <2>2
<1> QED
  BY <1>1, <1>2, <1>3

-------------------------------------------------------------------------------
(* Consequences of the control part of the invariant.                      *)
LEMMA NextDest ==
    ASSUME TypeOK, NEW r \in Ranks, offset[r] < Size
    PROVE  /\ dest(r) \in Ranks \ {r}
           /\ at[r] # "signalled" => dest(r) \notin Told(r)
<1>1. offset[r] \in 1 .. Size - 1 /\ Size \in Nat
  BY BfsAssumption DEF TypeOK
<1>2. dest(r) \in Ranks \ {r}
  BY <1>1, Destinations DEF dest
<1>3. ASSUME at[r] # "signalled", NEW k \in 1 .. offset[r] - 1
      PROVE  (r + k) % Size # (r + offset[r]) % Size
  <2>1. k \in 1 .. Size - 1 /\ k # offset[r]
    BY <1>1
  <2> QED
    BY <1>1, <2>1, Destinations
<1> QED
  BY <1>2, <1>3 DEF Told, Limit, dest

LEMMA AllTold ==
    ASSUME TypeOK, PhaseOK, NEW r \in Ranks, at[r] \in {"wait", "allreduce", "end"}
    PROVE  Ranks \ {r} \subseteq Told(r)
<1>1. Told(r) = {(r + k) % Size : k \in 1 .. Size - 1}
  BY DEF PhaseOK, Told, Limit
<1> QED
  BY <1>1, Destinations

LEMMA RanksCounted == IsFiniteSet(Ranks) /\ Cardinality(Ranks) = Size
BY FS_Interval, BfsAssumption DEF Ranks

LEMMA HeardFinite ==
    ASSUME NEW r \in Ranks
    PROVE  /\ IsFiniteSet(Heard(r)) /\ Cardinality(Heard(r)) \in Nat
           /\ IsFiniteSet(Ranks \ {r}) /\ Cardinality(Ranks \ {r}) = Size - 1
           /\ Cardinality(Heard(r)) = Size - 1 => Heard(r) = Ranks \ {r}
<1>1. IsFiniteSet(Ranks \ {r}) /\ Cardinality(Ranks \ {r}) = Size - 1
  BY RanksCounted, FS_RemoveElement
<1>2. Heard(r) \in SUBSET (Ranks \ {r})
  BY DEF Heard
<1> QED
  BY <1>1, <1>2, FS_Subset, FS_CardinalityType

(* A rank that has counted all the others knows that their messages of this*)
(* level have come in.                                                     *)
LEMMA AllHeard ==
    ASSUME Control, NEW r \in Ranks, num_ranks_done[r] = Size, NEW s \in Ranks \ {r}
    PROVE  r \in Told(s) /\ net[s][r] = <<>> /\ outgoing[s][r] = <<>>
<1>1. Cardinality(Heard(r)) = Size - 1
  <2>1. Size = 1 + Cardinality(Heard(r)) /\ Size \in Nat
    BY BfsAssumption DEF Control, CountOK
  <2>2. Cardinality(Heard(r)) \in Nat
    BY HeardFinite
  <2> QED
    BY <2>1, <2>2
<1>2. s \in Heard(r)
  BY <1>1, HeardFinite
<1> QED
  BY <1>2 DEF Heard, Control, LinksOK, LinkOK

(* A rank that has told another one anything has scanned its level.        *)
LEMMA ToldAfterScan ==
    ASSUME TypeOK, PhaseOK, NEW s \in Ranks, at[s] \in {"scan", "edges"}
    PROVE  Told(s) = {}
<1>1. at[s] # "signalled" /\ offset[s] = 1
  BY DEF PhaseOK
<1>2. offset[s] - 1 = 0
  BY <1>1
<1>3. 1 .. 0 = {}
  OBVIOUS
<1> QED
  BY <1>1, <1>2, <1>3 DEF Told, Limit

LEMMA ControlImpliesLevels == Control => LevelsDoNotOverlap
<1> SUFFICES ASSUME Control, NEW r \in Ranks, at[r] \in {"allreduce", "end"},
                    NEW s \in Ranks \ {r}
             PROVE  /\ net[s][r] = <<>> /\ outgoing[s][r] = <<>>
                    /\ at[s] # "edges" /\ (at[s] = "scan" => i[s] > Len(oldq[s]))
                    /\ ~active[r][s]
  BY DEF LevelsDoNotOverlap
<1>1. r \in Told(s) /\ net[s][r] = <<>> /\ outgoing[s][r] = <<>>
  BY AllHeard DEF Control, PhaseOK
<1>2. at[s] \notin {"scan", "edges"}
  BY <1>1, ToldAfterScan DEF Control
<1>3. ~active[r][s]
  <2>1. s \in Told(r)
    BY AllTold DEF Control
  <2>2. LinkOK(r, s)
    BY DEF Control, LinksOK
  <2> QED
    BY <2>1, <2>2 DEF LinkOK, Control, TypeOK
<1> QED
  BY <1>1, <1>2, <1>3

-------------------------------------------------------------------------------
LEMMA ControlInit == Init => Control
<1> SUFFICES ASSUME Init
             PROVE  Control
  OBVIOUS
<1> USE BfsAssumption
<1>1. Size \in Nat \ {0} /\ 1 \in 1 .. Size /\ Root \in Vertices
  OBVIOUS
<1>2. TypeOK
  <2>1. <<>> \in Seq(Vertices) /\ <<Root>> \in Seq(Vertices)
    BY <1>1
  <2>2. oldq \in [Ranks -> Seq(Vertices)] /\ newq \in [Ranks -> Seq(Vertices)]
    BY <2>1 DEF Init
  <2>3. <<>> \in Seq(Edges) /\ <<>> \in Seq(Seq(Edges))
    BY EmptySeq
  <2>4. /\ outgoing \in [Ranks -> [Ranks -> Seq(Edges)]]
        /\ net \in [Ranks -> [Ranks -> Seq(Seq(Edges))]]
        /\ edges \in [Ranks -> Seq(Vertices)]
    BY <2>1, <2>3 DEF Init, NoMessages
  <2>5. pred \in [Vertices -> Vertices \cup {NotVisited}]
    BY <1>1 DEF Init
  <2>6. offset \in [Ranks -> 1 .. Size] /\ at \in [Ranks -> Places]
    BY <1>1 DEF Init, Places
  <2>7. i \in [Ranks -> Nat \ {0}] /\ num_ranks_done \in [Ranks -> Nat]
    <3>1. 1 \in Nat \ {0} /\ 1 \in Nat
      OBVIOUS
    <3> QED
      BY <3>1 DEF Init
  <2>8. active \in [Ranks -> [Ranks -> BOOLEAN]]
    BY DEF Init
  <2> QED
    BY <2>2, <2>4, <2>5, <2>6, <2>7, <2>8 DEF TypeOK
<1>3. PhaseOK
  BY DEF Init, PhaseOK
<1>4. \A r \in Ranks : Told(r) = {}
  BY <1>2, <1>3, ToldAfterScan DEF Init
<1>5. \A r, d \in Ranks : net[r][d] = <<>> /\ outgoing[r][d] = <<>>
  BY DEF Init, NoMessages
<1>6. LinksOK
  BY <1>4, <1>5, EmptySeq DEF LinksOK, LinkOK
<1>7. CountOK
  <2>1. \A r \in Ranks : Heard(r) = {} /\ num_ranks_done[r] = 1
    BY <1>4 DEF Heard, Init
  <2>2. \A r \in Ranks : Cardinality(Heard(r)) = 0
    BY <2>1, FS_EmptySet
  <2> QED
    BY <2>1, <2>2 DEF CountOK
<1> QED
  BY <1>2, <1>3, <1>6, <1>7 DEF Control

-------------------------------------------------------------------------------
(* A step that sends, receives and tells nothing.                          *)
LEMMA QuietLinks ==
    ASSUME Control, UNCHANGED <<outgoing, net, num_ranks_done>>,
           \A q \in Ranks : Limit(q)' = Limit(q),
           \A q \in Ranks : \A d \in Ranks \ {q} :
              d \in Told(q) /\ active'[q][d] => at'[q] = "signalled" /\ d = dest(q)'
    PROVE  LinksOK' /\ CountOK'
<1>1. \A q \in Ranks : Told(q)' = Told(q)
  BY DEF Told
<1>2. \A q \in Ranks : Heard(q)' = Heard(q)
  BY <1>1 DEF Heard
<1>3. CountOK'
  BY <1>2 DEF Control, CountOK
<1>4. LinksOK'
  BY <1>1 DEF Control, LinksOK, LinkOK
<1> QED
  BY <1>3, <1>4

LEMMA IsendType ==
    ASSUME Control, NEW r \in Ranks, NEW d \in Ranks, NEW m \in Seq(Edges), Isend(r, d, m)
    PROVE  /\ net' \in [Ranks -> [Ranks -> Seq(Seq(Edges))]]
           /\ active' \in [Ranks -> [Ranks -> BOOLEAN]]
<1>1. Append(net[r][d], m) \in Seq(Seq(Edges))
  BY AppendSet DEF Control, TypeOK
<1> QED
  BY <1>1 DEF Isend, Control, TypeOK

(* r sends edges to d, which it has not told yet that it is done.          *)
LEMMA SendLinks ==
    ASSUME Control, NEW r \in Ranks, NEW d \in Ranks \ {r}, d \notin Told(r),
           NEW m \in Seq(Edges), m # <<>>, Isend(r, d, m),
           \A q, p \in Ranks : q # r \/ p # d => outgoing'[q][p] = outgoing[q][p],
           UNCHANGED <<num_ranks_done, offset, at>>
    PROVE  LinksOK' /\ CountOK'
<1>1. \A q \in Ranks : Told(q)' = Told(q) /\ dest(q)' = dest(q)
  BY DEF Told, Limit, dest
<1>2. /\ net'[r][d] = Append(net[r][d], m)
      /\ \A q, p \in Ranks : q # r \/ p # d => net'[q][p] = net[q][p] /\ active'[q][p] = active[q][p]
  BY DEF Isend, Control, TypeOK
<1>3. \A q \in Ranks : Heard(q)' = Heard(q)
  BY <1>1, <1>2 DEF Heard
<1>4. CountOK'
  BY <1>3 DEF Control, CountOK
<1>5. LinkOK(r, d)'
  <2>1. /\ Len(net'[r][d]) = Len(net[r][d]) + 1 /\ Len(net[r][d]) \in Nat
        /\ \A k \in 1 .. Len(net[r][d]) + 1 :
              net'[r][d][k] = IF k = Len(net[r][d]) + 1 THEN m ELSE net[r][d][k]
    <3>1. net[r][d] \in Seq(Seq(Edges))
      BY DEF Control, TypeOK
    <3> QED
      BY <1>2, <3>1, AppendSet
  <2>2. \A k \in 1 .. Len(net[r][d]) : net[r][d][k] # <<>>
    BY DEF Control, LinksOK, LinkOK
  <2>3. \A k \in 1 .. Len(net'[r][d]) : net'[r][d][k] # <<>>
    BY <2>1, <2>2
  <2> QED
    BY <1>1, <2>3 DEF LinkOK
<1>6. ASSUME NEW q \in Ranks, NEW p \in Ranks \ {q}, q # r \/ p # d
      PROVE  LinkOK(q, p)'
  BY <1>1, <1>2, <1>6 DEF LinkOK, Control, LinksOK
<1>7. \A q \in Ranks : net'[q][q] = <<>> /\ outgoing'[q][q] = <<>>
  BY <1>2 DEF Control, LinksOK
<1> QED
  BY <1>4, <1>5, <1>6, <1>7 DEF LinksOK

LEMMA ScanControl ==
    ASSUME Control, NEW r \in Ranks,
           BeginVertex(r) \/ EndVertex(r) \/ EndScan(r)
    PROVE  Control'
<1> USE DEF Control
<1>1. /\ at[r] \in {"scan", "edges"} /\ offset[r] = 1
      /\ at' \in [Ranks -> Places] /\ at'[r] \in {"scan", "edges", "flush"}
      /\ \A q \in Ranks \ {r} : at'[q] = at[q]
      /\ UNCHANGED <<pred, oldq, newq, sendVars, num_ranks_done, offset>>
  <2>1. /\ at[r] \in {"scan", "edges"}
        /\ at' = [at EXCEPT ![r] = "scan"] \/ at' = [at EXCEPT ![r] = "edges"]
              \/ at' = [at EXCEPT ![r] = "flush"]
        /\ UNCHANGED <<pred, oldq, newq, sendVars, num_ranks_done, offset>>
    BY DEF BeginVertex, EndVertex, EndScan, Goto, scanVars
  <2>2. at' \in [Ranks -> Places] /\ at'[r] \in {"scan", "edges", "flush"}
    BY <2>1 DEF TypeOK, Places
  <2>3. \A q \in Ranks \ {r} : at'[q] = at[q]
    BY <2>1 DEF TypeOK
  <2> QED
    BY <2>1, <2>2, <2>3 DEF PhaseOK
<1>2. /\ i' \in [Ranks -> Nat \ {0}] /\ edges' \in [Ranks -> Seq(Vertices)]
      /\ \A q \in Ranks \ {r} : i'[q] = i[q]
      /\ at'[r] = "edges" => i'[r] <= Len(oldq'[r])
      /\ at'[r] = "flush" => i'[r] > Len(oldq'[r])
  <2>1. CASE BeginVertex(r)
    <3>1. src(r) \in Vertices
      BY <2>1 DEF BeginVertex, src, TypeOK
    <3>2. column[src(r)] \in Seq(Vertices)
      BY <3>1, BfsAssumption
    <3>3. at'[r] = "edges" /\ i[r] <= Len(oldq[r]) /\ UNCHANGED <<oldq, i>>
      BY <2>1 DEF BeginVertex, Goto, TypeOK
    <3>4. edges' \in [Ranks -> Seq(Vertices)]
      BY <2>1, <3>2 DEF BeginVertex, TypeOK
    <3> QED
      BY <3>3, <3>4 DEF TypeOK
  <2>2. CASE EndVertex(r)
    <3>1. at'[r] = "scan" /\ i' = [i EXCEPT ![r] = @ + 1] /\ edges' = edges
      BY <2>2 DEF EndVertex, Goto, TypeOK
    <3>2. i' \in [Ranks -> Nat \ {0}] /\ \A q \in Ranks \ {r} : i'[q] = i[q]
      BY <3>1 DEF TypeOK
    <3> QED
      BY <3>1, <3>2 DEF TypeOK
  <2>3. CASE EndScan(r)
    BY <2>3 DEF EndScan, scanVars, Goto, TypeOK
  <2> QED
    BY <2>1, <2>2, <2>3
<1>3. TypeOK'
  BY <1>1, <1>2 DEF TypeOK, sendVars
<1>4. PhaseOK'
  <2>1. \A q \in Ranks : at[q] # "end"
    BY <1>1 DEF PhaseOK
  <2> QED
    BY <1>1, <1>2, <2>1 DEF PhaseOK
<1>5. \A q \in Ranks : Limit(q)' = Limit(q)
  BY <1>1 DEF Limit
<1>6. \A q \in Ranks \ {r} : dest(q)' = dest(q)
  BY <1>1 DEF dest
<1>7. Told(r) = {}
  BY <1>1, ToldAfterScan
<1>8. \A q \in Ranks : \A d \in Ranks \ {q} :
         d \in Told(q) /\ active'[q][d] => at'[q] = "signalled" /\ d = dest(q)'
  BY <1>1, <1>6, <1>7 DEF sendVars, LinksOK, LinkOK
<1>9. LinksOK' /\ CountOK'
  BY <1>1, <1>5, <1>8, QuietLinks DEF sendVars
<1> QED
  BY <1>3, <1>4, <1>9

LEMMA LocalEdgeControl ==
    ASSUME Control, NEW r \in Ranks, LocalEdge(r)
    PROVE  Control'
<1> USE DEF Control
<1> DEFINE e == [tgt |-> Head(edges[r]), src |-> src(r)]
<1>1. /\ at[r] = "edges" /\ edges[r] # <<>> /\ ReachAll(r, <<e>>)
      /\ edges' = [edges EXCEPT ![r] = Tail(@)]
      /\ UNCHANGED <<oldq, i, sendVars, num_ranks_done, offset, at>>
  BY DEF LocalEdge
<1>2. src(r) \in Vertices
  BY <1>1 DEF src, TypeOK, PhaseOK
<1>3. Head(edges[r]) \in Vertices /\ Tail(edges[r]) \in Seq(Vertices)
  BY <1>1, TailSet DEF TypeOK
<1>4. <<e>> \in Seq(Edges)
  BY <1>2, <1>3 DEF Edges
<1>5. /\ pred' \in [Vertices -> Vertices \cup {NotVisited}]
      /\ newq' \in [Ranks -> Seq(Vertices)]
  BY <1>1, <1>4, ReachAllOK
<1>6. edges' \in [Ranks -> Seq(Vertices)]
  BY <1>1, <1>3 DEF TypeOK
<1>7. TypeOK'
  BY <1>1, <1>5, <1>6 DEF TypeOK, sendVars
<1>8. PhaseOK'
  BY <1>1 DEF PhaseOK
<1>9. LinksOK' /\ CountOK'
  BY <1>1, QuietLinks DEF sendVars, Limit, dest, LinksOK, LinkOK
<1> QED
  BY <1>7, <1>8, <1>9

(* The coalescing buffer with one edge more.                               *)
LEMMA CoalescedOK ==
    ASSUME Control, NEW r \in Ranks, RemoteEdge(r)
    PROVE  /\ at[r] = "edges" /\ edges[r] # <<>> /\ owner(r) \in Ranks \ {r}
           /\ Told(r) = {} /\ Tail(edges[r]) \in Seq(Vertices)
           /\ [tgt |-> Head(edges[r]), src |-> src(r)] \in Edges
           /\ outgoing[r][owner(r)] \in Seq(Edges)
<1> USE DEF Control
<1>1. at[r] = "edges" /\ edges[r] # <<>> /\ owner(r) # r
  BY DEF RemoteEdge
<1>2. Head(edges[r]) \in Vertices /\ Tail(edges[r]) \in Seq(Vertices)
  BY <1>1, TailSet DEF TypeOK
<1>3. owner(r) \in Ranks
  BY <1>2, BfsAssumption DEF owner, VERTEX_OWNER, Vertices, Ranks
<1>4. src(r) \in Vertices
  BY <1>1 DEF src, TypeOK, PhaseOK
<1>5. outgoing[r][owner(r)] \in Seq(Edges)
  BY <1>3 DEF TypeOK
<1>6. Told(r) = {}
  BY <1>1, ToldAfterScan
<1>7. [tgt |-> Head(edges[r]), src |-> src(r)] \in Edges
  BY <1>2, <1>4 DEF Edges
<1> QED
  BY <1>1, <1>2, <1>3, <1>5, <1>6, <1>7

LEMMA RemoteEdgeControl ==
    ASSUME Control, NEW r \in Ranks, RemoteEdge(r)
    PROVE  Control'
<1> USE DEF Control
<1>1. PICK d \in Ranks \ {r} : d = owner(r)
  BY CoalescedOK
<1>2. PICK e \in Edges : e = [tgt |-> Head(edges[r]), src |-> src(r)]
  BY CoalescedOK
<1>3. PICK buf \in Seq(Edges) : buf = Append(outgoing[r][d], e) /\ buf # <<>>
  <2>1. outgoing[r][d] \in Seq(Edges)
    BY <1>1, CoalescedOK
  <2>2. PICK buf \in Seq(Edges) : /\ buf = Append(outgoing[r][d], e)
                                  /\ Len(buf) = Len(outgoing[r][d]) + 1
    BY <2>1, AppendSet
  <2>3. Len(outgoing[r][d]) \in Nat /\ Len(<<>>) = 0
    BY <2>1
  <2> QED
    BY <2>2, <2>3
<1>4. /\ \/ Isend(r, d, buf) /\ outgoing' = [outgoing EXCEPT ![r][d] = <<>>]
         \/ outgoing' = [outgoing EXCEPT ![r][d] = buf] /\ UNCHANGED <<net, active>>
      /\ edges' = [edges EXCEPT ![r] = Tail(@)]
      /\ UNCHANGED <<pred, oldq, newq, i, num_ranks_done, offset, at>>
  BY <1>1, <1>2, <1>3 DEF RemoteEdge, Coalesce
<1>5. Told(r) = {} /\ edges' \in [Ranks -> Seq(Vertices)]
  BY <1>4, CoalescedOK DEF TypeOK
<1>6. /\ outgoing' \in [Ranks -> [Ranks -> Seq(Edges)]]
      /\ \A q, p \in Ranks : q # r \/ p # d => outgoing'[q][p] = outgoing[q][p]
  <2>1. <<>> \in Seq(Edges)
    BY EmptySeq
  <2>2. PICK b \in Seq(Edges) : outgoing' = [outgoing EXCEPT ![r][d] = b]
    BY <1>3, <1>4, <2>1
  <2> QED
    BY <2>2 DEF TypeOK
<1>7. PhaseOK'
  BY <1>4 DEF PhaseOK
<1>8. CASE Isend(r, d, buf)
  <2>1. /\ net' \in [Ranks -> [Ranks -> Seq(Seq(Edges))]]
        /\ active' \in [Ranks -> [Ranks -> BOOLEAN]]
    BY <1>3, <1>8, IsendType
  <2>2. TypeOK'
    BY <1>4, <1>5, <1>6, <2>1 DEF TypeOK
  <2>3. LinksOK' /\ CountOK'
    BY <1>3, <1>4, <1>5, <1>6, <1>8, SendLinks
  <2> QED
    BY <1>7, <2>2, <2>3
<1>9. CASE UNCHANGED <<net, active>>
  <2>1. TypeOK'
    BY <1>4, <1>5, <1>6, <1>9 DEF TypeOK
  <2>2. \A q \in Ranks : Told(q)' = Told(q) /\ dest(q)' = dest(q) /\ Heard(q)' = Heard(q)
    BY <1>4, <1>9 DEF Told, Limit, dest, Heard
  <2>3. CountOK'
    BY <1>4, <2>2 DEF CountOK
  <2>4. LinksOK'
    <3>1. /\ UNCHANGED <<net, active, at>>
          /\ \A q, p \in Ranks : p \in Told(q) => outgoing'[q][p] = outgoing[q][p]
          /\ \A q \in Ranks : outgoing'[q][q] = outgoing[q][q]
      BY <1>4, <1>5, <1>6, <1>9
    <3>2. ASSUME NEW q \in Ranks, NEW p \in Ranks \ {q}
          PROVE  LinkOK(q, p)'
      BY <2>2, <3>1 DEF LinksOK, LinkOK
    <3> QED
      BY <3>1, <3>2 DEF LinksOK
  <2> QED
    BY <1>7, <2>1, <2>3, <2>4
<1> QED
  BY <1>4, <1>8, <1>9

LEMMA FlushBufferControl ==
    ASSUME Control, NEW r \in Ranks, FlushBuffer(r)
    PROVE  Control'
<1> USE DEF Control
<1>1. PICK d \in Ranks \ {r} : d = dest(r) /\ d \notin Told(r)
  BY NextDest DEF FlushBuffer
<1>2. PICK m \in Seq(Edges) : m = outgoing[r][d] /\ m # <<>>
  BY <1>1 DEF FlushBuffer, TypeOK
<1>3. /\ Isend(r, d, m) /\ outgoing' = [outgoing EXCEPT ![r][d] = <<>>]
      /\ UNCHANGED <<pred, newq, oldq, i, edges, num_ranks_done, offset, at>>
  BY <1>1, <1>2 DEF FlushBuffer, scanVars
<1>4. /\ outgoing' \in [Ranks -> [Ranks -> Seq(Edges)]]
      /\ \A q, p \in Ranks : q # r \/ p # d => outgoing'[q][p] = outgoing[q][p]
  BY <1>3, EmptySeq DEF TypeOK
<1>5. /\ net' \in [Ranks -> [Ranks -> Seq(Seq(Edges))]]
      /\ active' \in [Ranks -> [Ranks -> BOOLEAN]]
  BY <1>3, IsendType
<1>6. TypeOK'
  BY <1>3, <1>4, <1>5 DEF TypeOK
<1>7. PhaseOK'
  BY <1>3 DEF PhaseOK
<1>8. LinksOK' /\ CountOK'
  BY <1>1, <1>2, <1>3, <1>4, SendLinks
<1> QED
  BY <1>6, <1>7, <1>8

LEMMA SignalDoneControl ==
    ASSUME Control, NEW r \in Ranks, SignalDone(r)
    PROVE  Control'
<1> USE DEF Control
<1>1. PICK d \in Ranks \ {r} : d = dest(r) /\ d \notin Told(r)
  BY NextDest DEF SignalDone
<1>2. /\ at[r] = "flush" /\ offset[r] < Size /\ outgoing[r][d] = <<>> /\ Isend(r, d, <<>>)
      /\ at' = [at EXCEPT ![r] = "signalled"]
      /\ UNCHANGED <<pred, newq, oldq, i, edges, outgoing, num_ranks_done, offset>>
  BY <1>1 DEF SignalDone, Goto, scanVars
<1>3. /\ at' \in [Ranks -> Places] /\ at'[r] = "signalled"
      /\ \A q \in Ranks \ {r} : at'[q] = at[q]
  BY <1>2 DEF TypeOK, Places
<1>4. TypeOK'
  <2>1. <<>> \in Seq(Edges)
    BY EmptySeq
  <2>2. /\ net' \in [Ranks -> [Ranks -> Seq(Seq(Edges))]]
        /\ active' \in [Ranks -> [Ranks -> BOOLEAN]]
    BY <1>2, <2>1, IsendType
  <2> QED
    BY <1>2, <1>3, <2>2 DEF TypeOK
<1>5. PhaseOK'
  <2>1. \A q \in Ranks : at[q] # "end"
    BY <1>2 DEF PhaseOK
  <2> QED
    BY <1>2, <1>3, <2>1 DEF PhaseOK
<1>6. /\ Told(r)' = Told(r) \cup {d}
      /\ \A q \in Ranks \ {r} : Told(q)' = Told(q)
      /\ \A q \in Ranks : dest(q)' = dest(q)
  <2>1. Told(r) = {(r + k) % Size : k \in 1 .. offset[r] - 1}
    BY <1>2 DEF Told, Limit
  <2>2. Told(r)' = {(r + k) % Size : k \in 1 .. offset[r]}
    BY <1>2, <1>3 DEF Told, Limit
  <2>3. 1 .. offset[r] = (1 .. offset[r] - 1) \cup {offset[r]}
    <3>1. PICK o \in Nat \ {0} : o = offset[r]
      BY BfsAssumption DEF TypeOK
    <3>2. 1 .. o = (1 .. o - 1) \cup {o}
      OBVIOUS
    <3> QED
      BY <3>1, <3>2
  <2>4. Told(r)' = Told(r) \cup {d}
    BY <1>1, <2>1, <2>2, <2>3 DEF dest
  <2> QED
    BY <1>2, <1>3, <2>4 DEF Told, Limit, dest
<1>7. /\ net'[r][d] = Append(net[r][d], <<>>)
      /\ \A q, p \in Ranks : q # r \/ p # d => net'[q][p] = net[q][p] /\ active'[q][p] = active[q][p]
  BY <1>2 DEF Isend, TypeOK
<1>8. /\ Len(net'[r][d]) = Len(net[r][d]) + 1 /\ Len(net[r][d]) \in Nat
      /\ net'[r][d] # <<>>
      /\ \A k \in 1 .. Len(net[r][d]) + 1 :
            net'[r][d][k] = IF k = Len(net[r][d]) + 1 THEN <<>> ELSE net[r][d][k]
  <2>1. net[r][d] \in Seq(Seq(Edges)) /\ <<>> \in Seq(Edges)
    BY EmptySeq DEF TypeOK
  <2>2. /\ Len(net'[r][d]) = Len(net[r][d]) + 1 /\ Len(net[r][d]) \in Nat
        /\ \A k \in 1 .. Len(net[r][d]) + 1 :
              net'[r][d][k] = IF k = Len(net[r][d]) + 1 THEN <<>> ELSE net[r][d][k]
    BY <1>7, <2>1, AppendSet
  <2>3. Len(<<>>) = 0
    OBVIOUS
  <2> QED
    BY <2>2, <2>3
<1>9. \A q \in Ranks : Heard(q)' = Heard(q)
  BY <1>1, <1>6, <1>7, <1>8 DEF Heard
<1>10. CountOK'
  BY <1>2, <1>9 DEF CountOK
<1>11. LinkOK(r, d)'
  <2>1. \A k \in 1 .. Len(net[r][d]) : net[r][d][k] # <<>>
    BY <1>1 DEF LinksOK, LinkOK
  <2>2. \A k \in 1 .. Len(net'[r][d]) : net'[r][d][k] = <<>> => k = Len(net'[r][d])
    BY <1>8, <2>1
  <2>3. net'[r][d][Len(net'[r][d])] = <<>>
    BY <1>8
  <2> QED
    BY <1>1, <1>2, <1>3, <1>6, <2>2, <2>3 DEF LinkOK
<1>12. ASSUME NEW p \in Ranks \ {r}, p # d
       PROVE  LinkOK(r, p)'
  <2>1. LinkOK(r, p)
    BY DEF LinksOK
  <2>2. p \in Told(r) => ~active[r][p]
    BY <1>2, <2>1 DEF LinkOK, TypeOK
  <2> QED
    BY <1>2, <1>6, <1>7, <1>12, <2>1, <2>2 DEF LinkOK
<1>13. ASSUME NEW q \in Ranks \ {r}, NEW p \in Ranks \ {q}
       PROVE  LinkOK(q, p)'
  <2>1. LinkOK(q, p)
    BY DEF LinksOK
  <2> QED
    BY <1>2, <1>3, <1>6, <1>7, <2>1 DEF LinkOK
<1>14. \A q \in Ranks : net'[q][q] = <<>> /\ outgoing'[q][q] = <<>>
  BY <1>2, <1>7 DEF LinksOK
<1>15. LinksOK'
  BY <1>11, <1>12, <1>13, <1>14 DEF LinksOK
<1> QED
  BY <1>4, <1>5, <1>10, <1>15

(* The steps between two destinations and at the end of the flush.         *)
LEMMA FlushControl ==
    ASSUME Control, NEW r \in Ranks,
           NextDestination(r) \/ EndFlush(r) \/ AllAreDone(r)
    PROVE  Control'
<1> USE DEF Control
<1>0. UNCHANGED <<pred, oldq, newq, i, edges, outgoing, active, net, num_ranks_done>>
  BY DEF NextDestination, EndFlush, AllAreDone, scanVars, sendVars
<1>1. CASE NextDestination(r)
  <2>1. /\ at[r] = "signalled" /\ ~active[r][dest(r)]
        /\ offset' = [offset EXCEPT ![r] = @ + 1] /\ at' = [at EXCEPT ![r] = "flush"]
    BY <1>1 DEF NextDestination, Goto
  <2>2. offset[r] \in 1 .. Size - 1 /\ Size \in Nat
    BY <2>1, BfsAssumption DEF PhaseOK, TypeOK
  <2>3. /\ offset' \in [Ranks -> 1 .. Size] /\ offset'[r] = offset[r] + 1
        /\ at' \in [Ranks -> Places] /\ at'[r] = "flush"
        /\ \A q \in Ranks \ {r} : at'[q] = at[q] /\ offset'[q] = offset[q]
    BY <2>1, <2>2 DEF TypeOK, Places
  <2>4. TypeOK'
    BY <1>0, <2>3 DEF TypeOK
  <2>5. PhaseOK'
    <3>1. \A q \in Ranks : at[q] # "end"
      BY <2>1 DEF PhaseOK
    <3> QED
      BY <1>0, <2>1, <2>3, <3>1 DEF PhaseOK
  <2>6. \A q \in Ranks : Limit(q)' = Limit(q)
    BY <2>1, <2>2, <2>3 DEF Limit
  <2>7. \A q \in Ranks \ {r} : dest(q)' = dest(q)
    BY <2>3 DEF dest
  <2>8. \A q \in Ranks : \A d \in Ranks \ {q} :
           d \in Told(q) /\ active'[q][d] => at'[q] = "signalled" /\ d = dest(q)'
    BY <1>0, <2>1, <2>3, <2>7 DEF LinksOK, LinkOK
  <2>9. LinksOK' /\ CountOK'
    BY <1>0, <2>6, <2>8, QuietLinks
  <2> QED
    BY <2>4, <2>5, <2>9
<1>2. CASE EndFlush(r) \/ AllAreDone(r)
  <2>1. /\ at[r] \in {"flush", "wait"} /\ offset[r] = Size /\ UNCHANGED offset
        /\ \/ at' = [at EXCEPT ![r] = "wait"]
           \/ at' = [at EXCEPT ![r] = "allreduce"] /\ num_ranks_done[r] = Size
    BY <1>2 DEF EndFlush, AllAreDone, Goto, PhaseOK
  <2>2. /\ at' \in [Ranks -> Places] /\ at'[r] \in {"wait", "allreduce"}
        /\ at'[r] = "allreduce" => num_ranks_done[r] = Size
        /\ \A q \in Ranks \ {r} : at'[q] = at[q]
    BY <2>1 DEF TypeOK, Places
  <2>3. TypeOK'
    BY <1>0, <2>1, <2>2 DEF TypeOK
  <2>4. PhaseOK'
    <3>1. \A q \in Ranks : at[q] # "end"
      BY <2>1 DEF PhaseOK
    <3> QED
      BY <1>0, <2>1, <2>2, <3>1 DEF PhaseOK
  <2>5. \A q \in Ranks : Limit(q)' = Limit(q) /\ dest(q)' = dest(q)
    BY <2>1, <2>2 DEF Limit, dest
  <2>6. \A q \in Ranks : \A d \in Ranks \ {q} :
           d \in Told(q) /\ active'[q][d] => at'[q] = "signalled" /\ d = dest(q)'
    BY <1>0, <2>1, <2>2, <2>5 DEF LinksOK, LinkOK
  <2>7. LinksOK' /\ CountOK'
    BY <1>0, <2>5, <2>6, QuietLinks
  <2> QED
    BY <2>3, <2>4, <2>7
<1> QED
  BY <1>1, <1>2

LEMMA CompleteControl ==
    ASSUME Control, NEW r \in Ranks, NEW d \in Ranks, Complete(r, d)
    PROVE  Control'
<1> USE DEF Control
<1>1. /\ active' = [active EXCEPT ![r][d] = FALSE]
      /\ UNCHANGED <<pred, newq, oldq, i, edges, outgoing, net, num_ranks_done, offset, at>>
  BY DEF Complete, scanVars
<1>2. TypeOK'
  BY <1>1 DEF TypeOK
<1>3. PhaseOK'
  BY <1>1 DEF PhaseOK
<1>4. \A q, p \in Ranks : active'[q][p] => active[q][p]
  BY <1>1 DEF TypeOK
<1>5. \A q \in Ranks : Limit(q)' = Limit(q) /\ dest(q)' = dest(q)
  BY <1>1 DEF Limit, dest
<1>6. \A q \in Ranks : \A p \in Ranks \ {q} :
         p \in Told(q) /\ active'[q][p] => at'[q] = "signalled" /\ p = dest(q)'
  BY <1>1, <1>4, <1>5 DEF LinksOK, LinkOK
<1>7. LinksOK' /\ CountOK'
  BY <1>1, <1>5, <1>6, QuietLinks
<1> QED
  BY <1>2, <1>3, <1>7

(* r receives the oldest message of s.                                     *)
LEMMA ReceiveControl ==
    ASSUME Control, NEW r \in Ranks, Receive(r)
    PROVE  Control'
<1> USE DEF Control
<1>1. PICK s \in Ranks :
         /\ net[s][r] # <<>>
         /\ net' = [net EXCEPT ![s][r] = Tail(@)]
         /\ ReachAll(r, Head(net[s][r]))
         /\ num_ranks_done' =
               [num_ranks_done EXCEPT ![r] = IF Head(net[s][r]) = <<>> THEN @ + 1 ELSE @]
         /\ UNCHANGED <<oldq, i, edges, outgoing, active, offset, at>>
  BY DEF Receive, scanVars
<1>2. s # r /\ LinkOK(s, r)
  BY <1>1 DEF LinksOK
<1>3. at[r] \notin {"allreduce", "end"} /\ \A q \in Ranks : at[q] # "end"
  BY DEF Receive, Polls, PhaseOK
<1>4. /\ Head(net[s][r]) \in Seq(Edges) /\ Tail(net[s][r]) \in Seq(Seq(Edges))
      /\ Head(net[s][r]) = net[s][r][1]
      /\ Len(Tail(net[s][r])) = Len(net[s][r]) - 1 /\ Len(net[s][r]) \in Nat \ {0}
      /\ \A k \in 1 .. Len(net[s][r]) - 1 : Tail(net[s][r])[k] = net[s][r][k + 1]
  <2>1. net[s][r] \in Seq(Seq(Edges))
    BY DEF TypeOK
  <2> QED
    BY <1>1, <2>1, TailSet
<1>5. TypeOK'
  <2>1. /\ pred' \in [Vertices -> Vertices \cup {NotVisited}]
        /\ newq' \in [Ranks -> Seq(Vertices)]
    BY <1>1, <1>4, ReachAllOK
  <2>2. net' \in [Ranks -> [Ranks -> Seq(Seq(Edges))]]
    BY <1>1, <1>4 DEF TypeOK
  <2>3. num_ranks_done' \in [Ranks -> Nat]
    <3>1. num_ranks_done[r] \in Nat /\ num_ranks_done \in [Ranks -> Nat]
      BY DEF TypeOK
    <3>2. num_ranks_done[r] + 1 \in Nat
      BY <3>1
    <3>3. CASE Head(net[s][r]) = <<>>
      <4>1. num_ranks_done' = [num_ranks_done EXCEPT ![r] = num_ranks_done[r] + 1]
        BY <1>1, <3>3
      <4> QED
        BY <3>1, <3>2, <4>1
    <3>4. CASE Head(net[s][r]) # <<>>
      <4>1. num_ranks_done' = [num_ranks_done EXCEPT ![r] = num_ranks_done[r]]
        BY <1>1, <3>4
      <4> QED
        BY <3>1, <4>1
    <3> QED
      BY <3>3, <3>4
  <2> QED
    BY <1>1, <2>1, <2>2, <2>3 DEF TypeOK
<1>6. \A q \in Ranks \ {r} : num_ranks_done'[q] = num_ranks_done[q]
  BY <1>1 DEF TypeOK
<1>7. PhaseOK'
  BY <1>1, <1>3, <1>6 DEF PhaseOK
<1>8. \A q \in Ranks : Told(q)' = Told(q) /\ dest(q)' = dest(q)
  BY <1>1 DEF Told, Limit, dest
<1>9. /\ net'[s][r] = Tail(net[s][r])
      /\ \A q, p \in Ranks : q # s \/ p # r => net'[q][p] = net[q][p]
  BY <1>1 DEF TypeOK
<1>10. LinkOK(s, r)'
  <2>1. ASSUME NEW k \in 1 .. Len(net'[s][r]), net'[s][r][k] = <<>>
        PROVE  r \in Told(s) /\ k = Len(net'[s][r])
    <3>1. k + 1 \in 1 .. Len(net[s][r]) /\ net[s][r][k + 1] = <<>>
      BY <1>4, <1>9, <2>1
    <3> QED
      BY <1>2, <1>4, <1>9, <3>1 DEF LinkOK
  <2>2. ASSUME r \in Told(s), net'[s][r] # <<>>
        PROVE  net'[s][r][Len(net'[s][r])] = <<>>
    <3>1. Len(net'[s][r]) \in Nat \ {0}
      BY <1>4, <1>9, <2>2, TailSet
    <3>2. PICK n \in Nat \ {0} : n = Len(net[s][r])
      BY <1>4
    <3>3. PICK k \in Nat \ {0} : k = Len(net'[s][r])
      BY <3>1
    <3>4. k = n - 1
      BY <1>4, <1>9, <3>2, <3>3
    <3>5. k \in 1 .. n - 1 /\ k + 1 = n
      BY <3>4
    <3>6. net'[s][r][k] = net[s][r][n]
      BY <1>4, <1>9, <3>2, <3>5
    <3>7. net[s][r][n] = <<>>
      BY <1>1, <1>2, <2>2, <3>2 DEF LinkOK
    <3> QED
      BY <3>3, <3>6, <3>7
  <2> QED
    BY <1>1, <1>2, <1>8, <2>1, <2>2 DEF LinkOK
<1>11. ASSUME NEW q \in Ranks, NEW p \in Ranks \ {q}, q # s \/ p # r
       PROVE  LinkOK(q, p)'
  <2>1. LinkOK(q, p)
    BY DEF LinksOK
  <2> QED
    BY <1>1, <1>8, <1>9, <1>11, <2>1 DEF LinkOK
<1>12. LinksOK'
  BY <1>1, <1>2, <1>9, <1>10, <1>11 DEF LinksOK
<1>13. \A q \in Ranks \ {r} : Heard(q)' = Heard(q)
  BY <1>8, <1>9 DEF Heard
<1>14. CASE Head(net[s][r]) = <<>>
  <2>1. r \in Told(s) /\ Len(net[s][r]) = 1
    <3>1. 1 \in 1 .. Len(net[s][r])
      BY <1>4
    <3>2. net[s][r][1] = <<>>
      BY <1>4, <1>14
    <3> QED
      BY <1>2, <3>1, <3>2 DEF LinkOK
  <2>2. net'[s][r] = <<>>
    <3>1. Len(net'[s][r]) = 0 /\ net'[s][r] \in Seq(Seq(Edges))
      BY <1>4, <1>9, <2>1
    <3> QED
      BY <3>1, EmptySeq
  <2>3. Heard(r)' = Heard(r) \cup {s} /\ s \notin Heard(r)
    BY <1>1, <1>2, <1>8, <1>9, <2>1, <2>2 DEF Heard
  <2>4. Cardinality(Heard(r)') = Cardinality(Heard(r)) + 1
    BY <2>3, HeardFinite, FS_AddElement
  <2>5. num_ranks_done'[r] = num_ranks_done[r] + 1
    BY <1>1, <1>14 DEF TypeOK
  <2>6. num_ranks_done'[r] = 1 + Cardinality(Heard(r)')
    <3>1. num_ranks_done[r] = 1 + Cardinality(Heard(r))
      BY DEF CountOK
    <3>2. Cardinality(Heard(r)) \in Nat
      BY HeardFinite, FS_CardinalityType
    <3>3. PICK c \in Nat : c = Cardinality(Heard(r))
      BY <3>2
    <3>4. num_ranks_done'[r] = (1 + c) + 1 /\ Cardinality(Heard(r)') = c + 1
      BY <2>4, <2>5, <3>1, <3>3
    <3>5. (1 + c) + 1 = 1 + (c + 1)
      OBVIOUS
    <3> QED
      BY <3>4, <3>5
  <2>7. CountOK'
    BY <1>6, <1>13, <2>6 DEF CountOK
  <2> QED
    BY <1>5, <1>7, <1>12, <2>7
<1>15. CASE Head(net[s][r]) # <<>>
  <2>1. r \in Told(s) => net'[s][r] # <<>>
    <3>1. SUFFICES ASSUME r \in Told(s), net'[s][r] = <<>>
                   PROVE  FALSE
      OBVIOUS
    <3>2. Len(net'[s][r]) = 0
      BY <3>1
    <3>3. PICK n \in Nat \ {0} : n = Len(net[s][r])
      BY <1>4
    <3>4. n - 1 = 0
      BY <1>4, <1>9, <3>2, <3>3
    <3>5. n = 1
      BY <3>4
    <3>6. net[s][r][Len(net[s][r])] = <<>>
      BY <1>1, <1>2, <3>1 DEF LinkOK
    <3> QED
      BY <1>4, <1>15, <3>3, <3>5, <3>6
  <2>2. Heard(r)' = Heard(r)
    BY <1>1, <1>8, <1>9, <2>1 DEF Heard
  <2>3. num_ranks_done'[r] = num_ranks_done[r]
    BY <1>1, <1>15 DEF TypeOK
  <2>4. CountOK'
    BY <1>6, <1>13, <2>2, <2>3 DEF CountOK
  <2> QED
    BY <1>5, <1>7, <1>12, <2>4
<1> QED
  BY <1>14, <1>15

(* At the end of a level nothing is left anywhere.                         *)
LEMMA LevelIsOver ==
    ASSUME Control, NEW r \in Ranks, \A q \in Ranks : at[q] = "allreduce"
    PROVE  \A d \in Ranks : net[r][d] = <<>> /\ outgoing[r][d] = <<>>
<1>1. ASSUME NEW d \in Ranks \ {r}
      PROVE  net[r][d] = <<>> /\ outgoing[r][d] = <<>>
  <2>1. num_ranks_done[d] = Size
    BY DEF Control, PhaseOK
  <2> QED
    BY <2>1, AllHeard
<1> QED
  BY <1>1 DEF Control, LinksOK

LEMMA AllreduceControl ==
    ASSUME Control, Allreduce
    PROVE  Control'
<1> USE DEF Control
<1>1. /\ \A q \in Ranks : at[q] = "allreduce"
      /\ UNCHANGED <<pred, edges, outgoing, active, net>>
  BY DEF Allreduce, sendVars
<1>2. CASE \A q \in Ranks : newq[q] = <<>>
  <2>1. /\ at' = [q \in Ranks |-> "end"]
        /\ UNCHANGED <<oldq, newq, i, num_ranks_done, offset>>
    BY <1>2 DEF Allreduce
  <2>2. TypeOK'
    BY <1>1, <2>1 DEF TypeOK, Places
  <2>3. PhaseOK'
    BY <1>1, <2>1 DEF PhaseOK
  <2>4. \A q \in Ranks : Limit(q)' = Limit(q) /\ dest(q)' = dest(q)
    BY <1>1, <2>1 DEF Limit, dest
  <2>5. \A q \in Ranks : \A d \in Ranks \ {q} :
           d \in Told(q) /\ active'[q][d] => at'[q] = "signalled" /\ d = dest(q)'
    BY <1>1, <2>4 DEF LinksOK, LinkOK
  <2>6. LinksOK' /\ CountOK'
    BY <1>1, <2>1, <2>4, <2>5, QuietLinks
  <2> QED
    BY <2>2, <2>3, <2>6
<1>3. CASE ~\A q \in Ranks : newq[q] = <<>>
  <2>1. /\ at' = [q \in Ranks |-> "scan"]
        /\ oldq' = newq
        /\ newq' = [q \in Ranks |-> <<>>]
        /\ i' = [q \in Ranks |-> 1]
        /\ num_ranks_done' = [q \in Ranks |-> 1]
        /\ offset' = [q \in Ranks |-> 1]
    BY <1>3 DEF Allreduce
  <2>2. TypeOK'
    <3>1. at' \in [Ranks -> Places] /\ newq' \in [Ranks -> Seq(Vertices)]
      BY <2>1, EmptySeq DEF Places
    <3>2. 1 \in 1 .. Size /\ 1 \in Nat /\ 1 \in Nat \ {0}
      BY BfsAssumption
    <3>3. /\ offset' \in [Ranks -> 1 .. Size] /\ i' \in [Ranks -> Nat \ {0}]
          /\ num_ranks_done' \in [Ranks -> Nat]
      BY <2>1, <3>2
    <3> QED
      BY <1>1, <2>1, <3>1, <3>3 DEF TypeOK
  <2>3. PhaseOK'
    BY <2>1 DEF PhaseOK
  <2>4. \A q \in Ranks : Told(q)' = {}
    <3>1. (TypeOK /\ PhaseOK /\ \A s \in Ranks : at[s] \in {"scan", "edges"}) =>
             \A s \in Ranks : Told(s) = {}
      BY ToldAfterScan
    <3>2. (TypeOK' /\ PhaseOK' /\ \A s \in Ranks : at'[s] \in {"scan", "edges"}) =>
             \A s \in Ranks : Told(s)' = {}
      <4>1. ASSUME TypeOK', PhaseOK', NEW s \in Ranks, at'[s] \in {"scan", "edges"}
            PROVE  Told(s)' = {}
        <5>1. at'[s] # "signalled" /\ offset'[s] = 1
          BY <4>1 DEF PhaseOK
        <5>2. offset'[s] - 1 = 0
          BY <5>1
        <5>3. 1 .. 0 = {}
          OBVIOUS
        <5> QED
          BY <5>1, <5>2, <5>3 DEF Told, Limit
      <4> QED
        BY <4>1
    <3> QED
      BY <2>1, <2>2, <2>3, <3>2
  <2>5. \A q, d \in Ranks : net'[q][d] = <<>> /\ outgoing'[q][d] = <<>>
    BY <1>1, LevelIsOver
  <2>6. LinksOK'
    BY <2>4, <2>5, EmptySeq DEF LinksOK, LinkOK
  <2>7. CountOK'
    <3>1. \A q \in Ranks : Heard(q)' = {} /\ num_ranks_done'[q] = 1
      BY <2>1, <2>4 DEF Heard
    <3>2. \A q \in Ranks : Cardinality(Heard(q)') = 0
      BY <3>1, FS_EmptySet
    <3> QED
      BY <3>1, <3>2 DEF CountOK
  <2> QED
    BY <2>2, <2>3, <2>6, <2>7
<1> QED
  BY <1>2, <1>3

LEMMA ControlStep == Control /\ [Next]_vars => Control'
<1> SUFFICES ASSUME Control, [Next]_vars
             PROVE  Control'
  OBVIOUS
<1>1. CASE \E r \in Ranks : scan(r) \/ flush(r) \/ AllAreDone(r) \/ CHECK_MPI_REQS(r)
  <2>1. PICK r \in Ranks : scan(r) \/ flush(r) \/ AllAreDone(r) \/ CHECK_MPI_REQS(r)
    BY <1>1
  <2>2. CASE scan(r)
    BY <2>2, ScanControl, LocalEdgeControl, RemoteEdgeControl DEF scan
  <2>3. CASE flush(r) \/ AllAreDone(r)
    BY <2>3, FlushControl, FlushBufferControl, SignalDoneControl DEF flush
  <2>4. CASE CHECK_MPI_REQS(r)
    BY <2>4, ReceiveControl, CompleteControl DEF CHECK_MPI_REQS
  <2> QED
    BY <2>1, <2>2, <2>3, <2>4
<1>2. CASE UNCHANGED vars
  <2>1. UNCHANGED <<pred, oldq, newq, i, edges, outgoing, active, net, num_ranks_done, offset, at>>
    BY <1>2 DEF vars
  <2>2. TypeOK' /\ PhaseOK'
    BY <2>1 DEF Control, TypeOK, PhaseOK
  <2>3. LinksOK' /\ CountOK'
    BY <2>1 DEF Control, LinksOK, LinkOK, CountOK, Heard, Told, Limit, dest
  <2> QED
    BY <2>2, <2>3 DEF Control
<1> QED
  BY <1>1, <1>2, AllreduceControl DEF Next, Finished

(* Between any two ranks messages, buffers and the request agree with what *)
(* the sender has announced, and num_ranks_done counts the announcements   *)
(* received (bfs_simple.c:127-132, 205-216).                               *)
THEOREM ControlHolds == Spec => []Control
BY ControlInit, ControlStep, PTL DEF Spec

(* No message crosses the end of a level: once a rank has counted the      *)
(* others, nothing is left in the network or in a buffer for it, and all   *)
(* of them have scanned their queues (bfs_simple.c:205-216).               *)
THEOREM LevelsDoNotOverlapHolds == Spec => []LevelsDoNotOverlap
BY ControlHolds, ControlImpliesLevels, PTL

-------------------------------------------------------------------------------
(* The search: what the levels are made of.                                *)
LEMMA ElementsIn == ASSUME NEW S, NEW s \in Seq(S) PROVE ToSet(s) \subseteq S
<1>1. DOMAIN s = 1 .. Len(s)
  OBVIOUS
<1> QED
  BY <1>1 DEF ToSet

LEMMA SearchTypes ==
    ASSUME TypeOK
    PROVE  /\ Level(oldq) \subseteq Vertices /\ Level(newq) \subseteq Vertices
           /\ \A q, d \in Ranks : InTransit(q, d) \subseteq Edges
           /\ \A v \in Vertices : ToSet(column[v]) \subseteq Vertices
<1>1. \A q \in Ranks : ToSet(oldq[q]) \subseteq Vertices /\ ToSet(newq[q]) \subseteq Vertices
  BY ElementsIn DEF TypeOK
<1>2. ASSUME NEW q \in Ranks, NEW d \in Ranks
      PROVE  InTransit(q, d) \subseteq Edges
  <2>1. ToSet(outgoing[q][d]) \subseteq Edges
    BY ElementsIn DEF TypeOK
  <2>2. ToSet(net[q][d]) \subseteq Seq(Edges)
    BY ElementsIn DEF TypeOK
  <2>3. \A m \in ToSet(net[q][d]) : ToSet(m) \subseteq Edges
    BY <2>2, ElementsIn
  <2> QED
    BY <2>1, <2>3 DEF InTransit
<1>3. ASSUME NEW v \in Vertices
      PROVE  ToSet(column[v]) \subseteq Vertices
  <2>1. column[v] \in Seq(Vertices)
    BY BfsAssumption
  <2> QED
    BY <2>1, ElementsIn
<1> QED
  BY <1>1, <1>2, <1>3 DEF Level

(* A step of rank r within a level: edges in transit are delivered or stay *)
(* in transit, only edges of the level enter, and a target that r leaves   *)
(* behind is handled.  The level-synchronous search does not notice it.    *)
LEMMA WithinLevel ==
    ASSUME Control, TypeOK', Sound, Scanned, NEW r \in Ranks,
           UNCHANGED oldq,
           at[r] # "end", at'[r] # "end",
           \A q \in Ranks \ {r} : at'[q] = at[q] /\ i'[q] = i[q] /\ edges'[q] = edges[q],
           \A v \in Vertices : pred[v] # NotVisited => pred'[v] = pred[v],
           Level(newq') = Level(newq) \cup
               {v \in Vertices : pred[v] = NotVisited /\ pred'[v] # NotVisited},
           \A v \in Vertices : pred[v] = NotVisited /\ pred'[v] # NotVisited =>
               LevelEdge([tgt |-> v, src |-> pred'[v]]),
           \A q, d \in Ranks : \A e \in InTransit(q, d)' : LevelEdge(e),
           \A q, d \in Ranks : \A e \in InTransit(q, d) :
               e \in InTransit(q, d)' \/ pred'[e.tgt] # NotVisited,
           at'[r] = "edges" => ToSet(edges'[r]) \subseteq ToSet(column[src(r)']),
           \A k \in 1 .. Len(oldq[r]) : \A v \in ToSet(column[oldq[r][k]]) :
               Waiting(r, k, v) => Waiting(r, k, v)' \/ Handled(r, v)'
    PROVE  Sound' /\ Scanned' /\ UNCHANGED LevelSearch!vars
<1> USE DEF Control
<1>1. \A e : LevelEdge(e)' <=> LevelEdge(e)
  BY DEF LevelEdge
<1>2. ASSUME NEW v \in Level(newq')
      PROVE  pred'[v] # NotVisited /\ LevelEdge([tgt |-> v, src |-> pred'[v]])
  <2>1. CASE v \in Level(newq)
    <3>1. v \in Vertices /\ pred[v] # NotVisited /\ LevelEdge([tgt |-> v, src |-> pred[v]])
      BY <2>1, SearchTypes DEF Sound
    <3> QED
      BY <3>1
  <2>2. CASE v \notin Level(newq)
    BY <1>2, <2>2
  <2> QED
    BY <2>1, <2>2
<1>3. Sound'
  <2>1. \A q \in Ranks \ {r} : src(q)' = src(q)
    BY DEF src
  <2>2. \A q \in Ranks : at'[q] = "edges" => ToSet(edges'[q]) \subseteq ToSet(column[src(q)'])
    BY <2>1 DEF Sound
  <2>3. \A q, d \in Ranks : \A e \in InTransit(q, d)' : LevelEdge(e)'
    BY <1>1
  <2>4. \A v \in Level(newq') : pred'[v] # NotVisited /\ LevelEdge([tgt |-> v, src |-> pred[v]])'
    BY <1>2 DEF LevelEdge
  <2>5. Level(newq)' = Level(newq')
    BY DEF Level
  <2> QED
    BY <2>2, <2>3, <2>4, <2>5 DEF Sound
<1>4. ASSUME NEW q \in Ranks, NEW v \in Vertices, Handled(q, v)
      PROVE  Handled(q, v)'
  <2>1. CASE pred[v] # NotVisited
    BY <2>1 DEF Handled
  <2>2. CASE pred[v] = NotVisited
    <3>1. PICK d \in Ranks : \E e \in InTransit(q, d) : e.tgt = v
      BY <1>4, <2>2 DEF Handled
    <3>2. PICK e \in InTransit(q, d) : e.tgt = v
      BY <3>1
    <3> QED
      BY <3>2 DEF Handled
  <2> QED
    BY <2>1, <2>2
<1>5. Scanned'
  <2> SUFFICES ASSUME NEW q \in Ranks, NEW k \in 1 .. Len(oldq[q]),
                      NEW v \in ToSet(column[oldq[q][k]])
               PROVE  Waiting(q, k, v)' \/ Handled(q, v)'
    BY DEF Scanned
  <2>1. oldq[q][k] \in Vertices
    <3>1. oldq[q] \in Seq(Vertices)
      BY DEF TypeOK
    <3> QED
      BY <3>1
  <2>2. v \in Vertices
    BY <2>1, SearchTypes
  <2>3. Waiting(q, k, v) \/ Handled(q, v)
    BY DEF Scanned
  <2>4. CASE Handled(q, v)
    BY <1>4, <2>2, <2>4
  <2>5. CASE Waiting(q, k, v) /\ q # r
    BY <2>5 DEF Waiting
  <2>6. CASE Waiting(q, k, v) /\ q = r
    BY <2>6
  <2> QED
    BY <2>3, <2>4, <2>5, <2>6
<1>6. UNCHANGED LevelSearch!vars
  <2>1. ~Ended /\ ~Ended'
    BY DEF Ended
  <2>2. ASSUME NEW v \in Vertices
        PROVE  (IF v \in Level(newq') THEN NotVisited ELSE pred'[v])
                   = (IF v \in Level(newq) THEN NotVisited ELSE pred[v])
    OBVIOUS
  <2>3. [v \in Vertices |-> IF v \in Level(newq') THEN NotVisited ELSE pred'[v]]
            = [v \in Vertices |-> IF v \in Level(newq) THEN NotVisited ELSE pred[v]]
    BY <2>2
  <2>4. Level(oldq)' = Level(oldq) /\ Level(newq)' = Level(newq')
    BY DEF Level
  <2>5. Ended' = Ended
    BY <2>1 DEF Ended
  <2>6. [v \in Vertices |-> IF v \in Level(newq) THEN NotVisited ELSE pred[v]]'
            = [v \in Vertices |-> IF v \in Level(newq) THEN NotVisited ELSE pred[v]]
    BY <2>3, <2>4
  <2> QED
    BY <2>4, <2>5, <2>6 DEF LevelSearch!vars
<1> QED
  BY <1>3, <1>5, <1>6

(* A step that visits no vertex.                                           *)
LEMMA NothingVisited ==
    ASSUME Control, TypeOK', Sound, Scanned, NEW r \in Ranks,
           UNCHANGED <<oldq, pred, newq>>,
           at[r] # "end", at'[r] # "end",
           \A q \in Ranks \ {r} : at'[q] = at[q] /\ i'[q] = i[q] /\ edges'[q] = edges[q],
           \A q, d \in Ranks : \A e \in InTransit(q, d)' : LevelEdge(e),
           \A q, d \in Ranks : InTransit(q, d) \subseteq InTransit(q, d)',
           at'[r] = "edges" => ToSet(edges'[r]) \subseteq ToSet(column[src(r)']),
           \A k \in 1 .. Len(oldq[r]) : \A v \in ToSet(column[oldq[r][k]]) :
               Waiting(r, k, v) => Waiting(r, k, v)' \/ Handled(r, v)'
    PROVE  Sound' /\ Scanned' /\ UNCHANGED LevelSearch!vars
<1>1. Level(newq') = Level(newq) \cup
          {v \in Vertices : pred[v] = NotVisited /\ pred'[v] # NotVisited}
  OBVIOUS
<1>2. \A v \in Vertices : pred[v] # NotVisited => pred'[v] = pred[v]
  OBVIOUS
<1>3. \A v \in Vertices : pred[v] = NotVisited /\ pred'[v] # NotVisited =>
         LevelEdge([tgt |-> v, src |-> pred'[v]])
  OBVIOUS
<1>4. \A q, d \in Ranks : \A e \in InTransit(q, d) :
         e \in InTransit(q, d)' \/ pred'[e.tgt] # NotVisited
  OBVIOUS
<1> QED
  BY <1>1, <1>2, <1>3, <1>4, WithinLevel

(* The steps of the scan that take no edge.                                *)
LEMMA ScanSearch ==
    ASSUME Control, TypeOK', Sound, Scanned, NEW r \in Ranks,
           BeginVertex(r) \/ EndVertex(r) \/ EndScan(r)
    PROVE  Sound' /\ Scanned' /\ UNCHANGED LevelSearch!vars
<1> USE DEF Control
<1>1. /\ UNCHANGED <<oldq, pred, newq, outgoing, net>>
      /\ at[r] \in {"scan", "edges"}
  BY DEF BeginVertex, EndVertex, EndScan, scanVars, sendVars
<1>2. \A q, d \in Ranks : InTransit(q, d)' = InTransit(q, d)
  BY <1>1 DEF InTransit
<1>3. \A q, d \in Ranks : \A e \in InTransit(q, d)' : LevelEdge(e)
  BY <1>2 DEF Sound
<1>4. CASE BeginVertex(r)
  <2>1. /\ at[r] = "scan" /\ at' = [at EXCEPT ![r] = "edges"]
        /\ edges' = [edges EXCEPT ![r] = column[src(r)]] /\ UNCHANGED i
    BY <1>4 DEF BeginVertex, Goto
  <2>2. /\ at'[r] = "edges" /\ edges'[r] = column[src(r)] /\ src(r)' = src(r)
        /\ \A q \in Ranks \ {r} : at'[q] = at[q] /\ i'[q] = i[q] /\ edges'[q] = edges[q]
    BY <1>1, <2>1 DEF TypeOK, src
  <2>3. ASSUME NEW k \in 1 .. Len(oldq[r]), NEW v \in ToSet(column[oldq[r][k]]), Waiting(r, k, v)
        PROVE  Waiting(r, k, v)'
    BY <2>1, <2>2, <2>3 DEF Waiting, src
  <2> QED
    BY <1>1, <1>2, <1>3, <2>2, <2>3, NothingVisited
<1>5. CASE EndVertex(r)
  <2>1. /\ at[r] = "edges" /\ edges[r] = <<>> /\ at' = [at EXCEPT ![r] = "scan"]
        /\ i' = [i EXCEPT ![r] = @ + 1] /\ UNCHANGED edges
    BY <1>5 DEF EndVertex, Goto
  <2>2. /\ at'[r] = "scan" /\ i'[r] = i[r] + 1 /\ i[r] \in Nat
        /\ \A q \in Ranks \ {r} : at'[q] = at[q] /\ i'[q] = i[q] /\ edges'[q] = edges[q]
    BY <1>1, <2>1 DEF TypeOK
  <2>3. ToSet(edges[r]) = {}
    BY <2>1 DEF ToSet
  <2>4. ASSUME NEW k \in 1 .. Len(oldq[r]), NEW v \in ToSet(column[oldq[r][k]]), Waiting(r, k, v)
        PROVE  Waiting(r, k, v)'
    <3>1. k > i[r] /\ k \in Nat
      BY <2>1, <2>3, <2>4 DEF Waiting
    <3>2. k > i[r] + 1 \/ k = i[r] + 1
      BY <2>2, <3>1
    <3> QED
      BY <2>2, <3>2 DEF Waiting
  <2> QED
    BY <1>1, <1>2, <1>3, <2>2, <2>4, NothingVisited
<1>6. CASE EndScan(r)
  <2>1. /\ i[r] > Len(oldq[r]) /\ at' = [at EXCEPT ![r] = "flush"]
        /\ UNCHANGED <<i, edges>>
    BY <1>6 DEF EndScan, Goto, scanVars
  <2>2. /\ at'[r] = "flush" /\ i[r] \in Nat /\ Len(oldq[r]) \in Nat
        /\ \A q \in Ranks \ {r} : at'[q] = at[q] /\ i'[q] = i[q] /\ edges'[q] = edges[q]
    BY <1>1, <2>1 DEF TypeOK
  <2>3. ASSUME NEW k \in 1 .. Len(oldq[r]), NEW v, Waiting(r, k, v)
        PROVE  FALSE
    <3>1. k < i[r]
      BY <2>1, <2>2
    <3> QED
      BY <2>2, <2>3, <3>1 DEF Waiting
  <2> QED
    BY <1>1, <1>2, <1>3, <2>2, <2>3, NothingVisited
<1> QED
  BY <1>4, <1>5, <1>6

(* Taking an edge of src(r): it is one of the level, and nothing but its   *)
(* target has to be handled.                                               *)
LEMMA TakeEdge ==
    ASSUME Control, Sound, NEW r \in Ranks, at[r] = "edges", edges[r] # <<>>,
           edges' = [edges EXCEPT ![r] = Tail(@)], UNCHANGED <<oldq, i, at>>
    PROVE  /\ LevelEdge([tgt |-> Head(edges[r]), src |-> src(r)])
           /\ Head(edges[r]) \in Vertices /\ src(r) \in Vertices
           /\ \A q \in Ranks \ {r} : at'[q] = at[q] /\ i'[q] = i[q] /\ edges'[q] = edges[q]
           /\ ToSet(edges'[r]) \subseteq ToSet(column[src(r)'])
           /\ \A k \in 1 .. Len(oldq[r]) : \A v :
                 Waiting(r, k, v) => Waiting(r, k, v)' \/ v = Head(edges[r])
<1> USE DEF Control
<1>1. /\ Head(edges[r]) \in Vertices
      /\ ToSet(edges[r]) = ToSet(Tail(edges[r])) \cup {Head(edges[r])}
  BY TailSet DEF TypeOK
<1>2. edges'[r] = Tail(edges[r]) /\ src(r)' = src(r)
  BY DEF TypeOK, src
<1>3. i[r] \in 1 .. Len(oldq[r]) /\ oldq[r] \in Seq(Vertices)
  BY DEF PhaseOK, TypeOK
<1>4. src(r) \in Vertices /\ src(r) \in ToSet(oldq[r])
  BY <1>3 DEF src, ToSet
<1>5. LevelEdge([tgt |-> Head(edges[r]), src |-> src(r)])
  BY <1>1, <1>4 DEF LevelEdge, Level, Sound
<1>6. ToSet(edges'[r]) \subseteq ToSet(column[src(r)'])
  BY <1>1, <1>2 DEF Sound
<1>7. \A k \in 1 .. Len(oldq[r]) : \A v :
         Waiting(r, k, v) => Waiting(r, k, v)' \/ v = Head(edges[r])
  BY <1>1, <1>2 DEF Waiting
<1> QED
  BY <1>1, <1>4, <1>5, <1>6, <1>7 DEF TypeOK

LEMMA LocalEdgeSearch ==
    ASSUME Control, TypeOK', Sound, Scanned, NEW r \in Ranks, LocalEdge(r)
    PROVE  Sound' /\ Scanned' /\ UNCHANGED LevelSearch!vars
<1> USE DEF Control
<1>1. PICK e : e = [tgt |-> Head(edges[r]), src |-> src(r)]
  OBVIOUS
<1>2. /\ at[r] = "edges" /\ edges[r] # <<>> /\ ReachAll(r, <<e>>)
      /\ edges' = [edges EXCEPT ![r] = Tail(@)]
      /\ UNCHANGED <<oldq, i, outgoing, net, at>>
  BY <1>1 DEF LocalEdge, sendVars
<1>3. e \in Edges /\ LevelEdge(e) /\ e.tgt = Head(edges[r])
  BY <1>1, <1>2, TakeEdge DEF Edges
<1>4. <<e>> \in Seq(Edges) /\ ToSet(<<e>>) = {e}
  BY <1>3 DEF ToSet
<1>5. /\ \A v \in Vertices : pred[v] # NotVisited => pred'[v] = pred[v]
      /\ pred'[e.tgt] # NotVisited
      /\ \A v \in Vertices : pred[v] = NotVisited /\ pred'[v] # NotVisited =>
            [tgt |-> v, src |-> pred'[v]] = e
      /\ Level(newq') = Level(newq) \cup
            {v \in Vertices : pred[v] = NotVisited /\ pred'[v] # NotVisited}
  BY <1>2, <1>4, ReachAllOK
<1>6. \A q, d \in Ranks : InTransit(q, d)' = InTransit(q, d)
  BY <1>2 DEF InTransit
<1>7. \A q, d \in Ranks : \A x \in InTransit(q, d)' : LevelEdge(x)
  BY <1>6 DEF Sound
<1>8. /\ \A q \in Ranks \ {r} : at'[q] = at[q] /\ i'[q] = i[q] /\ edges'[q] = edges[q]
      /\ ToSet(edges'[r]) \subseteq ToSet(column[src(r)'])
  BY <1>2, TakeEdge
<1>9. ASSUME NEW k \in 1 .. Len(oldq[r]), NEW v \in ToSet(column[oldq[r][k]]), Waiting(r, k, v)
      PROVE  Waiting(r, k, v)' \/ Handled(r, v)'
  <2>1. Waiting(r, k, v)' \/ v = e.tgt
    BY <1>2, <1>3, <1>9, TakeEdge
  <2> QED
    BY <1>5, <2>1 DEF Handled
<1>10. at'[r] # "end" /\ at[r] # "end"
  BY <1>2
<1>11. \A v \in Vertices : pred[v] = NotVisited /\ pred'[v] # NotVisited =>
          LevelEdge([tgt |-> v, src |-> pred'[v]])
  BY <1>3, <1>5
<1> QED
  BY <1>2, <1>5, <1>6, <1>7, <1>8, <1>9, <1>10, <1>11, WithinLevel

(* The edges on their way once a message was sent.                         *)
OnTheWay(r, d) == UNION {ToSet(m) : m \in ToSet(net[r][d])}

LEMMA SendTransit ==
    ASSUME TypeOK, NEW r \in Ranks, NEW d \in Ranks, NEW m \in Seq(Edges), Isend(r, d, m)
    PROVE  /\ OnTheWay(r, d)' = OnTheWay(r, d) \cup ToSet(m)
           /\ \A q, p \in Ranks : q # r \/ p # d => OnTheWay(q, p)' = OnTheWay(q, p)
<1>1. /\ net'[r][d] = Append(net[r][d], m) /\ net[r][d] \in Seq(Seq(Edges))
      /\ \A q, p \in Ranks : q # r \/ p # d => net'[q][p] = net[q][p]
  <2>1. net \in [Ranks -> [Ranks -> Seq(Seq(Edges))]]
    BY DEF TypeOK
  <2>2. net' = [net EXCEPT ![r][d] = Append(@, m)]
    BY DEF Isend
  <2> QED
    BY <2>1, <2>2
<1>2. ToSet(net'[r][d]) = ToSet(net[r][d]) \cup {m}
  BY <1>1, AppendSet
<1> QED
  BY <1>1, <1>2 DEF OnTheWay

LEMMA RemoteEdgeSearch ==
    ASSUME Control, TypeOK', Sound, Scanned, NEW r \in Ranks, RemoteEdge(r)
    PROVE  Sound' /\ Scanned' /\ UNCHANGED LevelSearch!vars
<1> USE DEF Control
<1>1. PICK d \in Ranks \ {r} : d = owner(r)
  BY CoalescedOK
<1>2. PICK e \in Edges : e = [tgt |-> Head(edges[r]), src |-> src(r)]
  BY CoalescedOK
<1>3. PICK buf \in Seq(Edges) : /\ buf = Append(outgoing[r][d], e)
                                /\ ToSet(buf) = ToSet(outgoing[r][d]) \cup {e}
  <2>1. outgoing[r][d] \in Seq(Edges)
    BY <1>1, CoalescedOK
  <2> QED
    BY <2>1, AppendSet
<1>4. /\ \/ Isend(r, d, buf) /\ outgoing' = [outgoing EXCEPT ![r][d] = <<>>]
         \/ outgoing' = [outgoing EXCEPT ![r][d] = buf] /\ UNCHANGED <<net, active>>
      /\ edges' = [edges EXCEPT ![r] = Tail(@)]
      /\ UNCHANGED <<pred, oldq, newq, i, at>>
      /\ at[r] = "edges" /\ edges[r] # <<>>
  BY <1>1, <1>2, <1>3 DEF RemoteEdge, Coalesce
<1>5. LevelEdge(e) /\ e.tgt = Head(edges[r])
  BY <1>2, <1>4, TakeEdge
<1>6. /\ InTransit(r, d)' = InTransit(r, d) \cup {e}
      /\ \A q, p \in Ranks : q # r \/ p # d => InTransit(q, p)' = InTransit(q, p)
  <2>1. CASE Isend(r, d, buf) /\ outgoing' = [outgoing EXCEPT ![r][d] = <<>>]
    <3>1. /\ outgoing'[r][d] = <<>>
          /\ \A q, p \in Ranks : q # r \/ p # d => outgoing'[q][p] = outgoing[q][p]
      BY <2>1 DEF TypeOK
    <3>2. /\ OnTheWay(r, d)' = OnTheWay(r, d) \cup ToSet(buf)
          /\ \A q, p \in Ranks : q # r \/ p # d => OnTheWay(q, p)' = OnTheWay(q, p)
      BY <2>1, SendTransit
    <3>3. ToSet(outgoing'[r][d]) = {}
      BY <3>1 DEF ToSet
    <3> QED
      BY <1>3, <3>1, <3>2, <3>3 DEF InTransit, OnTheWay
  <2>2. CASE outgoing' = [outgoing EXCEPT ![r][d] = buf] /\ UNCHANGED <<net, active>>
    <3>1. /\ outgoing'[r][d] = buf
          /\ \A q, p \in Ranks : q # r \/ p # d => outgoing'[q][p] = outgoing[q][p]
      BY <2>2 DEF TypeOK
    <3> QED
      BY <1>3, <2>2, <3>1 DEF InTransit
  <2> QED
    BY <1>4, <2>1, <2>2
<1>7. \A q, p \in Ranks : \A x \in InTransit(q, p)' : LevelEdge(x)
  BY <1>5, <1>6 DEF Sound
<1>8. \A q, p \in Ranks : InTransit(q, p) \subseteq InTransit(q, p)'
  BY <1>6
<1>9. /\ \A q \in Ranks \ {r} : at'[q] = at[q] /\ i'[q] = i[q] /\ edges'[q] = edges[q]
      /\ ToSet(edges'[r]) \subseteq ToSet(column[src(r)'])
  BY <1>4, TakeEdge
<1>10. ASSUME NEW k \in 1 .. Len(oldq[r]), NEW v \in ToSet(column[oldq[r][k]]), Waiting(r, k, v)
       PROVE  Waiting(r, k, v)' \/ Handled(r, v)'
  <2>1. Waiting(r, k, v)' \/ v = e.tgt
    BY <1>4, <1>5, <1>10, TakeEdge
  <2>2. e \in InTransit(r, d)'
    BY <1>6
  <2> QED
    BY <2>1, <2>2 DEF Handled
<1>11. at'[r] # "end" /\ at[r] # "end"
  BY <1>4
<1> QED
  BY <1>4, <1>7, <1>8, <1>9, <1>10, <1>11, NothingVisited

(* The flush: the buffer becomes a message, or there is nothing in it.     *)
LEMMA FlushSearch ==
    ASSUME Control, TypeOK', Sound, Scanned, NEW r \in Ranks,
           flush(r) \/ AllAreDone(r)
    PROVE  Sound' /\ Scanned' /\ UNCHANGED LevelSearch!vars
<1> USE DEF Control
<1>1. /\ UNCHANGED <<oldq, pred, newq, i, edges>>
      /\ at[r] \in {"flush", "signalled", "wait"}
  BY DEF flush, FlushBuffer, SignalDone, NextDestination, EndFlush, AllAreDone, scanVars
<1>2. /\ at'[r] \in {"flush", "signalled", "wait", "allreduce"}
      /\ \A q \in Ranks \ {r} : at'[q] = at[q]
  <2>1. \/ UNCHANGED at
        \/ \E w \in {"flush", "signalled", "wait", "allreduce"} : at' = [at EXCEPT ![r] = w]
    BY DEF flush, FlushBuffer, SignalDone, NextDestination, EndFlush, AllAreDone, Goto
  <2> QED
    BY <1>1, <2>1 DEF TypeOK
<1>3. \A q, p \in Ranks : InTransit(q, p)' = InTransit(q, p)
  <2>1. CASE FlushBuffer(r)
    <3>1. PICK d \in Ranks \ {r} : d = dest(r)
      BY <2>1, NextDest DEF FlushBuffer
    <3>2. PICK m \in Seq(Edges) : m = outgoing[r][d]
      <4>1. outgoing[r][d] \in Seq(Edges)
        BY DEF TypeOK
      <4> QED
        BY <4>1
    <3>3. Isend(r, d, m) /\ outgoing' = [outgoing EXCEPT ![r][d] = <<>>]
      BY <2>1, <3>1, <3>2 DEF FlushBuffer
    <3>4. /\ outgoing'[r][d] = <<>>
          /\ \A q, p \in Ranks : q # r \/ p # d => outgoing'[q][p] = outgoing[q][p]
      BY <3>3 DEF TypeOK
    <3>5. ToSet(outgoing'[r][d]) = {}
      BY <3>4 DEF ToSet
    <3>6. /\ OnTheWay(r, d)' = OnTheWay(r, d) \cup ToSet(m)
          /\ \A q, p \in Ranks : q # r \/ p # d => OnTheWay(q, p)' = OnTheWay(q, p)
      BY <3>3, SendTransit
    <3> QED
      BY <3>2, <3>4, <3>5, <3>6 DEF InTransit, OnTheWay
  <2>2. CASE SignalDone(r)
    <3>1. PICK d \in Ranks \ {r} : d = dest(r)
      BY <2>2, NextDest DEF SignalDone
    <3>2. <<>> \in Seq(Edges) /\ Isend(r, d, <<>>) /\ UNCHANGED outgoing
      BY <2>2, <3>1 DEF SignalDone
    <3>3. /\ OnTheWay(r, d)' = OnTheWay(r, d) \cup ToSet(<<>>)
          /\ \A q, p \in Ranks : q # r \/ p # d => OnTheWay(q, p)' = OnTheWay(q, p)
      BY <3>2, SendTransit
    <3>4. ToSet(<<>>) = {}
      BY DEF ToSet
    <3> QED
      BY <3>2, <3>3, <3>4 DEF InTransit, OnTheWay
  <2>3. CASE NextDestination(r) \/ EndFlush(r) \/ AllAreDone(r)
    BY <2>3 DEF NextDestination, EndFlush, AllAreDone, sendVars, InTransit
  <2> QED
    BY <2>1, <2>2, <2>3 DEF flush
<1>4. \A q, p \in Ranks : \A x \in InTransit(q, p)' : LevelEdge(x)
  BY <1>3 DEF Sound
<1>5. ASSUME NEW k \in 1 .. Len(oldq[r]), NEW v, Waiting(r, k, v)
      PROVE  Waiting(r, k, v)'
  <2>1. i[r] > Len(oldq[r]) /\ i[r] \in Nat /\ Len(oldq[r]) \in Nat
    <3>1. at[r] \notin {"scan", "edges"} /\ oldq[r] \in Seq(Vertices)
      BY <1>1 DEF TypeOK
    <3> QED
      BY <3>1 DEF PhaseOK, TypeOK
  <2>2. k < i[r]
    BY <2>1
  <2> QED
    BY <1>5, <2>1, <2>2 DEF Waiting
<1> QED
  BY <1>1, <1>2, <1>3, <1>4, <1>5, NothingVisited

(* A send completes, or a message is received.                             *)
LEMMA PollSearch ==
    ASSUME Control, TypeOK', Sound, Scanned, NEW r \in Ranks, CHECK_MPI_REQS(r)
    PROVE  Sound' /\ Scanned' /\ UNCHANGED LevelSearch!vars
<1> USE DEF Control
<1>1. /\ UNCHANGED <<oldq, i, edges, outgoing, at>>
      /\ at[r] # "end" /\ at'[r] # "end"
  BY DEF CHECK_MPI_REQS, Receive, Complete, Polls, scanVars
<1>2. at'[r] = "edges" => ToSet(edges'[r]) \subseteq ToSet(column[src(r)'])
  BY <1>1 DEF Sound, src
<1>3. \A k, v : Waiting(r, k, v) => Waiting(r, k, v)'
  BY <1>1 DEF Waiting
<1>4. CASE \E d \in Ranks : Complete(r, d)
  <2>1. UNCHANGED <<pred, newq, net>>
    BY <1>4 DEF Complete
  <2>2. \A q, p \in Ranks : InTransit(q, p)' = InTransit(q, p)
    BY <1>1, <2>1 DEF InTransit
  <2>3. \A q, p \in Ranks : \A x \in InTransit(q, p)' : LevelEdge(x)
    BY <2>2 DEF Sound
  <2> QED
    BY <1>1, <1>2, <1>3, <2>1, <2>2, <2>3, NothingVisited
<1>5. CASE Receive(r)
  <2>1. PICK s \in Ranks :
           /\ net[s][r] # <<>>
           /\ net' = [net EXCEPT ![s][r] = Tail(@)]
           /\ ReachAll(r, Head(net[s][r]))
    BY <1>5 DEF Receive
  <2>2. /\ net[s][r] \in Seq(Seq(Edges)) /\ net'[s][r] = Tail(net[s][r])
        /\ \A q, p \in Ranks : q # s \/ p # r => net'[q][p] = net[q][p]
    BY <2>1 DEF TypeOK
  <2>3. PICK m \in Seq(Edges) : /\ m = Head(net[s][r])
                                /\ ToSet(net[s][r]) = ToSet(net'[s][r]) \cup {m}
    BY <2>1, <2>2, TailSet
  <2>4. /\ InTransit(s, r) = InTransit(s, r)' \cup ToSet(m)
        /\ \A q, p \in Ranks : q # s \/ p # r => InTransit(q, p)' = InTransit(q, p)
    BY <1>1, <2>2, <2>3 DEF InTransit
  <2>5. /\ \A v \in Vertices : pred[v] # NotVisited => pred'[v] = pred[v]
        /\ \A e \in ToSet(m) : pred'[e.tgt] # NotVisited
        /\ \A v \in Vertices : pred[v] = NotVisited /\ pred'[v] # NotVisited =>
              [tgt |-> v, src |-> pred'[v]] \in ToSet(m)
        /\ Level(newq') = Level(newq) \cup
              {v \in Vertices : pred[v] = NotVisited /\ pred'[v] # NotVisited}
    BY <2>1, <2>3, ReachAllOK
  <2>6. \A v \in Vertices : pred[v] = NotVisited /\ pred'[v] # NotVisited =>
           LevelEdge([tgt |-> v, src |-> pred'[v]])
    BY <2>4, <2>5 DEF Sound
  <2>7. \A q, p \in Ranks : \A x \in InTransit(q, p)' : LevelEdge(x)
    BY <2>4 DEF Sound
  <2>8. \A q, p \in Ranks : \A e \in InTransit(q, p) :
           e \in InTransit(q, p)' \/ pred'[e.tgt] # NotVisited
    BY <2>4, <2>5
  <2> QED
    BY <1>1, <1>2, <1>3, <2>5, <2>6, <2>7, <2>8, WithinLevel
<1> QED
  BY <1>4, <1>5 DEF CHECK_MPI_REQS

(* The end of a level: every edge of the level is handled, so the next     *)
(* queues hold exactly the vertices that the level reaches.                *)
LEMMA NextLevel ==
    ASSUME Control, Sound, Scanned, \A q \in Ranks : at[q] = "allreduce"
    PROVE  LevelSearch!Reached = Level(newq)
<1> USE DEF Control
<1> DEFINE seen == [v \in Vertices |-> IF v \in Level(newq) THEN NotVisited ELSE pred[v]]
<1>1. LevelSearch!Reached = {v \in Vertices :
         seen[v] = NotVisited /\ \E u \in Level(oldq) :
            v \in [x \in Vertices |-> ToSet(column[x])][u]}
  BY DEF LevelSearch!Reached
<1>2. Level(newq) \subseteq LevelSearch!Reached
  <2> SUFFICES ASSUME NEW v \in Level(newq)
               PROVE  v \in LevelSearch!Reached
    OBVIOUS
  <2>1. v \in Vertices /\ pred[v] \in Level(oldq) /\ v \in ToSet(column[pred[v]])
    BY SearchTypes DEF Sound, LevelEdge
  <2>2. pred[v] \in Vertices
    BY <2>1, SearchTypes
  <2> QED
    BY <1>1, <2>1, <2>2
<1>3. LevelSearch!Reached \subseteq Level(newq)
  <2> SUFFICES ASSUME NEW v \in Vertices, v \notin Level(newq), pred[v] = NotVisited,
                      NEW u \in Level(oldq), v \in ToSet(column[u])
               PROVE  FALSE
    BY <1>1, SearchTypes
  <2>1. PICK q \in Ranks : u \in ToSet(oldq[q])
    BY DEF Level
  <2>2. PICK k \in 1 .. Len(oldq[q]) : oldq[q][k] = u
    <3>1. oldq[q] \in Seq(Vertices)
      BY DEF TypeOK
    <3>2. DOMAIN oldq[q] = 1 .. Len(oldq[q])
      BY <3>1
    <3> QED
      BY <2>1, <3>2 DEF ToSet
  <2>3. i[q] > Len(oldq[q]) /\ i[q] \in Nat /\ Len(oldq[q]) \in Nat
    <3>1. oldq[q] \in Seq(Vertices) /\ i[q] \in Nat /\ at[q] = "allreduce"
      BY DEF TypeOK
    <3> QED
      BY <3>1 DEF PhaseOK
  <2>4. k < i[q]
    BY <2>3
  <2>5. ~(k > i[q]) /\ k # i[q]
    BY <2>3, <2>4
  <2>6. Handled(q, v)
    BY <2>2, <2>5 DEF Scanned, Waiting
  <2>7. ASSUME NEW d \in Ranks
        PROVE  InTransit(q, d) = {}
    <3>1. net[q][d] = <<>> /\ outgoing[q][d] = <<>>
      BY LevelIsOver
    <3>2. ToSet(<<>>) = {}
      BY DEF ToSet
    <3> QED
      BY <3>1, <3>2 DEF InTransit
  <2> QED
    BY <2>6, <2>7 DEF Handled
<1> QED
  BY <1>2, <1>3

LEMMA AllreduceSearch ==
    ASSUME Control, TypeOK', Sound, Scanned, Allreduce
    PROVE  Sound' /\ Scanned' /\ LevelSearch!Next
<1> USE DEF Control
<1> DEFINE seen == [v \in Vertices |-> IF v \in Level(newq) THEN NotVisited ELSE pred[v]]
<1>1. /\ \A q \in Ranks : at[q] = "allreduce"
      /\ UNCHANGED <<pred, edges, outgoing, net>>
  BY DEF Allreduce, sendVars
<1>2. 0 \in Ranks
  BY BfsAssumption DEF Ranks
<1>3. LevelSearch!Reached = Level(newq)
  BY <1>1, NextLevel
<1>4. ~Ended
  BY <1>1, <1>2 DEF Ended
<1>5. ToSet(<<>>) = {}
  BY DEF ToSet
<1>6. \A q, d \in Ranks : InTransit(q, d) = {} /\ InTransit(q, d)' = {}
  <2>1. \A q, d \in Ranks : net[q][d] = <<>> /\ outgoing[q][d] = <<>>
    BY <1>1, LevelIsOver
  <2> QED
    BY <1>1, <1>5, <2>1 DEF InTransit
<1>7. CASE \A q \in Ranks : newq[q] = <<>>
  <2>1. /\ at' = [q \in Ranks |-> "end"]
        /\ UNCHANGED <<oldq, newq, i>>
    BY <1>7 DEF Allreduce
  <2>2. Sound'
    <3>1. Level(newq') = {}
      BY <1>5, <1>7, <2>1 DEF Level
    <3>2. Level(newq)' = {}
      BY <3>1 DEF Level
    <3> QED
      BY <1>6, <2>1, <3>2 DEF Sound
  <2>3. Scanned'
    <3> SUFFICES ASSUME NEW q \in Ranks, NEW k \in 1 .. Len(oldq[q]),
                        NEW v \in ToSet(column[oldq[q][k]])
                 PROVE  Waiting(q, k, v)' \/ Handled(q, v)'
      BY <2>1 DEF Scanned, Waiting
    <3>1. Waiting(q, k, v) \/ Handled(q, v)
      BY DEF Scanned
    <3>2. Waiting(q, k, v) => Waiting(q, k, v)'
      BY <1>1, <2>1 DEF Waiting
    <3>3. Handled(q, v) => Handled(q, v)'
      BY <1>1, <1>6 DEF Handled
    <3> QED
      BY <3>1, <3>2, <3>3
  <2>4. Level(newq) = {}
    BY <1>5, <1>7 DEF Level
  <2>5. Ended'
    BY <2>1 DEF Ended
  <2>6. Level(oldq)' = Level(oldq) /\ Level(newq)' = Level(newq)
    BY <2>1 DEF Level
  <2>7. seen' = seen
    BY <1>1, <2>6
  <2>8. LevelSearch!End
    BY <1>3, <1>4, <2>4, <2>5, <2>6, <2>7 DEF LevelSearch!End
  <2> QED
    BY <2>2, <2>3, <2>8 DEF LevelSearch!Next
<1>8. CASE ~\A q \in Ranks : newq[q] = <<>>
  <2>1. /\ at' = [q \in Ranks |-> "scan"]
        /\ oldq' = newq
        /\ newq' = [q \in Ranks |-> <<>>]
        /\ i' = [q \in Ranks |-> 1]
    BY <1>8 DEF Allreduce
  <2>2. Level(newq)' = {} /\ Level(oldq)' = Level(newq)
    BY <1>5, <2>1 DEF Level
  <2>3. Sound'
    BY <1>6, <2>1, <2>2 DEF Sound
  <2>4. Scanned'
    <3> SUFFICES ASSUME NEW q \in Ranks, NEW k \in 1 .. Len(oldq'[q])
                 PROVE  \A v : Waiting(q, k, v)'
      BY DEF Scanned
    <3>1. at'[q] = "scan" /\ i'[q] = 1
      BY <2>1
    <3>2. k > 1 \/ k = 1
      OBVIOUS
    <3> QED
      BY <3>1, <3>2 DEF Waiting
  <2>5. ~Ended'
    BY <1>2, <2>1 DEF Ended
  <2>6. Level(newq) # {}
    <3>1. PICK q \in Ranks : newq[q] # <<>>
      BY <1>8
    <3>2. Head(newq[q]) \in ToSet(newq[q])
      BY <3>1, TailSet DEF TypeOK
    <3> QED
      BY <3>2 DEF Level
  <2>7. seen' = [v \in Vertices |-> pred[v]]
    BY <1>1, <2>2
  <2>8. \A v \in Vertices :
           IF v \in Level(newq)
           THEN seen'[v] \in Level(oldq) /\ v \in [x \in Vertices |-> ToSet(column[x])][seen'[v]]
           ELSE seen'[v] = seen[v]
    <3>1. ASSUME NEW v \in Level(newq)
          PROVE  pred[v] \in Level(oldq) /\ pred[v] \in Vertices /\ v \in ToSet(column[pred[v]])
      BY SearchTypes DEF Sound, LevelEdge
    <3> QED
      BY <2>7, <3>1
  <2>9. LevelSearch!Level
    <3>1. DOMAIN seen' = Vertices
      BY <2>7
    <3>2. Ended' = Ended
      BY <1>4, <2>5 DEF Ended
    <3> HIDE DEF seen
    <3> QED
      BY <1>3, <1>4, <2>2, <2>6, <2>8, <3>1, <3>2 DEF LevelSearch!Level, seen
  <2> QED
    BY <2>3, <2>4, <2>9 DEF LevelSearch!Next
<1> QED
  BY <1>7, <1>8

-------------------------------------------------------------------------------
Search == Control /\ Sound /\ Scanned

LEMMA SearchInit == Init => Search /\ LevelSearch!Init
<1> SUFFICES ASSUME Init
             PROVE  Search /\ LevelSearch!Init
  OBVIOUS
<1>1. Control
  BY ControlInit
<1>2. ToSet(<<>>) = {} /\ ToSet(<<Root>>) = {Root}
  BY DEF ToSet
<1>3. Level(newq) = {} /\ \A q, d \in Ranks : InTransit(q, d) = {}
  BY <1>2 DEF Init, NoMessages, Level, InTransit
<1>4. Sound
  BY <1>3 DEF Init, Sound
<1>5. Scanned
  <2> SUFFICES ASSUME NEW q \in Ranks, NEW k \in 1 .. Len(oldq[q])
               PROVE  \A v : Waiting(q, k, v)
    BY DEF Scanned
  <2>1. at[q] = "scan" /\ i[q] = 1
    BY DEF Init
  <2>2. k > 1 \/ k = 1
    OBVIOUS
  <2> QED
    BY <2>1, <2>2 DEF Waiting
<1>6. Level(oldq) = {Root}
  <2>1. VERTEX_OWNER(Root) \in Ranks
    BY BfsAssumption DEF VERTEX_OWNER, Ranks, Vertices
  <2>2. \A q \in Ranks : ToSet(oldq[q]) = IF VERTEX_OWNER(Root) = q THEN {Root} ELSE {}
    BY <1>2 DEF Init
  <2> QED
    BY <2>1, <2>2 DEF Level
<1>7. ~Ended
  <2>1. 0 \in Ranks
    BY BfsAssumption DEF Ranks
  <2> QED
    BY <2>1 DEF Init, Ended
<1>8. LevelSearch!Init
  BY <1>3, <1>6, <1>7 DEF LevelSearch!Init, Init
<1> QED
  BY <1>1, <1>4, <1>5, <1>8 DEF Search

LEMMA SearchStep ==
    Search /\ [Next]_vars => Search' /\ [LevelSearch!Next]_LevelSearch!vars
<1> SUFFICES ASSUME Search, [Next]_vars
             PROVE  Search' /\ [LevelSearch!Next]_LevelSearch!vars
  OBVIOUS
<1>1. Control' /\ TypeOK'
  BY ControlStep DEF Search, Control
<1> USE DEF Search
<1>2. CASE \E r \in Ranks : scan(r) \/ flush(r) \/ AllAreDone(r) \/ CHECK_MPI_REQS(r)
  <2>1. PICK r \in Ranks : scan(r) \/ flush(r) \/ AllAreDone(r) \/ CHECK_MPI_REQS(r)
    BY <1>2
  <2>2. Sound' /\ Scanned' /\ UNCHANGED LevelSearch!vars
    BY <1>1, <2>1, ScanSearch, LocalEdgeSearch, RemoteEdgeSearch, FlushSearch, PollSearch
    DEF scan
  <2> QED
    BY <1>1, <2>2
<1>3. CASE Allreduce
  <2>1. Sound' /\ Scanned' /\ LevelSearch!Next
    BY <1>1, <1>3, AllreduceSearch
  <2> QED
    BY <1>1, <2>1
<1>4. CASE UNCHANGED vars
  <2>1. UNCHANGED <<pred, oldq, newq, i, edges, outgoing, net, at>>
    BY <1>4 DEF vars
  <2>2. Level(oldq)' = Level(oldq) /\ Level(newq)' = Level(newq) /\ Ended' = Ended
    BY <2>1 DEF Level, Ended
  <2>3. \A q, d \in Ranks : InTransit(q, d)' = InTransit(q, d)
    BY <2>1 DEF InTransit
  <2>4. Sound'
    BY <2>1, <2>2, <2>3 DEF Sound, LevelEdge, src
  <2>5. Scanned'
    BY <2>1, <2>3 DEF Scanned, Waiting, Handled
  <2>6. UNCHANGED LevelSearch!vars
    BY <2>1, <2>2 DEF LevelSearch!vars
  <2> QED
    BY <1>1, <2>4, <2>5, <2>6
<1> QED
  BY <1>2, <1>3, <1>4 DEF Next, Finished

(* The ranks never process or send an edge that is not one of the level,   *)
(* and never lose one they scanned.                                        *)
THEOREM SearchHolds == Spec => []Search
BY SearchInit, SearchStep, PTL DEF Spec

(* The search over MPI is a level-synchronous breadth-first search: seen   *)
(* at the ends of the levels, pred and the queues change as those of one   *)
(* machine would (bfs_simple.c:87-228).                                    *)
THEOREM ImplementsLevelBfsHolds == Spec => ImplementsLevelBfs
BY SearchInit, SearchStep, SearchHolds, PTL DEF Spec, ImplementsLevelBfs, LevelSearch!Spec

===============================================================================
