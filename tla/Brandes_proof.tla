--------------------------- MODULE Brandes_proof ---------------------------
(***************************************************************************)
(* For every graph and every choice of sources: the forward walk of        *)
(* Brandes pushes no vertex twice, its entries have the distance that the  *)
(* code asserts, and its levels are those of a breadth-first search.       *)
(*                                                                         *)
(* The inductive invariant relates three things: the distance of a vertex  *)
(* and the entry it was pushed with (Entries), the edges that threads      *)
(* still have in hand (InHand), and, for every edge out of a vertex        *)
(* reached, that it is either in hand or has been followed (Followed).     *)
(*                                                                         *)
(* The second part counts: a vertex of the next level has what the edges   *)
(* followed so far add to it, and the counts of the current level are the  *)
(* numbers of walks to it.                                                 *)
(*                                                                         *)
(* The third is about the way back.  A shortest walk through a vertex goes *)
(* on by an edge that leads one level further (OnPaths), hence what        *)
(* depends on the vertex is a sum over those edges (ShareIs), and that is  *)
(* what the code adds up (DependencyIs).  The invariant says which         *)
(* vertices have it (Depends) and that the scores are of the sources       *)
(* before, and of this one as far as it is done (Scored).                  *)
(***************************************************************************)
EXTENDS Brandes, SumTheorems

\* Every vertex reached has been pushed with its distance, and was reached
\* from the level before.
Entries ==
  /\ \A v \in Vertex : distance[v] # Infinity =>
       \E i \in Entry : pushed[i] = distance[v] /\ At(i) = v
  /\ \A e \in Edge : pushed[e] # Infinity =>
       distance[Src[e]] = pushed[e] - 1
  /\ pushed[Root] \in {0, Infinity}
  /\ \A e \in Edge : pushed[e] # 0

\* The edges a thread has in hand leave the vertex of its entry, which is on
\* the current level.
InHand ==
  \A i \in Entry : \A e \in left[i] \cup swapping[i] :
    phase = "forward" /\ pushed[i] = level /\ Src[e] = At(i)

\* On the way forward no vertex is further than one level ahead, edges out of
\* earlier levels have been followed, and those out of the current level have
\* been followed or are in hand.
Followed ==
  phase = "forward" =>
    /\ \A v \in Vertex : distance[v] <= level + 1
    /\ \A e \in Edge : distance[Src[e]] # Infinity =>
         /\ distance[Src[e]] < level =>
              distance[Dst[e]] \in 0 .. distance[Src[e]] + 1
         /\ distance[Src[e]] = level =>
              \/ distance[Dst[e]] # Infinity
              \/ \E i \in Entry : e \in left[i] \cup swapping[i]

AboveSource == phase = "backward" => level > 0

IInv ==
  /\ TypeOK
  /\ AboveSource
  /\ PushedOnce
  /\ Entries
  /\ InHand
  /\ Followed
  /\ LevelsExact

USE EdgeAssumption

-----------------------------------------------------------------------------
\* The vertex of an entry is a vertex; an edge's is its destination.
LEMMA AtType ==
  ASSUME TypeOK
  PROVE  /\ \A i \in Entry : At(i) \in Vertex
         /\ \A e \in Edge : At(e) = Dst[e] /\ e # Root
         /\ At(Root) = source
  BY DEF TypeOK, Entry, At

\* Before the first source nothing has been reached.
LEMMA InitIInv == Init => IInv
<1> SUFFICES ASSUME Init PROVE IInv
  OBVIOUS
<1>1. sources \subseteq Vertex
  BY DEF Init, Selection, kSubset
<1>2. TypeOK
  BY <1>1 DEF Init, TypeOK, NoEdges, Entry, Infinity
<1>3. AboveSource /\ PushedOnce /\ Entries /\ Followed /\ LevelsExact
  BY DEF Init, AboveSource, PushedOnce, Entries, Followed, LevelsExact,
         Entry, Infinity
<1>4. InHand
  BY DEF Init, InHand, NoEdges
<1> QED
  BY <1>2, <1>3, <1>4 DEF IInv

\* A source starts a walk with nothing reached but itself.
LEMMA TakeSourceIInv ==
  ASSUME IInv, NEW s \in Vertex, TakeSource(s)
  PROVE  IInv'
<1> USE DEF TakeSource, Infinity
<1>1. TypeOK'
  BY DEF IInv, TypeOK, NoEdges, Entry, EdgesOf
<1>2. AboveSource' /\ LevelsExact'
  BY DEF AboveSource, LevelsExact
<1>3. Root \in Entry /\ At(Root)' = s
  BY DEF Entry, At
<1>4. PushedOnce'
  BY <1>3 DEF PushedOnce, Entry
<1>5. Entries'
  BY <1>3 DEF Entries, Entry
<1>6. InHand'
  <2> SUFFICES ASSUME NEW i \in Entry,
                      NEW e \in left'[i] \cup swapping'[i]
               PROVE  phase' = "forward" /\ pushed'[i] = level' /\ Src[e] = At(i)'
    BY DEF InHand
  <2>1. swapping'[i] = {}
    BY DEF IInv, InHand, TypeOK
  <2>2. i = Root /\ e \in EdgesOf(s)
    BY <2>1 DEF NoEdges
  <2> QED
    BY <2>2, <1>3 DEF EdgesOf
<1>7. Followed'
  BY <1>3 DEF Followed, EdgesOf, NoEdges
<1> QED
  BY <1>1, <1>2, <1>4, <1>5, <1>6, <1>7 DEF IInv

\* A thread takes an edge in hand, or drops it because it leads to a vertex
\* that has a distance.
LEMMA LookIInv ==
  ASSUME IInv, NEW i \in Entry, NEW e \in Edge, Look(i, e)
  PROVE  IInv'
<1> USE DEF Look, IInv
<1>1. TypeOK'
  BY DEF TypeOK
<1>2. AboveSource' /\ LevelsExact'
  BY DEF AboveSource, LevelsExact
<1>3. PushedOnce' /\ Entries'
  BY DEF PushedOnce, Entries, At
<1>4. InHand'
  <2>1. \A j \in Entry : left'[j] \cup swapping'[j] \subseteq left[j] \cup swapping[j]
    BY DEF TypeOK
  <2> QED
    BY <2>1 DEF InHand, At
<1>5. Followed'
  <2> SUFFICES ASSUME NEW f \in Edge, distance[Src[f]] = level,
                      distance[Dst[f]] = Infinity
               PROVE  \E j \in Entry : f \in left'[j] \cup swapping'[j]
    BY DEF Followed, InHand
  <2>1. PICK j \in Entry : f \in left[j] \cup swapping[j]
    BY DEF Followed, TypeOK, Infinity
  <2>2. CASE f = e
    BY <2>1, <2>2 DEF TypeOK
  <2>3. CASE f # e
    BY <2>1, <2>3 DEF TypeOK, Idle
  <2> QED
    BY <2>2, <2>3
<1> QED
  BY <1>1, <1>2, <1>3, <1>4, <1>5

\* Whoever wins the swap pushes a vertex that nobody has pushed; whoever
\* loses changes nothing but what it has in hand.
LEMMA SwapIInv ==
  ASSUME IInv, NEW i \in Entry, NEW e \in Edge, Swap(i, e)
  PROVE  IInv'
<1> USE DEF Swap, IInv, Infinity
<1>a. /\ phase = "forward" /\ level \in Nat /\ e \in Entry
      /\ pushed[i] = level /\ distance[Src[e]] = level
  BY DEF InHand, PushedOnce, TypeOK, Entry
<1>1. TypeOK'
  BY <1>a DEF TypeOK, Adds
<1>2. AboveSource' /\ LevelsExact'
  BY <1>a DEF AboveSource, LevelsExact
<1>3. CASE Won(e)
  <2> USE <1>3 DEF Won
  <2>1. pushed[e] = Infinity /\ \A j \in Entry : pushed[j] # Infinity => At(j) # Dst[e]
    BY <1>a, AtType DEF PushedOnce
  <2>2. /\ pushed' = [pushed EXCEPT ![e] = level + 1]
        /\ distance' = [distance EXCEPT ![Dst[e]] = level + 1]
        /\ \A j \in Entry : At(j)' = At(j)
    BY DEF At, TypeOK
  <2>3. PushedOnce'
    BY <1>a, <2>1, <2>2, AtType DEF PushedOnce, TypeOK
  <2>4. Entries'
    <3>1. ASSUME NEW v \in Vertex, distance'[v] # Infinity
          PROVE  \E j \in Entry : pushed'[j] = distance'[v] /\ At(j)' = v
      <4>1. CASE v = Dst[e]
        BY <1>a, <2>2, <4>1, AtType DEF TypeOK
      <4>2. CASE v # Dst[e]
        <5>1. distance'[v] = distance[v]
          BY <2>2, <4>2 DEF TypeOK
        <5>2. PICK j \in Entry : pushed[j] = distance[v] /\ At(j) = v
          BY <5>1, <3>1 DEF Entries
        <5>3. j # e
          BY <2>1, <5>1, <5>2, <3>1
        <5> QED
          BY <5>1, <5>2, <5>3, <2>2 DEF TypeOK
      <4> QED
        BY <4>1, <4>2
    <3>2. ASSUME NEW f \in Edge, pushed'[f] # Infinity
          PROVE  distance'[Src[f]] = pushed'[f] - 1
      <4>1. CASE f = e
        BY <1>a, <2>2, <4>1 DEF TypeOK
      <4>2. CASE f # e
        BY <1>a, <2>1, <2>2, <4>2, <3>2 DEF TypeOK, Entries, Entry
      <4> QED
        BY <4>1, <4>2
    <3>3. pushed'[Root] \in {0, Infinity} /\ \A f \in Edge : pushed'[f] # 0
      BY <1>a, <2>2 DEF Entries, TypeOK, Entry
    <3> QED
      BY <3>1, <3>2, <3>3 DEF Entries
  <2>5. InHand'
    <3> SUFFICES ASSUME NEW j \in Entry, NEW f \in left'[j] \cup swapping'[j]
                 PROVE  phase' = "forward" /\ pushed'[j] = level' /\ Src[f] = At(j)'
      BY DEF InHand
    <3>1. f \in left[j] \cup swapping[j]
      BY DEF TypeOK
    <3>2. phase = "forward" /\ pushed[j] = level /\ Src[f] = At(j)
      BY <3>1 DEF InHand
    <3>3. j # e
      BY <3>2, <2>1, <1>a
    <3> QED
      BY <3>2, <3>3, <2>2 DEF TypeOK
  <2>6. Followed'
    <3>1. \A v \in Vertex : distance'[v] <= level + 1
      BY <1>a, <2>2 DEF Followed, TypeOK
    <3>2. ASSUME NEW f \in Edge, distance'[Src[f]] # Infinity, distance'[Src[f]] < level
          PROVE  distance'[Dst[f]] \in 0 .. distance'[Src[f]] + 1
      <4>1. Src[f] # Dst[e] /\ distance'[Src[f]] = distance[Src[f]]
        BY <1>a, <2>2, <3>2 DEF TypeOK
      <4>2. distance[Dst[f]] \in 0 .. distance[Src[f]] + 1
        BY <1>a, <4>1, <3>2 DEF Followed
      <4>3. Dst[f] # Dst[e]
        BY <4>2
      <4> QED
        BY <4>1, <4>2, <4>3, <2>2 DEF TypeOK
    <3>3. ASSUME NEW f \in Edge, distance'[Src[f]] = level, distance'[Dst[f]] = Infinity
          PROVE  \E j \in Entry : f \in left'[j] \cup swapping'[j]
      <4>1. f # e /\ distance[Src[f]] = level /\ distance[Dst[f]] = Infinity
        BY <1>a, <2>2, <3>3 DEF TypeOK
      <4>2. PICK j \in Entry : f \in left[j] \cup swapping[j]
        BY <1>a, <4>1 DEF Followed
      <4> QED
        BY <4>1, <4>2 DEF TypeOK
    <3> QED
      BY <3>1, <3>2, <3>3 DEF Followed
  <2> QED
    BY <1>1, <1>2, <2>3, <2>4, <2>5, <2>6
<1>4. CASE ~Won(e)
  <2> USE <1>4 DEF Won
  <2>1. pushed' = pushed /\ distance' = distance
    BY <1>a DEF TypeOK
  <2>2. PushedOnce' /\ Entries'
    BY <2>1 DEF PushedOnce, Entries, At
  <2>3. InHand'
    <3>1. \A j \in Entry : left'[j] \cup swapping'[j] \subseteq left[j] \cup swapping[j]
      BY DEF TypeOK
    <3> QED
      BY <3>1, <2>1 DEF InHand, At
  <2>4. Followed'
    <3> SUFFICES ASSUME NEW f \in Edge, distance[Src[f]] = level,
                        distance[Dst[f]] = Infinity
                 PROVE  \E j \in Entry : f \in left'[j] \cup swapping'[j]
      BY <1>a, <2>1 DEF Followed
    <3>1. PICK j \in Entry : f \in left[j] \cup swapping[j]
      BY <1>a DEF Followed
    <3>2. f # e
      OBVIOUS
    <3> QED
      BY <3>1, <3>2 DEF TypeOK
  <2> QED
    BY <1>1, <1>2, <2>2, <2>3, <2>4
<1> QED
  BY <1>3, <1>4

\* Additions change nothing that the levels depend on.
LEMMA AddIInv ==
  ASSUME IInv, NEW i \in Entry, NEW e \in Edge, Add(i, e)
  PROVE  IInv'
<1> USE DEF Add, IInv
<1>1. TypeOK'
  BY AtType DEF TypeOK
<1>2. AboveSource' /\ PushedOnce' /\ Entries' /\ LevelsExact'
  BY DEF AboveSource, PushedOnce, Entries, LevelsExact, At
<1>3. InHand' /\ Followed'
  BY DEF InHand, Followed, At
<1> QED
  BY <1>1, <1>2, <1>3

\* When a level is over nobody has an edge in hand, so that every edge out of
\* the levels walked so far has been followed.
LEMMA NothingInHand ==
  ASSUME IInv, phase = "forward", Through
  PROVE  /\ \A i \in Entry : left[i] = {} /\ swapping[i] = {}
         /\ \A e \in Edge : distance[Src[e]] \in 0 .. level =>
              distance[Dst[e]] \in 0 .. distance[Src[e]] + 1
<1> USE DEF IInv
<1>1. ASSUME NEW i \in Entry
      PROVE  left[i] = {} /\ swapping[i] = {}
  <2>1. CASE pushed[i] = level
    BY <2>1 DEF Through, Worklist, Idle
  <2>2. CASE pushed[i] # level
    BY <2>2 DEF InHand
  <2> QED
    BY <2>1, <2>2
<1>2. ASSUME NEW e \in Edge, distance[Src[e]] \in 0 .. level
      PROVE  distance[Dst[e]] \in 0 .. distance[Src[e]] + 1
  <2>1. level \in Nat /\ distance[Dst[e]] \in Nat \cup {Infinity}
    BY DEF TypeOK
  <2>2. CASE distance[Src[e]] < level
    BY <1>2, <2>1, <2>2 DEF Followed, Infinity
  <2>3. CASE distance[Src[e]] = level
    BY <1>1, <2>1, <2>3 DEF Followed, Infinity
  <2> QED
    BY <1>2, <2>1, <2>2, <2>3
<1> QED
  BY <1>1, <1>2

\* The threads of the next level take all edges of its vertices in hand.
LEMMA DeeperIInv ==
  ASSUME IInv, Deeper
  PROVE  IInv'
<1> USE DEF Deeper, IInv, Infinity
<1>a. level \in Nat /\ \A v \in Vertex : distance[v] \in Nat \cup {-1}
  BY DEF TypeOK
<1>1. TypeOK'
  BY DEF TypeOK, EdgesOf
<1>2. AboveSource' /\ PushedOnce' /\ Entries' /\ LevelsExact'
  BY DEF AboveSource, PushedOnce, Entries, LevelsExact, At
<1>3. InHand'
  BY NothingInHand DEF InHand, EdgesOf, At
<1>4. Followed'
  <2>1. \A v \in Vertex : distance'[v] <= level' + 1
    BY <1>a DEF Followed
  <2>2. ASSUME NEW e \in Edge, distance'[Src[e]] # Infinity,
               distance'[Src[e]] < level'
        PROVE  distance'[Dst[e]] \in 0 .. distance'[Src[e]] + 1
    <3>1. distance[Src[e]] \in 0 .. level
      BY <1>a, <2>2
    <3> QED
      BY <3>1, NothingInHand
  <2>3. ASSUME NEW e \in Edge, distance'[Src[e]] # Infinity,
               distance'[Src[e]] = level'
        PROVE  \E i \in Entry : e \in left'[i] \cup swapping'[i]
    <3>1. PICK i \in Entry : pushed[i] = level + 1 /\ At(i) = Src[e]
      BY <2>3 DEF Entries
    <3>2. e \in left'[i]
      BY <3>1 DEF EdgesOf
    <3> QED
      BY <3>2
  <2> QED
    BY <2>1, <2>2, <2>3 DEF Followed
<1> QED
  BY <1>1, <1>2, <1>3, <1>4

\* When the next worklist is empty, the vertices reached are those up to the
\* current level, and all edges out of them have been followed.
LEMMA TurnRoundIInv ==
  ASSUME IInv, TurnRound
  PROVE  IInv'
<1> USE DEF TurnRound, IInv, Infinity, FirstBack
<1>a. level \in Nat /\ \A v \in Vertex : distance[v] \in Nat \cup {-1}
  BY DEF TypeOK
<1>1. TypeOK' /\ AboveSource'
  BY <1>a DEF TypeOK, AboveSource, Worklist
<1>2. PushedOnce' /\ Entries'
  BY DEF PushedOnce, Entries, At
<1>3. InHand' /\ Followed'
  BY NothingInHand DEF InHand, Followed
<1>4. LevelsExact'
  <2>1. \A v \in Vertex : distance[v] # level + 1
    BY <1>a DEF Entries, Worklist
  <2>2. \A v \in Vertex : distance[v] # -1 => distance[v] \in 0 .. level
    BY <1>a, <2>1 DEF Followed
  <2>3. \A e \in Edge : distance[Src[e]] # -1 =>
          distance[Dst[e]] \in 0 .. distance[Src[e]] + 1
    BY <2>2, NothingInHand
  <2>4. ASSUME NEW v \in Vertex, distance[v] > 0
        PROVE  \E e \in Edge : Dst[e] = v /\ distance[Src[e]] = distance[v] - 1
    <3>1. PICK i \in Entry : pushed[i] = distance[v] /\ At(i) = v
      BY <1>a, <2>4 DEF Entries
    <3>2. i # Root
      BY <3>1, <1>a, <2>4 DEF Entries
    <3>3. i \in Edge /\ Dst[i] = v
      BY <3>1, <3>2 DEF Entry, At
    <3> QED
      BY <3>1, <3>3, <1>a, <2>4 DEF Entries
  <2>5. ASSUME NEW v \in Vertex, distance[v] = 0
        PROVE  v = source
    <3>1. PICK i \in Entry : pushed[i] = 0 /\ At(i) = v
      BY <2>5 DEF Entries
    <3>2. i = Root
      BY <3>1 DEF Entries, Entry
    <3> QED
      BY <3>1, <3>2 DEF At
  <2> QED
    BY <2>3, <2>4, <2>5 DEF LevelsExact
<1> QED
  BY <1>1, <1>2, <1>3, <1>4

\* The way back leaves levels and entries alone.
LEMMA BackwardIInv ==
  ASSUME IInv, Back \/ (\E i \in Entry : Accumulate(i)) \/ Terminated
  PROVE  IInv'
<1> USE DEF IInv
<1>1. CASE Terminated
  BY <1>1 DEF Terminated, vars, TypeOK, AboveSource, PushedOnce, Entries,
              InHand, Followed, LevelsExact, At
<1>2. CASE \E i \in Entry : Accumulate(i)
  BY <1>2 DEF Accumulate, TypeOK, AboveSource, PushedOnce, Entries, InHand,
              Followed, LevelsExact, At
<1>3. CASE Back
  <2> USE <1>3 DEF Back
  <2>1. level \in Nat /\ level > 0
    BY DEF TypeOK, AboveSource
  <2>2. TypeOK' /\ AboveSource'
    BY <2>1 DEF TypeOK, AboveSource, Worklist
  <2>3. PushedOnce' /\ Entries' /\ LevelsExact'
    BY DEF PushedOnce, Entries, LevelsExact, At
  <2>4. InHand' /\ Followed'
    BY DEF InHand, Followed
  <2> QED
    BY <2>2, <2>3, <2>4
<1> QED
  BY <1>1, <1>2, <1>3

LEMMA NextIInv == IInv /\ [Next]_vars => IInv'
<1> SUFFICES ASSUME IInv, [Next]_vars PROVE IInv'
  OBVIOUS
<1>1. ASSUME NEW s \in Vertex, TakeSource(s) PROVE IInv'
  BY <1>1, TakeSourceIInv
<1>2. ASSUME NEW i \in Entry, NEW e \in Edge, Look(i, e) PROVE IInv'
  BY <1>2, LookIInv
<1>3. ASSUME NEW i \in Entry, NEW e \in Edge, Swap(i, e) PROVE IInv'
  BY <1>3, SwapIInv
<1>4. ASSUME NEW i \in Entry, NEW e \in Edge, Add(i, e) PROVE IInv'
  BY <1>4, AddIInv
<1>5. CASE Deeper
  BY <1>5, DeeperIInv
<1>6. CASE TurnRound
  BY <1>6, TurnRoundIInv
<1>7. CASE Back \/ (\E i \in Entry : Accumulate(i)) \/ Terminated
  BY <1>7, BackwardIInv
<1>8. CASE UNCHANGED vars
  BY <1>8 DEF vars, IInv, TypeOK, AboveSource, PushedOnce, Entries, InHand,
              Followed, LevelsExact, At
<1> QED
  BY <1>1, <1>2, <1>3, <1>4, <1>5, <1>6, <1>7, <1>8 DEF Next

THEOREM InductiveInvariant == Spec => []IInv
  BY InitIInv, NextIInv, PTL DEF Spec
-----------------------------------------------------------------------------
\* The state of compute and levelSSSP has its type: in particular no level is
\* below the source on the way back, though it is counted in a size_t.
THEOREM TypeCorrect == Spec => []TypeOK
  BY InductiveInvariant, PTL DEF IInv

\* However many threads see a vertex without a distance, one of them pushes
\* it, and the assertion on distances of entries holds (bc.hpp:88, 139).
THEOREM PushedOnceCorrect == Spec => []PushedOnce
  BY InductiveInvariant, PTL DEF IInv

\* The levels that the way back starts from are those of a breadth-first
\* search, in any graph and under any schedule (bc.hpp:117-165).
THEOREM LevelsCorrect == Spec => []LevelsExact
  BY InductiveInvariant, PTL DEF IInv
-----------------------------------------------------------------------------
(* The numbers of paths.                                                   *)

First(s) == [v \in Vertex |-> IF v = s THEN 1 ELSE 0]
Step(p) ==
  [v \in Vertex |-> SumFunctionOnSet([e \in Edge |-> p[Src[e]]], {e \in Edge : Dst[e] = v})]
IsWalks(w, s, n) == w = [k \in 0 .. n |-> IF k = 0 THEN First(s) ELSE Step(w[k - 1])]

LEMMA LevelType ==
  /\ Cardinality(Vertex) \in Nat
  /\ \A k \in Level : k \in Nat /\ 0 .. k \subseteq Level
BY VertexAssumption, FS_CardinalityType DEF Level

LEMMA LeastLevel ==
  ASSUME NEW n \in Nat, NEW T, T \subseteq 0 .. n, T # {}
  PROVE  \E k \in T : \A l \in T : k <= l
<1>1. T \in SUBSET Nat /\ \A k \in T : k <= n
  OBVIOUS
<1>2. IsFiniteSet(T) /\ T \subseteq Int
  BY <1>1, FS_BoundedSetOfNaturals
<1> QED
  BY <1>2, HasLeast

LEMMA WalksExist ==
  ASSUME NEW s \in Vertex, NEW n \in Nat
  PROVE  \E w : IsWalks(w, s, n)
<1> DEFINE T == {k \in 0 .. n : ~ \E w : IsWalks(w, s, k)}
<1> SUFFICES ASSUME T # {} PROVE FALSE
  <2>1. n \in 0 .. n
    OBVIOUS
  <2> QED
    BY <2>1
<1>1. T \subseteq 0 .. n
  OBVIOUS
<1>2. PICK k \in T : \A l \in T : k <= l
  <2> HIDE DEF T
  <2> QED
    BY <1>1, LeastLevel
<1>3. CASE k = 0
  <2>1. IsWalks([l \in 0 .. 0 |-> First(s)], s, 0)
    BY DEF IsWalks
  <2> QED
    BY <1>2, <1>3, <2>1
<1>4. CASE k # 0
  <2>1. k - 1 \in 0 .. n /\ k - 1 \notin T
    BY <1>2, <1>4
  <2>2. PICK w : IsWalks(w, s, k - 1)
    BY <2>1
  <2> DEFINE x == [l \in 0 .. k |-> IF l = k THEN Step(w[k - 1]) ELSE w[l]]
  <2>3. \A l \in 0 .. k - 1 : w[l] = IF l = 0 THEN First(s) ELSE Step(w[l - 1])
    BY <2>2 DEF IsWalks
  <2>4. \A l \in 0 .. k : x[l] = IF l = 0 THEN First(s) ELSE Step(x[l - 1])
    <3> SUFFICES ASSUME NEW l \in 0 .. k
                 PROVE  x[l] = IF l = 0 THEN First(s) ELSE Step(x[l - 1])
      OBVIOUS
    <3>1. l # 0 => x[l - 1] = w[l - 1]
      BY <1>2
    <3>2. CASE l = k
      BY <1>4, <3>1, <3>2
    <3>3. CASE l # k
      BY <2>3, <3>1, <3>3
    <3> QED
      BY <3>2, <3>3
  <2>5. IsWalks(x, s, k)
    BY <2>4 DEF IsWalks
  <2> QED
    BY <1>2, <2>5
<1> QED
  BY <1>3, <1>4

\* The walks of a length are those of one edge less, and an edge.
LEMMA WalksAre ==
  ASSUME NEW s \in Vertex
  PROVE  /\ Walks(s)[0] = First(s)
         /\ \A k \in Level : k > 0 => Walks(s)[k] = Step(Walks(s)[k - 1])
<1>1. Walks(s) = CHOOSE w : IsWalks(w, s, Cardinality(Vertex))
  BY DEF Walks, IsWalks, First, Step, Level
<1>2. IsWalks(Walks(s), s, Cardinality(Vertex))
  BY <1>1, WalksExist, LevelType
<1> HIDE DEF Walks
<1> QED
  BY <1>2, LevelType DEF IsWalks, Level

LEMMA EdgesFinite == \A E \in SUBSET Edge : IsFiniteSet(E)
BY FS_Subset

LEMMA StepType ==
  ASSUME NEW p \in [Vertex -> Nat]
  PROVE  /\ Step(p) \in [Vertex -> Nat]
         /\ \A v \in Vertex :
              Step(p)[v] > 0 <=> \E e \in Edge : Dst[e] = v /\ p[Src[e]] > 0
<1> DEFINE f == [e \in Edge |-> p[Src[e]]]
<1> SUFFICES ASSUME NEW v \in Vertex
             PROVE  /\ Step(p)[v] \in Nat
                    /\ Step(p)[v] > 0 <=> \E e \in Edge : Dst[e] = v /\ p[Src[e]] > 0
  BY DEF Step
<1> DEFINE E == {e \in Edge : Dst[e] = v}
<1>1. Step(p)[v] = SumFunctionOnSet(f, E)
  BY DEF Step
<1>2. E \subseteq Edge /\ IsFiniteSet(E) /\ \A e \in E : f[e] \in Nat
  BY EdgesFinite
<1>3. \A e \in E : f[e] = p[Src[e]]
  OBVIOUS
<1>4. (\E e \in Edge : Dst[e] = v /\ p[Src[e]] > 0) <=> \E e \in E : f[e] > 0
  OBVIOUS
<1> HIDE DEF f, E
<1>5. SumFunctionOnSet(f, E) \in Nat
  BY <1>2, SumNat
<1>6. ASSUME \A e \in E : f[e] = 0 PROVE SumFunctionOnSet(f, E) = 0
  BY <1>2, <1>6, SumZero
<1>7. ASSUME NEW e \in E, f[e] > 0 PROVE SumFunctionOnSet(f, E) > 0
  <2>1. \A x \in E : f[x] \in Int
    BY <1>2
  <2>2. SumFunctionOnSet(f, E) = f[e] + SumFunctionOnSet(f, E \ {e})
    BY <1>2, <2>1, SumRemove
  <2>3. SumFunctionOnSet(f, E \ {e}) \in Nat
    <3>1. IsFiniteSet(E \ {e}) /\ \A x \in E \ {e} : f[x] \in Nat
      BY <1>2, FS_Subset
    <3> QED
      BY <3>1, SumNat
  <2>4. f[e] \in Nat
    BY <1>2
  <2> QED
    BY <1>7, <2>2, <2>3, <2>4
<1>8. (\A e \in E : f[e] = 0) \/ \E e \in E : f[e] > 0
  BY <1>2
<1> QED
  BY <1>1, <1>4, <1>5, <1>6, <1>7, <1>8

LEMMA WalksType ==
  ASSUME NEW s \in Vertex, NEW k \in Level
  PROVE  Walks(s)[k] \in [Vertex -> Nat]
<1> DEFINE T == {l \in Level : Walks(s)[l] \notin [Vertex -> Nat]}
<1> SUFFICES ASSUME T # {} PROVE FALSE
  OBVIOUS
<1>1. T \subseteq 0 .. Cardinality(Vertex)
  BY DEF Level
<1>2. PICK l \in T : \A m \in T : l <= m
  <2> HIDE DEF T
  <2> QED
    BY <1>1, LeastLevel, LevelType
<1>3. CASE l = 0
  <2>1. Walks(s)[l] = First(s)
    BY <1>3, WalksAre
  <2>2. First(s) \in [Vertex -> Nat]
    BY DEF First
  <2> QED
    BY <1>2, <2>1, <2>2
<1>4. CASE l # 0
  <2>1. l \in Nat /\ l - 1 \in Level /\ l - 1 \notin T
    BY <1>2, <1>4, LevelType DEF Level
  <2>2. Walks(s)[l] = Step(Walks(s)[l - 1])
    BY <1>2, <2>1, <1>4, WalksAre
  <2> QED
    BY <1>2, <2>1, <2>2, StepType
<1> QED
  BY <1>3, <1>4

\* Either there is no walk from s to t, or the shortest ones are counted.
LEMMA LengthIs ==
  ASSUME NEW s \in Vertex, NEW t \in Vertex
  PROVE  \/ /\ Lengths[s][t] = Infinity
            /\ \A k \in Level : Walks(s)[k][t] = 0
            /\ Paths[s][t] = 0
         \/ /\ Lengths[s][t] \in Level /\ Lengths[s][t] \in Nat
            /\ Paths[s][t] = Walks(s)[Lengths[s][t]][t]
            /\ Paths[s][t] \in Nat \ {0}
            /\ \A k \in Level : Walks(s)[k][t] > 0 => Lengths[s][t] <= k
<1> HIDE DEF Walks
<1> DEFINE L == {k \in Level : Walks(s)[k][t] > 0}
<1>1. Lengths[s][t] = IF L = {} THEN Infinity ELSE CHOOSE k \in L : \A l \in L : k <= l
  BY DEF Lengths
<1>2. Paths[s][t] = IF Lengths[s][t] = Infinity THEN 0 ELSE Walks(s)[Lengths[s][t]][t]
  BY DEF Paths
<1>3. \A k \in Level : k \in Nat /\ Walks(s)[k][t] \in Nat
  BY LevelType, WalksType
<1>4. CASE L = {}
  <2>1. ASSUME NEW k \in Level PROVE Walks(s)[k][t] = 0
    BY <1>3, <1>4
  <2> QED
    BY <1>1, <1>2, <1>4, <2>1
<1>5. CASE L # {}
  <2>1. L \subseteq 0 .. Cardinality(Vertex) /\ Cardinality(Vertex) \in Nat
    BY LevelType DEF Level
  <2>2. \E k \in L : \A l \in L : k <= l
    <3> HIDE DEF L
    <3> QED
      BY <1>5, <2>1, LeastLevel
  <2>3. Lengths[s][t] \in L /\ \A l \in L : Lengths[s][t] <= l
    BY <1>1, <1>5, <2>2
  <2>4. Lengths[s][t] \in Level /\ Walks(s)[Lengths[s][t]][t] > 0
    BY <2>3
  <2>5. Lengths[s][t] \in Nat /\ Lengths[s][t] # Infinity
    BY <1>3, <2>4 DEF Infinity
  <2>6. Paths[s][t] = Walks(s)[Lengths[s][t]][t]
    BY <1>2, <2>5
  <2>7. Paths[s][t] \in Nat \ {0}
    BY <1>3, <2>4, <2>6
  <2>8. \A k \in Level : Walks(s)[k][t] > 0 => Lengths[s][t] <= k
    BY <2>3
  <2> QED
    BY <2>4, <2>5, <2>6, <2>7, <2>8
<1> QED
  BY <1>4, <1>5

-----------------------------------------------------------------------------
(* Counting shortest paths.                                                *)

\* Edges of the current level that still count for nothing.
Pending(e) == \E i \in Entry : e \in left[i] \cup swapping[i] \cup adding[i]

\* The edges to v that have been added.
Added(v) == {e \in Edge : Dst[e] = v /\ distance[Src[e]] = level /\ ~ Pending(e)}
CountOver(E) == SumFunctionOnSet([e \in Edge |-> count[Src[e]]], E)

\* A thread has one edge at a time in hand, which it will add to a vertex of
\* the next level.
Hands ==
  \A i \in Entry :
    /\ \A e \in adding[i] :
         /\ phase = "forward" /\ pushed[i] = level /\ Src[e] = At(i)
         /\ distance[Dst[e]] = level + 1 /\ e \notin left[i]
    /\ \A e \in swapping[i] :
         distance[Dst[e]] \in {Infinity, level + 1} /\ e \notin left[i]
    /\ adding[i] = {} \/ swapping[i] = {}
    /\ \A e, f \in swapping[i] : e = f
    /\ \A e, f \in adding[i] : e = f

\* Up to the current level counts are final; a vertex of the next level counts
\* the edges that have been added.
Counted ==
  phase = "forward" =>
    /\ distance[source] = 0
    /\ \A j \in 0 .. level : \E v \in Vertex : distance[v] = j
    /\ \A k \in 0 .. level : \A v \in Vertex :
         Walks(source)[k][v] > 0 => distance[v] \in 0 .. k
    /\ \A v \in Vertex :
         /\ distance[v] \in 0 .. level =>
              count[v] = Walks(source)[distance[v]][v] /\ count[v] > 0
         /\ distance[v] = level + 1 => count[v] = CountOver(Added(v))
         /\ distance[v] = Infinity => count[v] = 0

CountInv == Hands /\ Counted /\ CountsExact

LEMMA InitCountInv == Init => CountInv
<1> SUFFICES ASSUME Init PROVE CountInv
  OBVIOUS
<1>1. source \in Vertex /\ distance[source] # 0
  BY DEF Init, Infinity, Selection, kSubset
<1> QED
  BY <1>1 DEF Init, CountInv, Hands, Counted, CountsExact, NoEdges

\* Levels up to the current one are among the lengths of the reference.
LEMMA LevelInRange ==
  ASSUME IInv, Counted, phase = "forward"
  PROVE  level \in Level /\ level + 1 \in Level
<1>1. level \in Nat /\ distance \in [Vertex -> Nat \cup {Infinity}]
  BY DEF IInv, TypeOK
<1> DEFINE D == {v \in Vertex : distance[v] \in 0 .. level}
           f == [v \in D |-> distance[v]]
<1>2. IsFiniteSet(D) /\ Cardinality(D) <= Cardinality(Vertex)
  BY VertexAssumption, FS_Subset
<1>3. f \in Surjection(D, 0 .. level)
  BY DEF Counted, Surjection
<1> HIDE DEF D, f
<1>4. Cardinality(0 .. level) <= Cardinality(D)
  BY <1>2, <1>3, FS_Surjection
<1>5. Cardinality(0 .. level) = level + 1
  BY <1>1, FS_Interval
<1>6. Cardinality(D) \in Nat /\ Cardinality(Vertex) \in Nat
  BY <1>2, VertexAssumption, FS_CardinalityType
<1> QED
  BY <1>1, <1>2, <1>4, <1>5, <1>6 DEF Level

\* Distances stay below the next level, and the source is a vertex.
LEMMA Ranges ==
  ASSUME IInv
  PROVE  /\ level \in Nat /\ source \in Vertex
         /\ \A v \in Vertex : distance[v] \in Nat \cup {-1} /\ count[v] \in Nat
         /\ \A i \in Entry : At(i) \in Vertex
         /\ \A e \in Edge : Src[e] \in Vertex /\ Dst[e] \in Vertex /\ e \in Entry
         /\ phase = "forward" => \A v \in Vertex : distance[v] <= level + 1
BY AtType DEF IInv, TypeOK, Infinity, Followed, Entry

\* An edge is in the hands of one thread.
LEMMA OneHand ==
  ASSUME IInv, Hands, NEW i \in Entry, NEW j \in Entry,
         NEW e \in left[i] \cup swapping[i] \cup adding[i],
         e \in left[j] \cup swapping[j] \cup adding[j]
  PROVE  i = j
<1>1. ASSUME NEW k \in Entry, e \in left[k] \cup swapping[k] \cup adding[k]
      PROVE  pushed[k] = level /\ Src[e] = At(k)
  BY <1>1 DEF IInv, InHand, Hands
<1>2. level # Infinity
  BY Ranges DEF Infinity
<1> QED
  BY <1>1, <1>2 DEF IInv, PushedOnce

LEMMA TakeSourceCountInv ==
  ASSUME IInv, CountInv, NEW s \in Vertex, TakeSource(s)
  PROVE  CountInv'
<1> USE DEF TakeSource, Infinity
<1>1. swapping = NoEdges /\ adding = NoEdges
  BY DEF IInv, TypeOK, InHand, CountInv, Hands, NoEdges
<1>2. Hands'
  BY <1>1 DEF Hands, NoEdges
<1>3. Walks(s)[0] = First(s)
  BY WalksAre
<1>4. Counted'
  <2>1. \A j \in 0 .. level' : \E v \in Vertex : distance'[v] = j
    OBVIOUS
  <2>2. \A v \in Vertex : Walks(source')[0][v] > 0 => distance'[v] \in 0 .. 0
    BY <1>3 DEF First
  <2>3. \A v \in Vertex :
         /\ distance'[v] \in 0 .. level' =>
              count'[v] = Walks(source')[distance'[v]][v] /\ count'[v] > 0
         /\ distance'[v] # level' + 1
         /\ distance'[v] = Infinity => count'[v] = 0
    BY <1>3 DEF First
  <2> HIDE DEF Walks
  <2> QED
    BY <2>1, <2>2, <2>3 DEF Counted
<1> QED
  BY <1>2, <1>4 DEF CountInv, CountsExact

\* A sum over added edges does not change unless one of them, or the count of
\* its source, does.
LEMMA SameCount ==
  ASSUME IInv, TypeOK', NEW v \in Vertex, Added(v)' = Added(v),
         \A e \in Added(v) : count'[Src[e]] = count[Src[e]]
  PROVE  CountOver(Added(v))' = CountOver(Added(v))
<1> DEFINE E == Added(v)
           f == [e \in Edge |-> count[Src[e]]]
           g == [e \in Edge |-> count'[Src[e]]]
<1>1. E \subseteq Edge /\ IsFiniteSet(E)
  BY EdgesFinite DEF Added
<1>2. \A e \in E : f[e] \in Int /\ g[e] = f[e]
  BY <1>1, Ranges
<1>3. CountOver(Added(v))' = SumFunctionOnSet(g, E)
  BY DEF CountOver
<1>4. CountOver(Added(v)) = SumFunctionOnSet(f, E)
  BY DEF CountOver
<1> HIDE DEF E, f, g
<1> QED
  BY <1>1, <1>2, <1>3, <1>4, SumSame

\* An edge that is dropped leads to a vertex with a level up to the current
\* one, which counts it no more.
LEMMA LookCountInv ==
  ASSUME IInv, IInv', CountInv, NEW i \in Entry, NEW e \in Edge, Look(i, e)
  PROVE  CountInv'
<1> USE DEF Look, Infinity
<1>1. /\ left[i] \subseteq Edge /\ e \in left[i] /\ swapping[i] = {} /\ adding[i] = {}
      /\ pushed[i] = level /\ Src[e] = At(i) /\ phase = "forward"
  BY DEF IInv, TypeOK, Idle, InHand
<1>2. /\ left'[i] = left[i] \ {e}
      /\ swapping'[i] = IF distance[Dst[e]] = -1 THEN {e} ELSE {}
      /\ adding'[i] = IF distance[Dst[e]] = level + 1 THEN {e} ELSE {}
      /\ \A j \in Entry : j # i => /\ left'[j] = left[j] /\ swapping'[j] = swapping[j]
                                   /\ adding'[j] = adding[j]
  BY DEF IInv, TypeOK
<1>3. \A j \in Entry : At(j)' = At(j)
  BY DEF At
<1>4. Hands'
  <2> SUFFICES ASSUME NEW j \in Entry
      PROVE /\ \A f \in adding'[j] :
                 /\ phase = "forward" /\ pushed[j] = level /\ Src[f] = At(j)
                 /\ distance[Dst[f]] = level + 1 /\ f \notin left'[j]
            /\ \A f \in swapping'[j] :
                 distance[Dst[f]] \in {Infinity, level + 1} /\ f \notin left'[j]
            /\ adding'[j] = {} \/ swapping'[j] = {}
            /\ \A f, g \in swapping'[j] : f = g
            /\ \A f, g \in adding'[j] : f = g
    BY <1>3 DEF Hands
  <2>1. CASE j = i
    BY <1>1, <1>2, <2>1, Ranges
  <2>2. CASE j # i
    BY <1>2, <2>2 DEF CountInv, Hands
  <2> QED
    BY <2>1, <2>2
<1>5. ASSUME NEW f \in Edge, distance[Dst[f]] = level + 1
      PROVE  Pending(f)' <=> Pending(f)
  <2>1. CASE f = e
    BY <1>1, <1>2, <1>5, <2>1 DEF Pending
  <2>2. CASE f # e
    <3>1. \A j \in Entry : f \in left'[j] \cup swapping'[j] \cup adding'[j]
            <=> f \in left[j] \cup swapping[j] \cup adding[j]
      BY <1>1, <1>2, <2>2
    <3> QED
      BY <3>1 DEF Pending
  <2> QED
    BY <2>1, <2>2
<1>6. \A v \in Vertex : distance[v] = level + 1 => CountOver(Added(v))' = CountOver(Added(v))
  <2> SUFFICES ASSUME NEW v \in Vertex, distance[v] = level + 1
               PROVE  CountOver(Added(v))' = CountOver(Added(v))
    OBVIOUS
  <2>1. Added(v)' = Added(v)
    BY <1>5 DEF Added
  <2>2. TypeOK'
    BY DEF IInv
  <2> QED
    BY <2>1, <2>2, SameCount
<1>7. Counted'
  <2> HIDE DEF Walks
  <2> QED
    BY <1>1, <1>6 DEF CountInv, Counted
<1> QED
  BY <1>1, <1>4, <1>7 DEF CountInv, CountsExact

\* A vertex that gets its distance has nothing added yet: all edges from the
\* current level are still to be added.
LEMMA SwapCountInv ==
  ASSUME IInv, IInv', CountInv, NEW i \in Entry, NEW e \in Edge, Swap(i, e)
  PROVE  CountInv'
<1> USE DEF Swap, Infinity
<1> DEFINE n == Dst[e]
<1>1. /\ e \in swapping[i] /\ adding[i] = {} /\ swapping[i] = {e} /\ e \notin left[i]
      /\ pushed[i] = level /\ Src[e] = At(i) /\ phase = "forward"
      /\ distance[n] \in {-1, level + 1} /\ n \in Vertex
  BY Ranges DEF IInv, InHand, CountInv, Hands
<1>2. /\ left' = left
      /\ swapping'[i] = {}
      /\ adding'[i] = {e}
      /\ \A j \in Entry : j # i => swapping'[j] = swapping[j] /\ adding'[j] = adding[j]
  BY <1>1 DEF IInv, TypeOK, Adds
<1>3. \A j \in Entry : At(j)' = At(j)
  BY DEF At
<1>4. distance'[n] = level + 1 /\ \A v \in Vertex : v # n => distance'[v] = distance[v]
  BY <1>1 DEF IInv, TypeOK
<1>5. \A j \in Entry : pushed[j] = level => pushed'[j] = level
  <2>1. e \in Entry /\ (Won(e) => pushed[e] = Infinity)
    BY <1>1, Ranges DEF IInv, PushedOnce, Entry, Won, At, EdgeAssumption
  <2> QED
    BY <2>1, Ranges DEF IInv, TypeOK
<1>6. Hands'
  <2> SUFFICES ASSUME NEW j \in Entry
      PROVE /\ \A f \in adding'[j] :
                 /\ phase = "forward" /\ pushed'[j] = level /\ Src[f] = At(j)
                 /\ distance'[Dst[f]] = level + 1 /\ f \notin left[j]
            /\ \A f \in swapping'[j] :
                 distance'[Dst[f]] \in {Infinity, level + 1} /\ f \notin left[j]
            /\ adding'[j] = {} \/ swapping'[j] = {}
            /\ \A f, g \in swapping'[j] : f = g
            /\ \A f, g \in adding'[j] : f = g
    BY <1>3 DEF Hands
  <2>1. CASE j = i
    BY <1>1, <1>2, <1>4, <1>5, <2>1
  <2>2. CASE j # i
    <3>1. /\ adding[j] \subseteq Edge /\ swapping[j] \subseteq Edge
      BY DEF IInv, TypeOK
    <3>2. \A f \in Edge : distance[Dst[f]] \in {Infinity, level + 1}
                            => distance'[Dst[f]] \in {distance[Dst[f]], level + 1}
      BY <1>4, Ranges
    <3>3. \A f \in adding[j] : distance'[Dst[f]] = level + 1
      BY <3>1, <3>2 DEF CountInv, Hands
    <3>4. \A f \in swapping[j] : distance'[Dst[f]] \in {Infinity, level + 1}
      BY <3>1, <3>2 DEF CountInv, Hands
    <3> QED
      BY <1>2, <1>5, <2>2, <3>3, <3>4 DEF CountInv, Hands
  <2> QED
    BY <2>1, <2>2
<1>7. \A f \in Edge : Pending(f)' <=> Pending(f)
  <2>1. \A f \in Edge : \A j \in Entry : f \in left'[j] \cup swapping'[j] \cup adding'[j]
            <=> f \in left[j] \cup swapping[j] \cup adding[j]
    BY <1>1, <1>2
  <2> QED
    BY <2>1 DEF Pending
<1>8. \A v \in Vertex : distance'[v] = level <=> distance[v] = level
  BY <1>1, <1>4, Ranges
<1>9. \A v \in Vertex : Added(v)' = Added(v)
  BY <1>7, <1>8, Ranges DEF Added
<1>10. TypeOK' /\ \A v \in Vertex : CountOver(Added(v))' = CountOver(Added(v))
  <2>1. TypeOK'
    BY DEF IInv
  <2> QED
    BY <2>1, <1>9, SameCount
<1>11. distance[n] = -1 => CountOver(Added(n)) = 0
  <2> SUFFICES ASSUME distance[n] = -1 PROVE Added(n) = {}
    BY SumEmpty DEF CountOver
  <2> SUFFICES ASSUME NEW f \in Edge, Dst[f] = n, distance[Src[f]] = level
               PROVE  Pending(f)
    BY DEF Added
  <2>1. \E j \in Entry : f \in left[j] \cup swapping[j]
    BY <1>1, Ranges DEF IInv, Followed
  <2> QED
    BY <2>1 DEF Pending
<1>12. Counted'
  <2> HIDE DEF Walks, n
  <2> SUFFICES
        /\ distance'[source] = 0
        /\ \A j \in 0 .. level : \E v \in Vertex : distance'[v] = j
        /\ \A k \in 0 .. level : \A v \in Vertex :
             Walks(source)[k][v] > 0 => distance'[v] \in 0 .. k
        /\ \A v \in Vertex :
             /\ distance'[v] \in 0 .. level =>
                  count[v] = Walks(source)[distance'[v]][v] /\ count[v] > 0
             /\ distance'[v] = level + 1 => count[v] = CountOver(Added(v))
             /\ distance'[v] = Infinity => count[v] = 0
    BY <1>10 DEF Counted
  <2>1. \A v \in Vertex : distance[v] \in 0 .. level => distance'[v] = distance[v]
    BY <1>1, <1>4, Ranges
  <2>2. distance'[source] = 0
    BY <1>1, <2>1, Ranges DEF CountInv, Counted
  <2>3. \A j \in 0 .. level : \E v \in Vertex : distance'[v] = j
    BY <1>1, <2>1 DEF CountInv, Counted
  <2>4. \A k \in 0 .. level : \A v \in Vertex :
             Walks(source)[k][v] > 0 => distance'[v] \in 0 .. k
    <3> SUFFICES ASSUME NEW k \in 0 .. level, NEW v \in Vertex, Walks(source)[k][v] > 0
                 PROVE  distance'[v] \in 0 .. k
      OBVIOUS
    <3>1. distance[v] \in 0 .. k
      BY <1>1 DEF CountInv, Counted
    <3>2. distance[v] \in 0 .. level
      BY <3>1, Ranges
    <3> QED
      BY <2>1, <3>1, <3>2
  <2>5. ASSUME NEW v \in Vertex
        PROVE  /\ distance'[v] \in 0 .. level =>
                    count[v] = Walks(source)[distance'[v]][v] /\ count[v] > 0
               /\ distance'[v] = level + 1 => count[v] = CountOver(Added(v))
               /\ distance'[v] = Infinity => count[v] = 0
    <3>1. CASE v # n
      BY <1>1, <1>4, <3>1 DEF CountInv, Counted
    <3>2. CASE v = n /\ distance[n] = -1
      <4>1. count[n] = 0
        BY <1>1, <3>2 DEF CountInv, Counted
      <4> QED
        BY <1>1, <1>4, <1>11, <3>2, <4>1, Ranges
    <3>3. CASE v = n /\ distance[n] = level + 1
      BY <1>1, <1>4, <3>3, Ranges DEF CountInv, Counted
    <3> QED
      BY <1>1, <3>1, <3>2, <3>3
  <2> QED
    BY <2>2, <2>3, <2>4, <2>5
<1> QED
  BY <1>1, <1>6, <1>12 DEF CountInv, CountsExact

\* The count of the next vertex grows by that of the thread's vertex, which is
\* final, and the edge is out of hand.
LEMMA AddCountInv ==
  ASSUME IInv, IInv', CountInv, NEW i \in Entry, NEW e \in Edge, Add(i, e)
  PROVE  CountInv'
<1> USE DEF Add, Infinity
<1> DEFINE n == Dst[e]
           m == Src[e]
<1>1. /\ e \in adding[i] /\ adding[i] = {e} /\ swapping[i] = {} /\ e \notin left[i]
      /\ pushed[i] = level /\ m = At(i) /\ phase = "forward"
      /\ distance[n] = level + 1 /\ n \in Vertex /\ m \in Vertex
  BY Ranges DEF CountInv, Hands
<1>2. distance[m] = level
  BY <1>1, Ranges DEF IInv, PushedOnce
<1>3. /\ left' = left /\ swapping' = swapping
      /\ adding'[i] = {}
      /\ \A j \in Entry : j # i => adding'[j] = adding[j]
  BY <1>1 DEF IInv, TypeOK
<1>4. /\ count'[n] = count[n] + count[m]
      /\ \A v \in Vertex : v # n => count'[v] = count[v]
  BY <1>1 DEF IInv, TypeOK
<1>5. \A j \in Entry : At(j)' = At(j)
  BY DEF At
<1>6. Hands'
  <2> SUFFICES ASSUME NEW j \in Entry
      PROVE /\ \A f \in adding'[j] :
                 /\ phase = "forward" /\ pushed[j] = level /\ Src[f] = At(j)
                 /\ distance[Dst[f]] = level + 1 /\ f \notin left[j]
            /\ \A f \in swapping[j] :
                 distance[Dst[f]] \in {Infinity, level + 1} /\ f \notin left[j]
            /\ adding'[j] = {} \/ swapping[j] = {}
            /\ \A f, g \in swapping[j] : f = g
            /\ \A f, g \in adding'[j] : f = g
    BY <1>5 DEF Hands
  <2>1. adding'[j] \subseteq adding[j]
    BY <1>3
  <2> QED
    BY <2>1 DEF CountInv, Hands
<1>7. Pending(e) /\ ~ Pending(e)'
  <2>1. Pending(e)
    BY <1>1 DEF Pending
  <2>2. ASSUME NEW j \in Entry, e \in left'[j] \cup swapping'[j] \cup adding'[j]
        PROVE  FALSE
    <3>1. j # i
      BY <1>1, <1>3, <2>2
    <3>2. e \in left[j] \cup swapping[j] \cup adding[j]
      BY <1>3, <2>2, <3>1
    <3> QED
      BY <1>1, <3>1, <3>2, OneHand DEF CountInv
  <2> QED
    BY <2>1, <2>2 DEF Pending
<1>8. \A f \in Edge : f # e => (Pending(f)' <=> Pending(f))
  <2> SUFFICES ASSUME NEW f \in Edge, f # e PROVE Pending(f)' <=> Pending(f)
    OBVIOUS
  <2>1. \A j \in Entry : f \in left'[j] \cup swapping'[j] \cup adding'[j]
            <=> f \in left[j] \cup swapping[j] \cup adding[j]
    BY <1>1, <1>3
  <2> QED
    BY <2>1 DEF Pending
<1>9. /\ Added(n)' = Added(n) \cup {e} /\ e \notin Added(n)
      /\ \A v \in Vertex : v # n => Added(v)' = Added(v)
  BY <1>2, <1>7, <1>8 DEF Added
<1>10. \A v \in Vertex : \A f \in Edge : distance[Src[f]] = level => count'[Src[f]] = count[Src[f]]
  BY <1>1, <1>4, Ranges
<1>11. TypeOK' /\ \A v \in Vertex : v # n => CountOver(Added(v))' = CountOver(Added(v))
  <2>1. TypeOK'
    BY DEF IInv
  <2>2. \A v \in Vertex : \A f \in Added(v) : count'[Src[f]] = count[Src[f]]
    BY <1>10 DEF Added
  <2> QED
    BY <2>1, <2>2, <1>9, SameCount
<1>12. CountOver(Added(n))' = CountOver(Added(n)) + count[m]
  <2> DEFINE E == Added(n)
             f == [x \in Edge |-> count[Src[x]]]
             g == [x \in Edge |-> count'[Src[x]]]
             D == E \cup {e}
  <2>1. E \subseteq Edge /\ IsFiniteSet(E) /\ e \notin E /\ e \in Edge
    BY <1>9, EdgesFinite DEF Added
  <2>2. \A x \in Edge : f[x] \in Int
    BY Ranges
  <2>3. \A x \in D : g[x] = f[x]
    BY <1>2, <1>10 DEF Added
  <2>4. CountOver(Added(n)) = SumFunctionOnSet(f, E) /\ CountOver(Added(n))' = SumFunctionOnSet(g, D)
    BY <1>9 DEF CountOver
  <2>5. f[e] = count[m] /\ IsFiniteSet(D) /\ D \subseteq Edge
    BY <2>1, EdgesFinite
  <2> HIDE DEF f, g, E, D
  <2>6. SumFunctionOnSet(g, D) = SumFunctionOnSet(f, D)
    BY <2>2, <2>3, <2>5, SumSame
  <2>7. SumFunctionOnSet(f, D) = f[e] + SumFunctionOnSet(f, E)
    BY <2>1, <2>2, SumAdd DEF D
  <2>8. SumFunctionOnSet(f, E) \in Int /\ f[e] \in Int
    BY <2>1, <2>2, SumInt
  <2> QED
    BY <2>4, <2>5, <2>6, <2>7, <2>8
<1>13. Counted'
  <2> HIDE DEF Walks
  <2>1. \A v \in Vertex : distance[v] # level + 1 => count'[v] = count[v]
    BY <1>1, <1>4
  <2>2. \A v \in Vertex : distance[v] = level + 1 => count'[v] = CountOver(Added(v))'
    <3>1. count[n] = CountOver(Added(n))
      BY <1>1 DEF CountInv, Counted
    <3>2. count'[n] = CountOver(Added(n))'
      BY <1>4, <1>12, <3>1
    <3> HIDE DEF n
    <3> QED
      BY <1>1, <1>4, <1>11, <3>2 DEF CountInv, Counted
  <2>3. \A v \in Vertex :
         /\ distance[v] \in 0 .. level =>
              count'[v] = Walks(source)[distance[v]][v] /\ count'[v] > 0
         /\ distance[v] = Infinity => count'[v] = 0
    BY <1>1, <2>1, Ranges DEF CountInv, Counted
  <2>4. /\ distance[source] = 0
        /\ \A j \in 0 .. level : \E v \in Vertex : distance[v] = j
        /\ \A k \in 0 .. level : \A v \in Vertex :
             Walks(source)[k][v] > 0 => distance[v] \in 0 .. k
    BY <1>1 DEF CountInv, Counted
  <2> QED
    BY <2>2, <2>3, <2>4 DEF Counted
<1> QED
  BY <1>1, <1>6, <1>13 DEF CountInv, CountsExact

\* When a level is over, all edges to the next one have been added.
LEMMA NothingPending ==
  ASSUME IInv, CountInv, phase = "forward", Through
  PROVE  /\ \A i \in Entry : left[i] = {} /\ swapping[i] = {} /\ adding[i] = {}
         /\ \A v \in Vertex : Added(v) = {e \in Edge : Dst[e] = v /\ distance[Src[e]] = level}
<1>1. ASSUME NEW i \in Entry PROVE adding[i] = {}
  <2>1. CASE pushed[i] = level
    BY <2>1 DEF Through, Worklist, Idle
  <2>2. CASE pushed[i] # level
    BY <2>2 DEF CountInv, Hands
  <2> QED
    BY <2>1, <2>2
<1> QED
  BY <1>1, NothingInHand DEF Added, Pending

\* The counts of a level that is over are numbers of walks, so those of the
\* next level are: other walks of that length do not end there.
LEMMA NextLevelCounts ==
  ASSUME IInv, CountInv, phase = "forward", Through,
         NEW v \in Vertex, distance[v] = level + 1
  PROVE  count[v] = Walks(source)[level + 1][v] /\ count[v] > 0
<1> DEFINE p == Walks(source)[level]
           E == {e \in Edge : Dst[e] = v}
           F == {e \in Edge : Dst[e] = v /\ distance[Src[e]] = level}
           f == [e \in Edge |-> count[Src[e]]]
           g == [e \in Edge |-> p[Src[e]]]
<1>1. level \in Nat /\ level \in Level /\ level + 1 \in Level
  BY LevelInRange, Ranges DEF CountInv
<1>2. p \in [Vertex -> Nat]
  BY <1>1, WalksType, Ranges
<1>3. Walks(source)[level + 1] = Step(p)
  <2>1. (level + 1) - 1 = level /\ level + 1 > 0
    BY <1>1
  <2> QED
    BY <1>1, <2>1, WalksAre, Ranges
<1>4. Step(p)[v] = SumFunctionOnSet(g, E)
  BY DEF Step
<1>5. count[v] = SumFunctionOnSet(f, F)
  BY NothingPending DEF CountInv, Counted, CountOver
<1>6. \A e \in Edge : distance[Src[e]] = level => g[e] = f[e]
  <2> HIDE DEF Walks
  <2> QED
    BY <1>1, Ranges DEF CountInv, Counted
<1>7. \A e \in E \ F : g[e] = 0
  <2> SUFFICES ASSUME NEW e \in Edge, Dst[e] = v, distance[Src[e]] # level
               PROVE  p[Src[e]] = 0
    OBVIOUS
  <2>1. p[Src[e]] \in Nat
    BY <1>2, Ranges
  <2> HIDE DEF p
  <2>2. ASSUME p[Src[e]] > 0 PROVE FALSE
    <3>1. distance[Src[e]] \in 0 .. level
      BY <1>1, <2>2, Ranges DEF CountInv, Counted, p
    <3>2. distance[v] \in 0 .. distance[Src[e]] + 1
      BY <3>1, NothingInHand
    <3> QED
      BY <1>1, <3>1, <3>2
  <2> QED
    BY <2>1, <2>2
<1>8. F \subseteq E /\ IsFiniteSet(F) /\ IsFiniteSet(E \ F) /\ F \subseteq Edge /\ E \subseteq Edge
  BY EdgesFinite
<1>9. \A e \in Edge : f[e] \in Int /\ g[e] \in Int
  BY <1>2, Ranges
<1>10. F \cup (E \ F) = E
  OBVIOUS
<1>11. \E e \in Edge : Dst[e] = v /\ p[Src[e]] > 0
  <2>1. PICK j \in Entry : pushed[j] = level + 1 /\ At(j) = v
    BY <1>1 DEF IInv, Entries, Infinity
  <2>2. j \in Edge /\ Dst[j] = v /\ distance[Src[j]] = level
    BY <1>1, <2>1 DEF IInv, Entries, Entry, At, Infinity
  <2>3. count[Src[j]] > 0
    BY <1>1, <2>2, Ranges DEF CountInv, Counted
  <2>4. g[j] = f[j]
    BY <1>6, <2>2
  <2> QED
    BY <2>2, <2>3, <2>4
<1>12. Step(p)[v] > 0
  <2> HIDE DEF p
  <2> QED
    BY <1>2, <1>11, StepType
<1> HIDE DEF p, E, F, f, g
<1>13. SumFunctionOnSet(g, E) = SumFunctionOnSet(g, F) + SumFunctionOnSet(g, E \ F)
  <2>1. F \cap (E \ F) = {} /\ \A x \in F \cup (E \ F) : g[x] \in Int
    BY <1>8, <1>9
  <2>2. SumFunctionOnSet(g, F \cup (E \ F)) = SumFunctionOnSet(g, F) + SumFunctionOnSet(g, E \ F)
    BY <1>8, <2>1, SumUnion
  <2> QED
    BY <1>10, <2>2
<1>14. SumFunctionOnSet(g, E \ F) = 0
  BY <1>7, <1>8, SumZero
<1>15. SumFunctionOnSet(g, F) = SumFunctionOnSet(f, F)
  <2>1. \A x \in F : f[x] \in Int /\ g[x] = f[x]
    BY <1>6, <1>8, <1>9 DEF F
  <2> QED
    BY <1>8, <2>1, SumSame
<1>16. SumFunctionOnSet(f, F) \in Int
  BY <1>8, <1>9, SumInt
<1> QED
  BY <1>3, <1>4, <1>5, <1>12, <1>13, <1>14, <1>15, <1>16

LEMMA DeeperCountInv ==
  ASSUME IInv, IInv', CountInv, Deeper
  PROVE  CountInv'
<1> USE DEF Deeper, Infinity
<1>1. level \in Nat /\ level + 1 \in Nat
  BY Ranges
<1>2. Hands'
  <2>1. \A i \in Entry : swapping'[i] = {} /\ adding'[i] = {}
    BY NothingPending
  <2> QED
    BY <2>1 DEF Hands
<1>3. Counted'
  <2> HIDE DEF Walks
  <2> SUFFICES
        /\ distance[source] = 0
        /\ \A j \in 0 .. level + 1 : \E v \in Vertex : distance[v] = j
        /\ \A k \in 0 .. level + 1 : \A v \in Vertex :
             Walks(source)[k][v] > 0 => distance[v] \in 0 .. k
        /\ \A v \in Vertex :
             /\ distance[v] \in 0 .. level + 1 =>
                  count[v] = Walks(source)[distance[v]][v] /\ count[v] > 0
             /\ distance[v] # (level + 1) + 1
             /\ distance[v] = Infinity => count[v] = 0
    BY DEF Counted
  <2>1. distance[source] = 0
    BY DEF CountInv, Counted
  <2>2. \E v \in Vertex : distance[v] = level + 1
    <3>1. PICK i \in Entry : pushed[i] = level + 1
      BY DEF Worklist
    <3>2. distance[At(i)] = level + 1
      BY <3>1, <1>1 DEF IInv, PushedOnce
    <3> QED
      BY <3>2, Ranges
  <2>3. \A j \in 0 .. level + 1 : \E v \in Vertex : distance[v] = j
    BY <1>1, <2>2 DEF CountInv, Counted
  <2>4. ASSUME NEW v \in Vertex, Walks(source)[level + 1][v] > 0
        PROVE  distance[v] \in 0 .. level + 1
    <3>1. /\ level \in Level /\ level + 1 \in Level
          /\ (level + 1) - 1 = level /\ level + 1 > 0
      BY <1>1, LevelInRange DEF CountInv
    <3>2. Walks(source)[level + 1] = Step(Walks(source)[level])
      BY <3>1, WalksAre, Ranges
    <3>3. Walks(source)[level] \in [Vertex -> Nat]
      BY <3>1, WalksType, Ranges
    <3>4. PICK e \in Edge : Dst[e] = v /\ Walks(source)[level][Src[e]] > 0
      BY <2>4, <3>2, <3>3, StepType
    <3>5. distance[Src[e]] \in 0 .. level
      BY <1>1, <3>4, Ranges DEF CountInv, Counted
    <3>6. distance[v] \in 0 .. distance[Src[e]] + 1
      BY <3>4, <3>5, NothingInHand
    <3> QED
      BY <1>1, <3>5, <3>6
  <2>5. \A k \in 0 .. level + 1 : \A v \in Vertex :
             Walks(source)[k][v] > 0 => distance[v] \in 0 .. k
    <3>1. \A k \in 0 .. level + 1 : k = level + 1 \/ k \in 0 .. level
      BY <1>1
    <3> QED
      BY <2>4, <3>1 DEF CountInv, Counted
  <2>6. ASSUME NEW v \in Vertex
        PROVE  /\ distance[v] \in 0 .. level + 1 =>
                  count[v] = Walks(source)[distance[v]][v] /\ count[v] > 0
               /\ distance[v] # (level + 1) + 1
               /\ distance[v] = Infinity => count[v] = 0
    <3>1. distance[v] # (level + 1) + 1
      BY <1>1, Ranges
    <3>2. CASE distance[v] = level + 1
      BY <1>1, <3>1, <3>2, NextLevelCounts
    <3>3. CASE distance[v] # level + 1
      BY <1>1, <3>1, <3>3 DEF CountInv, Counted
    <3> QED
      BY <3>2, <3>3
  <2> QED
    BY <2>1, <2>3, <2>5, <2>6
<1> QED
  BY <1>2, <1>3 DEF CountInv, CountsExact

\* No walk leads to a vertex that has not been reached.
LEMMA NotReached ==
  ASSUME IInv, CountInv, TurnRound,
         NEW v \in Vertex, distance[v] = Infinity, NEW k \in Level
  PROVE  Walks(source)[k][v] = 0
<1> HIDE DEF Walks
<1>1. \A u \in Vertex : distance[u] # Infinity => distance[u] \in 0 .. level
  <2>1. \A u \in Vertex : distance[u] # level + 1
    BY Ranges DEF TurnRound, IInv, Entries, Worklist, Infinity
  <2> QED
    BY <2>1, Ranges DEF TurnRound, Infinity
<1> DEFINE T == {l \in Level : \E u \in Vertex : distance[u] = Infinity /\ Walks(source)[l][u] # 0}
<1> SUFFICES ASSUME T # {} PROVE FALSE
  OBVIOUS
<1>2. T \subseteq 0 .. Cardinality(Vertex)
  BY DEF Level
<1>3. PICK l \in T : \A m \in T : l <= m
  <2> HIDE DEF T
  <2> QED
    BY <1>2, LeastLevel, LevelType
<1>4. PICK u \in Vertex : distance[u] = Infinity /\ Walks(source)[l][u] # 0
  BY <1>3
<1>5. l \in Level /\ l \in Nat /\ Walks(source)[l] \in [Vertex -> Nat]
  BY <1>3, LevelType, WalksType, Ranges
<1>6. CASE l = 0
  <2>1. Walks(source)[0] = First(source)
    BY WalksAre, Ranges
  <2>2. u # source
    BY <1>4 DEF TurnRound, CountInv, Counted, Infinity
  <2> QED
    BY <1>4, <1>6, <2>1, <2>2 DEF First
<1>7. CASE l # 0
  <2>1. l - 1 \in Level /\ ~ (l <= l - 1) /\ l > 0
    BY <1>5, <1>7, LevelType DEF Level
  <2>2. l - 1 \notin T
    BY <1>3, <2>1
  <2>3. Walks(source)[l] = Step(Walks(source)[l - 1]) /\ Walks(source)[l - 1] \in [Vertex -> Nat]
    BY <1>5, <2>1, WalksAre, WalksType, Ranges
  <2>4. Walks(source)[l][u] > 0
    BY <1>4, <1>5
  <2>5. PICK e \in Edge : Dst[e] = u /\ Walks(source)[l - 1][Src[e]] > 0
    BY <2>3, <2>4, StepType
  <2>6. distance[Src[e]] # Infinity
    <3>1. Walks(source)[l - 1][Src[e]] # 0
      BY <2>5
    <3> QED
      BY <2>1, <2>2, <3>1, Ranges
  <2>7. distance[u] \in 0 .. distance[Src[e]] + 1
    BY <1>1, <2>5, <2>6, NothingInHand, Ranges DEF TurnRound
  <2> QED
    BY <1>4, <2>7 DEF Infinity
<1> QED
  BY <1>6, <1>7

\* When the walk turns round, the distance of a vertex is the length of its
\* shortest walk, and its count is the number of those.
LEMMA TurnRoundIs ==
  ASSUME IInv, CountInv, TurnRound, NEW v \in Vertex
  PROVE  distance[v] = Lengths[source][v] /\ count[v] = Paths[source][v]
<1> HIDE DEF Walks, Lengths, Paths
<1> USE DEF TurnRound
<1>1. source \in Vertex /\ level \in Nat
  BY Ranges
<1>2. CASE distance[v] = Infinity
  <2>1. \A k \in Level : Walks(source)[k][v] = 0
    BY <1>2, NotReached
  <2>2. count[v] = 0
    BY <1>2 DEF CountInv, Counted
  <2> QED
    BY <1>1, <1>2, <2>1, <2>2, LengthIs
<1>3. CASE distance[v] # Infinity
  <2> DEFINE d == distance[v]
             n == Lengths[source][v]
  <2>1. d \in 0 .. level /\ level \in Level
    <3>1. distance[v] # level + 1
      BY Ranges DEF IInv, Entries, Worklist, Infinity
    <3> QED
      BY <1>3, <3>1, Ranges, LevelInRange DEF Infinity, CountInv
  <2>2. d \in Level /\ count[v] = Walks(source)[d][v] /\ count[v] > 0
    BY <2>1, LevelType DEF CountInv, Counted
  <2>3. /\ n \in Level /\ n \in Nat /\ n <= d
        /\ Paths[source][v] = Walks(source)[n][v] /\ Walks(source)[n][v] > 0
    <3>1. Walks(source)[d][v] > 0 /\ Walks(source)[d][v] # 0
      BY <2>2
    <3>2. /\ n \in Level /\ n \in Nat /\ n <= d
          /\ Paths[source][v] = Walks(source)[n][v] /\ Paths[source][v] \in Nat \ {0}
      BY <1>1, <2>2, <3>1, LengthIs
    <3> QED
      BY <3>2
  <2>4. n \in 0 .. level
    BY <1>1, <2>1, <2>3
  <2>5. distance[v] \in 0 .. n
    BY <2>3, <2>4 DEF CountInv, Counted
  <2>6. d = n
    <3> HIDE DEF n
    <3> QED
      BY <2>3, <2>5
  <2> QED
    BY <2>2, <2>3, <2>6
<1> QED
  BY <1>2, <1>3

LEMMA TurnRoundCountInv ==
  ASSUME IInv, IInv', CountInv, TurnRound
  PROVE  CountInv'
<1> HIDE DEF Walks
<1> USE DEF TurnRound
<1>1. Hands' /\ Counted'
  <2>1. phase' # "forward" /\ swapping' = swapping /\ adding' = adding
    BY DEF FirstBack
  <2>2. \A i \in Entry : swapping'[i] = {} /\ adding'[i] = {}
    BY <2>1, NothingPending
  <2> QED
    BY <2>1, <2>2 DEF Hands, Counted
<1>2. CountsExact'
  <2>1. Paths[source] = [v \in Vertex |-> Paths[source][v]]
    BY Ranges DEF Paths
  <2>2. count = [v \in Vertex |-> count[v]]
    BY DEF IInv, TypeOK
  <2>3. count = Paths[source]
    BY <2>1, <2>2, TurnRoundIs
  <2> QED
    BY <2>3 DEF CountsExact
<1> QED
  BY <1>1, <1>2 DEF CountInv

\* The way back leaves the counts alone.
LEMMA BackwardCountInv ==
  ASSUME IInv, CountInv, Back \/ (\E i \in Entry : Accumulate(i)) \/ UNCHANGED vars
  PROVE  CountInv'
<1>1. CASE (\E i \in Entry : Accumulate(i)) \/ UNCHANGED vars
  <2>1. UNCHANGED <<phase, level, source, pushed, left, swapping, adding, distance, count>>
    BY <1>1 DEF vars, Accumulate
  <2>2. Hands' /\ CountsExact'
    BY <2>1 DEF CountInv, Hands, CountsExact, At
  <2>3. \A v : CountOver(Added(v))' = CountOver(Added(v))
    BY <2>1 DEF CountOver, Added, Pending
  <2>4. Counted'
    BY <2>1, <2>3 DEF CountInv, Counted
  <2> QED
    BY <2>2, <2>4 DEF CountInv
<1>2. CASE Back
  <2>1. /\ UNCHANGED <<source, pushed, left, swapping, adding, distance, count>>
        /\ phase # "forward" /\ phase' # "forward"
    BY <1>2 DEF Back
  <2>2. Hands'
    <3>1. \A i \in Entry : swapping'[i] = {} /\ adding'[i] = {}
      BY <2>1 DEF CountInv, Hands, IInv, InHand
    <3> QED
      BY <3>1 DEF Hands
  <2>3. CountsExact'
    BY <2>1 DEF CountInv, CountsExact
  <2> QED
    BY <2>1, <2>2, <2>3 DEF CountInv, Counted
<1> QED
  BY <1>1, <1>2

LEMMA NextCountInv == IInv /\ CountInv /\ [Next]_vars => CountInv'
<1> SUFFICES ASSUME IInv, CountInv, [Next]_vars PROVE CountInv'
  OBVIOUS
<1>0. IInv'
  BY NextIInv
<1>1. ASSUME NEW s \in Vertex, TakeSource(s) PROVE CountInv'
  BY <1>1, TakeSourceCountInv
<1>2. ASSUME NEW i \in Entry, NEW e \in Edge, Look(i, e) PROVE CountInv'
  BY <1>0, <1>2, LookCountInv
<1>3. ASSUME NEW i \in Entry, NEW e \in Edge, Swap(i, e) PROVE CountInv'
  BY <1>0, <1>3, SwapCountInv
<1>4. ASSUME NEW i \in Entry, NEW e \in Edge, Add(i, e) PROVE CountInv'
  BY <1>0, <1>4, AddCountInv
<1>5. CASE Deeper
  BY <1>0, <1>5, DeeperCountInv
<1>6. CASE TurnRound
  BY <1>0, <1>6, TurnRoundCountInv
<1>7. CASE Back \/ (\E i \in Entry : Accumulate(i)) \/ UNCHANGED vars
  BY <1>7, BackwardCountInv
<1> QED
  BY <1>1, <1>2, <1>3, <1>4, <1>5, <1>6, <1>7 DEF Next, Terminated

\* When a walk turns round, each vertex has the number of its shortest paths
\* from the source, in any graph and under any schedule: additions are atomic,
\* losers of the swap add, too, and no count is read while it grows
\* (bc.hpp:142-160).
THEOREM CountsCorrect == Spec => []CountsExact
<1>1. Init => IInv /\ CountInv
  BY InitIInv, InitCountInv
<1>2. (IInv /\ CountInv) /\ [Next]_vars => (IInv /\ CountInv)'
  BY NextIInv, NextCountInv
<1>3. IInv /\ CountInv => CountsExact
  BY DEF CountInv
<1> QED
  BY <1>1, <1>2, <1>3, PTL DEF Spec
-----------------------------------------------------------------------------
(* Walks and distances.                                                    *)

\* Walks to v end with an edge, those of no edge are from v to v.
LEMMA WalksGoOn ==
  ASSUME NEW s \in Vertex, NEW k \in Level, k + 1 \in Level, NEW v \in Vertex
  PROVE  Walks(s)[k + 1][v]
           = SumFunctionOnSet([e \in Edge |-> Walks(s)[k][Src[e]]], {e \in Edge : Dst[e] = v})
<1>1. k \in Nat /\ k + 1 > 0 /\ (k + 1) - 1 = k
  BY LevelType
<1>2. Walks(s)[k + 1] = Step(Walks(s)[k])
  BY <1>1, WalksAre
<1> HIDE DEF Walks
<1> QED
  BY <1>2 DEF Step

\* They also begin with one.
LEMMA WalksBegin ==
  ASSUME NEW k \in Level, k + 1 \in Level, NEW s \in Vertex, NEW t \in Vertex
  PROVE  Walks(s)[k + 1][t]
           = SumFunctionOnSet([e \in Edge |-> Walks(Dst[e])[k][t]], EdgesOf(s))
<1> HIDE DEF Walks
<1> DEFINE n == Cardinality(Vertex)
           Begin(l, u, v) ==
             Walks(u)[l + 1][v] = SumFunctionOnSet([e \in Edge |-> Walks(Dst[e])[l][v]], EdgesOf(u))
           T == {l \in 0 .. n - 1 : ~ \A u, v \in Vertex : Begin(l, u, v)}
<1>0. n \in Nat /\ k \in 0 .. n - 1
  BY LevelType DEF Level
<1> SUFFICES ASSUME T # {} PROVE FALSE
  BY <1>0
<1>1. PICK l \in T : \A m \in T : l <= m
  <2>1. T \subseteq 0 .. n
    BY <1>0
  <2> HIDE DEF T
  <2> QED
    BY <1>0, <2>1, LeastLevel
<1>2. PICK u \in Vertex, v \in Vertex : ~ Begin(l, u, v)
  OBVIOUS
<1>3. l \in Nat /\ l \in Level /\ l + 1 \in Level
  BY <1>0 DEF Level
<1> DEFINE In == {e \in Edge : Dst[e] = v}
           Out == EdgesOf(u)
<1>4. IsFiniteSet(In) /\ IsFiniteSet(Out) /\ In \subseteq Edge /\ Out \subseteq Edge
  BY EdgesFinite DEF EdgesOf
<1>5. Walks(u)[l + 1][v] = SumFunctionOnSet([e \in Edge |-> Walks(u)[l][Src[e]]], In)
  BY <1>3, WalksGoOn
<1>6. CASE l = 0
  <2> DEFINE f == [e \in Edge |-> Walks(u)[l][Src[e]]]
             g == [e \in Edge |-> Walks(Dst[e])[l][v]]
  <2>1. \A w \in Vertex : Walks(w)[l] = First(w)
    BY <1>6, WalksAre
  <2>2. \A e \in Edge : f[e] = IF e \in Out THEN 1 ELSE 0
    BY <2>1 DEF First, EdgesOf
  <2>3. ASSUME NEW e \in Edge
        PROVE  g[e] = IF e \in In THEN 1 ELSE 0
    <3>1. Dst[e] \in Vertex /\ g[e] = Walks(Dst[e])[l][v]
      OBVIOUS
    <3>2. Walks(Dst[e])[l] = First(Dst[e])
      BY <2>1, <3>1
    <3> HIDE DEF g
    <3> QED
      BY <3>1, <3>2 DEF First
  <2> DEFINE one == [e \in Edge |-> 1]
  <2>4. \A e \in Edge : one[e] = 1
    OBVIOUS
  <2> HIDE DEF In, Out, f, g, one
  <2>5. SumFunctionOnSet(f, In) = SumFunctionOnSet(one, In \cap Out)
    <3>1. In \cap Out \subseteq In
      OBVIOUS
    <3>2. \A e \in In \cap Out : one[e] \in Int /\ f[e] = one[e]
      BY <1>4, <2>2, <2>4
    <3>3. \A e \in In \ (In \cap Out) : f[e] = 0
      BY <1>4, <2>2
    <3> QED
      BY <1>4, <3>1, <3>2, <3>3, SumPart
  <2>6. SumFunctionOnSet(g, Out) = SumFunctionOnSet(one, In \cap Out)
    <3>1. In \cap Out \subseteq Out
      OBVIOUS
    <3>2. \A e \in In \cap Out : one[e] \in Int /\ g[e] = one[e]
      BY <1>4, <2>3, <2>4
    <3>3. \A e \in Out \ (In \cap Out) : g[e] = 0
      BY <1>4, <2>3
    <3> QED
      BY <1>4, <3>1, <3>2, <3>3, SumPart
  <2>7. Walks(u)[l + 1][v] = SumFunctionOnSet(g, Out)
    BY <1>5, <2>5, <2>6 DEF f
  <2> QED
    BY <1>2, <2>7 DEF g, Out
<1>7. CASE l # 0
  <2>1. l - 1 \in Level /\ (l - 1) + 1 = l /\ l - 1 \in 0 .. n - 1 /\ l - 1 \notin T
    BY <1>1, <1>3, <1>7, <1>0 DEF Level
  <2>2. \A w, x \in Vertex : Begin(l - 1, w, x)
    BY <2>1
  <2> DEFINE A == [f \in In |-> [e \in Out |-> Walks(Dst[e])[l - 1][Src[f]]]]
             B == [e \in Out |-> [f \in In |-> Walks(Dst[e])[l - 1][Src[f]]]]
             r == [e \in Edge |-> Walks(u)[l][Src[e]]]
             c == [e \in Edge |-> Walks(Dst[e])[l][v]]
  <2>3. \A f \in In : \A e \in Out : A[f][e] \in Int /\ B[e][f] = A[f][e]
    BY <1>4, <2>1, WalksType
  <2>4. ASSUME NEW f \in In
        PROVE  r[f] = SumFunctionOnSet(A[f], Out)
    <3> DEFINE a == A[f]
               b == [e \in Edge |-> Walks(Dst[e])[l - 1][Src[f]]]
    <3>1. Src[f] \in Vertex /\ r[f] = Walks(u)[l][Src[f]]
      BY <1>4
    <3>2. Walks(u)[l][Src[f]] = SumFunctionOnSet(b, Out)
      BY <2>1, <2>2, <3>1
    <3>3. \A e \in Out : b[e] \in Int /\ a[e] = b[e]
      BY <1>4, <2>3
    <3> HIDE DEF b, Out, a, r, A
    <3>4. SumFunctionOnSet(a, Out) = SumFunctionOnSet(b, Out)
      BY <1>4, <3>3, SumSame
    <3> QED
      BY <3>1, <3>2, <3>4 DEF a
  <2>5. ASSUME NEW e \in Out
        PROVE  c[e] = SumFunctionOnSet(B[e], In)
    <3> DEFINE a == B[e]
               b == [f \in Edge |-> Walks(Dst[e])[l - 1][Src[f]]]
    <3>1. Dst[e] \in Vertex /\ c[e] = Walks(Dst[e])[l][v]
      BY <1>4
    <3>2. Walks(Dst[e])[(l - 1) + 1][v] = SumFunctionOnSet(b, In)
      BY <1>3, <2>1, <3>1, WalksGoOn
    <3>3. \A f \in In : b[f] \in Int /\ a[f] = b[f]
      BY <1>4, <2>3
    <3> HIDE DEF b, In, a, c, B
    <3>4. SumFunctionOnSet(a, In) = SumFunctionOnSet(b, In)
      BY <1>4, <3>3, SumSame
    <3> QED
      BY <2>1, <3>1, <3>2, <3>4 DEF a
  <2>6. SumFunctionOnSet(r, In) = SumFunctionOnSet(c, Out)
    <3> DEFINE f == RowSums(A, In, Out)
               g == RowSums(B, Out, In)
    <3>1. \A x \in In : f[x] = r[x] /\ r[x] \in Int
      <4>1. \A x \in In : f[x] = SumFunctionOnSet(A[x], Out)
        BY DEF RowSums
      <4>2. \A x \in In : Src[x] \in Vertex /\ r[x] = Walks(u)[l][Src[x]]
        BY <1>4
      <4> HIDE DEF r, A, f, In
      <4> QED
        BY <1>3, <2>4, <4>1, <4>2, WalksType
    <3>2. \A x \in Out : g[x] = c[x] /\ c[x] \in Int
      <4>1. \A x \in Out : g[x] = SumFunctionOnSet(B[x], In)
        BY DEF RowSums
      <4>2. \A x \in Out : Dst[x] \in Vertex /\ c[x] = Walks(Dst[x])[l][v]
        BY <1>4
      <4> HIDE DEF c, B, g, Out
      <4>3. \A x \in Out : c[x] \in Int
        BY <1>3, <4>2, WalksType
      <4> HIDE DEF In
      <4> QED
        BY <2>5, <4>1, <4>3
    <3> HIDE DEF A, B, r, c, In, Out
    <3>3. SumFunctionOnSet(f, In) = SumFunctionOnSet(g, Out)
      BY <1>4, <2>3, SumSwap
    <3> HIDE DEF f, g
    <3>4. SumFunctionOnSet(f, In) = SumFunctionOnSet(r, In)
      BY <1>4, <3>1, SumSame
    <3>5. SumFunctionOnSet(g, Out) = SumFunctionOnSet(c, Out)
      BY <1>4, <3>2, SumSame
    <3> QED
      BY <3>3, <3>4, <3>5
  <2>7. Begin(l, u, v)
    BY <1>5, <2>6
  <2> QED
    BY <1>2, <2>7
<1> QED
  BY <1>6, <1>7

\* One walk after another is a walk.
LEMMA WalksJoin ==
  ASSUME NEW s \in Vertex, NEW u \in Vertex, NEW a \in Level, Walks(s)[a][u] > 0,
         NEW t \in Vertex, NEW b \in Level, Walks(u)[b][t] > 0, a + b \in Level
  PROVE  Walks(s)[a + b][t] > 0
<1> HIDE DEF Walks
<1> DEFINE T == {l \in 0 .. b : \E v \in Vertex :
                   Walks(u)[l][v] > 0 /\ ~ (Walks(s)[a + l][v] > 0)}
<1>0. a \in Nat /\ b \in Nat
  BY LevelType
<1> SUFFICES ASSUME T # {} PROVE FALSE
  BY <1>0
<1>1. PICK l \in T : \A m \in T : l <= m
  <2>1. T \subseteq 0 .. b
    OBVIOUS
  <2> HIDE DEF T
  <2> QED
    BY <1>0, <2>1, LeastLevel
<1>2. PICK v \in Vertex : Walks(u)[l][v] > 0 /\ ~ (Walks(s)[a + l][v] > 0)
  OBVIOUS
<1>3. CASE l = 0
  <2>1. Walks(u)[0] = First(u)
    BY WalksAre
  <2>2. v = u
    BY <1>2, <1>3, <2>1 DEF First
  <2> QED
    BY <1>0, <1>2, <1>3, <2>2
<1>4. CASE l # 0
  <2>1. /\ l - 1 \in 0 .. b /\ l - 1 \in Level /\ l \in Level /\ l > 0
        /\ a + (l - 1) \in Level /\ a + l \in Level /\ a + l > 0 /\ (a + l) - 1 = a + (l - 1)
    BY <1>0, <1>4, LevelType DEF Level
  <2>2. l - 1 \notin T
    BY <1>1, <2>1
  <2>3. Walks(u)[l] = Step(Walks(u)[l - 1]) /\ Walks(u)[l - 1] \in [Vertex -> Nat]
    BY <2>1, WalksAre, WalksType
  <2>4. PICK e \in Edge : Dst[e] = v /\ Walks(u)[l - 1][Src[e]] > 0
    BY <1>2, <2>3, StepType
  <2>5. Walks(s)[a + (l - 1)][Src[e]] > 0
    BY <2>1, <2>2, <2>4
  <2>6. Walks(s)[a + l] = Step(Walks(s)[a + (l - 1)]) /\ Walks(s)[a + (l - 1)] \in [Vertex -> Nat]
    BY <2>1, WalksAre, WalksType
  <2>7. Walks(s)[a + l][v] > 0
    BY <2>4, <2>5, <2>6, StepType
  <2> QED
    BY <1>2, <2>7
<1> QED
  BY <1>3, <1>4
-----------------------------------------------------------------------------
(* Shortest walks.                                                         *)

LEMMA LengthType ==
  ASSUME NEW s \in Vertex, NEW t \in Vertex
  PROVE  /\ Lengths[s][t] \in Nat \cup {Infinity}
         /\ Paths[s][t] \in Nat
         /\ Paths[s][t] = 0 <=> Lengths[s][t] = Infinity
<1> HIDE DEF Walks, Lengths, Paths
<1> QED
  BY LengthIs DEF Infinity

\* A walk bounds the length.
LEMMA LengthBelow ==
  ASSUME NEW s \in Vertex, NEW t \in Vertex, NEW k \in Level, Walks(s)[k][t] > 0
  PROVE  Lengths[s][t] # Infinity /\ Lengths[s][t] <= k
<1> HIDE DEF Walks, Lengths, Paths
<1> QED
  BY LengthIs DEF Infinity

LEMMA LengthWalk ==
  ASSUME NEW s \in Vertex, NEW t \in Vertex, Lengths[s][t] # Infinity
  PROVE  /\ Lengths[s][t] \in Level /\ Lengths[s][t] \in Nat
         /\ Walks(s)[Lengths[s][t]][t] > 0
         /\ Paths[s][t] = Walks(s)[Lengths[s][t]][t]
<1> HIDE DEF Walks, Lengths, Paths
<1> QED
  BY LengthIs DEF Infinity

\* Only from a vertex to itself the length is 0, and there is one walk.
LEMMA LengthNone ==
  ASSUME NEW s \in Vertex, NEW t \in Vertex
  PROVE  /\ Lengths[s][t] = 0 <=> s = t
         /\ Paths[s][s] = 1
<1> HIDE DEF Walks, Lengths, Paths
<1>1. 0 \in Level /\ \A v \in Vertex : Walks(v)[0] = First(v)
  BY WalksAre, LevelType DEF Level
<1>2. ASSUME NEW v \in Vertex PROVE Lengths[v][v] = 0 /\ Paths[v][v] = 1
  <2>1. Walks(v)[0][v] = 1
    BY <1>1 DEF First
  <2>2. Lengths[v][v] # Infinity /\ Lengths[v][v] <= 0
    BY <1>1, <2>1, LengthBelow
  <2>3. Lengths[v][v] = 0
    BY <2>2, LengthWalk
  <2> QED
    BY <2>1, <2>2, <2>3, LengthWalk
<1>3. ASSUME Lengths[s][t] = 0 PROVE s = t
  <2>1. Walks(s)[0][t] > 0
    BY <1>3, LengthWalk DEF Infinity
  <2>2. Walks(s)[0] = First(s)
    BY <1>1
  <2>3. First(s)[t] > 0
    BY <2>1, <2>2
  <2> QED
    BY <2>3 DEF First
<1> QED
  BY <1>2, <1>3

LEMMA LengthTriangle ==
  ASSUME NEW s \in Vertex, NEW u \in Vertex, NEW t \in Vertex,
         Lengths[s][u] # Infinity, Lengths[u][t] # Infinity, Lengths[s][t] # Infinity
  PROVE  Lengths[s][t] <= Lengths[s][u] + Lengths[u][t]
<1> HIDE DEF Walks, Lengths, Paths
<1> DEFINE a == Lengths[s][u]
           b == Lengths[u][t]
<1>1. /\ a \in Level /\ a \in Nat /\ Walks(s)[a][u] > 0
      /\ b \in Level /\ b \in Nat /\ Walks(u)[b][t] > 0
      /\ Lengths[s][t] \in Level /\ Lengths[s][t] \in Nat
  BY LengthWalk
<1> HIDE DEF a, b
<1>2. CASE a + b \in Level
  <2>1. Walks(s)[a + b][t] > 0
    BY <1>1, <1>2, WalksJoin
  <2> QED
    BY <1>2, <2>1, LengthBelow DEF a, b
<1>3. CASE a + b \notin Level
  <2>1. a + b > Cardinality(Vertex) /\ Lengths[s][t] <= Cardinality(Vertex)
    BY <1>1, <1>3, LevelType DEF Level
  <2> QED
    BY <1>1, <2>1, LevelType DEF a, b
<1> QED
  BY <1>2, <1>3

\* A walk of one edge less from the end of an edge.
LEMMA EdgeFirst ==
  ASSUME NEW e \in Edge, NEW t \in Vertex, NEW k \in Level, k + 1 \in Level,
         Walks(Dst[e])[k][t] > 0
  PROVE  Walks(Src[e])[k + 1][t] > 0
<1> HIDE DEF Walks
<1> DEFINE f == [x \in Edge |-> Walks(Dst[x])[k][t]]
           Out == EdgesOf(Src[e])
<1>1. Walks(Src[e])[k + 1][t] = SumFunctionOnSet(f, Out)
  BY WalksBegin
<1>2. e \in Out /\ IsFiniteSet(Out) /\ f[e] > 0 /\ \A x \in Out : f[x] \in Nat
  BY EdgesFinite, WalksType DEF EdgesOf
<1> HIDE DEF f, Out
<1>3. SumFunctionOnSet(f, Out) = f[e] + SumFunctionOnSet(f, Out \ {e})
  BY <1>2, SumRemove
<1>4. SumFunctionOnSet(f, Out \ {e}) \in Nat
  <2>1. IsFiniteSet(Out \ {e}) /\ \A x \in Out \ {e} : f[x] \in Nat
    BY <1>2, FS_Subset
  <2> QED
    BY <2>1, SumNat
<1> QED
  BY <1>1, <1>2, <1>3, <1>4
-----------------------------------------------------------------------------
(* Vertices and edges on shortest walks from s.                            *)

\* v is on a shortest walk from s to t, or at one of its ends.
On(s, v, t) ==
  /\ Lengths[s][v] # Infinity
  /\ Lengths[v][t] # Infinity
  /\ Lengths[s][v] + Lengths[v][t] = Lengths[s][t]

\* The edges of v that lead one level further from s.
Ahead(s, v) == {e \in EdgesOf(v) : Lengths[s][Dst[e]] = Lengths[s][v] + 1}

LEMMA OnType ==
  ASSUME NEW s \in Vertex, NEW v \in Vertex, NEW t \in Vertex, On(s, v, t)
  PROVE  /\ Lengths[s][v] \in Nat /\ Lengths[v][t] \in Nat
         /\ Lengths[s][t] \in Nat /\ Lengths[s][t] # Infinity /\ Lengths[s][t] \in Level
<1> HIDE DEF Walks, Lengths, Paths
<1>1. Lengths[s][v] \in Nat /\ Lengths[v][t] \in Nat
  BY LengthWalk DEF On
<1>2. Lengths[s][t] # Infinity
  BY <1>1 DEF On, Infinity
<1> QED
  BY <1>1, <1>2, LengthWalk

\* What lies behind an edge ahead lies behind its source.
LEMMA OnBefore ==
  ASSUME NEW s \in Vertex, NEW v \in Vertex, Lengths[s][v] # Infinity,
         NEW e \in Ahead(s, v), NEW t \in Vertex, On(s, Dst[e], t)
  PROVE  On(s, v, t) /\ t # v
<1> HIDE DEF Walks, Lengths, Paths
<1> DEFINE w == Dst[e]
           a == Lengths[s][v]
           b == Lengths[w][t]
<1>1. e \in Edge /\ Src[e] = v /\ w \in Vertex /\ Lengths[s][w] = a + 1
  BY DEF Ahead, EdgesOf
<1>2. a \in Nat /\ b \in Nat /\ b \in Level /\ Walks(w)[b][t] > 0
  BY <1>1, LengthWalk DEF On
<1>3. a + 1 + b = Lengths[s][t] /\ Lengths[s][t] \in Level /\ Lengths[s][t] # Infinity
  BY <1>1, <1>2, OnType DEF On
<1> HIDE DEF a, b, w
<1>4. b + 1 \in Level
  BY <1>2, <1>3, LevelType DEF Level
<1>5. Walks(v)[b + 1][t] > 0
  BY <1>1, <1>2, <1>4, EdgeFirst DEF w
<1>6. Lengths[v][t] # Infinity /\ Lengths[v][t] <= b + 1
  BY <1>4, <1>5, LengthBelow
<1>7. Lengths[s][t] <= a + Lengths[v][t] /\ Lengths[v][t] \in Nat
  BY <1>3, <1>6, LengthTriangle, LengthWalk DEF a
<1>8. Lengths[v][t] = b + 1
  BY <1>2, <1>3, <1>6, <1>7
<1>9. t # v
  BY <1>2, <1>8, LengthNone
<1> QED
  BY <1>2, <1>3, <1>6, <1>8, <1>9 DEF On, a

\* The paths from v to t begin with the edges ahead that t lies behind.
LEMMA OnPaths ==
  ASSUME NEW s \in Vertex, NEW v \in Vertex, NEW t \in Vertex, On(s, v, t), t # v
  PROVE  Paths[v][t] = SumFunctionOnSet([e \in Edge |-> Paths[Dst[e]][t]],
                                        {e \in Ahead(s, v) : On(s, Dst[e], t)})
<1> HIDE DEF Walks, Lengths, Paths
<1> DEFINE a == Lengths[s][v]
           b == Lengths[v][t]
           k == b - 1
           U == {e \in Ahead(s, v) : On(s, Dst[e], t)}
           f == [e \in Edge |-> Paths[Dst[e]][t]]
           g == [e \in Edge |-> Walks(Dst[e])[k][t]]
           Out == EdgesOf(v)
<1>1. /\ a \in Nat /\ a \in Level /\ b \in Nat /\ b \in Level /\ Paths[v][t] = Walks(v)[b][t]
      /\ a + b = Lengths[s][t] /\ Lengths[s][t] \in Level /\ Lengths[s][t] # Infinity
      /\ Walks(s)[a][v] > 0
  BY OnType, LengthWalk DEF On
<1>2. b # 0
  BY LengthNone
<1>3. k \in Level /\ k \in Nat /\ k + 1 = b /\ a + 1 \in Level
  BY <1>1, <1>2, LevelType DEF Level
<1>4. Walks(v)[k + 1][t] = SumFunctionOnSet(g, Out)
  BY <1>1, <1>3, WalksBegin
<1>5. U \subseteq Out /\ Out \subseteq Edge /\ IsFiniteSet(Out)
  BY EdgesFinite DEF Ahead, EdgesOf
<1>6. ASSUME NEW e \in U
      PROVE  f[e] \in Int /\ g[e] = f[e]
  <2>1. /\ e \in Edge /\ Dst[e] \in Vertex /\ Lengths[s][Dst[e]] = a + 1
        /\ Lengths[Dst[e]][t] # Infinity
        /\ Lengths[s][Dst[e]] + Lengths[Dst[e]][t] = Lengths[s][t]
    BY <1>5 DEF Ahead, On
  <2>2. Lengths[Dst[e]][t] \in Nat /\ Paths[Dst[e]][t] = Walks(Dst[e])[Lengths[Dst[e]][t]][t]
    BY <2>1, LengthWalk
  <2>3. Lengths[Dst[e]][t] = k
    BY <1>1, <2>1, <2>2
  <2>4. Paths[Dst[e]][t] \in Int
    BY <2>1, LengthType
  <2> QED
    BY <2>1, <2>2, <2>3, <2>4
<1>7. ASSUME NEW e \in Out \ U
      PROVE  g[e] = 0
  <2> DEFINE w == Dst[e]
  <2>1. e \in Edge /\ Src[e] = v /\ w \in Vertex
    BY DEF EdgesOf
  <2>2. Walks(w)[k][t] \in Nat /\ g[e] = Walks(w)[k][t]
    BY <1>3, <2>1, WalksType
  <2>3. ASSUME Walks(w)[k][t] > 0 PROVE FALSE
    <3>1. Lengths[w][t] # Infinity /\ Lengths[w][t] <= k /\ Lengths[w][t] \in Nat
      BY <1>3, <2>1, <2>3, LengthBelow, LengthWalk
    <3>2. Walks(s)[a + 1][w] > 0
      <4>1. Walks(s)[a + 1] = Step(Walks(s)[a]) /\ Walks(s)[a] \in [Vertex -> Nat]
        <5>1. a + 1 > 0 /\ (a + 1) - 1 = a
          BY <1>1
        <5> HIDE DEF a
        <5> QED
          BY <1>1, <1>3, <5>1, WalksAre, WalksType
      <4> QED
        BY <1>1, <2>1, <4>1, StepType
    <3>3. Lengths[s][w] # Infinity /\ Lengths[s][w] <= a + 1 /\ Lengths[s][w] \in Nat
      BY <1>3, <2>1, <3>2, LengthBelow, LengthWalk
    <3>4. Lengths[s][t] <= Lengths[s][w] + Lengths[w][t]
      BY <1>1, <2>1, <3>1, <3>3, LengthTriangle
    <3>5. Lengths[s][w] = a + 1 /\ Lengths[s][w] + Lengths[w][t] = Lengths[s][t]
      <4> DEFINE p == Lengths[s][w]
                 q == Lengths[w][t]
      <4>1. p \in Nat /\ q \in Nat /\ p <= a + 1 /\ q <= k /\ a + b <= p + q
        BY <1>1, <3>1, <3>3, <3>4
      <4>2. p = a + 1 /\ p + q = a + b
        <5>1. a \in Nat /\ b \in Nat /\ k = b - 1
          BY <1>1
        <5> HIDE DEF p, q, a, b, k
        <5> QED
          BY <4>1, <5>1
      <4> QED
        BY <1>1, <4>2
    <3>6. e \in Ahead(s, v) /\ On(s, w, t)
      BY <3>1, <3>3, <3>5 DEF Ahead, On
    <3> QED
      BY <3>6
  <2> QED
    BY <2>2, <2>3
<1>8. SumFunctionOnSet(g, Out) = SumFunctionOnSet(f, U)
  <2> HIDE DEF f, g, U, Out
  <2> QED
    BY <1>5, <1>6, <1>7, SumPart
<1> QED
  BY <1>1, <1>3, <1>4, <1>8
-----------------------------------------------------------------------------
(* Shares of shortest paths.                                               *)

LEMMA DivExact ==
  ASSUME NEW a \in Nat, NEW b \in Nat \ {0}
  PROVE  (a * b) \div b = a
OBVIOUS

\* What a path from s to t counts.
PerPath(s, t) == IF Paths[s][t] = 0 THEN 0 ELSE Scale \div Paths[s][t]

LEMMA PerPathIs ==
  ASSUME NEW s \in Vertex, NEW t \in Vertex
  PROVE  /\ PerPath(s, t) \in Nat
         /\ Paths[s][t] # 0 => Scale = Paths[s][t] * PerPath(s, t)
<1> HIDE DEF Paths
<1>1. Paths[s][t] \in Nat /\ Scale \in Nat
  BY LengthType, ScaleAssumption
<1>2. Paths[s][t] # 0 => Scale % Paths[s][t] = 0
  BY <1>1, SharesAssumption
<1>3. \A a \in Nat : \A b \in Nat \ {0} : a % b = 0 => a = b * (a \div b) /\ a \div b \in Nat
  OBVIOUS
<1> QED
  BY <1>1, <1>2, <1>3 DEF PerPath

Targets(s, v) == {t \in Vertex : Between(s, v, t)}
Weights(s, v) == [t \in Vertex |-> Paths[v][t] * PerPath(s, t)]
Share(s, v) == SumFunctionOnSet(Weights(s, v), Targets(s, v))

LEMMA BetweenIs ==
  ASSUME NEW s \in Vertex, NEW v \in Vertex, NEW t \in Vertex
  PROVE  Between(s, v, t) <=> On(s, v, t) /\ s # v /\ t # v /\ s # t
<1>1. ASSUME NEW x, NEW y
      PROVE  IsFiniteSet({x, y}) /\ Cardinality({x, y}) = IF x = y THEN 1 ELSE 2
  <2> DEFINE one == {x}
             two == one \cup {y}
  <2>1. IsFiniteSet(one) /\ Cardinality(one) = 1 /\ (y \in one <=> x = y)
    BY FS_Singleton
  <2>2. two = {x, y}
    OBVIOUS
  <2> HIDE DEF one
  <2>3. IsFiniteSet(two) /\ Cardinality(two) = IF y \in one THEN Cardinality(one) ELSE Cardinality(one) + 1
    BY <2>1, FS_AddElement
  <2> HIDE DEF two
  <2> QED
    BY <2>1, <2>2, <2>3
<1>2. Cardinality({s, v, t})
        = IF t \in {s, v} THEN Cardinality({s, v}) ELSE Cardinality({s, v}) + 1
  <2> DEFINE two == {s, v}
             three == two \cup {t}
  <2>1. IsFiniteSet(two)
    BY <1>1
  <2>2. three = {s, v, t}
    OBVIOUS
  <2> HIDE DEF two
  <2>3. Cardinality(three) = IF t \in two THEN Cardinality(two) ELSE Cardinality(two) + 1
    BY <2>1, FS_AddElement
  <2> HIDE DEF three
  <2> QED
    BY <2>2, <2>3 DEF two
<1>3. Cardinality({s, v}) = IF s = v THEN 1 ELSE 2
  BY <1>1
<1>4. Cardinality({s, v, t}) = 3 <=> v # t /\ s # v /\ s # t
  BY <1>2, <1>3
<1> QED
  BY <1>4 DEF Between, On

LEMMA VerticesFinite == \A V \in SUBSET Vertex : IsFiniteSet(V)
BY VertexAssumption, FS_Subset

LEMMA WeightsAre ==
  ASSUME NEW s \in Vertex, NEW v \in Vertex
  PROVE  /\ \A t \in Vertex : /\ Weights(s, v)[t] = Paths[v][t] * PerPath(s, t)
                              /\ Weights(s, v)[t] \in Nat
         /\ Targets(s, v) \subseteq Vertex /\ IsFiniteSet(Targets(s, v))
         /\ Share(s, v) \in Nat
<1> HIDE DEF Paths
<1>1. Targets(s, v) \subseteq Vertex /\ IsFiniteSet(Targets(s, v))
  BY VerticesFinite DEF Targets
<1>2. ASSUME NEW t \in Vertex
      PROVE  /\ Weights(s, v)[t] = Paths[v][t] * PerPath(s, t)
             /\ Weights(s, v)[t] \in Nat
  <2>1. Weights(s, v)[t] = Paths[v][t] * PerPath(s, t)
    BY DEF Weights
  <2>2. Paths[v][t] \in Nat /\ PerPath(s, t) \in Nat
    BY LengthType, PerPathIs
  <2>3. \A a, b \in Nat : a * b \in Nat
    OBVIOUS
  <2> QED
    BY <2>1, <2>2, <2>3
<1>3. Share(s, v) \in Nat
  BY <1>1, <1>2, SumNat DEF Share
<1> QED
  BY <1>1, <1>2, <1>3

\* The reference, with whole numbers.
LEMMA BetweennessIs ==
  ASSUME NEW s \in Vertex, NEW v \in Vertex
  PROVE  Betweenness[s][v] = Paths[s][v] * Share(s, v) /\ Betweenness[s][v] \in Nat
<1> HIDE DEF Paths, Lengths
<1> DEFINE T == Targets(s, v)
           f == Weights(s, v)
           g == [t \in T |-> (Scale * Paths[s][v] * Paths[v][t]) \div Paths[s][t]]
<1>1. Betweenness[s][v] = SumFunctionOnSet(g, T)
  BY DEF Betweenness, Targets
<1>2. Paths[s][v] \in Nat
  BY LengthType
<1>3. ASSUME NEW t \in T
      PROVE  f[t] \in Int /\ g[t] = Paths[s][v] * f[t]
  <2>1. t \in Vertex /\ On(s, v, t)
    BY BetweenIs DEF Targets
  <2>2. Lengths[s][t] # Infinity
    BY <2>1, OnType
  <2>3. Paths[s][t] \in Nat \ {0} /\ Paths[v][t] \in Nat
    BY <2>1, <2>2, LengthType
  <2>4. Scale = Paths[s][t] * PerPath(s, t) /\ PerPath(s, t) \in Nat
    BY <2>1, <2>3, PerPathIs
  <2> DEFINE n == Paths[s][t]
             a == Paths[s][v]
             b == Paths[v][t]
             p == PerPath(s, t)
             x == a * (b * p)
  <2>5. n \in Nat \ {0} /\ a \in Nat /\ b \in Nat /\ p \in Nat /\ Scale = n * p
    BY <1>2, <2>3, <2>4
  <2>6. x \in Nat /\ Scale * a * b = x * n
    <3> HIDE DEF n, a, b, p
    <3> QED
      BY <2>5
  <2>7. (Scale * a * b) \div n = x
    <3>1. (x * n) \div n = x
      <4> HIDE DEF x, n
      <4> QED
        BY <2>5, <2>6, DivExact
    <3> HIDE DEF x, n, a, b
    <3> QED
      BY <2>6, <3>1
  <2>8. f[t] = Paths[v][t] * PerPath(s, t) /\ f[t] \in Nat
    BY <2>1, WeightsAre
  <2> QED
    BY <2>7, <2>8
<1>4. IsFiniteSet(T) /\ Share(s, v) \in Nat
  BY WeightsAre
<1>5. SumFunctionOnSet(g, T) = Paths[s][v] * SumFunctionOnSet(f, T)
  <2> HIDE DEF f, g, T
  <2> QED
    BY <1>2, <1>3, <1>4, SumTimes
<1>6. \A a, b \in Nat : a * b \in Nat
  OBVIOUS
<1> QED
  BY <1>1, <1>2, <1>4, <1>5, <1>6 DEF Share
-----------------------------------------------------------------------------
\* What the paths from s to t count for the vertex w on them, its own end
\* included.
OnWeight(s, w, t) == IF On(s, w, t) THEN Weights(s, w)[t] ELSE 0

LEMMA OnWeightType ==
  ASSUME NEW s \in Vertex, NEW w \in Vertex, NEW t \in Vertex
  PROVE  OnWeight(s, w, t) \in Nat
<1> HIDE DEF Paths, Lengths
<1> QED
  BY WeightsAre DEF OnWeight

\* For a vertex on the way: its own paths, and those that lead through it.
LEMMA VertexShare ==
  ASSUME NEW s \in Vertex, NEW w \in Vertex, Lengths[s][w] # Infinity, s # w
  PROVE  SumFunctionOnSet([t \in Vertex |-> OnWeight(s, w, t)], Vertex)
           = PerPath(s, w) + Share(s, w)
<1> HIDE DEF Paths, Lengths
<1> DEFINE f == Weights(s, w)
           g == [t \in Vertex |-> OnWeight(s, w, t)]
           T == Targets(s, w)
           U == T \cup {w}
<1>1. Lengths[s][w] \in Nat /\ Lengths[s][w] # 0 /\ Lengths[w][w] = 0
  BY LengthWalk, LengthNone
<1>2. ASSUME NEW t \in Vertex
      PROVE  On(s, w, t) <=> t \in U
  <2>1. On(s, w, w)
    BY <1>1 DEF On, Infinity
  <2>2. ASSUME On(s, w, t) PROVE s # t
    <3>1. Lengths[s][t] = Lengths[s][w] + Lengths[w][t] /\ Lengths[w][t] \in Nat
      BY <2>2, OnType DEF On
    <3>2. Lengths[s][t] # 0
      BY <1>1, <3>1
    <3> QED
      BY <3>2, LengthNone
  <2>3. t \in T <=> On(s, w, t) /\ s # w /\ t # w /\ s # t
    BY BetweenIs DEF Targets
  <2> QED
    BY <2>1, <2>2, <2>3
<1>3. /\ \A t \in Vertex : f[t] = Paths[w][t] * PerPath(s, t) /\ f[t] \in Int
      /\ T \subseteq Vertex /\ IsFiniteSet(T) /\ Share(s, w) = SumFunctionOnSet(f, T)
  BY WeightsAre DEF Share
<1>4. f[w] = PerPath(s, w)
  <2>1. Paths[w][w] = 1 /\ PerPath(s, w) \in Nat
    BY LengthNone, PerPathIs
  <2> QED
    BY <1>3, <2>1
<1>5. w \notin T
  BY BetweenIs DEF Targets
<1>6. \A t \in Vertex : g[t] = IF t \in U THEN f[t] ELSE 0
  BY <1>2 DEF OnWeight
<1> HIDE DEF f, g, T
<1>7. SumFunctionOnSet(f, U) = f[w] + SumFunctionOnSet(f, T)
  BY <1>3, <1>5, SumAdd
<1>8. SumFunctionOnSet(g, Vertex) = SumFunctionOnSet(f, U)
  <2>1. U \subseteq Vertex
    BY <1>3
  <2> HIDE DEF U
  <2>2. \A x \in U : f[x] \in Int /\ g[x] = f[x]
    BY <1>3, <1>6, <2>1
  <2>3. \A x \in Vertex \ U : g[x] = 0
    BY <1>6
  <2> QED
    BY <2>1, <2>2, <2>3, VertexAssumption, SumPart
<1>9. SumFunctionOnSet(g, Vertex) = PerPath(s, w) + Share(s, w)
  BY <1>3, <1>4, <1>7, <1>8
<1> QED
  BY <1>9 DEF g

LEMMA AheadType ==
  ASSUME NEW s \in Vertex, NEW v \in Vertex
  PROVE  /\ IsFiniteSet(Ahead(s, v)) /\ Ahead(s, v) \subseteq Edge
         /\ \A e \in Ahead(s, v) : Dst[e] \in Vertex
BY EdgesFinite DEF Ahead, EdgesOf

\* For a target, the edges ahead have all its paths between them.
LEMMA TargetShare ==
  ASSUME NEW s \in Vertex, NEW v \in Vertex, Lengths[s][v] # Infinity, s # v,
         NEW t \in Vertex
  PROVE  SumFunctionOnSet([e \in Edge |-> OnWeight(s, Dst[e], t)], Ahead(s, v))
           = IF t \in Targets(s, v) THEN Weights(s, v)[t] ELSE 0
<1> HIDE DEF Paths, Lengths
<1> DEFINE g == [e \in Edge |-> OnWeight(s, Dst[e], t)]
           E == Ahead(s, v)
           U == {e \in E : On(s, Dst[e], t)}
           f == [e \in Edge |-> Paths[Dst[e]][t]]
           p == PerPath(s, t)
           h == [e \in Edge |-> p * Paths[Dst[e]][t]]
<1>1. IsFiniteSet(E) /\ E \subseteq Edge /\ U \subseteq E /\ IsFiniteSet(U)
  BY AheadType, EdgesFinite
<1>2. \A e \in Edge : Dst[e] \in Vertex /\ g[e] = OnWeight(s, Dst[e], t)
  OBVIOUS
<1>3. p \in Nat /\ \A e \in Edge : f[e] = Paths[Dst[e]][t] /\ f[e] \in Nat /\ h[e] = p * f[e]
  BY PerPathIs, LengthType
<1>4. ASSUME NEW e \in Edge
      PROVE  h[e] \in Int /\ (On(s, Dst[e], t) => g[e] = h[e]) /\ (~ On(s, Dst[e], t) => g[e] = 0)
  <2>1. Weights(s, Dst[e])[t] = f[e] * p
    BY <1>2, <1>3, WeightsAre
  <2>2. f[e] * p = p * f[e] /\ p * f[e] \in Int
    <3>1. f[e] \in Nat /\ p \in Nat
      BY <1>3
    <3> HIDE DEF f, p
    <3> QED
      BY <3>1
  <2>3. h[e] = p * f[e]
    BY <1>3
  <2> HIDE DEF h, g, f, p
  <2> QED
    BY <1>2, <2>1, <2>2, <2>3 DEF OnWeight
<1>5. SumFunctionOnSet(g, E) = SumFunctionOnSet(h, U)
  <2>1. \A e \in U : h[e] \in Int /\ g[e] = h[e]
    BY <1>1, <1>4
  <2>2. \A e \in E \ U : g[e] = 0
    BY <1>1, <1>4
  <2> HIDE DEF h, g, U, E
  <2> QED
    BY <1>1, <2>1, <2>2, SumPart
<1>6. SumFunctionOnSet(h, U) = p * SumFunctionOnSet(f, U)
  <2>1. p \in Int /\ \A e \in U : f[e] \in Int /\ h[e] = p * f[e]
    BY <1>1, <1>3
  <2> HIDE DEF h, f, U, p
  <2> QED
    BY <1>1, <2>1, SumTimes
<1>7. CASE t \in Targets(s, v)
  <2>1. On(s, v, t) /\ t # v
    BY <1>7, BetweenIs DEF Targets
  <2>2. Paths[v][t] = SumFunctionOnSet(f, U)
    BY <2>1, OnPaths
  <2>3. Weights(s, v)[t] = Paths[v][t] * p /\ Paths[v][t] \in Nat
    BY WeightsAre, LengthType
  <2>4. \A a \in Nat : a * p = p * a
    BY <1>3
  <2>5. p * SumFunctionOnSet(f, U) = Weights(s, v)[t]
    <3> HIDE DEF f, U, p
    <3> QED
      BY <2>2, <2>3, <2>4
  <2> QED
    BY <1>5, <1>6, <1>7, <2>5
<1>8. CASE t \notin Targets(s, v)
  <2>1. ASSUME NEW e \in E, On(s, Dst[e], t) PROVE FALSE
    <3>1. On(s, v, t) /\ t # v
      BY <2>1, OnBefore
    <3>2. Lengths[s][t] = Lengths[s][v] + Lengths[v][t] /\ Lengths[s][v] \in Nat /\ Lengths[v][t] \in Nat
      BY <3>1, OnType DEF On
    <3>3. Lengths[s][v] # 0
      BY LengthNone
    <3>4. s # t
      BY <3>2, <3>3, LengthNone
    <3> QED
      BY <1>8, <3>1, <3>4, BetweenIs DEF Targets
  <2>2. \A e \in E : g[e] = 0
    BY <1>1, <1>4, <2>1
  <2>3. SumFunctionOnSet(g, E) = 0
    <3> HIDE DEF g, E
    <3> QED
      BY <1>1, <2>2, SumZero
  <2> QED
    BY <1>8, <2>3
<1> QED
  BY <1>7, <1>8

\* The recursion of Brandes: what depends on v is what is reached by the edges
\* ahead and what depends on that.
LEMMA ShareIs ==
  ASSUME NEW s \in Vertex, NEW v \in Vertex, Lengths[s][v] # Infinity, s # v
  PROVE  Share(s, v)
           = SumFunctionOnSet([e \in Edge |-> PerPath(s, Dst[e]) + Share(s, Dst[e])], Ahead(s, v))
<1> HIDE DEF Paths, Lengths
<1> DEFINE E == Ahead(s, v)
           T == Targets(s, v)
           A == [e \in Edge |-> [t \in Vertex |-> OnWeight(s, Dst[e], t)]]
           B == [t \in Vertex |-> [e \in Edge |-> OnWeight(s, Dst[e], t)]]
           r == [e \in Edge |-> PerPath(s, Dst[e]) + Share(s, Dst[e])]
           f == RowSums(A, E, Vertex)
           g == RowSums(B, Vertex, E)
           w == Weights(s, v)
<1>1. IsFiniteSet(E) /\ E \subseteq Edge /\ IsFiniteSet(Vertex)
  BY AheadType, VertexAssumption
<1>2. \A e \in E : \A t \in Vertex : A[e][t] \in Int /\ B[t][e] = A[e][t]
  BY <1>1, OnWeightType
<1>3. SumFunctionOnSet(f, E) = SumFunctionOnSet(g, Vertex)
  <2> HIDE DEF A, B, E
  <2> QED
    BY <1>1, <1>2, SumSwap
<1>4. ASSUME NEW e \in E
      PROVE  r[e] \in Int /\ f[e] = r[e]
  <2>1. e \in Edge /\ Dst[e] \in Vertex /\ Lengths[s][Dst[e]] = Lengths[s][v] + 1
        /\ Lengths[s][v] \in Nat
    BY AheadType, LengthWalk DEF Ahead
  <2>2. Lengths[s][Dst[e]] # Infinity /\ Lengths[s][Dst[e]] # 0
    BY <2>1 DEF Infinity
  <2>3. s # Dst[e]
    BY <2>1, <2>2, LengthNone
  <2>4. f[e] = SumFunctionOnSet([t \in Vertex |-> OnWeight(s, Dst[e], t)], Vertex)
    BY <2>1 DEF RowSums
  <2>5. f[e] = PerPath(s, Dst[e]) + Share(s, Dst[e])
    <3> HIDE DEF f
    <3> QED
      BY <2>1, <2>2, <2>3, <2>4, VertexShare
  <2>6. PerPath(s, Dst[e]) \in Nat /\ Share(s, Dst[e]) \in Nat
    BY <2>1, PerPathIs, WeightsAre
  <2> HIDE DEF f
  <2> QED
    BY <2>1, <2>5, <2>6
<1>5. ASSUME NEW t \in Vertex
      PROVE  g[t] = IF t \in T THEN w[t] ELSE 0
  <2>1. g[t] = SumFunctionOnSet([e \in Edge |-> OnWeight(s, Dst[e], t)], E)
    BY DEF RowSums
  <2> HIDE DEF g
  <2> QED
    BY <2>1, TargetShare
<1>6. T \subseteq Vertex /\ Share(s, v) = SumFunctionOnSet(w, T) /\ \A t \in Vertex : w[t] \in Int
  BY WeightsAre DEF Share
<1> HIDE DEF E, T, f, g, w, r
<1>7. SumFunctionOnSet(f, E) = SumFunctionOnSet(r, E)
  BY <1>1, <1>4, SumSame
<1>8. SumFunctionOnSet(g, Vertex) = SumFunctionOnSet(w, T)
  <2>1. \A t \in T : w[t] \in Int /\ g[t] = w[t]
    BY <1>5, <1>6
  <2>2. \A t \in Vertex \ T : g[t] = 0
    BY <1>5
  <2> QED
    BY <1>1, <1>6, <2>1, <2>2, SumPart
<1>9. Share(s, v) = SumFunctionOnSet(r, E)
  BY <1>3, <1>6, <1>7, <1>8
<1> QED
  BY <1>9 DEF r, E
-----------------------------------------------------------------------------
(* The way back.                                                           *)

\* Nothing depends on the source, on a vertex that is not reached, and on one
\* with nothing behind it.
LEMMA NothingBehind ==
  ASSUME NEW s \in Vertex, NEW v \in Vertex,
         s = v \/ Lengths[s][v] = Infinity
           \/ \A e \in Edge : Lengths[s][Dst[e]] # Lengths[s][v] + 1
  PROVE  Betweenness[s][v] = 0
<1> HIDE DEF Paths, Lengths, Betweenness
<1>1. Betweenness[s][v] = Paths[s][v] * Share(s, v) /\ Share(s, v) \in Nat /\ Paths[s][v] \in Nat
  BY BetweennessIs, WeightsAre, LengthType
<1>2. CASE s = v
  <2>1. \A t \in Vertex : t \notin Targets(s, v)
    BY <1>2, BetweenIs DEF Targets
  <2>2. Targets(s, v) = {}
    BY <2>1, WeightsAre
  <2>3. Share(s, v) = 0
    BY <2>2, SumEmpty DEF Share
  <2> QED
    BY <1>1, <2>3
<1>3. CASE Lengths[s][v] = Infinity
  <2>1. Paths[s][v] = 0
    BY <1>3, LengthType
  <2> QED
    BY <1>1, <2>1
<1>4. CASE s # v /\ Lengths[s][v] # Infinity
  <2>1. Ahead(s, v) = {}
    BY <1>4 DEF Ahead, EdgesOf
  <2>2. Share(s, v) = SumFunctionOnSet([e \in Edge |-> PerPath(s, Dst[e]) + Share(s, Dst[e])], {})
    BY <1>4, <2>1, ShareIs
  <2>3. Share(s, v) = 0
    BY <2>2, SumEmpty
  <2> QED
    BY <1>1, <2>3
<1> QED
  BY <1>2, <1>3, <1>4

\* With the level behind complete, a vertex gets what depends on it.
LEMMA DependencyIs ==
  ASSUME NEW s \in Vertex, NEW v \in Vertex, s # v,
         distance = Lengths[s], count = Paths[s], distance[v] # Infinity, distance[v] = level,
         \A w \in Vertex : distance[w] = level + 1 => dependency[w] = Betweenness[s][w]
  PROVE  NewDependency(v) = Betweenness[s][v]
<1> HIDE DEF Paths, Lengths, Betweenness
<1> DEFINE E == {e \in EdgesOf(v) : distance[Dst[e]] = level + 1}
           f == [e \in E |-> Contribution(e)]
           r == [e \in Edge |-> PerPath(s, Dst[e]) + Share(s, Dst[e])]
<1>1. NewDependency(v) = Paths[s][v] * SumFunctionOnSet(f, E)
  BY DEF NewDependency
<1>2. E = Ahead(s, v)
  BY DEF Ahead
<1>3. IsFiniteSet(E) /\ E \subseteq Edge
  BY <1>2, AheadType
<1>4. ASSUME NEW e \in E
      PROVE  f[e] = r[e] /\ r[e] \in Int
  <2> DEFINE w == Dst[e]
             a == PerPath(s, w) + Share(s, w)
             n == Paths[s][w]
             p == PerPath(s, w)
             q == Share(s, w)
  <2>1. w \in Vertex /\ distance[w] = level + 1 /\ e \in Edge
    BY <1>3
  <2>2. Lengths[s][w] # Infinity
    <3>1. level \in Nat
      BY LengthWalk
    <3> QED
      BY <2>1, <3>1 DEF Infinity
  <2>3. n \in Nat \ {0} /\ p \in Nat /\ q \in Nat /\ Scale = n * p
    BY <2>1, <2>2, LengthType, PerPathIs, WeightsAre
  <2>4. dependency[w] = n * q
    BY <2>1, BetweennessIs
  <2>5. Scale + dependency[w] = (p + q) * n /\ p + q \in Nat
    <3> HIDE DEF n, p, q
    <3> QED
      BY <2>3, <2>4
  <2>6. ((p + q) * n) \div n = p + q
    <3> DEFINE x == p + q
    <3>1. x \in Nat
      BY <2>5
    <3> HIDE DEF x, n
    <3> QED
      BY <2>3, <3>1, DivExact
  <2>7. Contribution(e) = p + q
    <3>1. Contribution(e) = (Scale + dependency[w]) \div n
      BY DEF Contribution
    <3> HIDE DEF n, p, q, w
    <3> QED
      BY <2>5, <2>6, <3>1
  <2>8. f[e] = Contribution(e) /\ r[e] = p + q
    BY <2>1
  <2> HIDE DEF f, r, p, q
  <2> QED
    BY <2>5, <2>7, <2>8
<1>5. SumFunctionOnSet(f, E) = SumFunctionOnSet(r, E)
  <2> HIDE DEF f, r, E
  <2> QED
    BY <1>3, <1>4, SumSame
<1>6. Share(s, v) = SumFunctionOnSet(r, E)
  BY <1>2, ShareIs
<1> HIDE DEF f, r, E
<1> QED
  BY <1>1, <1>5, <1>6, BetweennessIs
-----------------------------------------------------------------------------
(* The scores.                                                             *)

\* The sources before the current one.
Earlier == (Vertex \ sources) \ {source}
Total(S, v) == SumFunctionOnSet([s \in Vertex |-> Betweenness[s][v]], S)

\* What the forward walk leaves.
Walked ==
  phase # "forward" /\ source \notin sources =>
    distance[source] = 0 /\ distance = Lengths[source] /\ count = Paths[source]

\* On the way back, dependencies are those of the levels behind, and of the
\* vertices of the level that are done.
Summed ==
  /\ unsummed \subseteq Worklist(level)
  /\ \A v \in Vertex : distance[v] > level => dependency[v] = Betweenness[source][v]
  /\ \A v \in Vertex : distance[v] < level => dependency[v] = 0
  /\ \A i \in Worklist(level) :
       dependency[At(i)] = IF i \in unsummed THEN 0 ELSE Betweenness[source][At(i)]

\* Dependencies are those of the current source.
Depends ==
  /\ dependency \in [Vertex -> Nat]
  /\ phase # "next" => source \notin sources
  /\ phase # "backward" => unsummed = {}
  /\ phase = "forward" \/ source \in sources => \A v \in Vertex : dependency[v] = 0
  /\ phase = "next" /\ source \notin sources =>
       \A v \in Vertex : dependency[v] = Betweenness[source][v]
  /\ phase = "backward" => Summed

\* The scores are those of the sources before and the dependencies.
Scored ==
  NumSrc = 0 => centrality = [v \in Vertex |-> Total(Earlier, v) + dependency[v]]

ScoreInv == Walked /\ Depends /\ Scored

LEMMA TotalType ==
  ASSUME NEW S \in SUBSET Vertex, NEW v \in Vertex
  PROVE  /\ Total(S, v) \in Nat
         /\ Total({}, v) = 0
         /\ \A s \in Vertex \ S : Total(S \cup {s}, v) = Total(S, v) + Betweenness[s][v]
<1> HIDE DEF Betweenness
<1> DEFINE f == [s \in Vertex |-> Betweenness[s][v]]
<1>1. \A s \in Vertex : f[s] = Betweenness[s][v] /\ f[s] \in Nat
  BY BetweennessIs
<1>2. IsFiniteSet(S)
  BY VerticesFinite
<1> HIDE DEF f
<1>3. SumFunctionOnSet(f, S) \in Nat
  BY <1>1, <1>2, SumNat
<1>4. \A s \in Vertex \ S : SumFunctionOnSet(f, S \cup {s}) = f[s] + SumFunctionOnSet(f, S)
  BY <1>1, <1>2, SumAdd
<1>5. SumFunctionOnSet(f, {}) = 0
  BY SumEmpty
<1>6. Total(S, v) = SumFunctionOnSet(f, S) /\ Total({}, v) = SumFunctionOnSet(f, {})
      /\ \A s : Total(S \cup {s}, v) = SumFunctionOnSet(f, S \cup {s})
  BY DEF Total, f
<1>7. Total(S, v) \in Nat /\ Total({}, v) = 0
  BY <1>3, <1>5, <1>6
<1>8. ASSUME NEW s \in Vertex \ S
      PROVE  Total(S \cup {s}, v) = Total(S, v) + Betweenness[s][v]
  <2>1. Total(S \cup {s}, v) = f[s] + Total(S, v)
    BY <1>4, <1>6
  <2>2. f[s] = Betweenness[s][v] /\ f[s] \in Nat
    BY <1>1
  <2> QED
    BY <1>7, <2>1, <2>2
<1> QED
  BY <1>7, <1>8

\* Between two sources the scores are those of all that have been taken.
LEMMA NextTotal ==
  ASSUME IInv, Depends, phase = "next", NEW v \in Vertex
  PROVE  Total(Vertex \ sources, v) = Total(Earlier, v) + dependency[v]
<1> HIDE DEF Betweenness
<1>1. source \in Vertex /\ Earlier \subseteq Vertex
  BY Ranges DEF Earlier
<1>2. CASE source \in sources
  <2>1. Vertex \ sources = Earlier /\ dependency[v] = 0
    BY <1>2 DEF Earlier, Depends
  <2>2. Total(Earlier, v) \in Nat
    BY <1>1, TotalType
  <2> QED
    BY <2>1, <2>2
<1>3. CASE source \notin sources
  <2>1. Vertex \ sources = Earlier \cup {source} /\ source \in Vertex \ Earlier
    BY <1>1, <1>3 DEF Earlier
  <2>2. dependency[v] = Betweenness[source][v]
    BY <1>3 DEF Depends
  <2>3. Total(Earlier \cup {source}, v) = Total(Earlier, v) + Betweenness[source][v]
    BY <1>1, <2>1, TotalType
  <2> QED
    BY <2>1, <2>2, <2>3
<1> QED
  BY <1>2, <1>3

LEMMA InitScoreInv == Init => ScoreInv
<1> HIDE DEF Betweenness, Lengths, Paths
<1> SUFFICES ASSUME Init PROVE ScoreInv
  OBVIOUS
<1> USE DEF Init
<1>1. source \in sources
  OBVIOUS
<1>2. Walked /\ Depends
  BY <1>1 DEF Walked, Depends
<1>3. ASSUME NumSrc = 0
      PROVE  centrality = [v \in Vertex |-> Total(Earlier, v) + dependency[v]]
  <2>1. sources = Vertex
    BY <1>3 DEF Selection
  <2>2. Earlier = {}
    BY <2>1 DEF Earlier
  <2>3. ASSUME NEW v \in Vertex PROVE Total(Earlier, v) + dependency[v] = 0
    <3>1. Total({}, v) = 0
      BY TotalType
    <3> QED
      BY <2>2, <3>1
  <2> QED
    BY <2>3
<1> QED
  BY <1>2, <1>3 DEF ScoreInv, Scored
-----------------------------------------------------------------------------
LEMMA TakeSourceScoreInv ==
  ASSUME IInv, ScoreInv, NEW s \in Vertex, TakeSource(s)
  PROVE  ScoreInv'
<1> HIDE DEF Betweenness, Lengths, Paths
<1> USE DEF TakeSource, ScoreInv
<1>1. Walked' /\ Depends'
  <2>1. phase' = "forward" /\ source' \notin sources' /\ unsummed' = {}
    BY DEF Depends
  <2>2. dependency' \in [Vertex -> Nat] /\ \A v \in Vertex : dependency'[v] = 0
    OBVIOUS
  <2> QED
    BY <2>1, <2>2 DEF Walked, Depends
<1>2. ASSUME NumSrc = 0
      PROVE  centrality' = [v \in Vertex |-> Total(Earlier', v) + dependency'[v]]
  <2>1. Earlier' = Vertex \ sources
    BY DEF Earlier
  <2>2. ASSUME NEW v \in Vertex
        PROVE  Total(Earlier, v) + dependency[v] = Total(Earlier', v) + dependency'[v]
    <3>1. Total(Vertex \ sources, v) = Total(Earlier, v) + dependency[v]
      BY NextTotal
    <3>2. dependency'[v] = 0 /\ Total(Vertex \ sources, v) \in Nat
      BY TotalType
    <3> QED
      BY <2>1, <3>1, <3>2
  <2>3. centrality' = [v \in Vertex |-> Total(Earlier, v) + dependency[v]]
    BY <1>2 DEF Scored
  <2> QED
    BY <2>2, <2>3
<1>3. Scored'
  <2>1. \A v : Total(Earlier, v)' = Total(Earlier', v)
    BY DEF Total
  <2> QED
    BY <1>2, <2>1 DEF Scored
<1> QED
  BY <1>1, <1>3

\* Nothing that the scores are about changes on the way forward.
LEMMA ForwardScoreInv ==
  ASSUME IInv, CountInv, ScoreInv,
         Deeper \/ \E i \in Entry : \E e \in Edge : Look(i, e) \/ Swap(i, e) \/ Add(i, e)
  PROVE  ScoreInv'
<1> HIDE DEF Betweenness, Lengths, Paths
<1>1. /\ phase = "forward" /\ phase' = "forward"
      /\ UNCHANGED <<sources, source, unsummed, dependency, centrality>>
  BY DEF Deeper, Look, Swap, Add, IInv, InHand, CountInv, Hands
<1>2. Walked' /\ Depends'
  BY <1>1 DEF ScoreInv, Walked, Depends
<1>3. \A v : Total(Earlier, v)' = Total(Earlier, v)
  BY <1>1 DEF Total, Earlier
<1>4. Scored'
  BY <1>1, <1>3 DEF ScoreInv, Scored
<1> QED
  BY <1>2, <1>4 DEF ScoreInv

LEMMA TurnRoundScoreInv ==
  ASSUME IInv, CountInv, ScoreInv, TurnRound
  PROVE  ScoreInv'
<1> HIDE DEF Betweenness, Lengths, Paths
<1> USE DEF TurnRound
<1>1. /\ source \in Vertex /\ level \in Nat /\ distance[source] = 0 /\ source \notin sources
      /\ distance \in [Vertex -> Nat \cup {Infinity}]
  BY Ranges DEF CountInv, Counted, ScoreInv, Depends, IInv, TypeOK
<1>2. distance = Lengths[source] /\ count = Paths[source]
  <2>1. \A v \in Vertex : distance[v] = Lengths[source][v] /\ count[v] = Paths[source][v]
    BY TurnRoundIs
  <2>2. /\ distance = [v \in Vertex |-> distance[v]]
        /\ count = [v \in Vertex |-> count[v]]
    BY DEF IInv, TypeOK
  <2>3. /\ Lengths[source] = [v \in Vertex |-> Lengths[source][v]]
        /\ Paths[source] = [v \in Vertex |-> Paths[source][v]]
    BY <1>1 DEF Lengths, Paths
  <2> QED
    BY <2>1, <2>2, <2>3
<1>3. Walked'
  BY <1>1, <1>2 DEF Walked
<1>4. \A v \in Vertex : distance[v] # level + 1 /\ distance[v] <= level + 1
  BY Ranges DEF IInv, Entries, Worklist, Infinity
<1>5. ASSUME NEW v \in Vertex, distance[v] = level
      PROVE  Betweenness[source][v] = 0
  <2>1. \A e \in Edge : Lengths[source][Dst[e]] # Lengths[source][v] + 1
    BY <1>2, <1>4, <1>5
  <2> QED
    BY <1>1, <2>1, NothingBehind
<1>6. \A v \in Vertex : dependency[v] = 0
  BY DEF ScoreInv, Depends, Summed
<1>7. Depends'
  <2>1. CASE FirstBack > 0
    <3>1. phase' = "backward" /\ level' = level - 1 /\ unsummed' = Worklist(level - 1)
      BY <2>1 DEF FirstBack
    <3>2. ASSUME NEW v \in Vertex, distance[v] > level'
          PROVE  Betweenness[source][v] = 0
      <4>1. distance[v] = level
        BY <1>1, <1>4, <3>1, <3>2 DEF Infinity
      <4> QED
        BY <1>5, <4>1
    <3>3. UNCHANGED <<source, sources, distance, dependency>>
      OBVIOUS
    <3>4. \A i \in Entry : At(i)' = At(i) /\ At(i) \in Vertex
      BY Ranges, <3>3 DEF At
    <3>5. Worklist(level)' = Worklist(level - 1) /\ Worklist(level - 1) \subseteq Entry
      BY <3>1 DEF Worklist
    <3>6. Summed'
      <4>1. \A i \in Worklist(level)' :
              dependency'[At(i)'] = IF i \in unsummed' THEN 0 ELSE Betweenness[source'][At(i)']
        BY <1>6, <3>1, <3>3, <3>4, <3>5
      <4> QED
        BY <1>6, <3>1, <3>2, <3>3, <3>5, <4>1 DEF Summed
    <3>7. dependency' \in [Vertex -> Nat] /\ source' \notin sources'
      BY <1>1 DEF ScoreInv, Depends, Summed
    <3> QED
      BY <3>1, <3>6, <3>7 DEF Depends
  <2>2. CASE ~ (FirstBack > 0)
    <3>1. phase' = "next" /\ level \in {0, 1} /\ UNCHANGED <<source, sources, unsummed, dependency>>
      BY <1>1, <2>2 DEF FirstBack
    <3>2. ASSUME NEW v \in Vertex
          PROVE  Betweenness[source][v] = 0
      <4>1. CASE distance[v] = level
        BY <1>5, <4>1
      <4>2. CASE distance[v] # level
        <5>1. distance[v] = 0 \/ distance[v] = Infinity
          BY <1>1, <1>4, <3>1, <4>2
        <5>2. source = v \/ Lengths[source][v] = Infinity
          BY <1>1, <1>2, <5>1, LengthNone
        <5> QED
          BY <1>1, <5>2, NothingBehind
      <4> QED
        BY <4>1, <4>2
    <3> QED
      BY <1>1, <1>6, <3>1, <3>2 DEF ScoreInv, Depends, Summed
  <2> QED
    BY <2>1, <2>2
<1>8. Scored'
  <2>1. \A v : Total(Earlier, v)' = Total(Earlier, v)
    BY DEF Total, Earlier
  <2> QED
    BY <2>1 DEF ScoreInv, Scored
<1> QED
  BY <1>3, <1>7, <1>8 DEF ScoreInv

LEMMA AccumulateScoreInv ==
  ASSUME IInv, ScoreInv, NEW i \in Entry, Accumulate(i)
  PROVE  ScoreInv'
<1> HIDE DEF Betweenness, Lengths, Paths
<1> USE DEF Accumulate
<1> DEFINE u == At(i)
           b == Betweenness[source][u]
<1>1. /\ phase = "backward" /\ source \notin sources /\ i \in Worklist(level)
      /\ source \in Vertex /\ level \in Nat \ {0} /\ u \in Vertex
  BY Ranges DEF ScoreInv, Depends, Summed, IInv, AboveSource
<1>2. distance[source] = 0 /\ distance = Lengths[source] /\ count = Paths[source]
  BY <1>1 DEF ScoreInv, Walked
<1>3. pushed[i] = level /\ pushed[i] # Infinity /\ distance[u] = level /\ distance[u] # Infinity
  BY <1>1 DEF IInv, PushedOnce, Worklist, Infinity
<1>4. NewDependency(u) = b
  <2>1. source # u
    BY <1>1, <1>2, <1>3
  <2>2. \A w \in Vertex : distance[w] = level + 1 => dependency[w] = Betweenness[source][w]
    <3>1. level + 1 > level
      BY <1>1
    <3> QED
      BY <1>1, <3>1 DEF ScoreInv, Depends, Summed
  <2> HIDE DEF u
  <2>3. NewDependency(u) = Betweenness[source][u]
    BY <1>1, <1>2, <1>3, <2>1, <2>2, DependencyIs
  <2> QED
    BY <2>3
<1>5. b \in Nat /\ dependency[u] = 0 /\ dependency \in [Vertex -> Nat]
  BY <1>1, BetweennessIs DEF ScoreInv, Depends, Summed
<1>6. ASSUME NEW v \in Vertex
      PROVE  dependency'[v] = IF v = u THEN b ELSE dependency[v]
  BY <1>4, <1>5
<1>7. Walked'
  BY DEF ScoreInv, Walked
<1>8. Depends'
  <2>1. UNCHANGED <<phase, source, sources, level, pushed, distance>> /\ unsummed' = unsummed \ {i}
    OBVIOUS
  <2>2. Worklist(level)' = Worklist(level) /\ \A j \in Entry : At(j)' = At(j)
    BY <2>1 DEF Worklist, At
  <2>3. dependency' \in [Vertex -> Nat]
    BY <1>1, <1>4, <1>5
  <2>4. unsummed' \subseteq Worklist(level)'
    BY <1>1, <2>1, <2>2 DEF ScoreInv, Depends, Summed
  <2>5. \A v \in Vertex : distance[v] > level => dependency'[v] = Betweenness[source][v]
    <3>1. \A v \in Vertex : distance[v] > level => v # u
      BY <1>1, <1>3
    <3> QED
      BY <1>1, <1>6, <3>1 DEF ScoreInv, Depends, Summed
  <2>6. \A v \in Vertex : distance[v] < level => dependency'[v] = 0
    <3>1. \A v \in Vertex : distance[v] < level => v # u
      BY <1>1, <1>3
    <3> QED
      BY <1>1, <1>6, <3>1 DEF ScoreInv, Depends, Summed
  <2>7. ASSUME NEW j \in Worklist(level)
        PROVE  dependency'[At(j)] = IF j \in unsummed' THEN 0 ELSE Betweenness[source][At(j)]
    <3>1. j \in Entry /\ At(j) \in Vertex /\ pushed[j] = level /\ pushed[j] # Infinity
      BY <1>3, Ranges DEF Worklist
    <3>2. At(j) = u <=> j = i
      BY <1>3, <3>1 DEF IInv, PushedOnce
    <3>3. dependency[At(j)] = IF j \in unsummed THEN 0 ELSE Betweenness[source][At(j)]
      BY <1>1 DEF ScoreInv, Depends, Summed, Summed
    <3> QED
      BY <1>6, <2>1, <3>1, <3>2, <3>3
  <2>8. Summed'
    <3>1. \A j \in Worklist(level)' :
            dependency'[At(j)'] = IF j \in unsummed' THEN 0 ELSE Betweenness[source'][At(j)']
      <4>1. \A j \in Worklist(level) : j \in Entry
        BY DEF Worklist
      <4> QED
        BY <2>1, <2>2, <2>7, <4>1
    <3> QED
      BY <2>1, <2>4, <2>5, <2>6, <3>1 DEF Summed
  <2> QED
    BY <1>1, <2>1, <2>3, <2>8 DEF Depends
<1>9. Scored'
  <2>1. \A v : Total(Earlier, v)' = Total(Earlier, v)
    BY DEF Total, Earlier
  <2>2. ASSUME NumSrc = 0
        PROVE  centrality' = [v \in Vertex |-> Total(Earlier, v) + dependency'[v]]
    <3>1. centrality = [v \in Vertex |-> Total(Earlier, v) + dependency[v]]
      BY <2>2 DEF ScoreInv, Scored
    <3>2. centrality' = [centrality EXCEPT ![u] = @ + b]
      BY <1>4
    <3>3. \A v \in Vertex : Total(Earlier, v) \in Nat
      BY TotalType DEF Earlier
    <3>4. ASSUME NEW v \in Vertex
          PROVE  centrality'[v] = Total(Earlier, v) + dependency'[v]
      <4>1. centrality'[v] = IF v = u THEN (Total(Earlier, v) + dependency[v]) + b
                             ELSE Total(Earlier, v) + dependency[v]
        BY <3>1, <3>2
      <4> HIDE DEF b, u
      <4> QED
        BY <1>5, <1>6, <3>3, <4>1
    <3>5. centrality' = [v \in Vertex |-> centrality'[v]]
      BY <3>1, <3>2
    <3> QED
      BY <3>4, <3>5
  <2> QED
    BY <2>1, <2>2 DEF Scored
<1> QED
  BY <1>7, <1>8, <1>9 DEF ScoreInv

LEMMA BackScoreInv ==
  ASSUME IInv, ScoreInv, Back
  PROVE  ScoreInv'
<1> HIDE DEF Betweenness, Lengths, Paths
<1> USE DEF Back
<1>0. phase = "backward" /\ Summed
  BY DEF ScoreInv, Depends, Summed
<1>1. /\ source \notin sources /\ source \in Vertex /\ level \in Nat \ {0}
      /\ distance \in [Vertex -> Nat \cup {Infinity}]
  BY Ranges DEF ScoreInv, Depends, Summed, IInv, AboveSource, TypeOK
<1>2. distance[source] = 0 /\ distance = Lengths[source]
  BY <1>1 DEF ScoreInv, Walked
<1>3. ASSUME NEW v \in Vertex, distance[v] >= level
      PROVE  dependency[v] = Betweenness[source][v]
  <2>1. CASE distance[v] > level
    BY <2>1 DEF ScoreInv, Depends, Summed
  <2>2. CASE distance[v] = level
    <3>1. distance[v] # Infinity
      BY <1>1, <2>2 DEF Infinity
    <3>2. PICK i \in Entry : pushed[i] = level /\ At(i) = v
      BY <2>2, <3>1 DEF IInv, Entries
    <3>3. i \in Worklist(level) /\ i \notin unsummed
      BY <3>2 DEF Worklist
    <3> QED
      BY <3>2, <3>3 DEF ScoreInv, Depends, Summed
  <2> QED
    BY <1>1, <1>3, <2>1, <2>2 DEF Infinity
<1>4. Walked'
  BY DEF ScoreInv, Walked
<1>5. Depends'
  <2>1. UNCHANGED <<source, sources, pushed, distance, dependency>> /\ level' = level - 1
        /\ dependency' \in [Vertex -> Nat]
    BY DEF ScoreInv, Depends, Summed
  <2>2. CASE level > 1
    <3>1. phase' = "backward" /\ unsummed' = Worklist(level - 1)
      BY <1>0, <2>2
    <3>2. \A v \in Vertex : distance[v] > level' => dependency[v] = Betweenness[source][v]
      BY <1>1, <1>3, <2>1 DEF Infinity
    <3>3. \A v \in Vertex : distance[v] < level => dependency[v] = 0
      BY DEF ScoreInv, Depends, Summed
    <3>4. \A v \in Vertex : distance[v] < level' => dependency[v] = 0
      BY <1>1, <2>1, <3>3 DEF Infinity
    <3>5. Worklist(level)' = Worklist(level - 1)
      BY <2>1 DEF Worklist
    <3>6. ASSUME NEW i \in Worklist(level - 1)
          PROVE  dependency'[At(i)'] = 0
      <4>1. i \in Entry /\ pushed[i] = level - 1 /\ pushed[i] # Infinity /\ At(i)' = At(i)
        <5>1. level - 1 # Infinity
          BY <1>1 DEF Infinity
        <5> QED
          BY <2>1, <5>1 DEF Worklist, At
      <4>2. At(i) \in Vertex /\ distance[At(i)] = level - 1
        BY <4>1, Ranges DEF IInv, PushedOnce
      <4>3. dependency[At(i)] = 0
        BY <1>1, <3>3, <4>2
      <4> QED
        BY <2>1, <4>1, <4>3
    <3>7. Summed'
      <4>1. \A i \in Worklist(level)' : i \in unsummed' /\ dependency'[At(i)'] = 0
        BY <3>1, <3>5, <3>6
      <4> QED
        BY <2>1, <3>1, <3>2, <3>4, <3>5, <4>1 DEF Summed
    <3> QED
      BY <1>1, <2>1, <3>1, <3>7 DEF Depends
  <2>3. CASE ~ (level > 1)
    <3>1. phase' = "next" /\ unsummed' = {} /\ level = 1
      BY <1>1, <2>3
    <3>2. ASSUME NEW v \in Vertex
          PROVE  dependency[v] = Betweenness[source][v]
      <4>1. CASE distance[v] >= level
        BY <1>3, <4>1
      <4>2. CASE ~ (distance[v] >= level)
        <5>1. distance[v] = 0 \/ distance[v] = Infinity
          BY <1>1, <3>1, <4>2
        <5>2. source = v \/ Lengths[source][v] = Infinity
          BY <1>1, <1>2, <5>1, LengthNone
        <5>3. Betweenness[source][v] = 0
          BY <1>1, <5>2, NothingBehind
        <5>4. distance[v] < level
          BY <3>1, <5>1 DEF Infinity
        <5>5. dependency[v] = 0
          BY <5>4 DEF ScoreInv, Depends, Summed
        <5> QED
          BY <5>3, <5>5
      <4> QED
        BY <4>1, <4>2
    <3> QED
      BY <1>1, <2>1, <3>1, <3>2 DEF Depends
  <2> QED
    BY <2>2, <2>3
<1>6. Scored'
  <2>1. \A v : Total(Earlier, v)' = Total(Earlier, v)
    BY DEF Total, Earlier
  <2> QED
    BY <2>1 DEF ScoreInv, Scored
<1> QED
  BY <1>4, <1>5, <1>6 DEF ScoreInv

LEMMA NextScoreInv == IInv /\ CountInv /\ ScoreInv /\ [Next]_vars => ScoreInv'
<1> HIDE DEF Betweenness, Lengths, Paths
<1> SUFFICES ASSUME IInv, CountInv, ScoreInv, [Next]_vars PROVE ScoreInv'
  OBVIOUS
<1>1. ASSUME NEW s \in Vertex, TakeSource(s) PROVE ScoreInv'
  BY <1>1, TakeSourceScoreInv
<1>2. CASE Deeper \/ \E i \in Entry : \E e \in Edge : Look(i, e) \/ Swap(i, e) \/ Add(i, e)
  BY <1>2, ForwardScoreInv
<1>3. CASE TurnRound
  BY <1>3, TurnRoundScoreInv
<1>4. ASSUME NEW i \in Entry, Accumulate(i) PROVE ScoreInv'
  BY <1>4, AccumulateScoreInv
<1>5. CASE Back
  BY <1>5, BackScoreInv
<1>6. CASE UNCHANGED vars
  <2> USE <1>6 DEF vars
  <2>1. Walked' /\ Depends'
    <3>1. Worklist(level)' = Worklist(level) /\ \A i : At(i)' = At(i)
      BY DEF Worklist, At
    <3>2. Summed' <=> Summed
      BY <3>1 DEF Summed
    <3> QED
      BY <3>1, <3>2 DEF ScoreInv, Walked, Depends
  <2>2. \A v : Total(Earlier, v)' = Total(Earlier, v)
    BY DEF Total, Earlier
  <2>3. Scored'
    BY <2>2 DEF ScoreInv, Scored
  <2> QED
    BY <2>1, <2>3 DEF ScoreInv
<1> QED
  BY <1>1, <1>2, <1>3, <1>4, <1>5, <1>6 DEF Next, Terminated

\* Between two sources every vertex has its betweenness centrality for the
\* sources so far, in any graph, under any schedule and in any order of
\* sources: the way back comes to every level in turn, each vertex adds up
\* what depends on the level behind it, and the state that one source leaves
\* does not reach the next (bc.hpp:37-110).
THEOREM CentralityCorrect == Spec => []CentralityExact
<1> HIDE DEF Betweenness, Lengths, Paths
<1>1. Init => IInv /\ CountInv /\ ScoreInv
  BY InitIInv, InitCountInv, InitScoreInv
<1>2. (IInv /\ CountInv /\ ScoreInv) /\ [Next]_vars => (IInv /\ CountInv /\ ScoreInv)'
  BY NextIInv, NextCountInv, NextScoreInv
<1>3. IInv /\ CountInv /\ ScoreInv => CentralityExact
  <2> SUFFICES ASSUME IInv, ScoreInv, phase = "next", NumSrc = 0
               PROVE  centrality = [v \in Vertex |-> Total(Vertex \ sources, v)]
    BY DEF CentralityExact, Total
  <2>1. \A v \in Vertex : Total(Vertex \ sources, v) = Total(Earlier, v) + dependency[v]
    BY NextTotal DEF ScoreInv
  <2> QED
    BY <2>1 DEF ScoreInv, Scored
<1> QED
  BY <1>1, <1>2, <1>3, PTL DEF Spec
=============================================================================
