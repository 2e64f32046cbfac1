------------------------------ MODULE Brandes ------------------------------
(***************************************************************************)
(* Betweenness centrality: BetweennessCentrality::compute and levelSSSP    *)
(* (include/scea/algo/bc.hpp).                                             *)
(*                                                                         *)
(* From one source after another, threads walk over the graph level by     *)
(* level and count shortest paths.  A thread that sees a vertex without a  *)
(* distance tries to set it by a compare and swap; whoever wins puts the   *)
(* vertex on the next worklist, and winner and losers alike add their      *)
(* paths.  Then the levels are walked back to front, and every vertex gets *)
(* its dependency from the level behind it.                                *)
(*                                                                         *)
(* An entry of a worklist (an InsertBag) is named by the edge through      *)
(* which it was pushed, so that a vertex pushed twice has two entries.     *)
(* Quotients of doubles are exact multiples of 1 / Scale.                  *)
(***************************************************************************)
EXTENDS Integers, FiniteSets, FiniteSetsExt, Functions

CONSTANTS Vertex,  \* 0 .. g.size() - 1
          Edge,    \* edges; there may be several between two vertices
          Src, Dst,
          Root,    \* names the entry of the source
          NumSrc,  \* num_src: how many sources, 0 for all
          Scale    \* what a dependency of 1 is counted as (a bound)

ASSUME VertexAssumption == IsFiniteSet(Vertex)
ASSUME EdgeAssumption ==
  /\ IsFiniteSet(Edge)
  /\ Src \in [Edge -> Vertex]
  /\ Dst \in [Edge -> Vertex]
  /\ Root \notin Edge
ASSUME NumSrcAssumption == NumSrc \in Nat
ASSUME ScaleAssumption == Scale \in Nat \ {0}

VARIABLES
  phase,       \* "next" source, "forward", "backward"
  sources,     \* sources that have not been taken yet
  source,      \* the current source
  level,       \* currentLevel
  pushed,      \* pushed[i]: the worklist of stackOfWorklists that entry i is in
  left,        \* left[i]: edges the thread with entry i has not looked at
  swapping,    \* swapping[i]: the edge for which it is about to swap
  adding,      \* adding[i]: the edge for which it is about to add
  unsummed,    \* entries of the level whose dependency is not computed yet
  distance,
  count,       \* shortestPathCount
  dependency,
  centrality   \* centralityScores

vars == <<phase, sources, source, level, pushed, left, swapping, adding,
          unsummed, distance, count, dependency, centrality>>

Infinity == -1  \* differs from all levels

Entry == Edge \cup {Root}
At(i) == IF i = Root THEN source ELSE Dst[i]
EdgesOf(v) == {e \in Edge : Src[e] = v}
Worklist(k) == {i \in Entry : pushed[i] = k}

TypeOK ==
  /\ phase \in {"next", "forward", "backward"}
  /\ sources \subseteq Vertex
  /\ source \in Vertex
  /\ level \in Nat
  /\ pushed \in [Entry -> Nat \cup {Infinity}]
  /\ left \in [Entry -> SUBSET Edge]
  /\ swapping \in [Entry -> SUBSET Edge]
  /\ adding \in [Entry -> SUBSET Edge]
  /\ unsummed \subseteq Entry
  /\ distance \in [Vertex -> Nat \cup {Infinity}]
  /\ count \in [Vertex -> Nat]

NoEdges == [i \in Entry |-> {}]

\* All vertices, or the first few after a shuffle.
Selection ==
  IF NumSrc = 0 \/ NumSrc >= Cardinality(Vertex) THEN {Vertex}
  ELSE kSubset(NumSrc, Vertex)

Init ==
  /\ phase = "next"
  /\ sources \in Selection
  /\ source \in sources
  /\ level = 0
  /\ pushed = [i \in Entry |-> Infinity]
  /\ left = NoEdges
  /\ swapping = NoEdges
  /\ adding = NoEdges
  /\ unsummed = {}
  /\ distance = [v \in Vertex |-> Infinity]
  /\ count = [v \in Vertex |-> 0]
  /\ dependency = [v \in Vertex |-> 0]
  /\ centrality = [v \in Vertex |-> 0]
-----------------------------------------------------------------------------
(* Forward: levelSSSP.                                                     *)

TakeSource(s) ==
  /\ phase = "next"
  /\ s \in sources
  /\ sources' = sources \ {s}
  /\ source' = s
  /\ phase' = "forward"
  /\ level' = 0
  /\ pushed' = [i \in Entry |-> IF i = Root THEN 0 ELSE Infinity]
  /\ left' = [NoEdges EXCEPT ![Root] = EdgesOf(s)]
  /\ distance' = [v \in Vertex |-> IF v = s THEN 0 ELSE Infinity]
  /\ count' = [v \in Vertex |-> IF v = s THEN 1 ELSE 0]
  /\ dependency' = [v \in Vertex |-> 0]
  /\ UNCHANGED <<swapping, adding, unsummed, centrality>>

Idle(i) == swapping[i] = {} /\ adding[i] = {}

\* The thread with entry i comes to edge e and reads the distance.
Look(i, e) ==
  /\ phase = "forward"
  /\ Idle(i)
  /\ e \in left[i]
  /\ left' = [left EXCEPT ![i] = @ \ {e}]
  /\ swapping' = [swapping EXCEPT ![i] =
       IF distance[Dst[e]] = Infinity THEN {e} ELSE {}]
  /\ adding' = [adding EXCEPT ![i] =
       IF distance[Dst[e]] = level + 1 THEN {e} ELSE {}]
  /\ UNCHANGED <<phase, sources, source, level, pushed, unsummed, distance,
                 count, dependency, centrality>>

\* Mutant: whoever has seen infinity pushes.
WonAlways(e) == TRUE

\* oldVal == infinity
Won(e) == distance[Dst[e]] = Infinity

\* Mutant: who has lost the swap does not add.
AddsIfWon(e) == IF Won(e) THEN {e} ELSE {}

\* Who has lost the swap adds its paths, too.
Adds(e) == {e}

\* __sync_val_compare_and_swap, and the push if it has set the distance.
Swap(i, e) ==
  /\ e \in swapping[i]
  /\ swapping' = [swapping EXCEPT ![i] = @ \ {e}]
  /\ adding' = [adding EXCEPT ![i] = Adds(e)]
  /\ distance' = [distance EXCEPT ![Dst[e]] = IF @ = Infinity THEN level + 1 ELSE @]
  /\ pushed' = [pushed EXCEPT ![e] = IF Won(e) THEN level + 1 ELSE @]
  /\ UNCHANGED <<phase, sources, source, level, left, unsummed, count,
                 dependency, centrality>>

\* atomicAdd(shortestPathCount[dest], shortestPathCount[n])
Add(i, e) ==
  /\ e \in adding[i]
  /\ adding' = [adding EXCEPT ![i] = @ \ {e}]
  /\ count' = [count EXCEPT ![Dst[e]] = @ + count[At(i)]]
  /\ UNCHANGED <<phase, sources, source, level, pushed, left, swapping,
                 unsummed, distance, dependency, centrality>>

\* Mutant: the level ends before the last swaps.
ThroughEarly == \A i \in Worklist(level) : left[i] = {}

\* The do_all of a level is over.
Through == \A i \in Worklist(level) : left[i] = {} /\ Idle(i)

Deeper ==
  /\ phase = "forward"
  /\ Through
  /\ Worklist(level + 1) # {}
  /\ level' = level + 1
  /\ left' = [i \in Entry |->
       IF pushed[i] = level + 1 THEN EdgesOf(At(i)) ELSE {}]
  /\ UNCHANGED <<phase, sources, source, pushed, swapping, adding, unsummed,
                 distance, count, dependency, centrality>>
-----------------------------------------------------------------------------
(* Backward: the second half of compute.                                   *)

\* Mutant: one level too many is skipped.
FirstBackTooLow == level - 2

\* stackOfWorklists.size() - 3, where the last worklist is the empty one
\* after the current level: the level before the last vertices.
FirstBack == level - 1

\* The next worklist is empty: turn round, unless there is no level between
\* the source and the last.
TurnRound ==
  /\ phase = "forward"
  /\ Through
  /\ Worklist(level + 1) = {}
  /\ IF FirstBack > 0
       THEN /\ phase' = "backward"
            /\ level' = FirstBack
            /\ unsummed' = Worklist(FirstBack)
       ELSE /\ phase' = "next"
            /\ UNCHANGED <<level, unsummed>>
  /\ UNCHANGED <<sources, source, pushed, left, swapping, adding, distance,
                 count, dependency, centrality>>

\* (1 + dependency[dest]) / shortestPathCount[dest]
Contribution(e) == (Scale + dependency[Dst[e]]) \div count[Dst[e]]

\* dependency[n], which this is added to, is 0 until then.
NewDependency(n) ==
  LET behind == {e \in EdgesOf(n) : distance[Dst[e]] = level + 1}
  IN count[n] * SumFunctionOnSet([e \in behind |-> Contribution(e)], behind)

\* The thread with entry i.  It reads dependencies of the level behind, which
\* is complete, and writes those of its own vertex only: one step.
Accumulate(i) ==
  /\ i \in unsummed
  /\ unsummed' = unsummed \ {i}
  /\ dependency' = [dependency EXCEPT ![At(i)] = NewDependency(At(i))]
  /\ centrality' = [centrality EXCEPT ![At(i)] = @ + NewDependency(At(i))]
  /\ UNCHANGED <<phase, sources, source, level, pushed, left, swapping, adding,
                 distance, count>>

\* On to the next level, up to the one after the source.
Back ==
  /\ phase = "backward"
  /\ unsummed = {}
  /\ level' = level - 1
  /\ IF level > 1
       THEN unsummed' = Worklist(level - 1) /\ UNCHANGED phase
       ELSE phase' = "next" /\ UNCHANGED unsummed
  /\ UNCHANGED <<sources, source, pushed, left, swapping, adding, distance,
                 count, dependency, centrality>>

Done == phase = "next" /\ sources = {}
Terminated == Done /\ UNCHANGED vars

Next ==
  \/ \E s \in Vertex : TakeSource(s)
  \/ \E i \in Entry : \E e \in Edge : Look(i, e) \/ Swap(i, e) \/ Add(i, e)
  \/ Deeper
  \/ TurnRound
  \/ \E i \in Entry : Accumulate(i)
  \/ Back
  \/ Terminated

Spec == Init /\ [][Next]_vars
-----------------------------------------------------------------------------
\* GALOIS_ASSERT(distance[n] == currentLevel, "wrong level") holds for every
\* entry, and no vertex is pushed twice: "only 1 thread should add to
\* worklist" (bc.hpp:146), however many see it without a distance.
PushedOnce ==
  \A i, j \in Entry : pushed[i] # Infinity /\ pushed[j] # Infinity =>
    /\ distance[At(i)] = pushed[i]
    /\ At(i) = At(j) => i = j

\* Once the walk has turned round, the levels are those of a breadth-first
\* search: no edge leads out of the vertices reached or skips a level, and
\* every vertex but the source has an edge from the level before, whatever
\* thread came first (bc.hpp:142-155).
LevelsExact ==
  phase # "forward" =>
    /\ \A e \in Edge : distance[Src[e]] # Infinity =>
         distance[Dst[e]] \in 0 .. distance[Src[e]] + 1
    /\ \A v \in Vertex : distance[v] > 0 =>
         \E e \in Edge : Dst[e] = v /\ distance[Src[e]] = distance[v] - 1
    /\ \A v \in Vertex : distance[v] = 0 => v = source

\* Reference: walks of each length from s, and with them distances and
\* numbers of shortest paths.
Level == 0 .. Cardinality(Vertex)
Walks(s) ==
  LET w[k \in Level] ==
        IF k = 0 THEN [v \in Vertex |-> IF v = s THEN 1 ELSE 0]
        ELSE [v \in Vertex |->
                SumFunctionOnSet([e \in Edge |-> w[k - 1][Src[e]]],
                                 {e \in Edge : Dst[e] = v})]
  IN w
Lengths == [s \in Vertex |-> [v \in Vertex |->
  LET L == {k \in Level : Walks(s)[k][v] > 0}
  IN IF L = {} THEN Infinity ELSE CHOOSE k \in L : \A l \in L : k <= l]]
Paths == [s \in Vertex |-> [v \in Vertex |->
  IF Lengths[s][v] = Infinity THEN 0 ELSE Walks(s)[Lengths[s][v]][v]]]

\* When the walk turns round, every vertex has the number of its shortest
\* paths: no addition is lost, none is made by a thread that came too late,
\* and no level reads a count that is still growing.
CountsExact ==
  (phase # "forward" /\ distance[source] = 0) => count = Paths[source]

\* v is on shortest paths from s to t.
Between(s, v, t) ==
  /\ Cardinality({s, v, t}) = 3
  /\ Lengths[s][v] # Infinity
  /\ Lengths[v][t] # Infinity
  /\ Lengths[s][v] + Lengths[v][t] = Lengths[s][t]

\* The share of shortest paths from s that lead through v, for all targets.
Betweenness == [s \in Vertex |-> [v \in Vertex |->
  LET targets == {t \in Vertex : Between(s, v, t)}
  IN SumFunctionOnSet(
       [t \in targets |-> (Scale * Paths[s][v] * Paths[v][t]) \div Paths[s][t]],
       targets)]]

\* Scale makes every share a whole number.
ASSUME SharesAssumption ==
  \A s, t \in Vertex : Paths[s][t] > 0 => Scale % Paths[s][t] = 0

\* Between two sources, centralityScores is the betweenness for the sources
\* that have been taken (of all vertices, in any order): levels are walked in
\* the right order and none is left out, and nothing of an earlier source
\* remains in what is reused.
CentralityExact ==
  (phase = "next" /\ NumSrc = 0) =>
    centrality = [v \in Vertex |->
      SumFunctionOnSet([s \in Vertex |-> Betweenness[s][v]], Vertex \ sources)]
=============================================================================
