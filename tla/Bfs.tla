-------------------------------- MODULE Bfs --------------------------------
(***************************************************************************)
(* Breadth-first search: SSSP_BFS::compute (include/scea/algo/bfs.hpp).    *)
(*                                                                         *)
(* Threads take vertices from the worklist of the current level, which may *)
(* hold a vertex several times.  A thread that finds its vertex without a  *)
(* level writes the level and pushes the neighbours that have none, and    *)
(* nothing of this is synchronised: two threads may expand the same vertex *)
(* and push vertices that others are about to give the current level.      *)
(*                                                                         *)
(* A worklist (an InsertBag) is the number of entries for each vertex.     *)
(***************************************************************************)
EXTENDS Integers, Sequences, FiniteSets

CONSTANT Thread  \* the threads of the do_all

VARIABLES
  walk,           \* walk[v]: the neighbours that for_each_edge(v) comes to
  source,         \* src
  phase,          \* "compute" (called), "level" (in a do_all), "computed"
  level,
  shortest_path,
  currSt, nextSt, \* entries of each vertex
  at,             \* at[t]: the vertex that thread t expands
  pos             \* pos[t]: its next neighbour, 0 before it has written

graph == <<walk, source>>
bfs == <<phase, level, shortest_path, currSt, nextSt, at, pos>>
bfsVars == <<graph, bfs>>

Vertices == DOMAIN walk
UNVISITED == -1  \* differs from all levels
NoVertex == -1

NoEntries == [v \in Vertices |-> 0]
Entries(f) == {v \in Vertices : f[v] > 0}

\* A graph as a format presents it: vertices 0 .. size() - 1, or none.
IsGraph(g) ==
  /\ DOMAIN g \subseteq Nat
  /\ g \in [DOMAIN g -> Seq(DOMAIN g)]

BfsTypeOK ==
  /\ IsGraph(walk)
  /\ source \in Nat
  /\ level \in Nat
  /\ at \in [Thread -> Vertices \cup {NoVertex}]
  /\ pos \in [Thread -> Nat]
  /\ phase \in {"level", "computed"} =>
       /\ shortest_path \in [Vertices -> Nat \cup {UNVISITED}]
       /\ currSt \in [Vertices -> Nat]
       /\ nextSt \in [Vertices -> Nat]

\* Nothing of a computation is left before and after.
Unused ==
  /\ level = 0
  /\ shortest_path = <<>>
  /\ currSt = <<>>
  /\ nextSt = <<>>
  /\ at = [t \in Thread |-> NoVertex]
  /\ pos = [t \in Thread |-> 0]

\* The search alone, on any graph.
BfsInit ==
  /\ IsGraph(walk)
  /\ source \in Nat
  /\ phase = "compute"
  /\ Unused
-----------------------------------------------------------------------------
\* Up to the first swap of the worklists; a source out of bounds ends it.
StartSearch ==
  /\ phase = "compute"
  /\ phase' = IF source \in Vertices THEN "level" ELSE "computed"
  /\ shortest_path' = [v \in Vertices |-> UNVISITED]
  /\ currSt' = [v \in Vertices |-> IF v = source THEN 1 ELSE 0]
  /\ nextSt' = NoEntries
  /\ UNCHANGED <<graph, level, at, pos>>

Idle(t) == at[t] = NoVertex

\* A thread takes an entry, and returns if the vertex has a level.
TakeEntry(t, v) ==
  /\ phase = "level"
  /\ Idle(t)
  /\ currSt[v] > 0
  /\ currSt' = [currSt EXCEPT ![v] = @ - 1]
  /\ at' = [at EXCEPT ![t] = IF shortest_path[v] = UNVISITED THEN v ELSE NoVertex]
  /\ UNCHANGED <<graph, phase, level, shortest_path, nextSt, pos>>

WriteLevel(t) ==
  /\ ~Idle(t)
  /\ pos[t] = 0
  /\ shortest_path' = [shortest_path EXCEPT ![at[t]] = level]
  /\ pos' = [pos EXCEPT ![t] = 1]
  /\ UNCHANGED <<graph, phase, level, currSt, nextSt, at>>

\* How often a neighbour is pushed.
Pushed(n) == IF shortest_path[n] = UNVISITED THEN 1 ELSE 0

\* The next neighbour.
VisitNeighbor(t) ==
  /\ ~Idle(t)
  /\ pos[t] \in 1 .. Len(walk[at[t]])
  /\ LET n == walk[at[t]][pos[t]]
     IN nextSt' = [nextSt EXCEPT ![n] = @ + Pushed(n)]
  /\ pos' = [pos EXCEPT ![t] = @ + 1]
  /\ UNCHANGED <<graph, phase, level, shortest_path, currSt, at>>

\* The thread is through with the vertex.
Leave(t) ==
  /\ ~Idle(t)
  /\ pos[t] > Len(walk[at[t]])
  /\ at' = [at EXCEPT ![t] = NoVertex]
  /\ pos' = [pos EXCEPT ![t] = 0]
  /\ UNCHANGED <<graph, phase, level, shortest_path, currSt, nextSt>>

\* Mutant: the do_all does not wait for threads that still expand.
LevelOverEarly == Entries(currSt) = {}

\* Mutant: the do_all ends with the wrong worklist.
LevelOverSwapped == Entries(nextSt) = {} /\ \A t \in Thread : Idle(t)

\* The do_all is over.
LevelOver == Entries(currSt) = {} /\ \A t \in Thread : Idle(t)

\* The worklists are swapped.
NextLevel ==
  /\ phase = "level"
  /\ LevelOver
  /\ Entries(nextSt) # {}
  /\ currSt' = nextSt
  /\ nextSt' = NoEntries
  /\ level' = level + 1
  /\ UNCHANGED <<graph, phase, shortest_path, at, pos>>

EndSearch ==
  /\ phase = "level"
  /\ LevelOver
  /\ Entries(nextSt) = {}
  /\ phase' = "computed"
  /\ UNCHANGED <<graph, level, shortest_path, currSt, nextSt, at, pos>>

BfsThread(t) ==
  \/ \E v \in Vertices : TakeEntry(t, v)
  \/ WriteLevel(t)
  \/ VisitNeighbor(t)
  \/ Leave(t)

BfsMain == StartSearch \/ NextLevel \/ EndSearch

BfsNext == BfsMain \/ \E t \in Thread : BfsThread(t)

BfsSpec == BfsInit /\ [][BfsNext]_bfsVars
-----------------------------------------------------------------------------
\* v has a neighbour n.
Leads(v, n) == \E i \in 1 .. Len(walk[v]) : walk[v][i] = n

\* The result is the distance from the source, although threads expand
\* vertices twice and push vertices that are being given a level: no edge
\* leads out of the vertices reached or skips a level, every vertex but the
\* source has a neighbour one level before, and a source that is not in the
\* graph reaches nothing ("no sync needed", bfs.hpp:51).
LevelsExact ==
  phase = "computed" =>
    /\ \A v \in Vertices : shortest_path[v] = 0 <=> v = source
    /\ \A v, n \in Vertices : shortest_path[v] # UNVISITED /\ Leads(v, n) =>
         shortest_path[n] \in 0 .. shortest_path[v] + 1
    /\ \A n \in Vertices : shortest_path[n] > 0 =>
         \E v \in Vertices : Leads(v, n) /\ shortest_path[v] = shortest_path[n] - 1
=============================================================================
