-------------------------- MODULE Influence_proof --------------------------
(***************************************************************************)
(* Proofs about Influence, for every distribution of nodes and sets over   *)
(* any number of hosts and threads, and any number of choices.             *)
(*                                                                         *)
(* Accounting.  A set is taken off a node when the node leaves its todo;   *)
(* from there on the count is in frequency_, in an update or in a message. *)
(*                                                                         *)
(* Rounds.  Hosts are not more than a round apart (Phases).  While a host  *)
(* looks for its maximum nothing that concerns its nodes is on the way, so *)
(* frequency_ is exact; while a host still needs the maximum of another    *)
(* one, that one has not replaced it.                                      *)
(*                                                                         *)
(* Agreement.  All hosts see the same maxima.  As long as a set is left,   *)
(* some maximum is above 0 and so names a node; once none is left the      *)
(* choices may differ, but nothing depends on them any more.               *)
(***************************************************************************)
EXTENDS Influence, SumTheorems

\* Rounds of a host, by the number of its choices; and which hosts it has
\* waited for.
Phases(h) ==
  LET k == Len(picked[h])
  IN /\ pc[h] = "scan" => posted[h] = 2 * k /\ taken[h] = 2 * k
     /\ pc[h] = "max" => posted[h] = 2 * k + 1 /\ taken[h] = 2 * k
     /\ pc[h] \in {"max_barrier", "remove", "done"} =>
          k > 0 /\ posted[h] = 2 * k - 1 /\ taken[h] = 2 * k - 1
     /\ pc[h] = "updates" => k > 0 /\ posted[h] = 2 * k /\ taken[h] = 2 * k - 1
     /\ pc[h] = "updates_barrier" => k > 0 /\ posted[h] = 2 * k /\ taken[h] = 2 * k
     /\ pc[h] \notin {"max_barrier", "done"} => k < NumNodes
     /\ pc[h] = "done" => k = NumNodes
     /\ \A g \in Host : taken[h] <= posted[g]
     /\ pc[h] \in {"scan", "max"} => \A g \in Host : taken[g] >= 2 * k
     /\ pc[h] \in {"remove", "updates", "done"} =>
          \A g \in Host : taken[g] >= 2 * k - 1

InvPhases == \A h \in Host : Phases(h)

\* What is left of set s when the first i - 1 choices of p are removed.
Rest(s, p, i) == IF s \in NotCovered(p, i) THEN given[s] ELSE {}

\* Set s of host h.
SetOk(h, s) ==
  LET k == Len(picked[h])
  IN /\ pc[h] # "remove" => s \notin unread[h] /\ todo[s] = {}
     /\ pc[h] \in {"scan", "max", "updates", "updates_barrier"} =>
          sets[s] = Rest(s, picked[h], k + 1)
     /\ pc[h] \in {"max_barrier", "done"} \/ s \in unread[h] =>
          todo[s] = {} /\ sets[s] = Rest(s, picked[h], k)
     /\ pc[h] = "remove" /\ s \notin unread[h] =>
          \/ todo[s] = {} /\ sets[s] = Rest(s, picked[h], k + 1)
          \/ /\ todo[s] # {} /\ todo[s] \subseteq given[s]
             /\ sets[s] = given[s]
             /\ influential_node(h) \in given[s]

InvSets == \A s \in SetId :
  /\ SetOk(Home[s], s)
  /\ \A h \in Host : s \in unread[h] => h = Home[s]
  /\ \E v \in given[s] : Owner[v] = Home[s]

\* Updates are for nodes of other hosts, and are sent before the next scan.
InvUpdates == \A h \in Host : \A v \in Node :
  Owner[v] = h \/ pc[h] # "remove" => updates[h][v] = 0

\* A message of round r is there until its receiver comes out of the round.
InvRemovals ==
  /\ IsFiniteSet(removals)
  /\ \A m \in removals :
       /\ taken[m.to] < m.round /\ m.round <= posted[m.from]
       /\ \E i \in Nat : m.round = 2 * i

InvMaxes ==
  /\ \A m \in maxes :
       /\ taken[m.to] < m.round /\ m.round <= posted[m.from]
       /\ \E i \in Nat : m.round = 2 * i + 1
       /\ m.max = host_max[m.from]
  /\ \A g, h \in Host : \A i \in 0 .. NumNodes - 1 :
       g # h /\ taken[h] < 2 * i + 1 /\ 2 * i + 1 <= posted[g] =>
         \E m \in maxes : m.from = g /\ m.to = h /\ m.round = 2 * i + 1

\* Sets of L that hold v.
Hits(L, v) == Cardinality({s \in L : v \in given[s]})

\* m is a greatest of the nodes in V, or V has none in a set of L.
Greatest(m, V, L) ==
  /\ \A v \in V : Hits(L, v) <= m.influence
  /\ m.influence > 0 => m.node \in V /\ Hits(L, m.node) = m.influence

\* The threads of h have a greatest of the nodes that they have looked at.
ScanOk(h, L) ==
  pc[h] = "scan" =>
    /\ \A t \in Thread : best[h][t].influence > 0 =>
         /\ best[h][t].node \in Masters(h)
         /\ Hits(L, best[h][t].node) = best[h][t].influence
    /\ \A v \in Masters(h) \ unseen[h] : \E t \in Thread :
         Hits(L, v) <= best[h][t].influence

InvScan == \A h \in Host :
  /\ unseen[h] \subseteq Masters(h)
  /\ \A L \in SUBSET SetId :
       L = NotCovered(picked[h], Len(picked[h]) + 1) => ScanOk(h, L)

\* Hosts that have chosen with the maxima that are in host_max.
Chosen == {"max_barrier", "remove", "updates", "done"}

InvHostMax == \A h \in Host : \A L \in SUBSET SetId :
  LET k == Len(picked[h])
  IN /\ pc[h] = "max" /\ L = NotCovered(picked[h], k + 1) =>
          Greatest(host_max[h], Masters(h), L)
     /\ pc[h] \in Chosen /\ L = NotCovered(picked[h], k) =>
          Greatest(host_max[h], Masters(h), L)

InvPicked == \A h \in Host :
  pc[h] \in Chosen => influential_node(h) \in NodesRead(GetMaxNode(host_max))

IInv ==
  /\ TypeOK
  /\ InvPhases
  /\ InvSets
  /\ InvUpdates
  /\ InvRemovals
  /\ InvMaxes
  /\ InvScan
  /\ InvHostMax
  /\ InvPicked
  /\ FrequencyAccounted
  /\ HostsAgree
  /\ GreedyChoice
-----------------------------------------------------------------------------
USE NumHostsAssumption, NumThreadsAssumption, NodeAssumption, OwnerAssumption,
    SetIdAssumption, NumNodesAssumption

LEMMA ExchangesNat == Exchanges = 2 * NumNodes - 1 /\ Exchanges \in Nat
BY DEF Exchanges

LEMMA HostFinite == IsFiniteSet(Host) /\ \A h \in Host : IsFiniteSet(Host \ {h})
<1>1. IsFiniteSet(Host)
  BY FS_Interval DEF Host
<1> QED
  BY <1>1, FS_RemoveElement

\* What the invariants say about one host.
LEMMA HostTypes ==
  ASSUME TypeOK, NEW h \in Host
  PROVE  /\ picked[h] \in Seq(Node \cup {Garbage})
         /\ Len(picked[h]) \in 0 .. NumNodes
         /\ posted[h] \in 0 .. Exchanges /\ taken[h] \in 0 .. Exchanges
         /\ host_max[h] \in LocalMaxNode
         /\ \A t \in Thread : best[h][t] \in LocalMaxNode
BY DEF TypeOK, X!ATypeOK

\* GetMaxNode returns one of the greatest entries, if one is above 0.
LEMMA GetMaxNodeIs ==
  ASSUME NEW n \in Nat \ {0}, NEW f \in [0 .. n - 1 -> LocalMaxNode]
  PROVE  /\ GetMaxNode(f) \in LocalMaxNode
         /\ \A i \in 0 .. n - 1 : f[i].influence <= GetMaxNode(f).influence
         /\ GetMaxNode(f).influence > 0 => \E i \in 0 .. n - 1 : GetMaxNode(f) = f[i]
<1> DEFINE D == DOMAIN f
           G == {i \in D : \A j \in D : f[j].influence <= f[i].influence}
           first == CHOOSE i \in G : \A j \in G : i <= j
<1>1. \A i \in D : f[i].influence \in Nat
  BY DEF LocalMaxNode
<1>2. IsFiniteSet(D) /\ D # {} /\ D = 0 .. n - 1
  <2>1. D = 0 .. n - 1 /\ IsFiniteSet(0 .. n - 1) /\ 0 \in 0 .. n - 1
    BY FS_Interval
  <2> HIDE DEF D
  <2> QED
    BY <2>1
<1>3. G # {}
  <2> DEFINE v == [i \in D |-> f[i].influence]
  <2>1. \A i \in D : v[i] \in Int /\ v[i] = f[i].influence
    BY <1>1
  <2>2. \E i \in D : \A j \in D : v[j] <= v[i]
    <3> HIDE DEF v, D
    <3> QED
      BY <1>2, <2>1, HasGreatest
  <2> QED
    BY <2>1, <2>2
<1>4. first \in G
  <2>1. IsFiniteSet(G) /\ G \subseteq Int
    BY <1>2, FS_Subset
  <2>2. \E i \in G : \A j \in G : i <= j
    <3> HIDE DEF G
    <3> QED
      BY <1>3, <2>1, HasLeast
  <2> HIDE DEF G
  <2> QED
    BY <2>2
<1>5. GetMaxNode(f) = IF f[first].influence = 0 THEN NoMax ELSE f[first]
  BY DEF GetMaxNode
<1> HIDE DEF first, D
<1>6. NoMax \in LocalMaxNode /\ NoMax.influence = 0
  BY DEF NoMax, LocalMaxNode
<1>7. f[first] \in LocalMaxNode
  BY <1>2, <1>4
<1> QED
  BY <1>1, <1>2, <1>4, <1>5, <1>6, <1>7
-----------------------------------------------------------------------------
(* Sets that are left.                                                     *)

\* A choice covers what holds it, and no choice changes what earlier ones
\* have covered.
LEMMA NotCoveredIs ==
  ASSUME NEW p, NEW i \in Nat \ {0}
  PROVE  /\ NotCovered(p, i) \subseteq SetId
         /\ IsFiniteSet(NotCovered(p, i))
         /\ NotCovered(p, i + 1) = {s \in NotCovered(p, i) : p[i] \notin given[s]}
<1>1. NotCovered(p, i) \subseteq SetId
  BY DEF NotCovered
<1>2. IsFiniteSet(NotCovered(p, i))
  BY <1>1, FS_Subset
<1>3. 1 .. (i + 1) - 1 = (1 .. i - 1) \cup {i}
  OBVIOUS
<1>4. NotCovered(p, i + 1) = {s \in NotCovered(p, i) : p[i] \notin given[s]}
  BY <1>3 DEF NotCovered
<1> QED
  BY <1>1, <1>2, <1>4

LEMMA NotCoveredAppend ==
  ASSUME NEW V, NEW p \in Seq(V), NEW v \in V, NEW i \in 1 .. Len(p) + 1
  PROVE  /\ NotCovered(Append(p, v), i) = NotCovered(p, i)
         /\ Append(p, v) \in Seq(V)
         /\ Len(Append(p, v)) = Len(p) + 1
         /\ Append(p, v)[Len(p) + 1] = v
         /\ \A j \in 1 .. Len(p) : Append(p, v)[j] = p[j]
<1>1. /\ Append(p, v) \in Seq(V)
      /\ Len(Append(p, v)) = Len(p) + 1
      /\ Append(p, v)[Len(p) + 1] = v
      /\ \A j \in 1 .. Len(p) : Append(p, v)[j] = p[j]
  OBVIOUS
<1>2. \A j \in 1 .. i - 1 : Append(p, v)[j] = p[j]
  BY <1>1
<1>3. NotCovered(Append(p, v), i) = NotCovered(p, i)
  BY <1>2 DEF NotCovered
<1> QED
  BY <1>1, <1>3

\* Number of sets that hold a node.
LEMMA HitsNat ==
  ASSUME NEW L, L \subseteq SetId, NEW v
  PROVE  /\ Hits(L, v) \in Nat
         /\ Hits(L, v) > 0 <=> \E s \in L : v \in given[s]
<1> DEFINE H == {s \in L : v \in given[s]}
<1>1. IsFiniteSet(H)
  BY FS_Subset
<1>2. Cardinality(H) \in Nat /\ (Cardinality(H) = 0 <=> H = {})
  BY <1>1, FS_CardinalityType, FS_EmptySet
<1> QED
  BY <1>2 DEF Hits

\* The sets of the call do not change.
LEMMA HitsNext ==
  ASSUME given' = given
  PROVE  \A L, v : Hits(L, v)' = Hits(L, v)
BY DEF Hits

LEMMA ScanOkNext ==
  ASSUME given' = given, NEW h, NEW L
  PROVE  ScanOk(h, L)' <=>
           (pc'[h] = "scan" =>
              /\ \A t \in Thread : best'[h][t].influence > 0 =>
                   /\ best'[h][t].node \in Masters(h)
                   /\ Hits(L, best'[h][t].node) = best'[h][t].influence
              /\ \A v \in Masters(h) \ unseen'[h] : \E t \in Thread :
                   Hits(L, v) <= best'[h][t].influence)
BY HitsNext DEF ScanOk

\* Choice i of p is a greatest of all nodes.
GreedyAt(p, i) ==
  NotCovered(p, i) # {} =>
    \A v \in Node : Hits(NotCovered(p, i), p[i]) >= Hits(NotCovered(p, i), v)

LEMMA GreedyIs ==
  /\ GreedyChoice <=> \A h \in Host : \A i \in 1 .. Len(picked[h]) :
                        GreedyAt(picked[h], i)
  /\ GreedyChoice' <=> \A h \in Host : \A i \in 1 .. Len(picked'[h]) :
                         GreedyAt(picked[h], i)'
BY DEF GreedyChoice, GreedyAt, Hits

\* Hosts that agree have the same sets left.
LEMMA SameLeft ==
  ASSUME TypeOK, HostsAgree, NEW g \in Host, NEW h \in Host, NEW i \in Nat \ {0},
         i <= Len(picked[g]) + 1, i <= Len(picked[h]) + 1
  PROVE  NotCovered(picked[g], i) = NotCovered(picked[h], i)
<1> SUFFICES ASSUME NEW a \in Host, NEW b \in Host, NEW s \in SetId,
                    i <= Len(picked[a]) + 1, i <= Len(picked[b]) + 1,
                    s \in NotCovered(picked[a], i)
             PROVE  s \in NotCovered(picked[b], i)
  BY DEF NotCovered
<1> SUFFICES ASSUME NEW j \in 1 .. i - 1
             PROVE  picked[b][j] \notin given[s]
  BY DEF NotCovered
<1>1. Len(picked[a]) \in Nat /\ Len(picked[b]) \in Nat
  BY HostTypes
<1>2. s \in NotCovered(picked[a], j)
  BY DEF NotCovered
<1>3. j \in 1 .. Len(picked[a]) /\ j <= Len(picked[b])
  BY <1>1
<1>4. picked[b][j] = picked[a][j]
  BY <1>2, <1>3 DEF HostsAgree
<1> QED
  BY <1>4 DEF NotCovered
-----------------------------------------------------------------------------
(* Messages and updates.                                                   *)

\* What message m takes off node v.
Brings(m, v) == IF v \in DOMAIN m.counts THEN m.counts[v] ELSE 0

\* Messages that take a number off v.
Natural(S, v) == \A m \in S : Brings(m, v) \in Nat

LEMMA SubtractedIs ==
  ASSUME NEW S, IsFiniteSet(S), NEW v, Natural(S, v)
  PROVE  /\ Subtracted(S, v) \in Nat
         /\ (\A m \in S : Brings(m, v) = 0) => Subtracted(S, v) = 0
         /\ \A m \in S : S = {m} => Subtracted(S, v) = Brings(m, v)
<1> DEFINE f == [m \in S |-> Brings(m, v)]
<1>1. Subtracted(S, v) = SumFunctionOnSet(f, S)
  BY DEF Subtracted, Brings
<1>2. \A m \in S : f[m] = Brings(m, v) /\ f[m] \in Nat
  BY DEF Natural
<1> HIDE DEF f
<1>3. SumFunctionOnSet(f, S) \in Nat
  BY <1>2, SumNat
<1>4. (\A m \in S : Brings(m, v) = 0) => SumFunctionOnSet(f, S) = 0
  BY <1>2, SumZero
<1>5. ASSUME NEW m \in S, S = {m}
      PROVE  SumFunctionOnSet(f, S) = Brings(m, v)
  <2>1. SumFunctionOnSet(f, S) = f[m] + SumFunctionOnSet(f, S \ {m})
    BY <1>2, SumRemove
  <2>2. SumFunctionOnSet(f, S \ {m}) = 0
    BY <1>5, SumEmpty
  <2> QED
    BY <1>2, <2>1, <2>2
<1> QED
  BY <1>1, <1>3, <1>4, <1>5

LEMMA SubtractedUnion ==
  ASSUME NEW S, IsFiniteSet(S), NEW U, IsFiniteSet(U), S \cap U = {},
         NEW v, Natural(S \cup U, v)
  PROVE  Subtracted(S \cup U, v) = Subtracted(S, v) + Subtracted(U, v)
<1> DEFINE f == [m \in S \cup U |-> Brings(m, v)]
           a == [m \in S |-> Brings(m, v)]
           b == [m \in U |-> Brings(m, v)]
<1>1. /\ Subtracted(S \cup U, v) = SumFunctionOnSet(f, S \cup U)
      /\ Subtracted(S, v) = SumFunctionOnSet(a, S)
      /\ Subtracted(U, v) = SumFunctionOnSet(b, U)
  BY DEF Subtracted, Brings
<1>2. /\ \A m \in S : f[m] \in Int /\ a[m] = f[m]
      /\ \A m \in U : f[m] \in Int /\ b[m] = f[m]
      /\ \A m \in S \cup U : f[m] \in Int
  BY DEF Natural
<1> HIDE DEF f, a, b
<1>3. SumFunctionOnSet(f, S \cup U) = SumFunctionOnSet(f, S) + SumFunctionOnSet(f, U)
  BY <1>2, SumUnion
<1>4. SumFunctionOnSet(a, S) = SumFunctionOnSet(f, S)
  BY <1>2, SumSame
<1>5. SumFunctionOnSet(b, U) = SumFunctionOnSet(f, U)
  BY <1>2, SumSame
<1> QED
  BY <1>1, <1>3, <1>4, <1>5

\* The updates of all hosts for node v.
Pending(v) == SumFunctionOnSet([h \in Host |-> updates[h][v]], Host)

\* Sets that still count node v.
Counting(v) == {s \in SetId : v \in Standing(s)}

LEMMA AccountIs ==
  /\ FrequencyAccounted <=> \A v \in Node :
       freq[v] = Cardinality(Counting(v)) + Pending(v) + Subtracted(removals, v)
  /\ FrequencyAccounted' <=> \A v \in Node :
       freq'[v] = Cardinality(Counting(v)') + Pending(v)' + Subtracted(removals', v)
BY DEF FrequencyAccounted, Counting, Pending, Subtracted

LEMMA PendingIs ==
  ASSUME TypeOK, NEW v \in Node
  PROVE  /\ Pending(v) \in Nat
         /\ (\A h \in Host : updates[h][v] = 0) => Pending(v) = 0
<1> DEFINE f == [h \in Host |-> updates[h][v]]
<1>1. \A h \in Host : f[h] = updates[h][v] /\ f[h] \in Nat
  BY DEF TypeOK
<1>2. Pending(v) = SumFunctionOnSet(f, Host)
  BY DEF Pending
<1> HIDE DEF f
<1>3. SumFunctionOnSet(f, Host) \in Nat
  BY <1>1, HostFinite, SumNat
<1>4. (\A h \in Host : updates[h][v] = 0) => SumFunctionOnSet(f, Host) = 0
  BY <1>1, HostFinite, SumZero
<1> QED
  BY <1>2, <1>3, <1>4

\* One host changes its updates for v.
LEMMA PendingStep ==
  ASSUME TypeOK, updates' \in [Host -> [Node -> Nat]], NEW v \in Node, NEW h \in Host,
         \A g \in Host \ {h} : updates'[g][v] = updates[g][v]
  PROVE  Pending(v)' = Pending(v) - updates[h][v] + updates'[h][v]
<1> DEFINE f == [g \in Host |-> updates[g][v]]
           e == [g \in Host |-> updates'[g][v]]
<1>1. /\ \A g \in Host : f[g] \in Int /\ e[g] \in Int
      /\ \A g \in Host \ {h} : e[g] = f[g]
      /\ f[h] = updates[h][v] /\ e[h] = updates'[h][v]
  BY DEF TypeOK
<1>2. Pending(v) = SumFunctionOnSet(f, Host) /\ Pending(v)' = SumFunctionOnSet(e, Host)
  BY DEF Pending
<1> HIDE DEF f, e
<1> QED
  BY <1>1, <1>2, HostFinite, SumUpdate

LEMMA CountingIs ==
  ASSUME NEW v
  PROVE  IsFiniteSet(Counting(v)) /\ Cardinality(Counting(v)) \in Nat
<1>1. IsFiniteSet(Counting(v))
  BY FS_Subset DEF Counting
<1> QED
  BY <1>1, FS_CardinalityType

\* Messages of the program take numbers off nodes, and frequency_ is the sum
\* of three numbers.
LEMMA RemovalsNatural ==
  ASSUME TypeOK, NEW v
  PROVE  Natural(removals, v)
BY DEF TypeOK, Natural, Brings
-----------------------------------------------------------------------------
(* What does not change.                                                   *)

LEMMA Frame ==
  /\ InvPhases /\ UNCHANGED <<pc, picked, posted, taken>> => InvPhases'
  /\ InvSets /\ UNCHANGED <<pc, picked, given, unread, sets, todo>> => InvSets'
  /\ InvUpdates /\ UNCHANGED <<pc, updates>> => InvUpdates'
  /\ InvRemovals /\ UNCHANGED <<removals, posted, taken>> => InvRemovals'
  /\ InvMaxes /\ UNCHANGED <<maxes, host_max, posted, taken>> => InvMaxes'
  /\ InvScan /\ UNCHANGED <<pc, picked, given, unseen, best>> => InvScan'
  /\ InvHostMax /\ UNCHANGED <<pc, picked, given, host_max>> => InvHostMax'
  /\ InvPicked /\ UNCHANGED <<pc, picked, host_max>> => InvPicked'
  /\ FrequencyAccounted /\ UNCHANGED <<freq, sets, todo, updates, removals>> =>
       FrequencyAccounted'
  /\ HostsAgree /\ UNCHANGED <<picked, given>> => HostsAgree'
  /\ GreedyChoice /\ UNCHANGED <<picked, given>> => GreedyChoice'
<1>1. InvPhases /\ UNCHANGED <<pc, picked, posted, taken>> => InvPhases'
  BY DEF InvPhases, Phases
<1>2. InvSets /\ UNCHANGED <<pc, picked, given, unread, sets, todo>> => InvSets'
  BY DEF InvSets, SetOk, Rest, NotCovered, influential_node
<1>3. InvUpdates /\ UNCHANGED <<pc, updates>> => InvUpdates'
  BY DEF InvUpdates
<1>4. InvRemovals /\ UNCHANGED <<removals, posted, taken>> => InvRemovals'
  BY DEF InvRemovals
<1>5. InvMaxes /\ UNCHANGED <<maxes, host_max, posted, taken>> => InvMaxes'
  BY DEF InvMaxes
<1>6. InvScan /\ UNCHANGED <<pc, picked, given, unseen, best>> => InvScan'
  <2> SUFFICES ASSUME InvScan, UNCHANGED <<pc, picked, given, unseen, best>>,
                      NEW h \in Host, NEW L \in SUBSET SetId,
                      L = NotCovered(picked[h], Len(picked[h]) + 1)'
               PROVE  ScanOk(h, L)'
    BY DEF InvScan
  <2>1. L = NotCovered(picked[h], Len(picked[h]) + 1)
    BY DEF NotCovered
  <2>2. pc[h] = "scan" =>
          /\ \A r \in Thread : best[h][r].influence > 0 =>
               /\ best[h][r].node \in Masters(h)
               /\ Hits(L, best[h][r].node) = best[h][r].influence
          /\ \A w \in Masters(h) \ unseen[h] : \E r \in Thread :
               Hits(L, w) <= best[h][r].influence
    BY <2>1 DEF InvScan, ScanOk
  <2> QED
    BY <2>2, ScanOkNext
<1>7. InvHostMax /\ UNCHANGED <<pc, picked, given, host_max>> => InvHostMax'
  <2> SUFFICES ASSUME InvHostMax, UNCHANGED <<pc, picked, given, host_max>>
               PROVE  InvHostMax'
    OBVIOUS
  <2>1. \A p, i : NotCovered(p, i)' = NotCovered(p, i)
    BY DEF NotCovered
  <2>2. \A m, V, L : Greatest(m, V, L)' <=> Greatest(m, V, L)
    BY HitsNext DEF Greatest
  <2> QED
    BY <2>1, <2>2 DEF InvHostMax
<1>8. InvPicked /\ UNCHANGED <<pc, picked, host_max>> => InvPicked'
  BY DEF InvPicked, influential_node
<1>9. FrequencyAccounted /\ UNCHANGED <<freq, sets, todo, updates, removals>> =>
        FrequencyAccounted'
  BY DEF FrequencyAccounted, Standing, Subtracted
<1>10. HostsAgree /\ UNCHANGED <<picked, given>> => HostsAgree'
  BY DEF HostsAgree, NotCovered
<1>11. GreedyChoice /\ UNCHANGED <<picked, given>> => GreedyChoice'
  <2> SUFFICES ASSUME GreedyChoice, UNCHANGED <<picked, given>>,
                      NEW h \in Host, NEW i \in 1 .. Len(picked[h])
               PROVE  GreedyAt(picked[h], i)'
    BY GreedyIs
  <2> DEFINE L == NotCovered(picked[h], i)
  <2>1. L # {} => \A v \in Node : Hits(L, picked[h][i]) >= Hits(L, v)
    BY GreedyIs DEF GreedyAt
  <2>2. L' = L
    BY DEF NotCovered
  <2>3. \A v : Hits(L, v)' = Hits(L, v)
    BY <2>2 DEF Hits
  <2>4. (L # {} => \A v \in Node : Hits(L, picked[h][i]) >= Hits(L, v))'
    <3> HIDE DEF L
    <3> QED
      BY <2>1, <2>2, <2>3
  <2> QED
    BY <2>4 DEF GreedyAt
<1> QED
  BY <1>1, <1>2, <1>3, <1>4, <1>5, <1>6, <1>7, <1>8, <1>9, <1>10, <1>11
-----------------------------------------------------------------------------
(* The initial state.                                                      *)

LEMMA InitIInv == Init => IInv
<1> SUFFICES ASSUME Init
             PROVE  IInv
  OBVIOUS
<1> USE DEF Init
<1>1. Exchanges \in Nat /\ NumNodes > 0
  BY ExchangesNat
<1>2. \A h \in Host : picked[h] = <<>> /\ Len(picked[h]) = 0 /\ pc[h] = "scan"
  OBVIOUS
<1>3. \A p : NotCovered(p, 1) = SetId
  <2>1. 1 .. 1 - 1 = {}
    OBVIOUS
  <2> QED
    BY <2>1 DEF NotCovered
<1>4. \A v \in Node : Coverage(given, v) \in Nat
  <2> SUFFICES ASSUME NEW v \in Node
               PROVE  Coverage(given, v) \in Nat
    OBVIOUS
  <2>1. IsFiniteSet({s \in SetId : v \in given[s]})
    BY FS_Subset
  <2> QED
    BY <2>1, FS_CardinalityType DEF Coverage
<1>5. NoMax \in LocalMaxNode /\ NoMax.influence = 0
  BY DEF NoMax, LocalMaxNode
<1>6. TypeOK
  <2>1. X!ATypeOK
    BY <1>1 DEF X!AInit, X!ATypeOK, X!Nothing, Host
  <2>2. /\ picked \in [Host -> Seq(Node \cup {Garbage})]
        /\ \A h \in Host : Len(picked[h]) <= NumNodes
    BY <1>1, <1>2
  <2>3. /\ unseen \in [Host -> SUBSET Node]
        /\ updates \in [Host -> [Node -> Nat]]
    BY DEF Masters, NoUpdates
  <2> QED
    BY <1>4, <1>5, <2>1, <2>2, <2>3 DEF TypeOK
<1>7. InvPhases
  BY <1>1, <1>2 DEF InvPhases, Phases, X!AInit
<1>8. InvSets
  <2>1. \A s \in SetId : \A p : Rest(s, p, 1) = given[s]
    BY <1>3 DEF Rest
  <2> QED
    BY <1>2, <2>1 DEF InvSets, SetOk
<1>9. InvUpdates
  BY DEF InvUpdates, NoUpdates
<1>10. InvRemovals
  BY FS_EmptySet DEF InvRemovals
<1>11. InvMaxes
  BY DEF InvMaxes, X!AInit
<1>12. InvScan
  BY <1>5 DEF InvScan, ScanOk
<1>13. InvHostMax /\ InvPicked
  BY <1>2 DEF InvHostMax, InvPicked, Chosen
<1>14. FrequencyAccounted
  <2> SUFFICES ASSUME NEW v \in Node
               PROVE  freq[v] = Cardinality(Counting(v)) + Pending(v) + Subtracted(removals, v)
    BY AccountIs
  <2>1. Counting(v) = {s \in SetId : v \in given[s]}
    BY DEF Counting, Standing
  <2>2. \A h \in Host : updates[h][v] = 0
    BY DEF NoUpdates
  <2>3. Pending(v) = 0
    BY <1>6, <2>2, PendingIs
  <2>4. IsFiniteSet(removals) /\ \A m \in removals : Brings(m, v) = 0
    BY FS_EmptySet
  <2>5. Subtracted(removals, v) = 0
    <3> HIDE DEF Init
    <3> QED
      BY <1>6, <2>4, SubtractedIs, RemovalsNatural
  <2>6. freq[v] = Cardinality(Counting(v)) /\ freq[v] \in Nat
    BY <1>4, <2>1 DEF Coverage
  <2> QED
    BY <2>3, <2>5, <2>6
<1>15. HostsAgree /\ GreedyChoice
  BY <1>2 DEF HostsAgree, GreedyChoice
<1> QED
  BY <1>6, <1>7, <1>8, <1>9, <1>10, <1>11, <1>12, <1>13, <1>14, <1>15 DEF IInv
-----------------------------------------------------------------------------
(* What a host that looks for its maximum knows.                           *)

\* All hosts have come out of the same rounds, and none is removing sets.
LEMMA ScanPhase ==
  ASSUME TypeOK, InvPhases, NEW h \in Host, pc[h] = "scan", NEW g \in Host
  PROVE  /\ pc[g] \in {"scan", "max", "updates_barrier"}
         /\ Len(picked[g]) = Len(picked[h])
         /\ taken[g] = 2 * Len(picked[h])
         /\ posted[g] <= 2 * Len(picked[h]) + 1
<1>1. Phases(g) /\ Phases(h)
  BY DEF InvPhases
<1>2. /\ Len(picked[g]) \in Nat /\ Len(picked[h]) \in Nat
      /\ taken[g] \in Nat /\ taken[h] \in Nat /\ posted[g] \in Nat /\ posted[h] \in Nat
  BY HostTypes
<1>3. taken[h] = 2 * Len(picked[h]) /\ posted[h] = 2 * Len(picked[h])
  BY <1>1 DEF Phases
<1>4. taken[g] >= 2 * Len(picked[h]) /\ taken[g] <= posted[h]
  BY <1>1 DEF Phases
<1>5. taken[g] = 2 * Len(picked[h])
  BY <1>2, <1>3, <1>4
<1>6. pc[g] \in {"scan", "max", "max_barrier", "remove", "updates",
                 "updates_barrier", "done"}
  BY DEF TypeOK
<1>7. pc[g] \notin {"max_barrier", "remove", "done", "updates"}
  <2>1. pc[g] \in {"max_barrier", "remove", "done", "updates"} =>
          taken[g] = 2 * Len(picked[g]) - 1
    BY <1>1 DEF Phases
  <2> QED
    BY <1>2, <1>5, <2>1
<1>8. /\ pc[g] = "scan" => posted[g] = 2 * Len(picked[g]) /\ taken[g] = 2 * Len(picked[g])
      /\ pc[g] = "max" => posted[g] = 2 * Len(picked[g]) + 1 /\ taken[g] = 2 * Len(picked[g])
      /\ pc[g] = "updates_barrier" =>
           posted[g] = 2 * Len(picked[g]) /\ taken[g] = 2 * Len(picked[g])
  BY <1>1 DEF Phases
<1> QED
  BY <1>2, <1>5, <1>6, <1>7, <1>8

\* frequency_ is exact, for the nodes of the host.
LEMMA FreqExact ==
  ASSUME TypeOK, InvPhases, InvSets, InvUpdates, InvRemovals, FrequencyAccounted, HostsAgree,
         NEW h \in Host, pc[h] = "scan", NEW v \in Masters(h)
  PROVE  freq[v] = Hits(NotCovered(picked[h], Len(picked[h]) + 1), v)
<1> DEFINE k == Len(picked[h])
           L == NotCovered(picked[h], k + 1)
<1>1. k \in Nat /\ v \in Node /\ Owner[v] = h /\ taken[h] = 2 * k
  BY HostTypes, ScanPhase DEF Masters
<1>2. \A g \in Host : updates[g][v] = 0
  <2> SUFFICES ASSUME NEW g \in Host
               PROVE  updates[g][v] = 0
    OBVIOUS
  <2>1. pc[g] # "remove"
    BY ScanPhase
  <2> QED
    BY <1>1, <2>1 DEF InvUpdates
<1>3. Pending(v) = 0
  BY <1>1, <1>2, PendingIs
<1>4. \A m \in removals : Brings(m, v) = 0
  <2> SUFFICES ASSUME NEW m \in removals, v \in DOMAIN m.counts
               PROVE  FALSE
    BY DEF Brings
  <2>1. m.from \in Host /\ m.to \in Host /\ m.round \in Nat /\ v \in Masters(m.to)
    BY DEF TypeOK
  <2>2. m.to = h
    BY <1>1, <2>1 DEF Masters
  <2>3. PICK i \in Nat : m.round = 2 * i
    BY DEF InvRemovals
  <2>4. taken[h] < m.round /\ m.round <= posted[m.from] /\ posted[m.from] <= 2 * k + 1
    BY <2>1, <2>2, ScanPhase DEF InvRemovals
  <2>5. posted[m.from] \in Nat
    BY <2>1, HostTypes
  <2> HIDE DEF k
  <2> QED
    BY <1>1, <2>3, <2>4, <2>5
<1>5. Subtracted(removals, v) = 0
  BY <1>4, SubtractedIs, RemovalsNatural DEF InvRemovals
<1>6. \A s \in SetId : Standing(s) = Rest(s, picked[h], k + 1)
  <2> SUFFICES ASSUME NEW s \in SetId
               PROVE  Standing(s) = Rest(s, picked[h], k + 1)
    OBVIOUS
  <2> DEFINE g == Home[s]
  <2>1. g \in Host /\ SetOk(g, s)
    BY DEF InvSets
  <2>2. pc[g] \in {"scan", "max", "updates_barrier"} /\ Len(picked[g]) = k
    BY <2>1, ScanPhase
  <2>3. todo[s] = {} /\ sets[s] = Rest(s, picked[g], k + 1)
    BY <2>1, <2>2 DEF SetOk
  <2>4. NotCovered(picked[g], k + 1) = NotCovered(picked[h], k + 1)
    BY <1>1, <2>1, <2>2, SameLeft
  <2> QED
    BY <2>3, <2>4 DEF Standing, Rest
<1>7. Counting(v) = {s \in L : v \in given[s]}
  <2>1. \A s \in SetId : v \in Standing(s) <=> s \in L /\ v \in given[s]
    BY <1>6 DEF Rest
  <2>2. L \subseteq SetId
    BY DEF NotCovered
  <2> HIDE DEF L
  <2> QED
    BY <2>1, <2>2 DEF Counting
<1>8. freq[v] = Cardinality(Counting(v)) + Pending(v) + Subtracted(removals, v)
  BY <1>1, AccountIs
<1>9. Cardinality(Counting(v)) \in Nat
  BY CountingIs
<1>10. freq[v] = Cardinality(Counting(v))
  BY <1>3, <1>5, <1>8, <1>9
<1>11. Hits(L, v) = Cardinality(Counting(v))
  BY <1>7 DEF Hits
<1> QED
  BY <1>10, <1>11

\* A node with a set has a frequency above 0, wherever it is counted.
LEMMA FreqEnough ==
  ASSUME TypeOK, InvRemovals, FrequencyAccounted, NEW v \in Node
  PROVE  freq[v] >= Cardinality(Counting(v)) /\ freq[v] >= Subtracted(removals, v)
<1>1. freq[v] = Cardinality(Counting(v)) + Pending(v) + Subtracted(removals, v)
  BY AccountIs
<1>2. Pending(v) \in Nat /\ Cardinality(Counting(v)) \in Nat
  BY PendingIs, CountingIs
<1>3. Subtracted(removals, v) \in Nat
  BY SubtractedIs, RemovalsNatural DEF InvRemovals
<1> QED
  BY <1>1, <1>2, <1>3
-----------------------------------------------------------------------------
(* GetMostInfluentialNode.                                                 *)

LEMMA FindStep ==
  ASSUME IInv, NEW h \in Host, NEW t \in Thread, NEW v \in Node, FindLocalMaxNode(h, t, v)
  PROVE  IInv'
<1> USE DEF FindLocalMaxNode, network, sampled
<1>0. TypeOK /\ InvScan
  BY DEF IInv
<1>1. /\ InvPhases' /\ InvSets' /\ InvUpdates' /\ InvRemovals' /\ InvMaxes'
      /\ InvHostMax' /\ InvPicked' /\ FrequencyAccounted' /\ HostsAgree' /\ GreedyChoice'
  BY Frame DEF IInv
<1>2. /\ pc[h] = "scan" /\ unseen' = [unseen EXCEPT ![h] = @ \ {v}]
      /\ best' = [best EXCEPT ![h][t] = Better(best[h][t], v)]
      /\ pc' = pc /\ picked' = picked /\ given' = given /\ v \in unseen[h]
  OBVIOUS
<1>3. v \in Masters(h) /\ freq[v] \in Nat
  BY <1>0 DEF InvScan, TypeOK
<1>4. Better(best[h][t], v) \in LocalMaxNode
  BY <1>0, <1>3, HostTypes DEF Better, LocalMaxNode
<1>5. /\ unseen' \in [Host -> SUBSET Node]
      /\ best' \in [Host -> [Thread -> LocalMaxNode]]
  BY <1>0, <1>2, <1>4 DEF TypeOK
<1>6. TypeOK'
  BY <1>0, <1>5 DEF TypeOK, X!ATypeOK
<1>7. InvScan'
  <2>1. \A g \in Host : unseen'[g] \subseteq Masters(g)
    BY <1>0, <1>2 DEF InvScan, TypeOK
  <2> SUFFICES ASSUME NEW g \in Host, NEW L \in SUBSET SetId,
                      L = NotCovered(picked[g], Len(picked[g]) + 1)'
               PROVE  ScanOk(g, L)'
    BY <2>1 DEF InvScan
  <2>2. L = NotCovered(picked[g], Len(picked[g]) + 1)
    BY <1>2 DEF NotCovered
  <2>4. pc[g] = "scan" =>
          /\ \A r \in Thread : best[g][r].influence > 0 =>
               /\ best[g][r].node \in Masters(g)
               /\ Hits(L, best[g][r].node) = best[g][r].influence
          /\ \A w \in Masters(g) \ unseen[g] : \E r \in Thread :
               Hits(L, w) <= best[g][r].influence
    BY <1>0, <2>2 DEF InvScan, ScanOk
  <2>5. g = h => freq[v] = Hits(L, v)
    BY <1>2, <1>3, <2>2, FreqExact DEF IInv
  <2>6. \A r \in Thread : best[g][r] \in LocalMaxNode
    BY <1>0, HostTypes
  <2>8. \A w : Hits(L, w) \in Nat
    BY HitsNat
  <2> HIDE DEF FindLocalMaxNode
  <2>9. CASE g # h
    <3>1. best'[g] = best[g] /\ unseen'[g] = unseen[g]
      BY <1>0, <1>2, <2>9 DEF TypeOK
    <3> QED
      BY <1>2, <2>4, <3>1, ScanOkNext
  <2>10. CASE g = h
    <3>1. /\ unseen'[h] = unseen[h] \ {v}
          /\ best'[h][t] = Better(best[h][t], v)
          /\ \A r \in Thread \ {t} : best'[h][r] = best[h][r]
      BY <1>0, <1>2 DEF TypeOK
    <3>2. /\ \A r \in Thread : best[h][r].influence > 0 =>
               /\ best[h][r].node \in Masters(h)
               /\ Hits(L, best[h][r].node) = best[h][r].influence
          /\ \A w \in Masters(h) \ unseen[h] : \E r \in Thread :
               Hits(L, w) <= best[h][r].influence
      BY <1>2, <2>4, <2>10
    <3>3. \A r \in Thread : best[h][r].influence \in Nat
      BY <2>6, <2>10 DEF LocalMaxNode
    <3>4. /\ best'[h][t].influence \in Nat
          /\ best'[h][t].influence >= freq[v]
          /\ best'[h][t].influence >= best[h][t].influence
          /\ best'[h][t].influence > 0 =>
               /\ best'[h][t].node \in Masters(h)
               /\ Hits(L, best'[h][t].node) = best'[h][t].influence
      <4>1. CASE freq[v] > best[h][t].influence
        BY <1>3, <2>5, <2>10, <3>1, <3>3, <4>1 DEF Better
      <4>2. CASE ~ (freq[v] > best[h][t].influence)
        BY <1>3, <3>1, <3>2, <3>3, <4>2 DEF Better
      <4> QED
        BY <4>1, <4>2
    <3>5. \A r \in Thread : best'[h][r].influence > 0 =>
            /\ best'[h][r].node \in Masters(h)
            /\ Hits(L, best'[h][r].node) = best'[h][r].influence
      BY <3>1, <3>2, <3>4
    <3>6. ASSUME NEW w \in Masters(h) \ unseen'[h]
          PROVE  \E r \in Thread : Hits(L, w) <= best'[h][r].influence
      <4>1. CASE w = v
        BY <1>3, <2>5, <2>10, <3>4, <4>1
      <4>2. CASE w # v
        <5>1. PICK r \in Thread : Hits(L, w) <= best[h][r].influence
          BY <3>1, <3>2, <4>2
        <5>2. best[h][r].influence <= best'[h][r].influence
          BY <3>1, <3>3, <3>4
        <5>3. Hits(L, w) \in Nat /\ best'[h][r].influence \in Nat
          BY <2>8, <3>1, <3>3, <3>4
        <5> QED
          BY <3>3, <5>1, <5>2, <5>3
      <4> QED
        BY <4>1, <4>2
    <3> QED
      BY <1>2, <2>10, <3>5, <3>6, ScanOkNext
  <2> QED
    BY <2>9, <2>10
<1> QED
  BY <1>1, <1>6, <1>7 DEF IInv

LEMMA GreatestNext ==
  ASSUME given' = given
  PROVE  \A m, V, L : Greatest(m, V, L)' <=> Greatest(m, V, L)
BY HitsNext DEF Greatest

LEMMA SendMaxStep ==
  ASSUME IInv, NEW h \in Host, SendMax(h)
  PROVE  IInv'
<1> DEFINE k == Len(picked[h])
           new == {[from |-> h, to |-> g, round |-> posted[h] + 1, max |-> host_max'[h]]
                     : g \in Host \ {h}}
<1>0. TypeOK /\ InvPhases /\ Phases(h)
  BY DEF IInv, InvPhases
<1>1. /\ pc[h] = "scan" /\ unseen[h] = {} /\ posted[h] < Exchanges
      /\ posted' = [posted EXCEPT ![h] = @ + 1]
      /\ view' = [view EXCEPT ![h] = X!Nothing] /\ taken' = taken
      /\ host_max' = [host_max EXCEPT ![h] = GetMaxNode(best[h])]
      /\ maxes' = maxes \cup new
      /\ pc' = [pc EXCEPT ![h] = "max"]
      /\ UNCHANGED <<unseen, best, picked, sampled, removals, given>>
  BY DEF SendMax, X!Post
<1>2. k \in Nat /\ posted[h] = 2 * k /\ taken[h] = 2 * k /\ k < NumNodes
  BY <1>0, <1>1, HostTypes DEF Phases
<1>3. \A g \in Host : /\ posted[g] \in 0 .. Exchanges /\ taken[g] \in 0 .. Exchanges
                      /\ taken[g] = 2 * k /\ Len(picked[g]) = k
                      /\ pc[g] \in {"scan", "max", "updates_barrier"}
  BY <1>0, <1>1, HostTypes, ScanPhase
<1> HIDE DEF k
<1>4. /\ best[h] \in [0 .. NumThreads - 1 -> LocalMaxNode]
      /\ GetMaxNode(best[h]) \in LocalMaxNode
      /\ \A t \in Thread : best[h][t].influence <= GetMaxNode(best[h]).influence
      /\ GetMaxNode(best[h]).influence > 0 =>
           \E t \in Thread : GetMaxNode(best[h]) = best[h][t]
  <2>1. best[h] \in [0 .. NumThreads - 1 -> LocalMaxNode]
    BY <1>0 DEF TypeOK, Thread
  <2> QED
    BY <2>1, GetMaxNodeIs DEF Thread
<1>5. /\ \A g \in Host \ {h} : /\ posted'[g] = posted[g] /\ pc'[g] = pc[g]
                               /\ host_max'[g] = host_max[g]
      /\ posted'[h] = 2 * k + 1 /\ pc'[h] = "max" /\ host_max'[h] = GetMaxNode(best[h])
      /\ picked' = picked /\ given' = given
  BY <1>0, <1>1, <1>2 DEF TypeOK, X!ATypeOK
<1>6. /\ FrequencyAccounted' /\ HostsAgree' /\ GreedyChoice'
  BY <1>1, Frame DEF IInv, sampled
<1>7. TypeOK'
  <2>1. /\ pc' \in [Host -> {"scan", "max", "max_barrier", "remove", "updates",
                             "updates_barrier", "done"}]
        /\ host_max' \in [Host -> LocalMaxNode]
    BY <1>0, <1>1, <1>4 DEF TypeOK
  <2>2. X!ATypeOK'
    <3>1. /\ posted' \in [Host -> 0 .. Exchanges]
          /\ X!Nothing \in [Host -> 0 .. Exchanges]
      BY <1>0, <1>1, ExchangesNat DEF TypeOK, X!ATypeOK, X!Nothing
    <3> QED
      BY <1>0, <1>1, <3>1 DEF TypeOK, X!ATypeOK
  <2>3. new \subseteq [from : Host, to : Host, round : 1 .. Exchanges, max : LocalMaxNode]
    <3>1. /\ posted[h] + 1 \in 1 .. Exchanges
          /\ host_max'[h] \in LocalMaxNode
      BY <1>1, <1>3, <1>4, <1>5, ExchangesNat
    <3> QED
      BY <3>1
  <2> HIDE DEF new
  <2> QED
    BY <1>0, <1>1, <2>1, <2>2, <2>3 DEF TypeOK, sampled
<1>8. InvPhases'
  <2> SUFFICES ASSUME NEW g \in Host
               PROVE  Phases(g)'
    BY DEF InvPhases
  <2>1. \A a \in Host : taken[g] <= posted'[a]
    <3>1. \A a \in Host : 2 * k <= posted[a]
      BY <1>0, <1>2 DEF Phases
    <3> QED
      BY <1>2, <1>3, <1>5, <3>1
  <2>2. CASE g = h
    <3>1. /\ pc'[h] = "max" /\ Len(picked'[h]) = k /\ posted'[h] = 2 * k + 1
          /\ taken'[h] = 2 * k /\ k < NumNodes
          /\ \A a \in Host : taken'[h] <= posted'[a] /\ taken'[a] >= 2 * k
      BY <1>1, <1>2, <1>3, <1>5, <2>1, <2>2
    <3> QED
      BY <2>2, <3>1 DEF Phases
  <2>3. CASE g # h
    <3>1. Phases(g)
      BY <1>0 DEF InvPhases
    <3> QED
      BY <1>1, <1>5, <2>1, <2>3, <3>1 DEF Phases
  <2> QED
    BY <2>2, <2>3
<1>9. InvSets'
  <2>1. \A s \in SetId : SetOk(Home[s], s) => SetOk(Home[s], s)'
    <3> SUFFICES ASSUME NEW s \in SetId, SetOk(Home[s], s)
                 PROVE  SetOk(Home[s], s)'
      OBVIOUS
    <3> DEFINE g == Home[s]
    <3>1. g \in Host
      OBVIOUS
    <3>2. /\ sets' = sets /\ todo' = todo /\ unread' = unread
          /\ \A i : Rest(s, picked[g], i)' = Rest(s, picked[g], i)
      BY <1>1, <1>5 DEF sampled, Rest, NotCovered
    <3>3. pc[g] \in {"scan", "max", "updates_barrier"}
          /\ pc'[g] \in {"scan", "max", "updates_barrier"}
      BY <1>3, <1>5, <3>1
    <3> QED
      BY <1>5, <3>2, <3>3 DEF SetOk
  <2> QED
    BY <1>1, <2>1 DEF InvSets, IInv, sampled
<1>10. InvUpdates'
  BY <1>1, <1>3, <1>5 DEF InvUpdates, IInv, sampled
<1>11. InvRemovals'
  <2>1. \A m \in removals : m.from \in Host /\ m.round \in Nat
    BY <1>0 DEF TypeOK
  <2>2. \A g \in Host : posted[g] <= posted'[g]
    BY <1>2, <1>3, <1>5
  <2>3. \A m \in removals : m.round <= posted[m.from] => m.round <= posted'[m.from]
    BY <1>3, <1>5, <2>1, <2>2
  <2> QED
    BY <1>1, <2>3 DEF InvRemovals, IInv
<1>12. InvMaxes'
  <2>1. \A m \in maxes : /\ m.from \in Host /\ m.to \in Host /\ m.round \in Nat
                         /\ taken[m.to] < m.round /\ m.round <= posted[m.from]
                         /\ \E i \in Nat : m.round = 2 * i + 1
                         /\ m.max = host_max[m.from]
    BY <1>0 DEF IInv, InvMaxes, TypeOK
  <2>2. \A m \in maxes : m.from # h
    BY <1>2, <1>3, <2>1
  <2>3. \A m \in maxes : m.round <= posted'[m.from] /\ m.max = host_max'[m.from]
    BY <1>5, <2>1, <2>2
  <2>4. \A m \in new : /\ taken[m.to] < m.round /\ m.round <= posted'[m.from]
                       /\ m.round = 2 * k + 1
                       /\ m.max = host_max'[m.from]
    BY <1>2, <1>3, <1>5
  <2>5. \A g \in Host \ {h} : \E m \in new : m.from = h /\ m.to = g /\ m.round = 2 * k + 1
    <3> SUFFICES ASSUME NEW g \in Host \ {h}
                 PROVE  \E m \in new : m.from = h /\ m.to = g /\ m.round = 2 * k + 1
      OBVIOUS
    <3> WITNESS [from |-> h, to |-> g, round |-> posted[h] + 1, max |-> host_max'[h]] \in new
    <3> QED
      BY <1>2
  <2>6. ASSUME NEW g \in Host, NEW b \in Host, NEW i \in 0 .. NumNodes - 1,
               g # b, taken[b] < 2 * i + 1, 2 * i + 1 <= posted'[g]
        PROVE  \E m \in maxes' : m.from = g /\ m.to = b /\ m.round = 2 * i + 1
    <3> HIDE DEF new
    <3>1. CASE g = h
      <4>1. 2 * i + 1 = 2 * k + 1
        BY <1>2, <1>3, <1>5, <2>6, <3>1
      <4> QED
        BY <1>1, <2>5, <2>6, <3>1, <4>1
    <3>2. CASE g # h
      BY <1>1, <1>5, <2>6, <3>2 DEF IInv, InvMaxes
    <3> QED
      BY <3>1, <3>2
  <2> HIDE DEF new
  <2>7. \A m \in maxes' : /\ taken'[m.to] < m.round /\ m.round <= posted'[m.from]
                          /\ \E i \in Nat : m.round = 2 * i + 1
                          /\ m.max = host_max'[m.from]
    <3> QED
      BY <1>1, <1>2, <2>1, <2>3, <2>4
  <2> QED
    BY <1>1, <2>6, <2>7 DEF InvMaxes
<1>13. InvScan'
  <2>1. \A g \in Host : unseen'[g] \subseteq Masters(g)
    BY <1>1 DEF InvScan, IInv
  <2> SUFFICES ASSUME NEW g \in Host, NEW L \in SUBSET SetId, pc'[g] = "scan",
                      L = NotCovered(picked[g], Len(picked[g]) + 1)'
               PROVE  ScanOk(g, L)'
    BY <1>5, <2>1, ScanOkNext DEF InvScan
  <2>2. L = NotCovered(picked[g], Len(picked[g]) + 1) /\ pc[g] = "scan"
    BY <1>5 DEF NotCovered
  <2>3. ScanOk(g, L)
    BY <2>2 DEF InvScan, IInv
  <2>4. /\ \A t \in Thread : best[g][t].influence > 0 =>
             /\ best[g][t].node \in Masters(g)
             /\ Hits(L, best[g][t].node) = best[g][t].influence
        /\ \A v \in Masters(g) \ unseen[g] : \E t \in Thread :
             Hits(L, v) <= best[g][t].influence
    BY <2>2, <2>3 DEF ScanOk
  <2> QED
    BY <1>1, <1>5, <2>4, ScanOkNext
<1>14. InvHostMax'
  <2>1. \A g \in Host : pc'[g] \notin Chosen
    BY <1>3, <1>5 DEF Chosen
  <2> SUFFICES ASSUME NEW g \in Host, NEW L \in SUBSET SetId, pc'[g] = "max",
                      L = NotCovered(picked[g], Len(picked[g]) + 1)'
               PROVE  Greatest(host_max'[g], Masters(g), L)
    BY <1>5, <2>1, GreatestNext DEF InvHostMax
  <2>2. L = NotCovered(picked[g], Len(picked[g]) + 1)
    BY <1>5 DEF NotCovered
  <2>3. CASE g # h
    BY <1>5, <2>2, <2>3 DEF InvHostMax, IInv
  <2>4. CASE g = h
    <3>1. /\ \A t \in Thread : best[h][t].influence > 0 =>
               /\ best[h][t].node \in Masters(h)
               /\ Hits(L, best[h][t].node) = best[h][t].influence
          /\ \A v \in Masters(h) : \E t \in Thread :
               Hits(L, v) <= best[h][t].influence
      BY <1>1, <2>2, <2>4 DEF IInv, InvScan, ScanOk
    <3>2. \A t \in Thread : best[h][t].influence \in Nat
      BY <1>0, HostTypes DEF LocalMaxNode
    <3>3. \A v : Hits(L, v) \in Nat
      BY HitsNat
    <3>4. GetMaxNode(best[h]).influence \in Nat
      BY <1>4 DEF LocalMaxNode
    <3>5. \A v \in Masters(h) : Hits(L, v) <= GetMaxNode(best[h]).influence
      BY <1>4, <3>1, <3>2, <3>3, <3>4
    <3> QED
      BY <1>4, <1>5, <2>4, <3>1, <3>5 DEF Greatest
  <2> QED
    BY <2>3, <2>4
<1>15. InvPicked'
  BY <1>3, <1>5 DEF InvPicked, Chosen
<1> QED
  BY <1>6, <1>7, <1>8, <1>9, <1>10, <1>11, <1>12, <1>13, <1>14, <1>15 DEF IInv
-----------------------------------------------------------------------------
(* What a host knows that has the maxima of all hosts.                     *)

\* The others are in the same round, or have just come out of it.
LEMMA MaxPhase ==
  ASSUME TypeOK, InvPhases, NEW h \in Host, pc[h] = "max", NEW g \in Host,
         posted[g] >= posted[h]
  PROVE  \/ pc[g] = "max" /\ Len(picked[g]) = Len(picked[h])
         \/ pc[g] \in Chosen /\ Len(picked[g]) = Len(picked[h]) + 1
<1>1. Phases(g) /\ Phases(h)
  BY DEF InvPhases
<1>2. /\ Len(picked[g]) \in Nat /\ Len(picked[h]) \in Nat
      /\ taken[g] \in Nat /\ taken[h] \in Nat /\ posted[g] \in Nat /\ posted[h] \in Nat
  BY HostTypes
<1>3. /\ posted[h] = 2 * Len(picked[h]) + 1
      /\ taken[g] >= 2 * Len(picked[h]) /\ taken[g] <= posted[h]
  BY <1>1 DEF Phases
<1>4. pc[g] \in {"scan", "max", "max_barrier", "remove", "updates",
                 "updates_barrier", "done"}
  BY DEF TypeOK
<1>5. /\ pc[g] \in {"scan", "updates_barrier"} =>
           posted[g] = 2 * Len(picked[g]) /\ taken[g] = 2 * Len(picked[g])
      /\ pc[g] = "max" => taken[g] = 2 * Len(picked[g])
      /\ pc[g] \in {"max_barrier", "remove", "updates", "done"} =>
           taken[g] = 2 * Len(picked[g]) - 1
  BY <1>1 DEF Phases
<1>6. pc[g] \notin {"scan", "updates_barrier"}
  BY <1>2, <1>3, <1>5
<1> QED
  BY <1>2, <1>3, <1>4, <1>5, <1>6 DEF Chosen

LEMMA MaxKnown ==
  ASSUME TypeOK, InvPhases, InvSets, InvMaxes, InvHostMax, HostsAgree,
         NEW h \in Host, pc[h] = "max", \A g \in Host : posted[g] >= posted[h]
  PROVE  LET L == NotCovered(picked[h], Len(picked[h]) + 1)
             m == GetMaxNode(host_max)
         IN /\ HostMaxes(h) = host_max
            /\ NodesRead(m) \subseteq Node \cup {Garbage}
            /\ L # {} => /\ NodesRead(m) = {m.node}
                         /\ \A v \in Node : Hits(L, m.node) >= Hits(L, v)
<1> DEFINE k == Len(picked[h])
           L == NotCovered(picked[h], k + 1)
           m == GetMaxNode(host_max)
<1>1. Phases(h) /\ k \in Nat
  BY HostTypes DEF InvPhases
<1>2. posted[h] = 2 * k + 1 /\ taken[h] = 2 * k /\ k \in 0 .. NumNodes - 1
  BY <1>1 DEF Phases
<1>3. HostMaxes(h) = host_max
  <2>1. ASSUME NEW g \in Host \ {h}
        PROVE  (CHOOSE a \in Incoming(h, maxes) : a.from = g).max = host_max[g]
    <3>1. \E a \in maxes : a.from = g /\ a.to = h /\ a.round = 2 * k + 1
      <4>1. taken[h] < 2 * k + 1 /\ 2 * k + 1 <= posted[g]
        BY <1>2
      <4> HIDE DEF k
      <4> QED
        BY <1>2, <4>1 DEF InvMaxes
    <3>2. \E a \in Incoming(h, maxes) : a.from = g
      BY <1>2, <3>1 DEF Incoming
    <3>3. (CHOOSE a \in Incoming(h, maxes) : a.from = g) \in maxes
          /\ (CHOOSE a \in Incoming(h, maxes) : a.from = g).from = g
      BY <3>2 DEF Incoming
    <3> QED
      BY <3>3 DEF InvMaxes
  <2>2. host_max = [g \in Host |-> host_max[g]]
    BY DEF TypeOK
  <2>3. HostMaxes(h) = [g \in Host |-> host_max[g]]
    BY <2>1 DEF HostMaxes
  <2> QED
    BY <2>2, <2>3
<1>4. L \in SUBSET SetId
  BY DEF NotCovered
<1>5. ASSUME NEW g \in Host
      PROVE  Greatest(host_max[g], Masters(g), L)
  <2>1. \/ pc[g] = "max" /\ Len(picked[g]) = k
        \/ pc[g] \in Chosen /\ Len(picked[g]) = k + 1
    BY MaxPhase
  <2>2. NotCovered(picked[g], k + 1) = L
    BY <1>1, <2>1, SameLeft
  <2> HIDE DEF L, k
  <2> QED
    BY <1>4, <2>1, <2>2 DEF InvHostMax
<1>6. /\ m \in LocalMaxNode
      /\ \A g \in Host : host_max[g].influence <= m.influence
      /\ m.influence > 0 => \E g \in Host : m = host_max[g]
  <2>1. host_max \in [0 .. NumHosts - 1 -> LocalMaxNode]
    BY DEF TypeOK, Host
  <2> QED
    BY <2>1, GetMaxNodeIs DEF Host
<1> HIDE DEF L, k, m
<1>7. \A v : Hits(L, v) \in Nat /\ (Hits(L, v) > 0 <=> \E s \in L : v \in given[s])
  BY <1>4, HitsNat
<1>8. m.influence \in Nat /\ m.node \in Node \cup {Garbage}
      /\ \A g \in Host : host_max[g].influence \in Nat
  BY <1>6, HostTypes DEF LocalMaxNode
<1>9. \A v \in Node : Hits(L, v) <= m.influence
  <2> SUFFICES ASSUME NEW v \in Node
               PROVE  Hits(L, v) <= m.influence
    OBVIOUS
  <2>1. v \in Masters(Owner[v]) /\ Owner[v] \in Host
    BY DEF Masters
  <2>2. Hits(L, v) <= host_max[Owner[v]].influence
    BY <1>5, <2>1 DEF Greatest
  <2> QED
    BY <1>6, <1>7, <1>8, <2>1, <2>2
<1>10. NodesRead(m) \subseteq Node \cup {Garbage}
  BY <1>8 DEF NodesRead
<1>11. ASSUME L # {}
       PROVE  /\ NodesRead(m) = {m.node}
              /\ \A v \in Node : Hits(L, m.node) >= Hits(L, v)
  <2>1. PICK s \in L : TRUE
    BY <1>11
  <2>2. PICK v \in given[s] : Owner[v] = Home[s]
    BY <1>4, <2>1 DEF InvSets
  <2>3. v \in Node
    BY <1>4, <2>1 DEF TypeOK
  <2>4. m.influence > 0
    BY <1>7, <1>8, <1>9, <2>1, <2>2, <2>3
  <2>5. Hits(L, m.node) = m.influence
    BY <1>5, <1>6, <2>4 DEF Greatest
  <2> QED
    BY <1>7, <1>8, <1>9, <2>4, <2>5 DEF NodesRead
<1> QED
  BY <1>3, <1>10, <1>11 DEF L, k, m

LEMMA RecvMaxStep ==
  ASSUME IInv, NEW h \in Host, RecvMax(h)
  PROVE  IInv'
<1> DEFINE k == Len(picked[h])
           L == NotCovered(picked[h], k + 1)
           m == GetMaxNode(host_max)
<1>0. /\ TypeOK /\ InvPhases /\ InvSets /\ InvMaxes /\ InvHostMax /\ HostsAgree
      /\ InvRemovals /\ Phases(h)
  BY DEF IInv, InvPhases
<1>1. /\ pc[h] = "max" /\ \A g \in Host : posted[g] >= posted[h]
      /\ taken' = [taken EXCEPT ![h] = posted[h]]
      /\ view' = [view EXCEPT ![h] = X!RoundOf(h, posted[h])] /\ posted' = posted
      /\ maxes' = maxes \ Incoming(h, maxes)
      /\ pc' = [pc EXCEPT ![h] = "max_barrier"]
      /\ UNCHANGED <<unseen, best, host_max, sampled, removals, given>>
  BY DEF RecvMax, X!Take, scan
<1>2. /\ HostMaxes(h) = host_max
      /\ NodesRead(m) \subseteq Node \cup {Garbage}
      /\ L # {} => /\ NodesRead(m) = {m.node}
                   /\ \A v \in Node : Hits(L, m.node) >= Hits(L, v)
  BY <1>0, <1>1, MaxKnown
<1>3. PICK v \in NodesRead(m) : picked' = [picked EXCEPT ![h] = Append(@, v)]
  BY <1>2 DEF RecvMax
<1>4. /\ k \in Nat /\ k < NumNodes /\ posted[h] = 2 * k + 1 /\ taken[h] = 2 * k
      /\ \A g \in Host : taken[g] >= 2 * k
  BY <1>0, <1>1, HostTypes DEF Phases
<1>5. picked[h] \in Seq(Node \cup {Garbage}) /\ v \in Node \cup {Garbage}
  BY <1>0, <1>2, HostTypes
<1>6. /\ picked'[h] = Append(picked[h], v)
      /\ picked'[h] \in Seq(Node \cup {Garbage})
      /\ Len(picked'[h]) = k + 1 /\ picked'[h][k + 1] = v
      /\ \A j \in 1 .. k : picked'[h][j] = picked[h][j]
      /\ \A i \in 1 .. k + 1 : NotCovered(picked'[h], i) = NotCovered(picked[h], i)
  <2>1. picked'[h] = Append(picked[h], v)
    BY <1>0, <1>3 DEF TypeOK
  <2> QED
    BY <1>5, <2>1, NotCoveredAppend
<1>7. \A g \in Host \ {h} : /\ picked'[g] = picked[g] /\ pc'[g] = pc[g]
                            /\ taken'[g] = taken[g]
  BY <1>0, <1>1, <1>3 DEF TypeOK, X!ATypeOK
<1>8. /\ pc'[h] = "max_barrier" /\ taken'[h] = 2 * k + 1
      /\ posted' = posted /\ host_max' = host_max
  BY <1>0, <1>1, <1>4 DEF TypeOK, X!ATypeOK
<1>9. \A g \in Host : /\ posted[g] \in 0 .. Exchanges /\ taken[g] \in 0 .. Exchanges
                      /\ Len(picked[g]) \in 0 .. NumNodes /\ taken[g] <= taken'[g]
                      /\ posted[g] >= 2 * k + 1
  BY <1>0, <1>1, <1>4, <1>7, <1>8, HostTypes
<1>10. \A p, i : NotCovered(p, i)' = NotCovered(p, i)
  BY <1>1 DEF NotCovered
<1>11. ASSUME NEW g \in Host
       PROVE  \/ pc[g] = "max" /\ Len(picked[g]) = k
              \/ pc[g] \in Chosen /\ Len(picked[g]) = k + 1
  BY <1>0, <1>1, MaxPhase
<1>12. L \in SUBSET SetId
  BY DEF NotCovered
<1>13. L = NotCovered(picked[h], k + 1)
  OBVIOUS
<1> HIDE DEF k, L, m
<1>14. /\ FrequencyAccounted'
  BY <1>1, Frame DEF IInv, sampled
<1>15. TypeOK'
  <2>1. pc' \in [Host -> {"scan", "max", "max_barrier", "remove", "updates",
                             "updates_barrier", "done"}]
    BY <1>0, <1>1 DEF TypeOK
  <2>2. X!ATypeOK'
    <3>1. /\ taken' \in [Host -> 0 .. Exchanges]
          /\ X!RoundOf(h, posted[h]) \in [Host -> 0 .. Exchanges]
      BY <1>0, <1>1, <1>9, ExchangesNat DEF TypeOK, X!ATypeOK, X!RoundOf
    <3> QED
      BY <1>0, <1>1, <3>1 DEF TypeOK, X!ATypeOK
  <2>3. picked' \in [Host -> Seq(Node \cup {Garbage})]
    BY <1>0, <1>3, <1>6 DEF TypeOK
  <2>4. \A g \in Host : Len(picked'[g]) <= NumNodes
    <3>1. Len(picked'[h]) <= NumNodes
      BY <1>4, <1>6
    <3>2. \A g \in Host \ {h} : Len(picked'[g]) <= NumNodes
      BY <1>7, <1>9
    <3> QED
      BY <3>1, <3>2
  <2> QED
    BY <1>0, <1>1, <2>1, <2>2, <2>3, <2>4 DEF TypeOK, sampled
<1>16. InvPhases'
  <2> SUFFICES ASSUME NEW g \in Host
               PROVE  Phases(g)'
    BY DEF InvPhases
  <2>1. \A a \in Host : taken'[g] <= posted[a]
    <3>1. CASE g = h
      BY <1>8, <1>9, <3>1
    <3>2. CASE g # h
      BY <1>0, <1>7, <3>2 DEF InvPhases, Phases
    <3> QED
      BY <3>1, <3>2
  <2>2. CASE g = h
    <3>1. /\ pc'[h] = "max_barrier" /\ Len(picked'[h]) = k + 1
          /\ posted'[h] = 2 * (k + 1) - 1 /\ taken'[h] = 2 * (k + 1) - 1 /\ k + 1 > 0
          /\ \A a \in Host : taken'[h] <= posted'[a]
      BY <1>4, <1>6, <1>8, <2>1, <2>2
    <3> QED
      BY <2>2, <3>1 DEF Phases
  <2>3. CASE g # h
    <3>1. Phases(g)
      BY <1>0 DEF InvPhases
    <3>2. /\ pc'[g] = pc[g] /\ picked'[g] = picked[g] /\ taken'[g] = taken[g]
      BY <1>7, <2>3
    <3>3. \A b \in Int : \A a \in Host : taken[a] >= b => taken'[a] >= b
      <4>1. \A a \in Host : taken'[a] \in Int /\ taken[a] \in Int /\ taken[a] <= taken'[a]
        BY <1>4, <1>7, <1>8, <1>9
      <4> QED
        BY <4>1
    <3>4. 2 * Len(picked[g]) \in Int /\ 2 * Len(picked[g]) - 1 \in Int
      BY <1>9
    <3> QED
      BY <1>8, <2>1, <3>1, <3>2, <3>3, <3>4 DEF Phases
  <2> QED
    BY <2>2, <2>3
<1>17. InvSets'
  <2>1. ASSUME NEW s \in SetId
        PROVE  SetOk(Home[s], s)'
    <3> DEFINE g == Home[s]
    <3>1. g \in Host /\ SetOk(g, s)
      BY <1>0 DEF InvSets
    <3>2. /\ sets' = sets /\ todo' = todo /\ unread' = unread /\ given' = given
      BY <1>1 DEF sampled
    <3> HIDE DEF g
    <3>3. CASE g # h
      <4>1. pc'[g] = pc[g] /\ picked'[g] = picked[g]
        BY <1>7, <3>1, <3>3
      <4>2. \A p, i : Rest(s, p, i)' = Rest(s, p, i)
        BY <1>10, <3>2 DEF Rest
      <4> QED
        BY <3>1, <3>2, <4>1, <4>2 DEF SetOk, influential_node, g
    <3>4. CASE g = h
      <4>1. s \notin unread[h] /\ todo[s] = {} /\ sets[s] = Rest(s, picked[h], k + 1)
        BY <1>1, <3>1, <3>4 DEF SetOk, k
      <4>2. Rest(s, picked[h], k + 1) = Rest(s, picked'[h], k + 1)
        <5>1. k + 1 \in 1 .. k + 1
          BY <1>4
        <5> QED
          BY <1>6, <5>1 DEF Rest
      <4>3. Rest(s, picked'[h], k + 1) = Rest(s, picked[h], Len(picked[h]))'
        BY <1>6, <1>10, <3>2 DEF Rest
      <4> QED
        BY <1>8, <3>2, <3>4, <4>1, <4>2, <4>3 DEF SetOk, g
    <3> QED
      BY <3>3, <3>4
  <2> QED
    BY <1>0, <1>1, <2>1 DEF InvSets, sampled
<1>18. InvUpdates'
  <2>1. \A g \in Host : pc[g] # "remove" => pc'[g] # "remove"
    BY <1>7, <1>8
  <2>2. \A g \in Host : pc'[g] # "remove" => pc[g] # "remove"
    BY <1>1, <1>7
  <2> QED
    BY <1>1, <2>1, <2>2 DEF InvUpdates, IInv, sampled
<1>19. InvRemovals'
  <2>1. ASSUME NEW a \in removals
        PROVE  taken'[a.to] < a.round
    <3>1. a.to \in Host /\ a.round \in Nat /\ taken[a.to] < a.round
      BY <1>0 DEF TypeOK, InvRemovals
    <3>2. PICK i \in Nat : a.round = 2 * i
      BY <1>0 DEF InvRemovals
    <3>3. CASE a.to = h
      BY <1>4, <1>8, <3>1, <3>2, <3>3
    <3>4. CASE a.to # h
      BY <1>7, <3>1, <3>4
    <3> QED
      BY <3>3, <3>4
  <2> QED
    BY <1>0, <1>1, <2>1 DEF InvRemovals
<1>20. InvMaxes'
  <2>1. ASSUME NEW a \in maxes'
        PROVE  /\ a \in maxes /\ taken'[a.to] < a.round
    <3>1. /\ a \in maxes /\ a.to \in Host /\ a.round \in Nat /\ taken[a.to] < a.round
          /\ ~ (a.to = h /\ a.round = posted[h])
      BY <1>0, <1>1 DEF TypeOK, InvMaxes, Incoming
    <3>2. CASE a.to = h
      BY <1>4, <1>8, <3>1, <3>2
    <3>3. CASE a.to # h
      BY <1>7, <3>1, <3>3
    <3> QED
      BY <3>1, <3>2, <3>3
  <2>2. ASSUME NEW g \in Host, NEW b \in Host, NEW i \in 0 .. NumNodes - 1,
               g # b, taken'[b] < 2 * i + 1, 2 * i + 1 <= posted[g]
        PROVE  \E a \in maxes' : a.from = g /\ a.to = b /\ a.round = 2 * i + 1
    <3>1. taken[b] < 2 * i + 1
      <4>1. taken[b] <= taken'[b] /\ taken[b] \in Int /\ taken'[b] \in Int
        BY <1>4, <1>7, <1>8, <1>9
      <4> QED
        BY <2>2, <4>1
    <3>2. PICK a \in maxes : a.from = g /\ a.to = b /\ a.round = 2 * i + 1
      BY <1>0, <2>2, <3>1 DEF InvMaxes
    <3>3. ~ (a.to = h /\ a.round = posted[h])
      BY <1>4, <1>8, <2>2, <3>2
    <3> QED
      BY <1>1, <3>2, <3>3 DEF Incoming
  <2> QED
    BY <1>0, <1>8, <2>1, <2>2 DEF InvMaxes
<1>21. InvScan'
  <2>1. \A g \in Host : pc'[g] # "scan"
    BY <1>7, <1>8, <1>11 DEF Chosen
  <2> QED
    BY <1>1, <2>1 DEF IInv, InvScan, ScanOk
<1>22. InvHostMax'
  <2> SUFFICES ASSUME NEW g \in Host, NEW M \in SUBSET SetId
               PROVE  /\ pc'[g] = "max" /\ M = NotCovered(picked'[g], Len(picked'[g]) + 1) =>
                           Greatest(host_max[g], Masters(g), M)
                      /\ pc'[g] \in Chosen /\ M = NotCovered(picked'[g], Len(picked'[g])) =>
                           Greatest(host_max[g], Masters(g), M)
    BY <1>1, <1>8, <1>10, GreatestNext DEF InvHostMax
  <2>1. CASE g = h
    <3>1. NotCovered(picked'[h], Len(picked'[h])) = L
      BY <1>4, <1>6, <1>13
    <3>2. Greatest(host_max[h], Masters(h), L)
      BY <1>0, <1>1, <1>12, <1>13 DEF InvHostMax, k
    <3> QED
      BY <1>8, <2>1, <3>1, <3>2
  <2>2. CASE g # h
    BY <1>0, <1>7, <2>2 DEF InvHostMax
  <2> QED
    BY <2>1, <2>2
<1>23. InvPicked'
  <2> SUFFICES ASSUME NEW g \in Host, pc'[g] \in Chosen
               PROVE  picked'[g][Len(picked'[g])] \in NodesRead(m)
    BY <1>8 DEF InvPicked, influential_node, m, NodesRead, GetMaxNode
  <2>1. CASE g = h
    BY <1>3, <1>6, <2>1
  <2>2. CASE g # h
    BY <1>7, <2>2 DEF IInv, InvPicked, influential_node, m
  <2> QED
    BY <2>1, <2>2
\* Choice k + 1 of another host that has made it.
<1>24. ASSUME NEW g \in Host, L # {}, k + 1 <= Len(picked'[g])
       PROVE  picked'[g][k + 1] = m.node
  <2>1. CASE g = h
    BY <1>2, <1>3, <1>6, <1>24, <2>1
  <2>2. CASE g # h
    <3>1. pc[g] \in Chosen /\ Len(picked[g]) = k + 1
      BY <1>4, <1>7, <1>11, <1>24, <2>2
    <3>2. picked[g][k + 1] \in NodesRead(m)
      BY <3>1 DEF IInv, InvPicked, influential_node, m
    <3> QED
      BY <1>2, <1>7, <1>24, <2>2, <3>2
  <2> QED
    BY <2>1, <2>2
<1>25. ASSUME NEW g \in Host
       PROVE  /\ NotCovered(picked[g], k + 1) = L
              /\ \A i \in 1 .. k + 1 : NotCovered(picked'[g], i) = NotCovered(picked[g], i)
              /\ Len(picked'[g]) \in {k, k + 1}
              /\ \A i \in 1 .. k : picked'[g][i] = picked[g][i]
              /\ Len(picked[g]) >= k
  <2>1. Len(picked[g]) \in {k, k + 1}
    BY <1>11
  <2>2. NotCovered(picked[g], k + 1) = L
    BY <1>0, <1>4, <1>13, <2>1, SameLeft DEF k
  <2>3. CASE g = h
    <3>1. Len(picked[h]) >= k
      BY <1>4 DEF k
    <3>2. Len(picked'[h]) \in {k, k + 1}
      BY <1>6
    <3>3. /\ \A i \in 1 .. k + 1 : NotCovered(picked'[h], i) = NotCovered(picked[h], i)
          /\ \A i \in 1 .. k : picked'[h][i] = picked[h][i]
      BY <1>6
    <3> QED
      BY <2>2, <2>3, <3>1, <3>2, <3>3
  <2>4. CASE g # h
    BY <1>4, <1>7, <2>1, <2>2, <2>4
  <2> QED
    BY <2>3, <2>4
<1>26. HostsAgree'
  <2> SUFFICES ASSUME NEW a \in Host, NEW b \in Host, NEW i \in 1 .. Len(picked'[b]),
                      i <= Len(picked'[a]), NotCovered(picked'[b], i) # {}
               PROVE  picked'[a][i] = picked'[b][i]
    BY <1>10 DEF HostsAgree
  <2>1. i \in 1 .. k + 1
    BY <1>4, <1>25
  <2>2. NotCovered(picked[b], i) # {}
    BY <1>25, <2>1
  <2>3. CASE i = k + 1
    BY <1>24, <1>25, <2>2, <2>3
  <2>4. CASE i # k + 1
    <3>1. i \in 1 .. k /\ i \in 1 .. Len(picked[b]) /\ i <= Len(picked[a])
      BY <1>4, <1>9, <1>25, <2>1, <2>4
    <3>2. picked[a][i] = picked[b][i]
      BY <1>0, <2>2, <3>1 DEF HostsAgree
    <3> QED
      BY <1>25, <3>1, <3>2
  <2> QED
    BY <2>3, <2>4
<1>27. GreedyChoice'
  <2> SUFFICES ASSUME NEW a \in Host, NEW i \in 1 .. Len(picked'[a])
               PROVE  GreedyAt(picked[a], i)'
    BY GreedyIs
  <2>1. i \in 1 .. k + 1
    BY <1>4, <1>25
  <2> SUFFICES ASSUME NotCovered(picked'[a], i) # {}, NEW w \in Node
               PROVE  Hits(NotCovered(picked'[a], i), picked'[a][i])
                        >= Hits(NotCovered(picked'[a], i), w)
    <3> DEFINE M == NotCovered(picked'[a], i)
               Good == M # {} => \A w \in Node : Hits(M, picked'[a][i]) >= Hits(M, w)
    <3>1. Good => GreedyAt(picked[a], i)'
      BY <1>1 DEF GreedyAt, Hits, NotCovered
    <3> QED
      BY <3>1
  <2>2. NotCovered(picked'[a], i) = NotCovered(picked[a], i)
    BY <1>25, <2>1
  <2>3. CASE i = k + 1
    <3>1. NotCovered(picked'[a], i) = L
      BY <1>25, <2>2, <2>3
    <3>2. picked'[a][i] = m.node
      BY <1>24, <2>3, <3>1
    <3> QED
      BY <1>2, <3>1, <3>2
  <2>4. CASE i # k + 1
    <3>1. i \in 1 .. k /\ i \in 1 .. Len(picked[a]) /\ picked'[a][i] = picked[a][i]
      BY <1>4, <1>9, <1>25, <2>1, <2>4
    <3>2. GreedyAt(picked[a], i)
      BY <3>1, GreedyIs DEF IInv
    <3> QED
      BY <2>2, <3>1, <3>2 DEF GreedyAt
  <2> QED
    BY <2>3, <2>4
<1> QED
  BY <1>14, <1>15, <1>16, <1>17, <1>18, <1>19, <1>20, <1>21, <1>22, <1>23, <1>26, <1>27
     DEF IInv
-----------------------------------------------------------------------------
(* The barriers.                                                           *)

\* What the choice was made from, while the choice stands.
LEMMA ChoiceFrame ==
  ASSUME UNCHANGED <<host_max, picked, given>>
  PROVE  /\ /\ InvScan /\ UNCHANGED <<unseen, best>>
            /\ \A g \in Host : pc'[g] = "scan" => pc[g] = "scan"
            => InvScan'
         /\ /\ InvHostMax
            /\ \A g \in Host : /\ pc'[g] = "max" => pc[g] = "max"
                               /\ pc'[g] \in Chosen => pc[g] \in Chosen
            => InvHostMax'
         /\ /\ InvPicked
            /\ \A g \in Host : pc'[g] \in Chosen => pc[g] \in Chosen
            => InvPicked'
<1>1. \A p, i : NotCovered(p, i)' = NotCovered(p, i)
  BY DEF NotCovered
<1>2. ASSUME InvScan, UNCHANGED <<unseen, best>>,
             \A g \in Host : pc'[g] = "scan" => pc[g] = "scan"
      PROVE  InvScan'
  <2> SUFFICES ASSUME NEW g \in Host, NEW L \in SUBSET SetId, pc'[g] = "scan",
                      L = NotCovered(picked[g], Len(picked[g]) + 1)'
               PROVE  ScanOk(g, L)'
    BY <1>2, ScanOkNext DEF InvScan
  <2>1. L = NotCovered(picked[g], Len(picked[g]) + 1)
    BY <1>1
  <2>2. /\ \A t \in Thread : best[g][t].influence > 0 =>
             /\ best[g][t].node \in Masters(g)
             /\ Hits(L, best[g][t].node) = best[g][t].influence
        /\ \A v \in Masters(g) \ unseen[g] : \E t \in Thread :
             Hits(L, v) <= best[g][t].influence
    BY <1>2, <2>1 DEF InvScan, ScanOk
  <2> QED
    BY <1>2, <2>2, ScanOkNext
<1>3. ASSUME InvHostMax,
             \A g \in Host : /\ pc'[g] = "max" => pc[g] = "max"
                             /\ pc'[g] \in Chosen => pc[g] \in Chosen
      PROVE  InvHostMax'
  BY <1>1, <1>3, GreatestNext DEF InvHostMax
<1>4. ASSUME InvPicked, \A g \in Host : pc'[g] \in Chosen => pc[g] \in Chosen
      PROVE  InvPicked'
  BY <1>4 DEF InvPicked, influential_node, NodesRead, GetMaxNode
<1> QED
  BY <1>2, <1>3, <1>4

LEMMA LeaveMaxStep ==
  ASSUME IInv, NEW h \in Host, LeaveMaxBarrier(h)
  PROVE  IInv'
<1>0. TypeOK /\ Phases(h) /\ InvSets
  BY DEF IInv, InvPhases
<1>1. /\ pc[h] = "max_barrier" /\ \A g \in Host : taken[g] >= taken[h]
      /\ pc' = [pc EXCEPT ![h] = IF Enough(h) THEN "done" ELSE "remove"]
      /\ unread' = [unread EXCEPT ![h] = IF Enough(h) THEN {} ELSE SetsOf(h)]
      /\ UNCHANGED <<scan, picked, sets, todo, updates, freq, maxes, removals,
                     network, given>>
  BY DEF LeaveMaxBarrier, BarrierOpen
<1>2. /\ pc'[h] = (IF Enough(h) THEN "done" ELSE "remove")
      /\ unread'[h] = (IF Enough(h) THEN {} ELSE SetsOf(h))
      /\ \A g \in Host \ {h} : pc'[g] = pc[g] /\ unread'[g] = unread[g]
  BY <1>0, <1>1 DEF TypeOK
<1>3. Len(picked[h]) \in 0 .. NumNodes
      /\ (Enough(h) <=> Len(picked[h]) = NumNodes)
  <2>1. Len(picked[h]) \in 0 .. NumNodes
    BY <1>0, HostTypes
  <2> QED
    BY <2>1 DEF Enough
<1>4. InvRemovals' /\ InvMaxes' /\ FrequencyAccounted' /\ HostsAgree' /\ GreedyChoice'
  BY <1>1, Frame DEF IInv, scan, network
<1>5. InvScan' /\ InvHostMax' /\ InvPicked'
  <2>1. \A g \in Host : /\ pc'[g] = "scan" => pc[g] = "scan"
                        /\ pc'[g] = "max" => pc[g] = "max"
                        /\ pc'[g] \in Chosen => pc[g] \in Chosen
    BY <1>1, <1>2 DEF Chosen
  <2> QED
    BY <1>1, <2>1, ChoiceFrame DEF IInv, scan
<1>6. TypeOK'
  <2>1. /\ pc' \in [Host -> {"scan", "max", "max_barrier", "remove", "updates",
                             "updates_barrier", "done"}]
        /\ unread' \in [Host -> SUBSET SetId]
    BY <1>0, <1>1 DEF TypeOK, SetsOf
  <2> QED
    BY <1>0, <1>1, <2>1 DEF TypeOK, X!ATypeOK, scan, network
<1>7. InvPhases'
  <2> SUFFICES ASSUME NEW g \in Host
               PROVE  Phases(g)'
    BY DEF InvPhases
  <2>1. UNCHANGED <<picked, posted, taken>>
    BY <1>1 DEF network
  <2>2. CASE g = h
    <3>1. /\ Len(picked[h]) > 0 /\ posted[h] = 2 * Len(picked[h]) - 1
          /\ taken[h] = 2 * Len(picked[h]) - 1
          /\ \A a \in Host : taken[h] <= posted[a]
      BY <1>0, <1>1 DEF Phases
    <3>2. \A a \in Host : taken[a] >= 2 * Len(picked[h]) - 1
      BY <1>1, <3>1
    <3>3. pc'[h] \in {"remove", "done"}
          /\ (pc'[h] = "done" => Len(picked[h]) = NumNodes)
          /\ (pc'[h] = "remove" => Len(picked[h]) < NumNodes)
      BY <1>2, <1>3
    <3> QED
      BY <2>1, <2>2, <3>1, <3>2, <3>3 DEF Phases
  <2>3. CASE g # h
    <3>1. Phases(g) /\ pc'[g] = pc[g]
      BY <1>2, <2>3 DEF IInv, InvPhases
    <3> QED
      BY <2>1, <3>1 DEF Phases
  <2> QED
    BY <2>2, <2>3
<1>8. InvSets'
  <2>1. ASSUME NEW s \in SetId
        PROVE  SetOk(Home[s], s)'
    <3> DEFINE g == Home[s]
    <3>1. g \in Host /\ SetOk(g, s)
      BY <1>0 DEF InvSets
    <3>2. /\ sets' = sets /\ todo' = todo /\ given' = given /\ picked' = picked
          /\ \A p, i : Rest(s, p, i)' = Rest(s, p, i)
      BY <1>1 DEF Rest, NotCovered
    <3>3. g = h => s \in SetsOf(h)
      BY DEF SetsOf
    <3> HIDE DEF g
    <3>4. CASE g = h
      <4>1. s \notin unread[h] /\ todo[s] = {} /\ sets[s] = Rest(s, picked[h], Len(picked[h]))
        BY <1>1, <3>1, <3>4 DEF SetOk
      <4>2. \/ pc'[h] = "done" /\ s \notin unread'[h]
            \/ pc'[h] = "remove" /\ s \in unread'[h]
        BY <1>2, <3>3, <3>4
      <4> QED
        BY <3>2, <3>4, <4>1, <4>2 DEF SetOk, g
    <3>5. CASE g # h
      <4>1. pc'[g] = pc[g] /\ unread'[g] = unread[g]
        BY <1>2, <3>1, <3>5
      <4> QED
        BY <3>1, <3>2, <4>1 DEF SetOk, influential_node, g
    <3> QED
      BY <3>4, <3>5
  <2>2. \A s \in SetId : \A g \in Host : s \in unread'[g] => g = Home[s]
    <3>1. \A s \in SetId : s \in unread'[h] => h = Home[s]
      BY <1>2 DEF SetsOf
    <3> QED
      BY <1>0, <1>2, <3>1 DEF InvSets
  <2> QED
    BY <1>0, <1>1, <2>1, <2>2 DEF InvSets
<1>9. InvUpdates'
  <2>1. \A g \in Host : pc'[g] # "remove" => pc[g] # "remove"
    BY <1>1, <1>2
  <2> QED
    BY <1>1, <2>1 DEF InvUpdates, IInv
<1> QED
  BY <1>4, <1>5, <1>6, <1>7, <1>8, <1>9 DEF IInv

LEMMA LeaveUpdatesStep ==
  ASSUME IInv, NEW h \in Host, LeaveUpdatesBarrier(h)
  PROVE  IInv'
<1>0. TypeOK /\ Phases(h) /\ InvSets
  BY DEF IInv, InvPhases
<1>1. /\ pc[h] = "updates_barrier" /\ \A g \in Host : taken[g] >= taken[h]
      /\ pc' = [pc EXCEPT ![h] = "scan"]
      /\ unseen' = [unseen EXCEPT ![h] = Masters(h)]
      /\ best' = [best EXCEPT ![h] = [t \in Thread |-> NoMax]]
      /\ UNCHANGED <<host_max, picked, sampled, maxes, removals, network, given>>
  BY DEF LeaveUpdatesBarrier, BarrierOpen
<1>2. /\ pc'[h] = "scan" /\ unseen'[h] = Masters(h)
      /\ best'[h] = [t \in Thread |-> NoMax]
      /\ \A g \in Host \ {h} : pc'[g] = pc[g] /\ unseen'[g] = unseen[g] /\ best'[g] = best[g]
  BY <1>0, <1>1 DEF TypeOK
<1>3. NoMax \in LocalMaxNode /\ NoMax.influence = 0
  BY DEF NoMax, LocalMaxNode
<1>4. InvRemovals' /\ InvMaxes' /\ FrequencyAccounted' /\ HostsAgree' /\ GreedyChoice'
  BY <1>1, Frame DEF IInv, sampled, network
<1>5. InvHostMax' /\ InvPicked'
  <2>1. \A g \in Host : /\ pc'[g] = "max" => pc[g] = "max"
                        /\ pc'[g] \in Chosen => pc[g] \in Chosen
    BY <1>1, <1>2 DEF Chosen
  <2> QED
    BY <1>1, <2>1, ChoiceFrame DEF IInv
<1>6. TypeOK'
  <2>1. /\ pc' \in [Host -> {"scan", "max", "max_barrier", "remove", "updates",
                             "updates_barrier", "done"}]
        /\ unseen' \in [Host -> SUBSET Node]
        /\ best' \in [Host -> [Thread -> LocalMaxNode]]
    BY <1>0, <1>1, <1>3 DEF TypeOK, Masters
  <2> QED
    BY <1>0, <1>1, <2>1 DEF TypeOK, X!ATypeOK, sampled, network
<1>7. InvPhases'
  <2> SUFFICES ASSUME NEW g \in Host
               PROVE  Phases(g)'
    BY DEF InvPhases
  <2>1. UNCHANGED <<picked, posted, taken>>
    BY <1>1 DEF network
  <2>2. CASE g = h
    <3>1. /\ posted[h] = 2 * Len(picked[h]) /\ taken[h] = 2 * Len(picked[h])
          /\ Len(picked[h]) < NumNodes
          /\ \A a \in Host : taken[h] <= posted[a]
      BY <1>0, <1>1 DEF Phases
    <3>2. \A a \in Host : taken[a] >= 2 * Len(picked[h])
      BY <1>1, <3>1
    <3> QED
      BY <1>2, <2>1, <2>2, <3>1, <3>2 DEF Phases
  <2>3. CASE g # h
    <3>1. Phases(g) /\ pc'[g] = pc[g]
      BY <1>2, <2>3 DEF IInv, InvPhases
    <3> QED
      BY <2>1, <3>1 DEF Phases
  <2> QED
    BY <2>2, <2>3
<1>8. InvSets'
  <2>1. ASSUME NEW s \in SetId
        PROVE  SetOk(Home[s], s)'
    <3> DEFINE g == Home[s]
    <3>1. g \in Host /\ SetOk(g, s)
      BY <1>0 DEF InvSets
    <3>2. /\ sets' = sets /\ todo' = todo /\ given' = given /\ picked' = picked
          /\ unread' = unread
          /\ \A p, i : Rest(s, p, i)' = Rest(s, p, i)
      BY <1>1 DEF Rest, NotCovered, sampled
    <3> HIDE DEF g
    <3>3. CASE g = h
      BY <1>1, <1>2, <3>1, <3>2, <3>3 DEF SetOk, g
    <3>4. CASE g # h
      <4>1. pc'[g] = pc[g]
        BY <1>2, <3>1, <3>4
      <4> QED
        BY <3>1, <3>2, <4>1 DEF SetOk, influential_node, g
    <3> QED
      BY <3>3, <3>4
  <2> QED
    BY <1>0, <1>1, <2>1 DEF InvSets, sampled
<1>9. InvUpdates'
  <2>1. \A g \in Host : pc'[g] # "remove" => pc[g] # "remove"
    BY <1>1, <1>2
  <2> QED
    BY <1>1, <2>1 DEF InvUpdates, IInv, sampled
<1>10. InvScan'
  <2>1. \A g \in Host : unseen'[g] \subseteq Masters(g)
    BY <1>2 DEF IInv, InvScan
  <2> SUFFICES ASSUME NEW g \in Host, NEW L \in SUBSET SetId, pc'[g] = "scan",
                      L = NotCovered(picked[g], Len(picked[g]) + 1)'
               PROVE  ScanOk(g, L)'
    BY <1>1, <2>1, ScanOkNext DEF InvScan
  <2>2. CASE g = h
    BY <1>1, <1>2, <1>3, <2>2, ScanOkNext
  <2>3. CASE g # h
    <3>1. L = NotCovered(picked[g], Len(picked[g]) + 1) /\ pc[g] = "scan"
      BY <1>1, <1>2, <2>3 DEF NotCovered
    <3>2. /\ \A t \in Thread : best[g][t].influence > 0 =>
               /\ best[g][t].node \in Masters(g)
               /\ Hits(L, best[g][t].node) = best[g][t].influence
          /\ \A v \in Masters(g) \ unseen[g] : \E t \in Thread :
               Hits(L, v) <= best[g][t].influence
      BY <3>1 DEF IInv, InvScan, ScanOk
    <3> QED
      BY <1>1, <1>2, <2>3, <3>2, ScanOkNext
  <2> QED
    BY <2>2, <2>3
<1> QED
  BY <1>4, <1>5, <1>6, <1>7, <1>8, <1>9, <1>10 DEF IInv
-----------------------------------------------------------------------------
(* Removal of the sets that hold the chosen node.                          *)

\* A host with its sets, while it removes.
LEMMA RemovePhase ==
  ASSUME TypeOK, InvPhases, NEW h \in Host, pc[h] = "remove"
  PROVE  /\ Len(picked[h]) \in Nat \ {0}
         /\ \A s \in SetId : s \in NotCovered(picked[h], Len(picked[h]) + 1) <=>
              /\ s \in NotCovered(picked[h], Len(picked[h]))
              /\ influential_node(h) \notin given[s]
<1>1. Len(picked[h]) \in Nat \ {0}
  BY HostTypes DEF InvPhases, Phases
<1> QED
  BY <1>1, NotCoveredIs DEF influential_node

LEMMA LookIntoStep ==
  ASSUME IInv, NEW h \in Host, NEW s \in SetId, LookInto(h, s)
  PROVE  IInv'
<1> DEFINE k == Len(picked[h])
<1>0. TypeOK /\ InvPhases /\ InvSets
  BY DEF IInv
<1>1. /\ pc[h] = "remove" /\ s \in unread[h]
      /\ unread' = [unread EXCEPT ![h] = @ \ {s}]
      /\ todo' = [todo EXCEPT ![s] =
                    IF influential_node(h) \in sets[s] THEN sets[s] ELSE {}]
      /\ UNCHANGED <<pc, scan, picked, sets, updates, freq, maxes, removals,
                     network, given>>
  BY DEF LookInto
<1>2. /\ todo'[s] = (IF influential_node(h) \in sets[s] THEN sets[s] ELSE {})
      /\ \A z \in SetId \ {s} : todo'[z] = todo[z]
      /\ unread'[h] = unread[h] \ {s}
      /\ \A g \in Host \ {h} : unread'[g] = unread[g]
  BY <1>0, <1>1 DEF TypeOK
<1>3. Home[s] = h /\ todo[s] = {} /\ sets[s] = Rest(s, picked[h], k)
  BY <1>0, <1>1 DEF InvSets, SetOk
<1>4. /\ InvPhases' /\ InvUpdates' /\ InvRemovals' /\ InvMaxes' /\ InvScan' /\ InvHostMax'
      /\ InvPicked' /\ HostsAgree' /\ GreedyChoice'
  BY <1>1, Frame DEF IInv, scan, network
<1>5. TypeOK'
  <2>1. /\ unread' \in [Host -> SUBSET SetId]
        /\ todo' \in [SetId -> SUBSET Node]
    BY <1>0, <1>1 DEF TypeOK
  <2> QED
    BY <1>0, <1>1, <2>1 DEF TypeOK, X!ATypeOK, scan, network
<1>6. InvSets'
  <2>1. ASSUME NEW z \in SetId
        PROVE  SetOk(Home[z], z)'
    <3>1. /\ pc' = pc /\ sets' = sets /\ given' = given /\ picked' = picked
          /\ \A p, i : Rest(z, p, i)' = Rest(z, p, i)
      BY <1>1 DEF Rest, NotCovered
    <3>2. SetOk(Home[z], z) /\ Home[z] \in Host
      BY <1>0 DEF InvSets
    <3>3. CASE z = s
      <4>1. \/ todo'[s] = {} /\ sets[s] = Rest(s, picked[h], k + 1)
            \/ /\ todo'[s] # {} /\ todo'[s] \subseteq given[s]
               /\ sets[s] = given[s]
               /\ influential_node(h) \in given[s]
        <5>1. s \in NotCovered(picked[h], k + 1) <=>
                s \in NotCovered(picked[h], k) /\ influential_node(h) \notin given[s]
          BY <1>0, <1>1, RemovePhase
        <5>2. CASE influential_node(h) \in sets[s]
          BY <1>2, <1>3, <5>2 DEF Rest
        <5>3. CASE influential_node(h) \notin sets[s]
          BY <1>2, <1>3, <5>1, <5>3 DEF Rest
        <5> QED
          BY <5>2, <5>3
      <4>2. s \notin unread'[h]
        BY <1>2
      <4> HIDE DEF k
      <4>3. k = Len(picked[h])
        BY DEF k
      <4> QED
        BY <1>1, <1>3, <3>1, <3>3, <4>1, <4>2, <4>3 DEF SetOk, influential_node
    <3>4. CASE z # s
      <4>1. todo'[z] = todo[z] /\ (z \in unread'[Home[z]] <=> z \in unread[Home[z]])
        BY <1>2, <3>2, <3>4
      <4> QED
        BY <3>1, <3>2, <4>1 DEF SetOk, influential_node
    <3> QED
      BY <3>3, <3>4
  <2>2. \A g \in Host : unread'[g] \subseteq unread[g]
    BY <1>2
  <2> QED
    BY <1>0, <1>1, <2>1, <2>2 DEF InvSets
<1>7. FrequencyAccounted'
  <2>1. \A z \in SetId : Standing(z)' = Standing(z)
    BY <1>1, <1>2, <1>3 DEF Standing
  <2>2. \A v : Counting(v)' = Counting(v)
    BY <2>1 DEF Counting
  <2>3. \A v : Pending(v)' = Pending(v)
    BY <1>1 DEF Pending
  <2> QED
    BY <1>1, <2>2, <2>3, AccountIs DEF IInv
<1> QED
  BY <1>4, <1>5, <1>6, <1>7 DEF IInv

LEMMA UncountStep ==
  ASSUME IInv, NEW h \in Host, NEW s \in SetId, NEW v \in Node, Uncount(h, s, v)
  PROVE  IInv'
<1> DEFINE k == Len(picked[h])
<1>0. TypeOK /\ InvPhases /\ InvSets /\ InvRemovals /\ FrequencyAccounted
  BY DEF IInv
<1>1. /\ pc[h] = "remove" /\ Home[s] = h /\ v \in todo[s]
      /\ IF Owner[v] = h
           THEN freq' = [freq EXCEPT ![v] = @ - 1] /\ UNCHANGED updates
           ELSE updates' = [updates EXCEPT ![h][v] = @ + 1] /\ UNCHANGED freq
      /\ todo' = [todo EXCEPT ![s] = @ \ {v}]
      /\ sets' = [sets EXCEPT ![s] = Cleared(s, v)]
      /\ UNCHANGED <<pc, scan, picked, unread, maxes, removals, network, given>>
  BY DEF Uncount
<1>2. /\ todo'[s] = todo[s] \ {v}
      /\ sets'[s] = (IF todo[s] = {v} THEN {} ELSE sets[s])
      /\ \A z \in SetId \ {s} : todo'[z] = todo[z] /\ sets'[z] = sets[z]
  BY <1>0, <1>1 DEF TypeOK, Cleared
<1>3. /\ s \notin unread[h] /\ todo[s] # {} /\ todo[s] \subseteq given[s]
      /\ sets[s] = given[s] /\ influential_node(h) \in given[s]
  BY <1>0, <1>1 DEF InvSets, SetOk
<1>4. /\ InvPhases' /\ InvRemovals' /\ InvMaxes' /\ InvScan' /\ InvHostMax'
      /\ InvPicked' /\ HostsAgree' /\ GreedyChoice'
  BY <1>1, Frame DEF IInv, scan, network
<1>5. Standing(s)' = Standing(s) \ {v} /\ v \in Standing(s)
      /\ \A z \in SetId \ {s} : Standing(z)' = Standing(z)
  BY <1>1, <1>2 DEF Standing
<1>6. /\ Counting(v)' = Counting(v) \ {s} /\ s \in Counting(v)
      /\ \A w : w # v => Counting(w)' = Counting(w)
  BY <1>5 DEF Counting
<1>7. Cardinality(Counting(v)') = Cardinality(Counting(v)) - 1
      /\ Cardinality(Counting(v)) \in Nat /\ Cardinality(Counting(v)) >= 1
  <2>1. IsFiniteSet(Counting(v)) /\ Cardinality(Counting(v)) \in Nat
    BY CountingIs
  <2>2. Cardinality(Counting(v) \ {s}) = Cardinality(Counting(v)) - 1
        /\ Cardinality(Counting(v) \ {s}) \in Nat
    BY <1>6, <2>1, FS_RemoveElement, FS_CardinalityType
  <2> QED
    BY <1>6, <2>1, <2>2
<1>8. freq[v] \in Nat /\ freq[v] >= 1
  <2>1. freq[v] >= Cardinality(Counting(v))
    BY <1>0, FreqEnough
  <2>2. freq[v] \in Nat
    BY <1>0 DEF TypeOK
  <2> QED
    BY <1>7, <2>1, <2>2
<1>9. freq' \in [Node -> Nat] /\ updates' \in [Host -> [Node -> Nat]]
  <2>1. updates[h] \in [Node -> Nat] /\ updates[h][v] + 1 \in Nat
    BY <1>0 DEF TypeOK
  <2>2. CASE Owner[v] = h
    <3>1. freq[v] - 1 \in Nat /\ freq \in [Node -> Nat] /\ updates \in [Host -> [Node -> Nat]]
      BY <1>0, <1>8 DEF TypeOK
    <3>2. freq' = [freq EXCEPT ![v] = freq[v] - 1] /\ updates' = updates
      BY <1>1, <2>2
    <3> QED
      BY <3>1, <3>2
  <2>3. CASE Owner[v] # h
    <3>1. freq \in [Node -> Nat] /\ updates \in [Host -> [Node -> Nat]]
      BY <1>0 DEF TypeOK
    <3>2. updates' = [updates EXCEPT ![h] = [updates[h] EXCEPT ![v] = updates[h][v] + 1]]
          /\ freq' = freq
      BY <1>1, <2>3
    <3>3. [updates[h] EXCEPT ![v] = updates[h][v] + 1] \in [Node -> Nat]
      BY <2>1
    <3> QED
      BY <3>1, <3>2, <3>3
  <2> QED
    BY <2>2, <2>3
<1>10. TypeOK'
  <2>1. /\ sets' \in [SetId -> SUBSET Node]
        /\ todo' \in [SetId -> SUBSET Node]
    BY <1>0, <1>1 DEF TypeOK, Cleared
  <2> QED
    BY <1>0, <1>1, <1>9, <2>1 DEF TypeOK, X!ATypeOK, scan, network
<1>11. InvSets'
  <2>1. ASSUME NEW z \in SetId
        PROVE  SetOk(Home[z], z)'
    <3>1. /\ pc' = pc /\ unread' = unread /\ given' = given /\ picked' = picked
          /\ \A p, i : Rest(z, p, i)' = Rest(z, p, i)
      BY <1>1 DEF Rest, NotCovered
    <3>2. SetOk(Home[z], z) /\ Home[z] \in Host
      BY <1>0 DEF InvSets
    <3>3. CASE z = s
      <4>1. s \notin NotCovered(picked[h], k + 1)
        BY <1>0, <1>1, <1>3, RemovePhase
      <4>2. \/ todo'[s] = {} /\ sets'[s] = Rest(s, picked[h], k + 1)
            \/ /\ todo'[s] # {} /\ todo'[s] \subseteq given[s]
               /\ sets'[s] = given[s]
               /\ influential_node(h) \in given[s]
        BY <1>2, <1>3, <4>1 DEF Rest
      <4> HIDE DEF k
      <4>3. k = Len(picked[h])
        BY DEF k
      <4> QED
        BY <1>1, <1>3, <3>1, <3>3, <4>2, <4>3 DEF SetOk, influential_node
    <3>4. CASE z # s
      <4>1. todo'[z] = todo[z] /\ sets'[z] = sets[z]
        BY <1>2, <3>4
      <4> QED
        BY <3>1, <3>2, <4>1 DEF SetOk, influential_node
    <3> QED
      BY <3>3, <3>4
  <2> QED
    BY <1>0, <1>1, <2>1 DEF InvSets
<1>12. InvUpdates'
  <2>1. CASE Owner[v] = h
    BY <1>1, <2>1 DEF IInv, InvUpdates
  <2>2. CASE Owner[v] # h
    <3>1. \A g \in Host, w \in Node : g # h \/ w # v => updates'[g][w] = updates[g][w]
      BY <1>0, <1>1, <2>2 DEF TypeOK
    <3> QED
      BY <1>1, <2>2, <3>1 DEF IInv, InvUpdates
  <2> QED
    BY <2>1, <2>2
<1>13. FrequencyAccounted'
  <2> SUFFICES ASSUME NEW w \in Node
               PROVE  freq'[w] = Cardinality(Counting(w)') + Pending(w)' + Subtracted(removals', w)
    BY AccountIs
  <2>1. /\ freq[w] = Cardinality(Counting(w)) + Pending(w) + Subtracted(removals, w)
        /\ removals' = removals
    BY <1>0, <1>1, AccountIs
  <2>2. /\ Cardinality(Counting(w)) \in Nat /\ Pending(w) \in Nat
        /\ Subtracted(removals, w) \in Nat
    BY <1>0, CountingIs, PendingIs, SubtractedIs, RemovalsNatural DEF InvRemovals
  <2>3. \A g \in Host \ {h} : updates'[g][w] = updates[g][w]
    BY <1>0, <1>1 DEF TypeOK
  <2>4. Pending(w)' = Pending(w) - updates[h][w] + updates'[h][w]
    BY <1>0, <1>9, <2>3, PendingStep
  <2>5. updates[h][w] \in Nat
    BY <1>0 DEF TypeOK
  <2>6. CASE w # v
    <3>1. freq'[w] = freq[w] /\ updates'[h][w] = updates[h][w]
      BY <1>0, <1>1, <2>6 DEF TypeOK
    <3>2. Counting(w)' = Counting(w)
      BY <1>6, <2>6
    <3> QED
      BY <2>1, <2>2, <2>4, <2>5, <3>1, <3>2
  <2>7. CASE w = v
    <3>1. CASE Owner[v] = h
      <4>1. freq'[v] = freq[v] - 1 /\ updates'[h][v] = updates[h][v]
        BY <1>0, <1>1, <3>1 DEF TypeOK
      <4> QED
        BY <1>7, <2>1, <2>2, <2>4, <2>5, <2>7, <4>1
    <3>2. CASE Owner[v] # h
      <4>1. freq'[v] = freq[v] /\ updates'[h][v] = updates[h][v] + 1
        BY <1>0, <1>1, <3>2 DEF TypeOK
      <4> QED
        BY <1>7, <2>1, <2>2, <2>4, <2>5, <2>7, <4>1
    <3> QED
      BY <3>1, <3>2
  <2> QED
    BY <2>6, <2>7
<1> QED
  BY <1>4, <1>10, <1>11, <1>12, <1>13 DEF IInv
-----------------------------------------------------------------------------
(* RemoveNodesFromRemotes.                                                 *)

\* The messages of the send loop.
Sent(h, r) ==
  {[from |-> h, to |-> g, round |-> r,
    counts |-> [v \in Masters(g) |-> updates[h][v]]] : g \in Host \ {h}}

LEMMA SentFinite ==
  ASSUME NEW h \in Host, NEW r
  PROVE  IsFiniteSet(Sent(h, r))
<1> DEFINE f == [g \in Host \ {h} |->
                   [from |-> h, to |-> g, round |-> r,
                    counts |-> [v \in Masters(g) |-> updates[h][v]]]]
<1>1. {f[g] : g \in Host \ {h}} = Sent(h, r)
  BY DEF Sent
<1>2. IsFiniteSet({f[g] : g \in Host \ {h}})
  <2> HIDE DEF f
  <2> QED
    BY HostFinite, FiniteImage
<1> QED
  BY <1>1, <1>2

\* What the messages of a send loop take off a node is what the host has
\* collected for it.
LEMMA SentUpdates ==
  ASSUME TypeOK, NEW h \in Host, \A w \in Node : Owner[w] = h => updates[h][w] = 0,
         NEW r, NEW w \in Node
  PROVE  /\ Natural(Sent(h, r), w)
         /\ Subtracted(Sent(h, r), w) = updates[h][w]
<1> DEFINE S == Sent(h, r)
           M(g) == [from |-> h, to |-> g, round |-> r,
                    counts |-> [v \in Masters(g) |-> updates[h][v]]]
<1>1. /\ \A g \in Host \ {h} : M(g) \in S
      /\ \A m \in S : \E g \in Host \ {h} : m = M(g)
  BY DEF Sent
<1>2. IsFiniteSet(S)
  BY SentFinite
<1>3. updates[h][w] \in Nat /\ Owner[w] \in Host
  BY DEF TypeOK
<1>4. \A g \in Host : Brings(M(g), w) = IF Owner[w] = g THEN updates[h][w] ELSE 0
  BY DEF Brings, Masters
<1>5. \A g \in Host \ {h} : M(g).to = g
  OBVIOUS
<1> HIDE DEF M, S
<1>6. Natural(S, w)
  BY <1>1, <1>3, <1>4 DEF Natural
<1>7. ASSUME Owner[w] = h
      PROVE  Subtracted(S, w) = updates[h][w]
  <2>1. \A m \in S : Brings(m, w) = 0
    BY <1>1, <1>4, <1>7
  <2> QED
    BY <1>2, <1>3, <1>6, <1>7, <2>1, SubtractedIs
<1>8. ASSUME Owner[w] # h
      PROVE  Subtracted(S, w) = updates[h][w]
  <2> DEFINE m == M(Owner[w])
             R == S \ {m}
  <2>1. m \in S /\ Brings(m, w) = updates[h][w]
    BY <1>1, <1>3, <1>4, <1>8
  <2>2. \A a \in R : Brings(a, w) = 0
    BY <1>1, <1>4
  <2>3. IsFiniteSet(R) /\ IsFiniteSet({m}) /\ R \cap {m} = {} /\ R \cup {m} = S
    <3>1. IsFiniteSet(R) /\ IsFiniteSet({m})
      BY <1>2, FS_RemoveElement, FS_Singleton
    <3> QED
      BY <2>1, <3>1
  <2>4. Natural(R, w) /\ Natural({m}, w)
    BY <1>6, <2>1 DEF Natural
  <2> HIDE DEF m, R
  <2>5. Subtracted(S, w) = Subtracted(R, w) + Subtracted({m}, w)
    BY <1>6, <2>3, SubtractedUnion
  <2>6. Subtracted(R, w) = 0
    BY <2>2, <2>3, <2>4, SubtractedIs
  <2>7. Subtracted({m}, w) = Brings(m, w)
    BY <2>3, <2>4, SubtractedIs
  <2> QED
    BY <1>3, <1>6, <2>1, <2>5, <2>6, <2>7
<1> QED
  BY <1>6, <1>7, <1>8 DEF S

LEMMA SendUpdatesStep ==
  ASSUME IInv, NEW h \in Host, SendUpdates(h)
  PROVE  IInv'
<1> DEFINE k == Len(picked[h])
           new == {[from |-> h, to |-> g, round |-> posted[h] + 1,
                    counts |-> [v \in Masters(g) |-> updates[h][v]]] : g \in Host \ {h}}
<1>0. TypeOK /\ InvPhases /\ InvSets /\ InvUpdates /\ InvRemovals /\ InvMaxes /\ Phases(h)
  BY DEF IInv, InvPhases
<1>1. /\ pc[h] = "remove" /\ unread[h] = {} /\ \A s \in SetsOf(h) : todo[s] = {}
      /\ posted[h] < Exchanges
      /\ posted' = [posted EXCEPT ![h] = @ + 1]
      /\ view' = [view EXCEPT ![h] = X!Nothing] /\ taken' = taken
      /\ removals' = removals \cup new
      /\ updates' = [updates EXCEPT ![h] = Remaining(h)]
      /\ pc' = [pc EXCEPT ![h] = "updates"]
      /\ UNCHANGED <<unseen, best, host_max, picked, unread, sets, todo, freq, maxes, given>>
  BY DEF SendUpdates, X!Post, scan
<1>2. /\ k \in Nat \ {0} /\ posted[h] = 2 * k - 1 /\ taken[h] = 2 * k - 1 /\ k < NumNodes
      /\ \A g \in Host : taken[g] >= 2 * k - 1 /\ taken[h] <= posted[g]
  BY <1>0, <1>1, HostTypes DEF Phases
<1>3. \A g \in Host : taken[g] <= posted[h]
  BY <1>0 DEF InvPhases, Phases
<1> HIDE DEF k
<1>4. /\ pc'[h] = "updates" /\ posted'[h] = 2 * k
      /\ \A g \in Host \ {h} : /\ posted'[g] = posted[g] /\ pc'[g] = pc[g]
                               /\ updates'[g] = updates[g]
      /\ updates'[h] = Remaining(h) /\ picked' = picked /\ given' = given
  BY <1>0, <1>1, <1>2 DEF TypeOK, X!ATypeOK
<1>5. \A g \in Host : /\ posted[g] \in 0 .. Exchanges /\ taken[g] \in 0 .. Exchanges
                      /\ posted[g] <= posted'[g] /\ posted'[g] \in 0 .. Exchanges
  <2>1. \A g \in Host : posted[g] \in 0 .. Exchanges /\ taken[g] \in 0 .. Exchanges
    BY <1>0, HostTypes
  <2> QED
    BY <1>1, <1>2, <1>4, <2>1, ExchangesNat
<1>6. \A v \in Node : Owner[v] = h => updates[h][v] = 0
  BY <1>0 DEF InvUpdates
<1>7. \A v \in Node : updates'[h][v] = 0
  BY <1>4, <1>6 DEF Remaining
<1>8. HostsAgree' /\ GreedyChoice'
  BY <1>1, Frame DEF IInv
<1>9. InvScan' /\ InvHostMax' /\ InvPicked'
  <2>1. \A g \in Host : /\ pc'[g] = "scan" => pc[g] = "scan"
                        /\ pc'[g] = "max" => pc[g] = "max"
                        /\ pc'[g] \in Chosen => pc[g] \in Chosen
    BY <1>1, <1>4 DEF Chosen
  <2> QED
    BY <1>1, <2>1, ChoiceFrame DEF IInv
<1>10. updates' \in [Host -> [Node -> Nat]]
  <2>1. Remaining(h) \in [Node -> Nat]
    BY <1>0 DEF TypeOK, Remaining
  <2> QED
    BY <1>0, <1>1, <2>1 DEF TypeOK
<1>11. TypeOK'
  <2>1. pc' \in [Host -> {"scan", "max", "max_barrier", "remove", "updates",
                             "updates_barrier", "done"}]
    BY <1>0, <1>1 DEF TypeOK
  <2>2. X!ATypeOK'
    <3>1. /\ posted' \in [Host -> 0 .. Exchanges]
          /\ X!Nothing \in [Host -> 0 .. Exchanges]
      BY <1>0, <1>1, ExchangesNat DEF TypeOK, X!ATypeOK, X!Nothing
    <3> QED
      BY <1>0, <1>1, <3>1 DEF TypeOK, X!ATypeOK
  <2>3. \A m \in new : /\ {m.from, m.to} \subseteq Host
                       /\ m.round \in 1 .. Exchanges
                       /\ m.counts \in [Masters(m.to) -> Nat]
    <3>1. posted[h] + 1 \in 1 .. Exchanges
      BY <1>1, <1>5, ExchangesNat
    <3>2. \A g \in Host : [v \in Masters(g) |-> updates[h][v]] \in [Masters(g) -> Nat]
      BY <1>0 DEF TypeOK, Masters
    <3> QED
      BY <3>1, <3>2
  <2> HIDE DEF new
  <2> QED
    BY <1>0, <1>1, <1>10, <2>1, <2>2, <2>3 DEF TypeOK
<1>12. InvPhases'
  <2> SUFFICES ASSUME NEW g \in Host
               PROVE  Phases(g)'
    BY DEF InvPhases
  <2>1. \A a \in Host : taken[g] <= posted'[a]
    <3>1. \A a \in Host : taken[g] <= posted[a]
      BY <1>0 DEF InvPhases, Phases
    <3> QED
      BY <1>5, <3>1
  <2>2. CASE g = h
    <3>1. /\ pc'[h] = "updates" /\ Len(picked'[h]) = k /\ posted'[h] = 2 * k
          /\ taken'[h] = 2 * k - 1 /\ k > 0 /\ k < NumNodes
          /\ \A a \in Host : taken'[h] <= posted'[a] /\ taken'[a] >= 2 * k - 1
      BY <1>1, <1>2, <1>4, <2>1, <2>2 DEF k
    <3> QED
      BY <2>2, <3>1 DEF Phases
  <2>3. CASE g # h
    <3>1. Phases(g)
      BY <1>0 DEF InvPhases
    <3> QED
      BY <1>1, <1>4, <2>1, <2>3, <3>1 DEF Phases
  <2> QED
    BY <2>2, <2>3
<1>13. InvSets'
  <2>1. ASSUME NEW s \in SetId
        PROVE  SetOk(Home[s], s)'
    <3> DEFINE g == Home[s]
    <3>1. g \in Host /\ SetOk(g, s)
      BY <1>0 DEF InvSets
    <3>2. /\ sets' = sets /\ todo' = todo /\ given' = given /\ picked' = picked
          /\ unread' = unread
          /\ \A p, i : Rest(s, p, i)' = Rest(s, p, i)
      BY <1>1 DEF Rest, NotCovered
    <3>3. g = h => todo[s] = {}
      BY <1>1 DEF SetsOf
    <3> HIDE DEF g
    <3>4. CASE g = h
      <4>1. s \notin unread[h] /\ todo[s] = {}
            /\ sets[s] = Rest(s, picked[h], Len(picked[h]) + 1)
        BY <1>1, <3>1, <3>3, <3>4 DEF SetOk
      <4> QED
        BY <1>4, <3>2, <3>4, <4>1 DEF SetOk, g
    <3>5. CASE g # h
      <4>1. pc'[g] = pc[g]
        BY <1>4, <3>1, <3>5
      <4> QED
        BY <3>1, <3>2, <4>1 DEF SetOk, influential_node, g
    <3> QED
      BY <3>4, <3>5
  <2> QED
    BY <1>0, <1>1, <2>1 DEF InvSets
<1>14. InvUpdates'
  BY <1>0, <1>4, <1>7 DEF InvUpdates
<1>15. new = Sent(h, posted[h] + 1)
  BY DEF Sent
<1>16. /\ IsFiniteSet(new)
       /\ \A w \in Node : Natural(new, w) /\ Subtracted(new, w) = updates[h][w]
  <2> HIDE DEF new
  <2> QED
    BY <1>0, <1>6, <1>15, SentFinite, SentUpdates
<1>17. \A m \in new : m.from = h /\ m.to \in Host /\ m.round = 2 * k
  BY <1>2
<1> HIDE DEF new
<1>18. InvRemovals'
  <2>1. ASSUME NEW m \in removals
        PROVE  taken[m.to] < m.round /\ m.round <= posted'[m.from] /\ m.from \in Host
    <3>1. m.from \in Host /\ m.to \in Host /\ m.round \in Nat
          /\ taken[m.to] < m.round /\ m.round <= posted[m.from]
      BY <1>0 DEF TypeOK, InvRemovals
    <3> QED
      BY <1>5, <3>1
  <2>2. ASSUME NEW m \in new
        PROVE  taken[m.to] < m.round /\ m.round <= posted'[m.from] /\ \E i \in Nat : m.round = 2 * i
    BY <1>2, <1>3, <1>4, <1>5, <1>17
  <2>3. IsFiniteSet(removals')
    BY <1>0, <1>1, <1>16, FS_Union DEF InvRemovals
  <2> QED
    BY <1>0, <1>1, <2>1, <2>2, <2>3 DEF InvRemovals
<1>19. InvMaxes'
  <2>1. ASSUME NEW m \in maxes
        PROVE  m.round <= posted'[m.from]
    <3>1. m.from \in Host /\ m.round \in Nat /\ m.round <= posted[m.from]
      BY <1>0 DEF TypeOK, InvMaxes
    <3> QED
      BY <1>5, <3>1
  <2>2. ASSUME NEW g \in Host, NEW i \in 0 .. NumNodes - 1, 2 * i + 1 <= posted'[g]
        PROVE  2 * i + 1 <= posted[g]
    BY <1>2, <1>4, <2>2
  <2> QED
    BY <1>0, <1>1, <2>1, <2>2 DEF InvMaxes
<1>20. FrequencyAccounted'
  <2> SUFFICES ASSUME NEW w \in Node
               PROVE  freq'[w] = Cardinality(Counting(w)') + Pending(w)' + Subtracted(removals', w)
    BY AccountIs
  <2>1. freq[w] = Cardinality(Counting(w)) + Pending(w) + Subtracted(removals, w)
    BY AccountIs DEF IInv
  <2>2. /\ Cardinality(Counting(w)) \in Nat /\ Pending(w) \in Nat
        /\ Subtracted(removals, w) \in Nat /\ updates[h][w] \in Nat
    <3>1. updates[h][w] \in Nat
      BY <1>0 DEF TypeOK
    <3> QED
      BY <1>0, <3>1, CountingIs, PendingIs, SubtractedIs, RemovalsNatural DEF InvRemovals
  <2>3. Pending(w)' = Pending(w) - updates[h][w]
    <3>1. Pending(w)' = Pending(w) - updates[h][w] + updates'[h][w]
      BY <1>0, <1>4, <1>10, PendingStep
    <3> QED
      BY <1>7, <2>2, <3>1
  <2>4. Counting(w)' = Counting(w)
    BY <1>1 DEF Counting, Standing
  <2>5. removals \cap new = {}
    <3>1. \A m \in removals : m.from = h => m.round <= 2 * k - 1 /\ m.round \in Nat
      BY <1>0, <1>2 DEF InvRemovals, TypeOK
    <3> QED
      BY <1>2, <1>17, <3>1
  <2>6. Natural(removals \cup new, w)
    BY <1>0, <1>16, RemovalsNatural DEF Natural
  <2>7. Subtracted(removals', w) = Subtracted(removals, w) + updates[h][w]
    BY <1>0, <1>1, <1>16, <2>5, <2>6, SubtractedUnion DEF InvRemovals
  <2> QED
    BY <1>1, <2>1, <2>2, <2>3, <2>4, <2>7
<1> QED
  BY <1>8, <1>9, <1>11, <1>12, <1>13, <1>14, <1>18, <1>19, <1>20 DEF IInv

LEMMA RecvUpdatesStep ==
  ASSUME IInv, NEW h \in Host, RecvUpdates(h)
  PROVE  IInv'
<1> DEFINE k == Len(picked[h])
           inc == Incoming(h, removals)
<1>0. TypeOK /\ InvPhases /\ InvSets /\ InvUpdates /\ InvRemovals /\ InvMaxes /\ Phases(h)
      /\ FrequencyAccounted
  BY DEF IInv, InvPhases
<1>1. /\ pc[h] = "updates" /\ \A g \in Host : posted[g] >= posted[h]
      /\ taken' = [taken EXCEPT ![h] = posted[h]]
      /\ view' = [view EXCEPT ![h] = X!RoundOf(h, posted[h])] /\ posted' = posted
      /\ freq' = [v \in Node |-> freq[v] - Subtracted(inc, v)]
      /\ removals' = removals \ inc
      /\ pc' = [pc EXCEPT ![h] = "updates_barrier"]
      /\ UNCHANGED <<unseen, best, host_max, picked, unread, sets, todo, updates, maxes, given>>
  BY DEF RecvUpdates, X!Take, scan
<1>2. /\ k \in Nat \ {0} /\ posted[h] = 2 * k /\ taken[h] = 2 * k - 1 /\ k < NumNodes
  BY <1>0, <1>1, HostTypes DEF Phases
<1>3. inc = {m \in removals : m.to = h /\ m.round = 2 * k}
  BY <1>2 DEF Incoming
<1> HIDE DEF k, inc
<1>4. /\ pc'[h] = "updates_barrier" /\ taken'[h] = 2 * k
      /\ \A g \in Host \ {h} : taken'[g] = taken[g] /\ pc'[g] = pc[g]
      /\ picked' = picked /\ given' = given /\ posted' = posted
  BY <1>0, <1>1, <1>2 DEF TypeOK, X!ATypeOK
<1>5. \A g \in Host : /\ posted[g] \in 0 .. Exchanges /\ taken[g] \in 0 .. Exchanges
                      /\ taken[g] <= taken'[g] /\ taken'[g] \in 0 .. Exchanges
  <2>1. \A g \in Host : posted[g] \in 0 .. Exchanges /\ taken[g] \in 0 .. Exchanges
    BY <1>0, HostTypes
  <2> QED
    BY <1>2, <1>4, <2>1, ExchangesNat
<1>6. /\ IsFiniteSet(inc) /\ IsFiniteSet(removals \ inc) /\ IsFiniteSet(removals)
      /\ inc \subseteq removals /\ inc \cup (removals \ inc) = removals
      /\ inc \cap (removals \ inc) = {}
  <2>1. inc \subseteq removals
    BY <1>3
  <2> QED
    BY <1>0, <2>1, FS_Subset DEF InvRemovals
<1>7. ASSUME NEW v
      PROVE  /\ Subtracted(removals, v) = Subtracted(inc, v) + Subtracted(removals', v)
             /\ Subtracted(inc, v) \in Nat /\ Subtracted(removals', v) \in Nat
  <2>1. Natural(removals, v) /\ Natural(inc, v) /\ Natural(removals \ inc, v)
    BY <1>0, <1>6, RemovalsNatural DEF Natural
  <2> DEFINE out == removals \ inc
  <2>2. /\ IsFiniteSet(out) /\ Natural(out, v) /\ inc \cup out = removals
        /\ inc \cap out = {} /\ removals' = out
    BY <1>1, <1>6, <2>1
  <2> HIDE DEF out
  <2>3. Natural(inc \cup out, v)
    BY <2>1, <2>2
  <2>4. Subtracted(inc, v) \in Nat /\ Subtracted(out, v) \in Nat
    BY <1>6, <2>1, <2>2, SubtractedIs
  <2>5. Subtracted(inc \cup out, v) = Subtracted(inc, v) + Subtracted(out, v)
    BY <1>6, <2>2, <2>3, SubtractedUnion
  <2> QED
    BY <2>2, <2>4, <2>5
<1>8. HostsAgree' /\ GreedyChoice'
  BY <1>1, Frame DEF IInv
<1>9. InvScan' /\ InvHostMax' /\ InvPicked'
  <2>1. \A g \in Host : /\ pc'[g] = "scan" => pc[g] = "scan"
                        /\ pc'[g] = "max" => pc[g] = "max"
                        /\ pc'[g] \in Chosen => pc[g] \in Chosen
    BY <1>4 DEF Chosen
  <2> QED
    BY <1>1, <2>1, ChoiceFrame DEF IInv
<1>10. freq' \in [Node -> Nat]
  <2>1. ASSUME NEW v \in Node
        PROVE  freq[v] - Subtracted(inc, v) \in Nat
    <3>1. freq[v] >= Subtracted(removals, v)
      BY <1>0, FreqEnough
    <3>2. freq[v] \in Nat
      BY <1>0 DEF TypeOK
    <3> QED
      BY <1>7, <3>1, <3>2
  <2> QED
    BY <1>1, <2>1
<1>11. TypeOK'
  <2>1. pc' \in [Host -> {"scan", "max", "max_barrier", "remove", "updates",
                             "updates_barrier", "done"}]
    BY <1>0, <1>1 DEF TypeOK
  <2>2. X!ATypeOK'
    <3>1. /\ taken' \in [Host -> 0 .. Exchanges]
          /\ X!RoundOf(h, posted[h]) \in [Host -> 0 .. Exchanges]
      BY <1>0, <1>1, <1>5, ExchangesNat DEF TypeOK, X!ATypeOK, X!RoundOf
    <3> QED
      BY <1>0, <1>1, <3>1 DEF TypeOK, X!ATypeOK
  <2> QED
    BY <1>0, <1>1, <1>10, <2>1, <2>2 DEF TypeOK
<1>12. InvPhases'
  <2> SUFFICES ASSUME NEW g \in Host
               PROVE  Phases(g)'
    BY DEF InvPhases
  <2>1. \A a \in Host : taken'[g] <= posted[a]
    <3>1. CASE g = h
      BY <1>1, <1>2, <1>4, <3>1
    <3>2. CASE g # h
      BY <1>0, <1>4, <3>2 DEF InvPhases, Phases
    <3> QED
      BY <3>1, <3>2
  <2>2. CASE g = h
    <3>1. /\ pc'[h] = "updates_barrier" /\ Len(picked'[h]) = k /\ posted'[h] = 2 * k
          /\ taken'[h] = 2 * k /\ k > 0 /\ k < NumNodes
          /\ \A a \in Host : taken'[h] <= posted'[a]
      BY <1>2, <1>4, <2>1, <2>2 DEF k
    <3> QED
      BY <2>2, <3>1 DEF Phases
  <2>3. CASE g # h
    <3>1. Phases(g) /\ Len(picked[g]) \in Nat
      BY <1>0, HostTypes DEF InvPhases
    <3>2. \A b \in Int : \A a \in Host : taken[a] >= b => taken'[a] >= b
      BY <1>5
    <3>3. 2 * Len(picked[g]) \in Int /\ 2 * Len(picked[g]) - 1 \in Int
      BY <3>1
    <3>4. pc'[g] = pc[g] /\ taken'[g] = taken[g]
      BY <1>4, <2>3
    <3> QED
      BY <1>4, <2>1, <3>1, <3>2, <3>3, <3>4 DEF Phases
  <2> QED
    BY <2>2, <2>3
<1>13. InvSets'
  <2>1. ASSUME NEW s \in SetId
        PROVE  SetOk(Home[s], s)'
    <3> DEFINE g == Home[s]
    <3>1. g \in Host /\ SetOk(g, s)
      BY <1>0 DEF InvSets
    <3>2. /\ sets' = sets /\ todo' = todo /\ given' = given /\ picked' = picked
          /\ unread' = unread
          /\ \A p, i : Rest(s, p, i)' = Rest(s, p, i)
      BY <1>1 DEF Rest, NotCovered
    <3> HIDE DEF g
    <3>3. CASE g = h
      BY <1>1, <1>4, <3>1, <3>2, <3>3 DEF SetOk, g
    <3>4. CASE g # h
      <4>1. pc'[g] = pc[g]
        BY <1>4, <3>1, <3>4
      <4> QED
        BY <3>1, <3>2, <4>1 DEF SetOk, influential_node, g
    <3> QED
      BY <3>3, <3>4
  <2> QED
    BY <1>0, <1>1, <2>1 DEF InvSets
<1>14. InvUpdates'
  <2>1. \A g \in Host : pc'[g] # "remove" => pc[g] # "remove"
    BY <1>1, <1>4
  <2> QED
    BY <1>0, <1>1, <2>1 DEF InvUpdates
<1>15. InvRemovals'
  <2>1. ASSUME NEW m \in removals'
        PROVE  m \in removals /\ taken'[m.to] < m.round
    <3>1. /\ m \in removals /\ m.to \in Host /\ m.round \in Nat /\ taken[m.to] < m.round
          /\ ~ (m.to = h /\ m.round = 2 * k)
      BY <1>0, <1>1, <1>3 DEF TypeOK, InvRemovals
    <3>2. CASE m.to = h
      BY <1>2, <1>4, <3>1, <3>2
    <3>3. CASE m.to # h
      BY <1>4, <3>1, <3>3
    <3> QED
      BY <3>1, <3>2, <3>3
  <2> QED
    BY <1>0, <1>1, <1>6, <2>1 DEF InvRemovals
<1>16. InvMaxes'
  <2>1. ASSUME NEW m \in maxes
        PROVE  taken'[m.to] < m.round
    <3>1. m.to \in Host /\ m.round \in Nat /\ taken[m.to] < m.round
      BY <1>0 DEF TypeOK, InvMaxes
    <3>2. PICK i \in Nat : m.round = 2 * i + 1
      BY <1>0 DEF InvMaxes
    <3>3. CASE m.to = h
      BY <1>2, <1>4, <3>1, <3>2, <3>3
    <3>4. CASE m.to # h
      BY <1>4, <3>1, <3>4
    <3> QED
      BY <3>3, <3>4
  <2>2. ASSUME NEW b \in Host, NEW i \in 0 .. NumNodes - 1, taken'[b] < 2 * i + 1
        PROVE  taken[b] < 2 * i + 1
    BY <1>5, <2>2
  <2> QED
    BY <1>0, <1>1, <2>1, <2>2 DEF InvMaxes
<1>17. FrequencyAccounted'
  <2> SUFFICES ASSUME NEW w \in Node
               PROVE  freq'[w] = Cardinality(Counting(w)') + Pending(w)' + Subtracted(removals', w)
    BY AccountIs
  <2>1. freq[w] = Cardinality(Counting(w)) + Pending(w) + Subtracted(removals, w)
    BY <1>0, AccountIs
  <2>2. Cardinality(Counting(w)) \in Nat /\ Pending(w) \in Nat
    BY <1>0, CountingIs, PendingIs
  <2>3. Counting(w)' = Counting(w) /\ Pending(w)' = Pending(w)
    BY <1>1 DEF Counting, Standing, Pending
  <2>4. freq'[w] = freq[w] - Subtracted(inc, w)
    BY <1>1
  <2> QED
    BY <1>7, <2>1, <2>2, <2>3, <2>4
<1> QED
  BY <1>8, <1>9, <1>11, <1>12, <1>13, <1>14, <1>15, <1>16, <1>17 DEF IInv
-----------------------------------------------------------------------------
(* The theorems.                                                           *)

LEMMA NextIInv == IInv /\ [Next]_vars => IInv'
<1> SUFFICES ASSUME IInv, [Next]_vars
             PROVE  IInv'
  OBVIOUS
<1>1. ASSUME NEW h \in Host, HostStep(h)
      PROVE  IInv'
  <2>1. ASSUME NEW t \in Thread, NEW v \in Node, FindLocalMaxNode(h, t, v)
        PROVE  IInv'
    BY <2>1, FindStep
  <2>2. CASE SendMax(h)
    BY <2>2, SendMaxStep
  <2>3. CASE RecvMax(h)
    BY <2>3, RecvMaxStep
  <2>4. CASE LeaveMaxBarrier(h)
    BY <2>4, LeaveMaxStep
  <2>5. ASSUME NEW s \in SetId, LookInto(h, s)
        PROVE  IInv'
    BY <2>5, LookIntoStep
  <2>6. ASSUME NEW s \in SetId, NEW v \in Node, Uncount(h, s, v)
        PROVE  IInv'
    BY <2>6, UncountStep
  <2>7. CASE SendUpdates(h)
    BY <2>7, SendUpdatesStep
  <2>8. CASE RecvUpdates(h)
    BY <2>8, RecvUpdatesStep
  <2>9. CASE LeaveUpdatesBarrier(h)
    BY <2>9, LeaveUpdatesStep
  <2> QED
    BY <1>1, <2>1, <2>2, <2>3, <2>4, <2>5, <2>6, <2>7, <2>8, <2>9 DEF HostStep
<1>2. CASE UNCHANGED vars
  <2>1. TypeOK'
    BY <1>2 DEF IInv, TypeOK, X!ATypeOK, vars, scan, sampled, network
  <2> QED
    BY <1>2, <2>1, Frame DEF IInv, vars, scan, sampled, network
<1> QED
  BY <1>1, <1>2 DEF Next, Terminated

\* The inductive invariant of all theorems of this module.
THEOREM InductiveInvariant == Spec => []IInv
BY InitIInv, NextIInv, PTL DEF Spec

\* Counters never leave the natural numbers: atomicSubtract takes nothing off
\* a frequency_ of 0 (influence_maximization.cpp:497-499, 556-560).
THEOREM TypeCorrect == Spec => []TypeOK
<1>1. IInv => TypeOK
  BY DEF IInv
<1> QED
  BY <1>1, InductiveInvariant, PTL

\* frequency_ is the number of the sets that are left, plus what is in
\* remote_updates and in the messages of RemoveNodesFromRemotes
\* (influence_maximization.cpp:494-506, 515-563): every set that is removed is
\* taken off each of its nodes exactly once.
THEOREM FrequencyAccountedCorrect == Spec => []FrequencyAccounted
<1>1. IInv => FrequencyAccounted
  BY DEF IInv
<1> QED
  BY <1>1, InductiveInvariant, PTL

\* Whatever the interleaving of hosts and threads, GetMostInfluentialNode
\* returns the same node everywhere, as long as a set is left
\* (influence_maximization.cpp:421-483, 565-687).
THEOREM HostsAgreeCorrect == Spec => []HostsAgree
<1>1. IInv => HostsAgree
  BY DEF IInv
<1> QED
  BY <1>1, InductiveInvariant, PTL

\* Each choice is a node that most of the sets hold that are left: the
\* distributed maximum is the maximum over all hosts, and frequency_ is exact
\* when FindLocalMaxNode reads it (influence_maximization.cpp:421-483, 565-687).
THEOREM GreedyCorrect == Spec => []GreedyChoice
<1>1. IInv => GreedyChoice
  BY DEF IInv
<1> QED
  BY <1>1, InductiveInvariant, PTL

\* A host looks for its next node when exactly the sets without any of its
\* choices are left (influence_maximization.cpp:486-508): threads clear sets in
\* any order, and sets that hold several of the choices are cleared once.
THEOREM LeftUncoveredCorrect == Spec => []LeftUncovered
<1>1. IInv => LeftUncovered
  <2> SUFFICES ASSUME IInv, NEW h \in Host, pc[h] = "scan"
               PROVE  {s \in SetsOf(h) : sets[s] # {}}
                        = SetsOf(h) \cap NotCovered(picked[h], Len(picked[h]) + 1)
    BY DEF LeftUncovered
  <2>1. ASSUME NEW s \in SetsOf(h)
        PROVE  sets[s] # {} <=> s \in NotCovered(picked[h], Len(picked[h]) + 1)
    <3>1. s \in SetId /\ Home[s] = h
      BY DEF SetsOf
    <3>2. sets[s] = Rest(s, picked[h], Len(picked[h]) + 1) /\ given[s] # {}
      BY <3>1 DEF IInv, InvSets, SetOk
    <3> QED
      BY <3>2 DEF Rest
  <2> QED
    BY <2>1
<1> QED
  BY <1>1, InductiveInvariant, PTL
=============================================================================
