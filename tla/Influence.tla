----------------------------- MODULE Influence -----------------------------
(***************************************************************************)
(* Choosing the most influential nodes: GetInfluentialNodes and the        *)
(* functions it calls (wf4/src/influence_maximization.cpp).                *)
(*                                                                         *)
(* NumNodes times, the hosts agree on the node with the highest            *)
(* frequency_: their threads look at the nodes of their host, each host    *)
(* takes the best of its threads, and everybody takes the best of the      *)
(* hosts.  Before the next choice each host clears the sets that hold the  *)
(* chosen node, takes them off the frequency_ of their nodes, and sends    *)
(* the owners of other nodes what to subtract.                             *)
(*                                                                         *)
(* The messages carry the tags EXCHANGE_INFLUENTIAL_NODES and              *)
(* REMOVE_RRR_SETS in turn, so the calls are rounds of one AllToAll: the   *)
(* odd ones exchange maxima, the even ones updates.                        *)
(***************************************************************************)
EXTENDS Integers, Sequences, FiniteSets, FiniteSetsExt

CONSTANTS NumHosts,    \* net.Num
          NumThreads,  \* threads of the do_all loops of a host
          Node,        \* global node ids
          Owner,       \* Owner[v]: the host that holds v as a master
          SetId,       \* the reverse reachable sets of all hosts
          Home,        \* Home[s]: the host that has s in reachability_sets
          NumNodes,    \* num_nodes, the -k option
          Garbage      \* what uninitialised memory may hold and is no node

Host == 0 .. NumHosts - 1
Thread == 0 .. NumThreads - 1

ASSUME NumHostsAssumption == NumHosts \in Nat \ {0}
ASSUME NumThreadsAssumption == NumThreads \in Nat \ {0}
ASSUME NodeAssumption == IsFiniteSet(Node) /\ Garbage \notin Node
ASSUME OwnerAssumption == Owner \in [Node -> Host]
ASSUME SetIdAssumption == IsFiniteSet(SetId) /\ Home \in [SetId -> Host]
ASSUME NumNodesAssumption == NumNodes \in Nat \ {0}

\* GetMostInfluentialNode exchanges NumNodes times, RemoveNodesFromRemotes
\* once between two choices.
Exchanges == 2 * NumNodes - 1

VARIABLES
  pc,        \* what the main thread of each host is doing
  unseen,    \* nodes that the threads of a host have not looked at yet
  best,      \* best[h][t]: most_influential_nodes of thread t of h
  host_max,  \* host_max, also host_maxes[host], of each host
  picked,    \* influential_nodes of each host
  unread,    \* sets that the threads of a host have not looked at yet
  sets,      \* reachability_sets
  todo,      \* nodes of a set that still count it, while it is removed
  updates,   \* updates[h]: remote_updates of host h
  freq,      \* frequency_ of each node, at its master
  maxes,     \* messages of ExchangeMostInfluentialNodes
  removals,  \* messages of RemoveNodesFromRemotes
  posted, taken, view,  \* the state of the collective
  given      \* the reachability_sets of the call; never changes

scan == <<unseen, best, host_max>>
sampled == <<unread, sets, todo, updates, freq>>
network == <<posted, taken, view>>
vars == <<pc, scan, picked, sampled, maxes, removals, network, given>>

X == INSTANCE AllToAll WITH Rounds <- Exchanges

LocalMaxNode == [node : Node \cup {Garbage}, influence : Nat]

\* LocalMaxNode(): max_influence is 0 and max_node is not initialised.
NoMax == [node |-> Garbage, influence |-> 0]

Masters(h) == {v \in Node : Owner[v] = h}
SetsOf(h) == {s \in SetId : Home[s] = h}
NoUpdates == [v \in Node |-> 0]

TypeOK ==
  /\ pc \in [Host -> {"scan", "max", "max_barrier", "remove", "updates",
                      "updates_barrier", "done"}]
  /\ unseen \in [Host -> SUBSET Node]
  /\ best \in [Host -> [Thread -> LocalMaxNode]]
  /\ host_max \in [Host -> LocalMaxNode]
  /\ picked \in [Host -> Seq(Node \cup {Garbage})]
  /\ \A h \in Host : Len(picked[h]) <= NumNodes
  /\ unread \in [Host -> SUBSET SetId]
  /\ sets \in [SetId -> SUBSET Node]
  /\ todo \in [SetId -> SUBSET Node]
  /\ updates \in [Host -> [Node -> Nat]]
  /\ freq \in [Node -> Nat]
  /\ maxes \subseteq [from : Host, to : Host, round : 1 .. Exchanges,
                      max : LocalMaxNode]
  /\ \A m \in removals : /\ {m.from, m.to} \subseteq Host
                         /\ m.round \in 1 .. Exchanges
                         /\ m.counts \in [Masters(m.to) -> Nat]
  /\ X!ATypeOK
  /\ given \in [SetId -> SUBSET Node]

Coverage(S, v) == Cardinality({s \in SetId : v \in S[s]})

\* The state in which GetRandomReverseReachableSets has left the counters.
\* Every set holds a node of its host, the root of the walk.
Init ==
  /\ pc = [h \in Host |-> "scan"]
  /\ unseen = [h \in Host |-> Masters(h)]
  /\ best = [h \in Host |-> [t \in Thread |-> NoMax]]
  /\ host_max = [h \in Host |-> NoMax]
  /\ picked = [h \in Host |-> <<>>]
  /\ unread = [h \in Host |-> {}]
  /\ given \in [SetId -> SUBSET Node]
  /\ \A s \in SetId : \E v \in given[s] : Owner[v] = Home[s]
  /\ sets = given
  /\ todo = [s \in SetId |-> {}]
  /\ updates = [h \in Host |-> NoUpdates]
  /\ freq = [v \in Node |-> Coverage(given, v)]
  /\ maxes = {}
  /\ removals = {}
  /\ X!AInit
-----------------------------------------------------------------------------
(* GetMostInfluentialNode.                                                 *)

\* Mutant: a later node always wins.
BetterLast(m, v) == [node |-> v, influence |-> freq[v]]

\* FindLocalMaxNode.  A node that is first but counts for nothing loses to
\* every other in GetMaxNode, as NoMax does.
Better(m, v) ==
  IF freq[v] > m.influence THEN [node |-> v, influence |-> freq[v]] ELSE m

FindLocalMaxNode(h, t, v) ==
  /\ pc[h] = "scan"
  /\ v \in unseen[h]
  /\ unseen' = [unseen EXCEPT ![h] = @ \ {v}]
  /\ best' = [best EXCEPT ![h][t] = Better(best[h][t], v)]
  /\ UNCHANGED <<pc, host_max, picked, sampled, maxes, removals, network, given>>

\* Mutant: the loop keeps the last entry.
GetMaxNodeLast(f) == f[CHOOSE i \in DOMAIN f : \A j \in DOMAIN f : j <= i]

\* GetMaxNode: the first of the greatest influences; none above 0 leaves the
\* initial value.
GetMaxNode(f) ==
  LET Greatest == {i \in DOMAIN f :
        \A j \in DOMAIN f : f[j].influence <= f[i].influence}
      first == CHOOSE i \in Greatest : \A j \in Greatest : i <= j
  IN IF f[first].influence = 0 THEN NoMax ELSE f[first]

\* ExchangeMostInfluentialNodes, the send loop.
SendMax(h) ==
  /\ pc[h] = "scan"
  /\ unseen[h] = {}
  /\ X!Post(h)
  /\ host_max' = [host_max EXCEPT ![h] = GetMaxNode(best[h])]
  /\ maxes' = maxes \cup
       {[from |-> h, to |-> g, round |-> posted[h] + 1, max |-> host_max'[h]]
          : g \in Host \ {h}}
  /\ pc' = [pc EXCEPT ![h] = "max"]
  /\ UNCHANGED <<unseen, best, picked, sampled, removals, given>>

\* Messages of the round that h is in.
Incoming(h, wire) == {m \in wire : m.to = h /\ m.round = posted[h]}

\* host_maxes: what came in, and the host's own entry.
HostMaxes(h) ==
  [g \in Host |->
     IF g = h THEN host_max[h]
              ELSE (CHOOSE m \in Incoming(h, maxes) : m.from = g).max]

\* The max_node of m, which may be anything if it was never assigned.
NodesRead(m) == IF m.influence = 0 THEN Node \cup {Garbage} ELSE {m.node}

\* The receive loop, GetMaxNode on host_maxes, emplace_back of the result.
RecvMax(h) ==
  /\ pc[h] = "max"
  /\ X!Take(h)
  /\ \E v \in NodesRead(GetMaxNode(HostMaxes(h))) :
       picked' = [picked EXCEPT ![h] = Append(@, v)]
  /\ maxes' = maxes \ Incoming(h, maxes)
  /\ pc' = [pc EXCEPT ![h] = "max_barrier"]
  /\ UNCHANGED <<scan, sampled, removals, given>>

\* getHostBarrier().wait(): every host has reached the barrier of the round.
BarrierOpen(h) == \A g \in Host : taken[g] >= taken[h]

\* Mutant: a host stops when it has no sets left.
EnoughHere(h) == Len(picked[h]) >= NumNodes \/ \A s \in SetsOf(h) : sets[s] = {}

\* The test of the loop of GetInfluentialNodes.
Enough(h) == Len(picked[h]) - 1 >= NumNodes - 1

LeaveMaxBarrier(h) ==
  /\ pc[h] = "max_barrier"
  /\ BarrierOpen(h)
  /\ pc' = [pc EXCEPT ![h] = IF Enough(h) THEN "done" ELSE "remove"]
  /\ unread' = [unread EXCEPT ![h] = IF Enough(h) THEN {} ELSE SetsOf(h)]
  /\ UNCHANGED <<scan, picked, sets, todo, updates, freq, maxes, removals,
                 network, given>>
-----------------------------------------------------------------------------
(* RemoveReachableSetsWithInfluentialNode and RemoveNodesFromRemotes.      *)

influential_node(h) == picked[h][Len(picked[h])]

\* A thread looks for the node in a set.
LookInto(h, s) ==
  /\ pc[h] = "remove"
  /\ s \in unread[h]
  /\ unread' = [unread EXCEPT ![h] = @ \ {s}]
  /\ todo' = [todo EXCEPT ![s] =
                IF influential_node(h) \in sets[s] THEN sets[s] ELSE {}]
  /\ UNCHANGED <<pc, scan, picked, sets, updates, freq, maxes, removals,
                 network, given>>

\* Mutant: reachability_set.clear() is forgotten.
ClearedNot(s, v) == sets[s]

\* clear() after the last node.
Cleared(s, v) == IF todo[s] = {v} THEN {} ELSE sets[s]

\* The loop over a set that holds the node: atomicSubtract for a node of the
\* host, try_emplace_l for another host's.
Uncount(h, s, v) ==
  /\ pc[h] = "remove"
  /\ Home[s] = h
  /\ v \in todo[s]
  /\ IF Owner[v] = h
       THEN freq' = [freq EXCEPT ![v] = @ - 1] /\ UNCHANGED updates
       ELSE updates' = [updates EXCEPT ![h][v] = @ + 1] /\ UNCHANGED freq
  /\ todo' = [todo EXCEPT ![s] = @ \ {v}]
  /\ sets' = [sets EXCEPT ![s] = Cleared(s, v)]
  /\ UNCHANGED <<pc, scan, picked, unread, maxes, removals, network, given>>

\* Mutant: SerializeMap does not clear the map.
RemainingAll(h) == updates[h]

\* updates.clear() in SerializeMap; the map of the host itself is empty.
Remaining(h) == [v \in Node |-> IF Owner[v] = h THEN updates[h][v] ELSE 0]

\* The send loop.
SendUpdates(h) ==
  /\ pc[h] = "remove"
  /\ unread[h] = {}
  /\ \A s \in SetsOf(h) : todo[s] = {}
  /\ X!Post(h)
  /\ removals' = removals \cup
       {[from |-> h, to |-> g, round |-> posted[h] + 1,
         counts |-> [v \in Masters(g) |-> updates[h][v]]]
          : g \in Host \ {h}}
  /\ updates' = [updates EXCEPT ![h] = Remaining(h)]
  /\ pc' = [pc EXCEPT ![h] = "updates"]
  /\ UNCHANGED <<scan, picked, unread, sets, todo, freq, maxes, given>>

\* What a set of messages takes off node v.
Subtracted(msgs, v) ==
  SumFunctionOnSet(
    [m \in msgs |-> IF v \in DOMAIN m.counts THEN m.counts[v] ELSE 0], msgs)

\* The receive loop, and the atomicSubtracts of what came in.
RecvUpdates(h) ==
  /\ pc[h] = "updates"
  /\ X!Take(h)
  /\ freq' = [v \in Node |-> freq[v] - Subtracted(Incoming(h, removals), v)]
  /\ removals' = removals \ Incoming(h, removals)
  /\ pc' = [pc EXCEPT ![h] = "updates_barrier"]
  /\ UNCHANGED <<scan, picked, unread, sets, todo, updates, maxes, given>>

\* The next GetMostInfluentialNode starts with new containers.
LeaveUpdatesBarrier(h) ==
  /\ pc[h] = "updates_barrier"
  /\ BarrierOpen(h)
  /\ pc' = [pc EXCEPT ![h] = "scan"]
  /\ unseen' = [unseen EXCEPT ![h] = Masters(h)]
  /\ best' = [best EXCEPT ![h] = [t \in Thread |-> NoMax]]
  /\ UNCHANGED <<host_max, picked, sampled, maxes, removals, network, given>>

AllDone == \A h \in Host : pc[h] = "done"
Terminated == AllDone /\ UNCHANGED vars

HostStep(h) ==
  \/ \E t \in Thread, v \in Node : FindLocalMaxNode(h, t, v)
  \/ SendMax(h)
  \/ RecvMax(h)
  \/ LeaveMaxBarrier(h)
  \/ \E s \in SetId : LookInto(h, s)
  \/ \E s \in SetId, v \in Node : Uncount(h, s, v)
  \/ SendUpdates(h)
  \/ RecvUpdates(h)
  \/ LeaveUpdatesBarrier(h)

Next == (\E h \in Host : HostStep(h)) \/ Terminated

\* Each host is a process whose threads keep working.
Fairness == \A h \in Host : WF_vars(HostStep(h))

Spec == Init /\ [][Next]_vars /\ Fairness
-----------------------------------------------------------------------------
\* Nodes for which set s is still counted in a frequency_ or in an update
\* that has not been applied.
Standing(s) == IF todo[s] # {} THEN todo[s] ELSE sets[s]

\* frequency_ counts the sets that are left, plus what is still on its way to
\* be subtracted: no set is taken off a node twice or never, whoever holds
\* the set and whoever owns the node (influence_maximization.cpp:494-506,
\* 556-560).  It therefore never wraps below 0.
FrequencyAccounted ==
  \A v \in Node :
    freq[v] = Cardinality({s \in SetId : v \in Standing(s)})
            + SumFunctionOnSet([h \in Host |-> updates[h][v]], Host)
            + Subtracted(removals, v)

\* The sets of the call that hold none of the first i - 1 nodes of p.
NotCovered(p, i) ==
  {s \in SetId : \A j \in 1 .. i - 1 : p[j] \notin given[s]}

\* Each choice is greedy over all hosts: as long as a set is left, no node is
\* in more of the sets that the earlier choices have left than the chosen
\* one, and it is in one at least.
GreedyChoice ==
  \A h \in Host : \A i \in 1 .. Len(picked[h]) :
    LET left == NotCovered(picked[h], i)
        Hits(v) == Cardinality({s \in left : v \in given[s]})
    IN left # {} => \A v \in Node : Hits(picked[h][i]) >= Hits(v)

\* The hosts return the same nodes, as long as any set is left to cover:
\* beyond that the code reads a max_node that was never assigned.
HostsAgree ==
  \A g, h \in Host :
    \A i \in 1 .. Len(picked[h]) :
      i <= Len(picked[g]) /\ NotCovered(picked[h], i) # {} =>
        picked[g][i] = picked[h][i]

\* While a host looks for its next node, the sets that are left on it are
\* those that hold none of the nodes it has chosen so far: its threads have
\* cleared the sets of the last choice as a whole and no others, and what was
\* cleared for an earlier choice stays so (influence_maximization.cpp:494-508).
LeftUncovered ==
  \A h \in Host : pc[h] = "scan" =>
    {s \in SetsOf(h) : sets[s] # {}}
      = SetsOf(h) \cap NotCovered(picked[h], Len(picked[h]) + 1)

\* When a host is done, the sets that it counts and prints as "Remaining
\* uninfluenced sets" (influence_maximization.cpp:216-224), those that are not
\* empty, are as many as its sets that hold none of the chosen nodes.
ReportedSets ==
  \A h \in Host : pc[h] = "done" =>
    Cardinality({s \in SetsOf(h) : sets[s] # {}})
      = Cardinality(SetsOf(h) \cap NotCovered(picked[h], Len(picked[h]) + 1))

\* All hosts return: no host is left waiting for a message or at a barrier.
AllReturn == <>AllDone
=============================================================================
