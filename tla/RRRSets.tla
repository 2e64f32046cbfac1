------------------------------ MODULE RRRSets ------------------------------
(***************************************************************************)
(* Distributed sampling of random reverse reachable sets:                  *)
(* GetRandomReverseReachableSets and the functions it calls                *)
(* (wf4/src/influence_maximization.cpp).                                   *)
(*                                                                         *)
(* Every host starts its share of the sets at random nodes of its own.  In *)
(* a pass, the threads of a host grow each set they hold as far as the     *)
(* host's own nodes go; a node that another host owns stays in the set's   *)
(* frontier.  A set with a frontier is then shipped to a host that owns a  *)
(* node of the frontier, a set without one to the host that started it,    *)
(* which keeps it.  After Epochs passes two finishing passes bring home    *)
(* what is still travelling.                                               *)
(*                                                                         *)
(* A set travels whole (serialize / deserialize copy its id, owner, nodes  *)
(* and frontier), so its contents are a function of its name, and the      *)
(* containers of the program hold names.  The exchange between two passes  *)
(* is a round of AllToAll, which TaggedExchange implements.                *)
(***************************************************************************)
EXTENDS Naturals, FiniteSets

CONSTANTS NumHosts,    \* net.Num
          Node,        \* global node ids
          Owner,       \* Owner[v]: the host that holds v as a master
          Succ,        \* Succ[v]: destinations of the edges of v
          GlobalSets,  \* global_sets, the -r option
          Epochs       \* epochs, the -e option

Host == 0 .. NumHosts - 1

ASSUME NumHostsAssumption == NumHosts \in Nat \ {0}
ASSUME NodeAssumption == IsFiniteSet(Node)
ASSUME OwnerAssumption == Owner \in [Node -> Host]
ASSUME SuccAssumption == Succ \in [Node -> SUBSET Node]
ASSUME GlobalSetsAssumption == GlobalSets \in Nat
ASSUME EpochsAssumption == Epochs \in Nat

\* host_sets: an equal share each, and the rest to the last host.
HostSets(h) ==
  IF h = NumHosts - 1
    THEN GlobalSets - (NumHosts - 1) * (GlobalSets \div NumHosts)
    ELSE GlobalSets \div NumHosts

\* A set is named by its owner_host and its id there.
SetId == UNION {{h} \X (0 .. HostSets(h) - 1) : h \in Host}

OwnerHost(s) == s[1]

\* Exchanges made: one per epoch, and one between the finishing passes.
Exchanges == Epochs + 1

VARIABLES
  pc,        \* what the main thread of each host is doing
  pass,      \* number of exchanges the host is through with
  partial,   \* partial_sets[h]: sets waiting for the do_all of the pass
  working,   \* sets a thread of h is growing
  bucket,    \* bucket[h][g]: remote_partial_sets[g] of host h
  wire,      \* serialized copies in the messages of an exchange
  stored,    \* stored[h]: ids of h present in its reachability_sets
  reach,     \* partial_reachable_set of each set
  frontier,  \* frontier of each set; the remote_frontier while it grows
  queue,     \* the local_frontier of the thread that grows the set
  freq,      \* frequency_ of each node, at its master
  posted, taken, view   \* the state of the collective

vars == <<pc, pass, partial, working, bucket, wire, stored, reach, frontier,
          queue, freq, posted, taken, view>>

X == INSTANCE AllToAll WITH Rounds <- Exchanges

places == <<partial, working, bucket, wire, stored>>

contents == <<reach, frontier, queue>>

\* The finished flag of GetRandomReverseReachableSets.
Finishing(h) == pass[h] >= Epochs

TypeOK ==
  /\ pc \in [Host -> {"generate", "exchange", "barrier", "return", "done"}]
  /\ pass \in [Host -> 0 .. Exchanges]
  /\ partial \in [Host -> SUBSET SetId]
  /\ working \in [Host -> SUBSET SetId]
  /\ bucket \in [Host -> [Host -> SUBSET SetId]]
  /\ wire \subseteq [to : Host, round : 1 .. Exchanges, set : SetId]
  /\ stored \in [Host -> SUBSET SetId]
  /\ reach \in [SetId -> SUBSET Node]
  /\ frontier \in [SetId -> SUBSET Node]
  /\ queue \in [SetId -> SUBSET Node]
  /\ freq \in [Node -> Nat]
  /\ X!ATypeOK

\* Mutant: the constructor forgets to put the root into the set.
SeedSetEmpty(v) == {}

\* PartialReachableSet(id, host, root): the set starts out holding its root.
SeedSet(v) == {v}

\* GenerateSeedNodes has run: the root is a random master of the owner.
Init ==
  /\ pc = [h \in Host |-> "generate"]
  /\ pass = [h \in Host |-> 0]
  /\ partial = [h \in Host |-> {s \in SetId : OwnerHost(s) = h}]
  /\ working = [h \in Host |-> {}]
  /\ bucket = [h \in Host |-> [g \in Host |-> {}]]
  /\ wire = {}
  /\ stored = [h \in Host |-> {}]
  /\ \E root \in [SetId -> Node] :
       /\ \A s \in SetId : Owner[root[s]] = OwnerHost(s)
       /\ reach = [s \in SetId |-> SeedSet(root[s])]
       /\ frontier = [s \in SetId |-> {root[s]}]
  /\ queue = [s \in SetId |-> {}]
  /\ freq = [v \in Node |-> 0]
  /\ X!AInit
-----------------------------------------------------------------------------
(* Growing a set: ContinueRandomReversibleReachableSet.                    *)

\* A thread takes a set and splits its frontier into the local queue and
\* the remote frontier.
Begin(h, s) ==
  /\ pc[h] = "generate"
  /\ s \in partial[h]
  /\ partial' = [partial EXCEPT ![h] = @ \ {s}]
  /\ working' = [working EXCEPT ![h] = @ \cup {s}]
  /\ queue' = [queue EXCEPT ![s] = {v \in frontier[s] : Owner[v] = h}]
  /\ frontier' = [frontier EXCEPT ![s] = {v \in @ : Owner[v] # h}]
  /\ UNCHANGED <<pc, pass, bucket, wire, stored, reach, freq,
                 posted, taken, view>>

\* Mutant: nodes that are in the set already are followed again.
NewlyReachedAgain(h, s, v) == IF Finishing(h) THEN {} ELSE Succ[v]

\* Nodes a visit of v may add to the set: none in a finishing pass, where the
\* loop body ends with continue.
NewlyReached(h, s, v) == IF Finishing(h) THEN {} ELSE Succ[v] \ reach[s]

\* Mutant: the count goes down.
CountedDown(h, v) == freq[v] - 1

\* atomicAdd(frequency_, 1), before the test of finish.
Counted(h, v) == freq[v] + 1

\* The thread pops a node, counts it, and follows a random choice T of the
\* edges that lead out of the set so far.  Local nodes are queued, remote
\* ones go to the frontier.
Visit(h, s, v, T) ==
  /\ pc[h] = "generate"
  /\ s \in working[h]
  /\ v \in queue[s]
  /\ T \subseteq NewlyReached(h, s, v)
  /\ freq' = [freq EXCEPT ![v] = Counted(h, v)]
  /\ reach' = [reach EXCEPT ![s] = @ \cup T]
  /\ queue' = [queue EXCEPT ![s] = (@ \ {v}) \cup {w \in T : Owner[w] = h}]
  /\ frontier' = [frontier EXCEPT ![s] = @ \cup {w \in T : Owner[w] # h}]
  /\ UNCHANGED <<pc, pass, places, posted, taken, view>>

\* Mutant: a finishing pass keeps the frontier nodes nobody visited.
KeptAll(h, s) == reach[s]

\* The nodes of a set that a thread of h is done with: a finishing pass
\* erases the nodes that were reached and will not be visited.
Kept(h, s) == IF Finishing(h) THEN reach[s] \ frontier[s] ELSE reach[s]

\* The frontier it is left with.
Open(h, s) == IF Finishing(h) THEN {} ELSE frontier[s]

\* The thread is through with the set.
Grown(h, s) ==
  /\ pc[h] = "generate"
  /\ s \in working[h]
  /\ queue[s] = {}
  /\ working' = [working EXCEPT ![h] = @ \ {s}]
  /\ reach' = [reach EXCEPT ![s] = Kept(h, s)]
  /\ frontier' = [frontier EXCEPT ![s] = Open(h, s)]
  /\ UNCHANGED <<pc, pass, partial, wire, queue, freq, posted, taken, view>>

\* Mutant: a finished set is kept wherever it is.
AtHomeAnywhere(h, s) == Finishing(h) \/ Open(h, s) = {}

\* owner_host == net.ID && (finish || partial_set.Finished())
AtHome(h, s) == OwnerHost(s) = h /\ (Finishing(h) \/ Open(h, s) = {})

\* NextHost: home if there is nothing left to visit, else a host that owns
\* the first node of the frontier, a hash set: any of its nodes.
NextHost(h, s) ==
  IF Finishing(h) \/ Open(h, s) = {}
    THEN {OwnerHost(s)}
    ELSE {Owner[v] : v \in Open(h, s)}

Store(h, s) ==
  /\ Grown(h, s)
  /\ AtHome(h, s)
  /\ stored' = [stored EXCEPT ![h] = @ \cup {s}]
  /\ UNCHANGED bucket

Ship(h, s, g) ==
  /\ Grown(h, s)
  /\ ~AtHome(h, s)
  /\ g \in NextHost(h, s)
  /\ bucket' = [bucket EXCEPT ![h][g] = @ \cup {s}]
  /\ UNCHANGED stored
-----------------------------------------------------------------------------
(* Between two passes: ExchangePartialSets.                                *)

\* Mutant: a host with nothing to send does not take part.
PassOverWithSets(h) ==
  /\ pc[h] = "generate" /\ partial[h] = {} /\ working[h] = {}
  /\ \E g \in Host : bucket[h][g] # {}

\* The do_all of a pass is over.
PassOver(h) == pc[h] = "generate" /\ partial[h] = {} /\ working[h] = {}

\* The sets that host h sends to g in the round it enters.
Message(h, g) ==
  {[to |-> g, round |-> posted[h] + 1, set |-> s] : s \in bucket[h][g]}

\* Send loop: what is in bucket g goes to host g.  The loop skips the host
\* itself; the buckets stay as they are.
SendSets(h) ==
  /\ PassOver(h)
  /\ pass[h] < Exchanges
  /\ X!Post(h)
  /\ wire' = wire \cup UNION {Message(h, g) : g \in Host \ {h}}
  /\ pc' = [pc EXCEPT ![h] = "exchange"]
  /\ UNCHANGED <<pass, partial, working, bucket, stored, contents, freq>>

\* The messages to h of the round it is in.
Incoming(h) == {m \in wire : m.to = h /\ m.round = posted[h]}

\* Mutant: the buckets are not cleared.
ClearedNot(h) == bucket

\* clear_all_parallel on every bucket, the host's own one included.
Cleared(h) == [bucket EXCEPT ![h] = [g \in Host |-> {}]]

\* All N-1 messages are in: deserialize them, clear the buckets.
RecvSets(h) ==
  /\ pc[h] = "exchange"
  /\ X!Take(h)
  /\ partial' = [partial EXCEPT ![h] = {m.set : m \in Incoming(h)}]
  /\ wire' = wire \ Incoming(h)
  /\ bucket' = Cleared(h)
  /\ pc' = [pc EXCEPT ![h] = "barrier"]
  /\ UNCHANGED <<pass, working, stored, contents, freq>>

\* getHostBarrier().wait(): every host has reached the barrier of the round.
BarrierOpen(h) == \A g \in Host : taken[g] >= taken[h]

LeaveBarrier(h) ==
  /\ pc[h] = "barrier"
  /\ BarrierOpen(h)
  /\ pc' = [pc EXCEPT ![h] = "generate"]
  /\ pass' = [pass EXCEPT ![h] = @ + 1]
  /\ UNCHANGED <<places, contents, freq, posted, taken, view>>

\* The second finishing pass is over: the last barrier.
Return(h) ==
  /\ PassOver(h)
  /\ pass[h] = Exchanges
  /\ pc' = [pc EXCEPT ![h] = "return"]
  /\ UNCHANGED <<pass, places, contents, freq, posted, taken, view>>

LeaveReturn(h) ==
  /\ pc[h] = "return"
  /\ \A g \in Host : pc[g] \in {"return", "done"}
  /\ pc' = [pc EXCEPT ![h] = "done"]
  /\ UNCHANGED <<pass, places, contents, freq, posted, taken, view>>

AllDone == \A h \in Host : pc[h] = "done"

Terminated == AllDone /\ UNCHANGED vars

SetStep(h, s) ==
  \/ Begin(h, s)
  \/ \E v \in queue[s] : \E T \in SUBSET Succ[v] : Visit(h, s, v, T)
  \/ Store(h, s)
  \/ \E g \in Host : Ship(h, s, g)

HostStep(h) ==
  \/ \E s \in SetId : SetStep(h, s)
  \/ SendSets(h)
  \/ RecvSets(h)
  \/ LeaveBarrier(h)
  \/ Return(h)
  \/ LeaveReturn(h)

Next == (\E h \in Host : HostStep(h)) \/ Terminated

\* Each host is a process whose threads keep working.
Fairness == \A h \in Host : WF_vars(HostStep(h))

Spec == Init /\ [][Next]_vars /\ Fairness
-----------------------------------------------------------------------------
\* The nodes of a set that some thread has popped.
Visited(s) == reach[s] \ (frontier[s] \cup queue[s])

\* frequency_ counts, at every moment, the sets in which the node has been
\* visited: no visit is lost or made twice, on whatever hosts and in whatever
\* pass a set was grown (influence_maximization.cpp:386-396).
FrequencyExact ==
  \A v \in Node : freq[v] = Cardinality({s \in SetId : v \in Visited(s)})

\* When a host returns, frequency_ of its own nodes is the "number of
\* occurrences in Reverse Reachable Sets" (wf4/graph.hpp:166): nodes that
\* were reached and never visited have been erased from the sets.
FrequencyIsOccurrences ==
  \A h \in Host : pc[h] = "done" =>
    \A v \in Node : Owner[v] = h =>
      freq[v] = Cardinality({s \in SetId : v \in reach[s]})

\* Where the program holds a set: at which hosts, in which buckets, in
\* messages to which host of which round.  During an exchange a bucket holds
\* what has been sent already, and is about to be cleared.
InPartial(s) == {h \in Host : s \in partial[h]}
InWorking(s) == {h \in Host : s \in working[h]}
InStored(s) == {h \in Host : s \in stored[h]}
InBucket(s) ==
  {p \in Host \X Host : pc[p[1]] # "exchange" /\ s \in bucket[p[1]][p[2]]}
InWire(s) ==
  {p \in Host \X (1 .. Exchanges) :
     [to |-> p[1], round |-> p[2], set |-> s] \in wire}

\* No set is ever lost, and none is grown or kept in two places: not by the
\* exchange, whose clear_all_parallel also clears the host's own bucket
\* (influence_maximization.cpp:630-633).
OnePlace ==
  \A s \in SetId :
      Cardinality(InPartial(s)) + Cardinality(InWorking(s))
    + Cardinality(InStored(s)) + Cardinality(InBucket(s))
    + Cardinality(InWire(s)) = 1

\* On return every set is in the reachability_sets of its owner: two
\* finishing passes are enough to bring home whatever is still travelling
\* (influence_maximization.cpp:171-180).
EverySetStored ==
  (\E h \in Host : pc[h] = "done") =>
    \A g \in Host : stored[g] = {s \in SetId : OwnerHost(s) = g}

\* Every node of S can be reached from r along edges within S.
ReachedFrom(r, S) ==
  \A T \in SUBSET S :
    r \in T /\ (\A v \in T : Succ[v] \cap S \subseteq T) => T = S

\* What is kept in the end is a reverse reachable set: it holds a node of
\* its owner from which all its nodes are reached inside the set, although
\* nodes were erased from it and its parts grew on different hosts.
StoredIsReachable ==
  \A h \in Host : \A s \in stored[h] :
    \E r \in reach[s] : Owner[r] = h /\ ReachedFrom(r, reach[s])

\* All hosts return: no host is left waiting for a message or at a barrier.
AllReturn == <>AllDone
=============================================================================
