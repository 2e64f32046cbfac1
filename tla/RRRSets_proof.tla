--------------------------- MODULE RRRSets_proof ---------------------------
(***************************************************************************)
(* Proofs about RRRSets, for every graph, every distribution of its nodes  *)
(* over hosts, every number of sets and of epochs.                         *)
(*                                                                         *)
(* The argument.  A set is in one place only (InvPlaces), so one thread    *)
(* grows it, and its queue is empty when a thread takes it up.  The queue  *)
(* and the frontier are disjoint parts of the set (InvShape); popping a    *)
(* node moves exactly that node out of them, and nothing else moves nodes  *)
(* between visited and not visited.  So each atomicAdd on frequency_ goes  *)
(* with one more set in which the node has been visited.                   *)
(***************************************************************************)
EXTENDS RRRSets, FiniteSetTheorems, TLAPS

\* Nothing is left over from the previous pass where the program overwrites
\* or clears a container.
InvPass == \A h \in Host :
  /\ pc[h] \in {"exchange", "barrier"} => pass[h] < Exchanges
  /\ pc[h] # "generate" => working[h] = {}
  /\ pc[h] \in {"exchange", "return", "done"} => partial[h] = {}
  /\ pc[h] = "barrier" => \A g \in Host : bucket[h][g] = {}

\* A set is in one place: in exactly one element of A, in none of the others.
Only(A, B, C, D, E) ==
  /\ \E x : A = {x}
  /\ B = {} /\ C = {} /\ D = {} /\ E = {}

InvPlaces == \A s \in SetId :
  \/ Only(InPartial(s), InWorking(s), InStored(s), InBucket(s), InWire(s))
  \/ Only(InWorking(s), InPartial(s), InStored(s), InBucket(s), InWire(s))
  \/ Only(InStored(s), InPartial(s), InWorking(s), InBucket(s), InWire(s))
  \/ Only(InBucket(s), InPartial(s), InWorking(s), InStored(s), InWire(s))
  \/ Only(InWire(s), InPartial(s), InWorking(s), InStored(s), InBucket(s))

InvSelf == \A h \in Host : bucket[h][h] = {}

\* Unvisited nodes of a set are in its queue or in its frontier.
InvShape == \A s \in SetId :
  /\ queue[s] \subseteq reach[s]
  /\ frontier[s] \subseteq reach[s]
  /\ queue[s] \cap frontier[s] = {}

\* Only a thread that grows a set has a queue for it, of nodes of its host;
\* the frontier it collects has none of them.
InvWork == \A s \in SetId :
  /\ queue[s] # {} => \E h \in Host : s \in working[h]
  /\ \A h \in Host : s \in working[h] => \A v \in frontier[s] : Owner[v] # h

IInv ==
  /\ TypeOK
  /\ InvPass
  /\ InvPlaces
  /\ InvSelf
  /\ InvShape
  /\ InvWork
  /\ FrequencyExact
-----------------------------------------------------------------------------
USE NumHostsAssumption, NodeAssumption, OwnerAssumption, SuccAssumption,
    GlobalSetsAssumption, EpochsAssumption

\* A set identifier is a pair, its host first, and there are finitely many.
LEMMA SetIdFinite ==
  /\ IsFiniteSet(SetId)
  /\ \A s \in SetId : OwnerHost(s) \in Host
<1> DEFINE q == GlobalSets \div NumHosts
<1>1. \A h \in Host : HostSets(h) \in Int /\ HostSets(h) <= GlobalSets
  <2>1. q \in Nat /\ q <= GlobalSets
    OBVIOUS
  <2>2. NumHosts - 1 \in Nat /\ (NumHosts - 1) * q \in Nat
    BY <2>1
  <2>3. QED
    BY <2>1, <2>2 DEF HostSets
<1>2. SetId \subseteq Host \X (0 .. GlobalSets)
  BY <1>1 DEF SetId
<1>3. IsFiniteSet(Host \X (0 .. GlobalSets))
  <2>1. IsFiniteSet(Host) /\ IsFiniteSet(0 .. GlobalSets)
    BY FS_Interval DEF Host
  <2>2. QED
    BY <2>1, FS_Product
<1>4. QED
  BY <1>2, <1>3, FS_Subset DEF OwnerHost

LEMMA ExchangesNat == Exchanges \in Nat \ {0} /\ Exchanges = Epochs + 1
BY DEF Exchanges

LEMMA InitIInv == Init => IInv
<1> SUFFICES ASSUME Init PROVE IInv
  OBVIOUS
<1>1. PICK root \in [SetId -> Node] :
        /\ \A s \in SetId : Owner[root[s]] = OwnerHost(s)
        /\ reach = [s \in SetId |-> SeedSet(root[s])]
        /\ frontier = [s \in SetId |-> {root[s]}]
  BY DEF Init
<1>2. \A s \in SetId : reach[s] = {root[s]} /\ frontier[s] = {root[s]}
                      /\ queue[s] = {} /\ root[s] \in Node
  BY <1>1 DEF SeedSet, Init
<1>3. TypeOK
  <2>1. X!ATypeOK
    BY ExchangesNat DEF Init, X!AInit, X!ATypeOK, X!Nothing
  <2>2. QED
    BY <1>1, <1>2, <2>1, ExchangesNat DEF Init, TypeOK, SeedSet
<1>4. InvPass /\ InvSelf /\ InvShape /\ InvWork
  BY <1>2 DEF Init, InvPass, InvSelf, InvShape, InvWork
<1>5. InvPlaces
  <2> SUFFICES ASSUME NEW s \in SetId
               PROVE  Only(InPartial(s), InWorking(s), InStored(s),
                           InBucket(s), InWire(s))
    BY DEF InvPlaces
  <2>1. InPartial(s) = {OwnerHost(s)}
    BY SetIdFinite DEF Init, InPartial
  <2>2. /\ InWorking(s) = {} /\ InStored(s) = {}
        /\ InBucket(s) = {} /\ InWire(s) = {}
    BY DEF Init, InWorking, InStored, InBucket, InWire
  <2>3. QED
    BY <2>1, <2>2 DEF Only
<1>6. FrequencyExact
  <2> SUFFICES ASSUME NEW v \in Node
               PROVE  freq[v] = Cardinality({s \in SetId : v \in Visited(s)})
    BY DEF FrequencyExact
  <2>1. {s \in SetId : v \in Visited(s)} = {}
    BY <1>2 DEF Visited
  <2>2. QED
    BY <2>1, FS_EmptySet DEF Init
<1>7. QED
  BY <1>3, <1>4, <1>5, <1>6 DEF IInv
-----------------------------------------------------------------------------
\* A step that leaves the visited nodes of every set and the counters alone.
LEMMA SameVisited ==
  ASSUME FrequencyExact, freq' = freq,
         \A s \in SetId : Visited(s)' = Visited(s)
  PROVE  FrequencyExact'
<1>1. \A v \in Node : {s \in SetId : v \in Visited(s)}'
                   = {s \in SetId : v \in Visited(s)}
  OBVIOUS
<1>2. QED
  BY <1>1 DEF FrequencyExact

\* A set that waits in partial_sets is nowhere else, so nobody has a queue
\* for it.
LEMMA WaitingIsIdle ==
  ASSUME IInv, NEW h \in Host, NEW s \in partial[h]
  PROVE  /\ s \in SetId
         /\ InPartial(s) = {h}
         /\ InWorking(s) = {} /\ InStored(s) = {}
         /\ InBucket(s) = {} /\ InWire(s) = {}
         /\ queue[s] = {}
<1>1. s \in SetId
  BY DEF IInv, TypeOK
<1>2. h \in InPartial(s)
  BY DEF InPartial
<1>3. /\ InPartial(s) = {h}
      /\ InWorking(s) = {} /\ InStored(s) = {}
      /\ InBucket(s) = {} /\ InWire(s) = {}
  BY <1>1, <1>2 DEF IInv, InvPlaces, Only
<1>4. queue[s] = {}
  BY <1>1, <1>3 DEF IInv, InvWork, InWorking
<1>5. QED
  BY <1>1, <1>3, <1>4

\* A set that a thread grows is nowhere else.
LEMMA WorkingIsAlone ==
  ASSUME IInv, NEW h \in Host, NEW s \in working[h]
  PROVE  /\ s \in SetId
         /\ InWorking(s) = {h}
         /\ InPartial(s) = {} /\ InStored(s) = {}
         /\ InBucket(s) = {} /\ InWire(s) = {}
<1>1. s \in SetId
  BY DEF IInv, TypeOK
<1>2. h \in InWorking(s)
  BY DEF InWorking
<1>3. QED
  BY <1>1, <1>2 DEF IInv, InvPlaces, Only

LEMMA BeginIInv ==
  ASSUME IInv, NEW h \in Host, NEW s \in SetId, Begin(h, s)
  PROVE  IInv'
<1> USE DEF Begin
<1>1. /\ InPartial(s) = {h}
      /\ InWorking(s) = {} /\ InStored(s) = {}
      /\ InBucket(s) = {} /\ InWire(s) = {}
      /\ queue[s] = {}
  BY WaitingIsIdle
<1>2. TypeOK
  BY DEF IInv
<1>3. TypeOK'
  BY <1>2 DEF TypeOK, X!ATypeOK
<1>4. InvPass'
  BY <1>2 DEF IInv, InvPass, TypeOK
<1>5. InvSelf'
  BY DEF IInv, InvSelf
<1>6. /\ queue'[s] = {v \in frontier[s] : Owner[v] = h}
      /\ frontier'[s] = {v \in frontier[s] : Owner[v] # h}
      /\ \A t \in SetId : t # s => queue'[t] = queue[t] /\ frontier'[t] = frontier[t]
      /\ reach' = reach
  BY <1>2 DEF TypeOK
<1>7. InvShape'
  BY <1>6 DEF IInv, InvShape
<1>8. \A g \in Host, t \in SetId :
        /\ t \in partial'[g] <=> t \in partial[g] /\ ~(g = h /\ t = s)
        /\ t \in working'[g] <=> t \in working[g] \/ (g = h /\ t = s)
  BY <1>2 DEF TypeOK
<1>9. InvWork'
  <2> SUFFICES ASSUME NEW t \in SetId
               PROVE  /\ queue'[t] # {} => \E g \in Host : t \in working'[g]
                      /\ \A g \in Host : t \in working'[g] =>
                            \A v \in frontier'[t] : Owner[v] # g
    BY DEF InvWork
  <2>1. CASE t = s
    BY <1>1, <1>6, <1>8, <2>1 DEF InWorking
  <2>2. CASE t # s
    BY <1>6, <1>8, <2>2 DEF IInv, InvWork
  <2>3. QED
    BY <2>1, <2>2
<1>10. InvPlaces'
  <2>1. \A t \in SetId : InStored(t)' = InStored(t) /\ InBucket(t)' = InBucket(t)
                         /\ InWire(t)' = InWire(t)
    BY DEF InStored, InBucket, InWire
  <2>2. \A t \in SetId : t # s => /\ InPartial(t)' = InPartial(t)
                                 /\ InWorking(t)' = InWorking(t)
    BY <1>8 DEF InPartial, InWorking
  <2>3. InPartial(s)' = {} /\ InWorking(s)' = {h}
    BY <1>1, <1>8 DEF InPartial, InWorking
  <2>4. Only(InWorking(s), InPartial(s), InStored(s), InBucket(s), InWire(s))'
    BY <1>1, <2>1, <2>3 DEF Only
  <2>5. QED
    BY <2>1, <2>2, <2>4 DEF IInv, InvPlaces, Only
<1>11. FrequencyExact'
  <2>1. \A t \in SetId : Visited(t)' = Visited(t)
    BY <1>1, <1>6 DEF Visited
  <2>2. QED
    BY <2>1, SameVisited DEF IInv
<1>12. QED
  BY <1>3, <1>4, <1>5, <1>7, <1>9, <1>10, <1>11 DEF IInv
-----------------------------------------------------------------------------
\* A step that moves no set from one place to another.
LEMMA SamePlaces ==
  ASSUME InvPlaces, UNCHANGED places,
         \A h \in Host : (pc'[h] = "exchange") <=> (pc[h] = "exchange")
  PROVE  InvPlaces'
<1>1. \A s \in SetId :
        /\ InPartial(s)' = InPartial(s) /\ InWorking(s)' = InWorking(s)
        /\ InStored(s)' = InStored(s) /\ InBucket(s)' = InBucket(s)
        /\ InWire(s)' = InWire(s)
  BY DEF places, InPartial, InWorking, InStored, InBucket, InWire
<1>2. QED
  BY <1>1 DEF InvPlaces, Only

LEMMA VisitIInv ==
  ASSUME IInv, NEW h \in Host, NEW s \in SetId, NEW v \in queue[s],
         NEW T \in SUBSET Succ[v], Visit(h, s, v, T)
  PROVE  IInv'
<1> USE DEF Visit
<1>1. TypeOK /\ s \in working[h] /\ InWorking(s) = {h}
  BY WorkingIsAlone DEF IInv
<1>2. /\ v \in Node /\ v \in reach[s] /\ v \notin frontier[s]
      /\ T \subseteq Node /\ T \cap reach[s] = {}
  BY <1>1 DEF IInv, InvShape, TypeOK, NewlyReached
<1>3. /\ reach'[s] = reach[s] \cup T
      /\ queue'[s] = (queue[s] \ {v}) \cup {w \in T : Owner[w] = h}
      /\ frontier'[s] = frontier[s] \cup {w \in T : Owner[w] # h}
      /\ \A t \in SetId : t # s => /\ reach'[t] = reach[t]
                                   /\ queue'[t] = queue[t]
                                   /\ frontier'[t] = frontier[t]
  BY <1>1 DEF TypeOK
<1>4. TypeOK'
  BY <1>1, <1>2 DEF TypeOK, Counted, places, X!ATypeOK
<1>5. InvPass' /\ InvSelf'
  BY DEF IInv, InvPass, InvSelf, places
<1>6. InvShape'
  BY <1>2, <1>3 DEF IInv, InvShape
<1>7. InvWork'
  <2> SUFFICES ASSUME NEW t \in SetId
               PROVE  /\ queue'[t] # {} => \E g \in Host : t \in working'[g]
                      /\ \A g \in Host : t \in working'[g] =>
                            \A w \in frontier'[t] : Owner[w] # g
    BY DEF InvWork
  <2>1. CASE t = s
    BY <1>1, <1>3, <2>1 DEF IInv, InvWork, InWorking, places
  <2>2. CASE t # s
    BY <1>3, <2>2 DEF IInv, InvWork, places
  <2>3. QED
    BY <2>1, <2>2
<1>8. InvPlaces'
  BY SamePlaces DEF IInv
<1>9. FrequencyExact'
  <2>1. /\ Visited(s)' = Visited(s) \cup {v}
        /\ v \notin Visited(s)
        /\ \A t \in SetId : t # s => Visited(t)' = Visited(t)
    BY <1>2, <1>3 DEF Visited
  <2> SUFFICES ASSUME NEW w \in Node
               PROVE  freq'[w] = Cardinality({t \in SetId : w \in Visited(t)'})
    BY DEF FrequencyExact
  <2> DEFINE S == {t \in SetId : w \in Visited(t)}
             Snew == {t \in SetId : w \in Visited(t)'}
  <2>2. freq[w] = Cardinality(S) /\ IsFiniteSet(S)
    BY SetIdFinite, FS_Subset DEF IInv, FrequencyExact
  <2>3. CASE w = v
    <3>1. Snew = S \cup {s} /\ s \notin S
      BY <2>1, <2>3
    <3>2. Cardinality(Snew) = Cardinality(S) + 1
      BY <2>2, <3>1, FS_AddElement
    <3>3. freq'[w] = freq[w] + 1
      BY <1>1, <2>3 DEF TypeOK, Counted
    <3>4. QED
      BY <2>2, <3>2, <3>3
  <2>4. CASE w # v
    <3>1. Snew = S
      BY <2>1, <2>4
    <3>2. freq'[w] = freq[w]
      BY <1>1, <2>4 DEF TypeOK
    <3>3. QED
      BY <2>2, <3>1, <3>2
  <2>5. QED
    BY <2>3, <2>4
<1>10. QED
  BY <1>4, <1>5, <1>6, <1>7, <1>8, <1>9 DEF IInv

\* What Grown does to the contents of the set, whether it stays or leaves.
LEMMA GrownContents ==
  ASSUME IInv, NEW h \in Host, NEW s \in SetId, Grown(h, s)
  PROVE  /\ InvShape' /\ InvWork' /\ FrequencyExact'
         /\ reach' \in [SetId -> SUBSET Node]
         /\ frontier' \in [SetId -> SUBSET Node]
<1> USE DEF Grown
<1>1. TypeOK /\ InWorking(s) = {h}
  BY WorkingIsAlone DEF IInv
<1>2. /\ reach'[s] = Kept(h, s) /\ frontier'[s] = Open(h, s) /\ queue[s] = {}
      /\ queue' = queue
      /\ \A t \in SetId : t # s => reach'[t] = reach[t] /\ frontier'[t] = frontier[t]
  BY <1>1 DEF TypeOK
<1>3. Kept(h, s) \subseteq Node /\ Open(h, s) \subseteq Kept(h, s)
  BY <1>1 DEF IInv, InvShape, Kept, Open, TypeOK
<1>4. /\ reach' \in [SetId -> SUBSET Node]
      /\ frontier' \in [SetId -> SUBSET Node]
  BY <1>1, <1>3 DEF TypeOK
<1>5. InvShape'
  BY <1>2, <1>3 DEF IInv, InvShape
<1>6. \A g \in Host, t \in SetId :
        t \in working'[g] <=> t \in working[g] /\ ~(g = h /\ t = s)
  BY <1>1 DEF TypeOK
<1>7. InvWork'
  <2> SUFFICES ASSUME NEW t \in SetId
               PROVE  /\ queue'[t] # {} => \E g \in Host : t \in working'[g]
                      /\ \A g \in Host : t \in working'[g] =>
                            \A w \in frontier'[t] : Owner[w] # g
    BY DEF InvWork
  <2>1. CASE t = s
    BY <1>1, <1>2, <1>6, <2>1 DEF InWorking
  <2>2. CASE t # s
    BY <1>2, <1>6, <2>2 DEF IInv, InvWork
  <2>3. QED
    BY <2>1, <2>2
<1>8. FrequencyExact'
  <2>1. \A t \in SetId : Visited(t)' = Visited(t)
    BY <1>2 DEF Visited, Kept, Open
  <2>2. QED
    BY <2>1, SameVisited DEF IInv
<1>9. QED
  BY <1>4, <1>5, <1>7, <1>8

LEMMA StoreIInv ==
  ASSUME IInv, NEW h \in Host, NEW s \in SetId, Store(h, s)
  PROVE  IInv'
<1> USE DEF Store, Grown
<1>1. /\ TypeOK
      /\ InWorking(s) = {h}
      /\ InPartial(s) = {} /\ InStored(s) = {}
      /\ InBucket(s) = {} /\ InWire(s) = {}
  BY WorkingIsAlone DEF IInv
<1>2. TypeOK' /\ InvShape' /\ InvWork' /\ FrequencyExact'
  BY <1>1, GrownContents DEF TypeOK, X!ATypeOK
<1>3. InvPass' /\ InvSelf'
  BY <1>1 DEF IInv, InvPass, InvSelf, TypeOK
<1>4. \A g \in Host, t \in SetId :
        /\ t \in working'[g] <=> t \in working[g] /\ ~(g = h /\ t = s)
        /\ t \in stored'[g] <=> t \in stored[g] \/ (g = h /\ t = s)
  BY <1>1 DEF TypeOK
<1>5. InvPlaces'
  <2>1. \A t \in SetId : InPartial(t)' = InPartial(t) /\ InBucket(t)' = InBucket(t)
                         /\ InWire(t)' = InWire(t)
    BY DEF InPartial, InBucket, InWire
  <2>2. \A t \in SetId : t # s => /\ InStored(t)' = InStored(t)
                                 /\ InWorking(t)' = InWorking(t)
    BY <1>4 DEF InStored, InWorking
  <2>3. InStored(s)' = {h} /\ InWorking(s)' = {}
    BY <1>1, <1>4 DEF InStored, InWorking
  <2>4. Only(InStored(s), InPartial(s), InWorking(s), InBucket(s), InWire(s))'
    BY <1>1, <2>1, <2>3 DEF Only
  <2>5. QED
    BY <2>1, <2>2, <2>4 DEF IInv, InvPlaces, Only
<1>6. QED
  BY <1>2, <1>3, <1>5 DEF IInv

LEMMA ShipIInv ==
  ASSUME IInv, NEW h \in Host, NEW s \in SetId, NEW g \in Host, Ship(h, s, g)
  PROVE  IInv'
<1> USE DEF Ship, Grown
<1>1. /\ TypeOK
      /\ InWorking(s) = {h}
      /\ InPartial(s) = {} /\ InStored(s) = {}
      /\ InBucket(s) = {} /\ InWire(s) = {}
  BY WorkingIsAlone DEF IInv
<1>2. TypeOK' /\ InvShape' /\ InvWork' /\ FrequencyExact'
  <2>1. /\ InvShape' /\ InvWork' /\ FrequencyExact'
        /\ reach' \in [SetId -> SUBSET Node]
        /\ frontier' \in [SetId -> SUBSET Node]
    BY GrownContents
  <2>2. bucket' \in [Host -> [Host -> SUBSET SetId]]
    BY <1>1 DEF TypeOK
  <2>3. X!ATypeOK'
    BY <1>1 DEF TypeOK, X!ATypeOK
  <2>4. QED
    BY <1>1, <2>1, <2>2, <2>3 DEF TypeOK
<1>3. g # h
  BY <1>1 DEF AtHome, NextHost, Open, IInv, InvWork
<1>4. \A k, l \in Host, t \in SetId :
        /\ t \in working'[k] <=> t \in working[k] /\ ~(k = h /\ t = s)
        /\ t \in bucket'[k][l] <=> t \in bucket[k][l] \/ (k = h /\ l = g /\ t = s)
  BY <1>1 DEF TypeOK
<1>5. InvPass'
  BY <1>1 DEF IInv, InvPass, TypeOK
<1>6. InvSelf'
  <2>1. \A k \in Host : bucket'[k][k] = bucket[k][k]
    BY <1>1, <1>3 DEF TypeOK
  <2>2. QED
    BY <2>1 DEF IInv, InvSelf
<1>7. InvPlaces'
  <2>1. \A t \in SetId : InPartial(t)' = InPartial(t) /\ InStored(t)' = InStored(t)
                         /\ InWire(t)' = InWire(t)
    BY DEF InPartial, InStored, InWire
  <2>2. \A t \in SetId : t # s => /\ InBucket(t)' = InBucket(t)
                                 /\ InWorking(t)' = InWorking(t)
    BY <1>4 DEF InBucket, InWorking
  <2>3. InBucket(s)' = {<<h, g>>} /\ InWorking(s)' = {}
    <3>1. \A p \in Host \X Host :
            pc[p[1]] # "exchange" => s \notin bucket[p[1]][p[2]]
      BY <1>1 DEF InBucket
    <3>2. \A p \in Host \X Host :
            /\ pc'[p[1]] = pc[p[1]]
            /\ s \in bucket'[p[1]][p[2]]
                 <=> s \in bucket[p[1]][p[2]] \/ p = <<h, g>>
      BY <1>4
    <3>3. pc'[h] # "exchange"
      OBVIOUS
    <3>4. InBucket(s)' = {p \in Host \X Host : p = <<h, g>>}
      BY <3>1, <3>2, <3>3 DEF InBucket
    <3>5. QED
      BY <1>1, <1>4, <3>4 DEF InWorking
  <2>4. Only(InBucket(s), InPartial(s), InWorking(s), InStored(s), InWire(s))'
    BY <1>1, <2>1, <2>3 DEF Only
  <2>5. QED
    BY <2>1, <2>2, <2>4 DEF IInv, InvPlaces, Only
<1>8. QED
  BY <1>2, <1>5, <1>6, <1>7 DEF IInv
-----------------------------------------------------------------------------
\* What is sent to g is on the wire, for the round the sender has entered.
LEMMA SendSetsIInv ==
  ASSUME IInv, NEW h \in Host, SendSets(h)
  PROVE  IInv'
<1> USE DEF SendSets, PassOver
<1> DEFINE r == posted[h] + 1
<1>1. TypeOK
  BY DEF IInv
<1>2. r \in 1 .. Exchanges
  BY <1>1, ExchangesNat DEF X!Post, TypeOK, X!ATypeOK
<1>3. TypeOK'
  <2>1. X!ATypeOK'
    <3>1. X!Nothing \in [Host -> 0 .. Exchanges]
      BY ExchangesNat DEF X!Nothing
    <3>2. /\ posted' \in [Host -> 0 .. Exchanges]
          /\ taken' \in [Host -> 0 .. Exchanges]
      BY <1>1, <1>2 DEF TypeOK, X!ATypeOK, X!Post
    <3>3. view' \in [Host -> [Host -> 0 .. Exchanges]]
      BY <1>1, <3>1 DEF TypeOK, X!ATypeOK, X!Post
    <3>4. QED
      BY <3>2, <3>3 DEF X!ATypeOK
  <2>2. \A g \in Host : Message(h, g) \subseteq
          [to : Host, round : 1 .. Exchanges, set : SetId]
    BY <1>1, <1>2 DEF Message, TypeOK
  <2>3. QED
    BY <1>1, <2>1, <2>2 DEF TypeOK, contents
<1>4. InvPass'
  BY <1>1 DEF IInv, InvPass, TypeOK
<1>5. InvSelf' /\ InvShape' /\ InvWork'
  BY DEF IInv, InvSelf, InvShape, InvWork, contents
<1>6. FrequencyExact'
  <2>1. \A t \in SetId : Visited(t)' = Visited(t)
    BY DEF Visited, contents
  <2>2. QED
    BY <2>1, SameVisited DEF IInv
<1>7. InvPlaces'
  <2> SUFFICES ASSUME NEW s \in SetId
               PROVE  (\/ Only(InPartial(s), InWorking(s), InStored(s), InBucket(s), InWire(s))
                       \/ Only(InWorking(s), InPartial(s), InStored(s), InBucket(s), InWire(s))
                       \/ Only(InStored(s), InPartial(s), InWorking(s), InBucket(s), InWire(s))
                       \/ Only(InBucket(s), InPartial(s), InWorking(s), InStored(s), InWire(s))
                       \/ Only(InWire(s), InPartial(s), InWorking(s), InStored(s), InBucket(s)))'
    BY DEF InvPlaces
  <2>1. /\ InPartial(s)' = InPartial(s) /\ InWorking(s)' = InWorking(s)
        /\ InStored(s)' = InStored(s)
    BY DEF InPartial, InWorking, InStored
  <2>2. \A k \in Host : pc'[k] = IF k = h THEN "exchange" ELSE pc[k]
    BY <1>1 DEF TypeOK
  <2>3. \A p \in Host \X (1 .. Exchanges) :
          [to |-> p[1], round |-> p[2], set |-> s] \in wire'
            <=> \/ [to |-> p[1], round |-> p[2], set |-> s] \in wire
                \/ p[1] # h /\ p[2] = r /\ s \in bucket[h][p[1]]
    <3> TAKE p \in Host \X (1 .. Exchanges)
    <3> DEFINE m == [to |-> p[1], round |-> p[2], set |-> s]
    <3>1. m \in wire' <=> m \in wire \/ \E g \in Host \ {h} : m \in Message(h, g)
      OBVIOUS
    <3>2. \A g \in Host : m \in Message(h, g) <=>
             p[1] = g /\ p[2] = r /\ s \in bucket[h][g]
      BY DEF Message
    <3>3. QED
      BY <3>1, <3>2
  <2>4. CASE \E g \in Host : s \in bucket[h][g]
    <3>1. PICK g \in Host : s \in bucket[h][g]
      BY <2>4
    <3>2. g # h
      BY <3>1 DEF IInv, InvSelf
    <3>3. <<h, g>> \in InBucket(s)
      BY <3>1 DEF InBucket
    <3>4. /\ InBucket(s) = {<<h, g>>} /\ InWire(s) = {}
          /\ InPartial(s) = {} /\ InWorking(s) = {} /\ InStored(s) = {}
      BY <3>3 DEF IInv, InvPlaces, Only
    <3>5. InBucket(s)' = {}
      BY <2>2, <3>4 DEF InBucket
    <3>6. \A k \in Host : s \in bucket[h][k] <=> k = g
      <4>1. \A k \in Host : s \in bucket[h][k] => <<h, k>> \in InBucket(s)
        BY DEF InBucket
      <4>2. QED
        BY <3>1, <3>4, <4>1
    <3>7. InWire(s)' = {<<g, r>>}
      <4>1. \A p \in Host \X (1 .. Exchanges) :
              [to |-> p[1], round |-> p[2], set |-> s] \in wire' <=> p = <<g, r>>
        BY <2>3, <3>2, <3>4, <3>6 DEF InWire
      <4>2. InWire(s)' = {p \in Host \X (1 .. Exchanges) : p = <<g, r>>}
        BY <4>1 DEF InWire
      <4>3. QED
        BY <1>2, <4>2
    <3>8. QED
      BY <2>1, <3>4, <3>5, <3>7 DEF Only
  <2>5. CASE \A g \in Host : s \notin bucket[h][g]
    <3>1. InBucket(s)' = InBucket(s)
      BY <2>2, <2>5 DEF InBucket
    <3>2. InWire(s)' = InWire(s)
      BY <2>3, <2>5 DEF InWire
    <3>3. QED
      BY <2>1, <3>1, <3>2 DEF IInv, InvPlaces, Only
  <2>6. QED
    BY <2>4, <2>5
<1>8. QED
  BY <1>3, <1>4, <1>5, <1>6, <1>7 DEF IInv

\* What arrives is taken off the wire; partial_sets was empty, and what is
\* cleared from the buckets has been sent.
LEMMA RecvSetsIInv ==
  ASSUME IInv, NEW h \in Host, RecvSets(h)
  PROVE  IInv'
<1> USE DEF RecvSets
<1>1. TypeOK /\ partial[h] = {} /\ working[h] = {}
  BY DEF IInv, InvPass
<1>2. Incoming(h) \subseteq wire /\ {m.set : m \in Incoming(h)} \subseteq SetId
  BY <1>1 DEF Incoming, TypeOK
<1>3. TypeOK'
  <2>1. X!ATypeOK'
    BY <1>1, ExchangesNat DEF TypeOK, X!ATypeOK, X!Take, X!RoundOf
  <2>2. QED
    BY <1>1, <1>2, <2>1 DEF TypeOK, contents, Cleared
<1>4. InvPass'
  BY <1>1 DEF IInv, InvPass, Cleared, TypeOK
<1>5. InvSelf'
  BY <1>1 DEF IInv, InvSelf, Cleared, TypeOK
<1>6. InvShape' /\ InvWork'
  BY DEF IInv, InvShape, InvWork, contents
<1>7. FrequencyExact'
  <2>1. \A t \in SetId : Visited(t)' = Visited(t)
    BY DEF Visited, contents
  <2>2. QED
    BY <2>1, SameVisited DEF IInv
<1>8. InvPlaces'
  <2> SUFFICES ASSUME NEW s \in SetId
               PROVE  (\/ Only(InPartial(s), InWorking(s), InStored(s), InBucket(s), InWire(s))
                       \/ Only(InWorking(s), InPartial(s), InStored(s), InBucket(s), InWire(s))
                       \/ Only(InStored(s), InPartial(s), InWorking(s), InBucket(s), InWire(s))
                       \/ Only(InBucket(s), InPartial(s), InWorking(s), InStored(s), InWire(s))
                       \/ Only(InWire(s), InPartial(s), InWorking(s), InStored(s), InBucket(s)))'
    BY DEF InvPlaces
  <2>1. InWorking(s)' = InWorking(s) /\ InStored(s)' = InStored(s)
    BY DEF InWorking, InStored
  <2>2. InBucket(s)' = InBucket(s)
    <3>1. \A k, g \in Host :
            (pc'[k] # "exchange" /\ s \in bucket'[k][g])
              <=> (pc[k] # "exchange" /\ s \in bucket[k][g])
      BY <1>1 DEF Cleared, TypeOK
    <3>2. QED
      BY <3>1 DEF InBucket
  <2>3. \A g \in Host : s \in partial'[g] <=>
          \/ s \in partial[g]
          \/ g = h /\ \E m \in Incoming(h) : m.set = s
    BY <1>1 DEF TypeOK
  <2> DEFINE n == [to |-> h, round |-> posted[h], set |-> s]
  <2>4. \A m \in Incoming(h) : m.set = s => m = n
    BY <1>1 DEF Incoming, TypeOK
  <2>5. \A p \in Host \X (1 .. Exchanges) :
          [to |-> p[1], round |-> p[2], set |-> s] \in wire' <=>
            /\ [to |-> p[1], round |-> p[2], set |-> s] \in wire
            /\ p # <<h, posted[h]>>
    BY DEF Incoming
  <2>6. CASE n \in wire
    <3>1. n \in Incoming(h) /\ posted[h] \in 1 .. Exchanges
      BY <1>1, <2>6 DEF Incoming, TypeOK
    <3>2. <<h, posted[h]>> \in InWire(s)
      BY <2>6, <3>1 DEF InWire
    <3>3. /\ InWire(s) = {<<h, posted[h]>>} /\ InBucket(s) = {}
          /\ InPartial(s) = {} /\ InWorking(s) = {} /\ InStored(s) = {}
      BY <3>2 DEF IInv, InvPlaces, Only
    <3>4. InWire(s)' = {}
      BY <2>5, <3>3 DEF InWire
    <3>5. InPartial(s)' = {h}
      BY <2>3, <3>1, <3>3 DEF InPartial
    <3>6. QED
      BY <2>1, <2>2, <3>3, <3>4, <3>5 DEF Only
  <2>7. CASE n \notin wire
    <3>1. InPartial(s)' = InPartial(s)
      BY <1>2, <2>3, <2>4, <2>7 DEF InPartial
    <3>2. InWire(s)' = InWire(s)
      BY <2>5, <2>7 DEF InWire
    <3>3. QED
      BY <2>1, <2>2, <3>1, <3>2 DEF IInv, InvPlaces, Only
  <2>8. QED
    BY <2>6, <2>7
<1>9. QED
  BY <1>3, <1>4, <1>5, <1>6, <1>7, <1>8 DEF IInv
-----------------------------------------------------------------------------
\* The steps that only move the program counter of a host.
LEMMA PcIInv ==
  ASSUME IInv, NEW h \in Host, LeaveBarrier(h) \/ Return(h) \/ LeaveReturn(h)
  PROVE  IInv'
<1> USE DEF LeaveBarrier, Return, LeaveReturn, PassOver
<1>1. TypeOK /\ places' = places /\ contents' = contents /\ freq' = freq
  BY DEF IInv, places, contents
<1>2. TypeOK'
  <2>1. X!ATypeOK'
    BY <1>1 DEF TypeOK, X!ATypeOK
  <2>2. pass' \in [Host -> 0 .. Exchanges]
    BY <1>1, ExchangesNat DEF IInv, InvPass, TypeOK
  <2>3. QED
    BY <1>1, <2>1, <2>2 DEF TypeOK, places, contents
<1>3. InvPass'
  <2>1. /\ pc'[h] \in {"generate", "return", "done"}
        /\ pc'[h] # "generate" => working[h] = {} /\ partial[h] = {}
        /\ \A k \in Host : k # h => pc'[k] = pc[k] /\ pass'[k] = pass[k]
    BY <1>1 DEF IInv, InvPass, TypeOK
  <2>2. partial' = partial /\ working' = working /\ bucket' = bucket
    BY <1>1 DEF places
  <2>3. ASSUME NEW k \in Host
        PROVE  /\ pc'[k] \in {"exchange", "barrier"} => pass'[k] < Exchanges
               /\ pc'[k] # "generate" => working[k] = {}
               /\ pc'[k] \in {"exchange", "return", "done"} => partial[k] = {}
               /\ pc'[k] = "barrier" => \A g \in Host : bucket[k][g] = {}
    <3>1. CASE k = h
      BY <2>1, <3>1
    <3>2. CASE k # h
      BY <2>1, <3>2 DEF IInv, InvPass
    <3>3. QED
      BY <3>1, <3>2
  <2>4. QED
    BY <2>2, <2>3 DEF InvPass
<1>4. InvSelf' /\ InvShape' /\ InvWork'
  BY <1>1 DEF IInv, InvSelf, InvShape, InvWork, places, contents
<1>5. FrequencyExact'
  <2>1. \A t \in SetId : Visited(t)' = Visited(t)
    BY <1>1 DEF Visited, contents
  <2>2. QED
    BY <1>1, <2>1, SameVisited DEF IInv
<1>6. InvPlaces'
  <2>1. \A k \in Host : (pc'[k] = "exchange") <=> (pc[k] = "exchange")
    BY <1>1 DEF TypeOK
  <2>2. QED
    BY <1>1, <2>1, SamePlaces DEF IInv
<1>7. QED
  BY <1>2, <1>3, <1>4, <1>5, <1>6 DEF IInv

LEMMA StutterIInv == IInv /\ UNCHANGED vars => IInv'
<1> SUFFICES ASSUME IInv, UNCHANGED vars PROVE IInv'
  OBVIOUS
<1> USE DEF vars
<1>1. TypeOK' /\ InvPass' /\ InvSelf' /\ InvShape' /\ InvWork'
  <2>1. X!ATypeOK <=> X!ATypeOK'
    BY DEF X!ATypeOK
  <2>2. TypeOK'
    BY <2>1 DEF IInv, TypeOK
  <2>3. InvPass'
    BY DEF IInv, InvPass
  <2>4. InvSelf' /\ InvShape' /\ InvWork'
    BY DEF IInv, InvSelf, InvShape, InvWork
  <2>5. QED
    BY <2>2, <2>3, <2>4
<1>2. FrequencyExact'
  <2>1. \A t \in SetId : Visited(t)' = Visited(t)
    BY DEF Visited
  <2>2. QED
    BY <2>1, SameVisited DEF IInv
<1>3. InvPlaces'
  BY SamePlaces DEF IInv, places
<1>4. QED
  BY <1>1, <1>2, <1>3 DEF IInv

LEMMA NextIInv == IInv /\ [Next]_vars => IInv'
BY BeginIInv, VisitIInv, StoreIInv, ShipIInv, SendSetsIInv, RecvSetsIInv,
   PcIInv, StutterIInv
   DEF Next, HostStep, SetStep, Terminated

LEMMA InductiveInvariant == Spec => []IInv
BY InitIInv, NextIInv, PTL DEF Spec

\* Types of the containers, the sets and the counters.
THEOREM TypeCorrect == Spec => []TypeOK
<1>1. IInv => TypeOK
  BY DEF IInv
<1>2. QED
  BY <1>1, InductiveInvariant, PTL

\* frequency_ of a node is the number of sets in which it has been visited,
\* at every moment (influence_maximization.cpp:386-396).
THEOREM FrequencyCorrect == Spec => []FrequencyExact
<1>1. IInv => FrequencyExact
  BY DEF IInv
<1>2. QED
  BY <1>1, InductiveInvariant, PTL

\* A set is never lost by an exchange and never held twice
\* (influence_maximization.cpp:580-637).
THEOREM SetsConserved == Spec => []OnePlace
<1>1. ASSUME IInv PROVE OnePlace
  <2> SUFFICES ASSUME NEW s \in SetId
               PROVE    Cardinality(InPartial(s)) + Cardinality(InWorking(s))
                      + Cardinality(InStored(s)) + Cardinality(InBucket(s))
                      + Cardinality(InWire(s)) = 1
    BY DEF OnePlace
  <2>1. \A A, B, C, D, E : Only(A, B, C, D, E) =>
          /\ Cardinality(A) = 1 /\ Cardinality(B) = 0 /\ Cardinality(C) = 0
          /\ Cardinality(D) = 0 /\ Cardinality(E) = 0
    BY FS_EmptySet, FS_Singleton DEF Only
  <2>2. CASE Only(InPartial(s), InWorking(s), InStored(s), InBucket(s), InWire(s))
    BY <2>1, <2>2
  <2>3. CASE Only(InWorking(s), InPartial(s), InStored(s), InBucket(s), InWire(s))
    BY <2>1, <2>3
  <2>4. CASE Only(InStored(s), InPartial(s), InWorking(s), InBucket(s), InWire(s))
    BY <2>1, <2>4
  <2>5. CASE Only(InBucket(s), InPartial(s), InWorking(s), InStored(s), InWire(s))
    BY <2>1, <2>5
  <2>6. CASE Only(InWire(s), InPartial(s), InWorking(s), InStored(s), InBucket(s))
    BY <2>1, <2>6
  <2>7. QED
    BY <1>1, <2>2, <2>3, <2>4, <2>5, <2>6 DEF IInv, InvPlaces
<1>2. QED
  BY <1>1, InductiveInvariant, PTL
-----------------------------------------------------------------------------
(***************************************************************************)
(* What GetRandomReverseReachableSets returns.                             *)
(*                                                                         *)
(* The way home.  Hosts are not more than a round apart (Phases), so what  *)
(* is on the wire has not been waited for yet.  From the first finishing   *)
(* pass on sets are only sent to their owners, and from the last exchange  *)
(* on only owners have any (Homeward).                                     *)
(*                                                                         *)
(* Reachability.  Every node of a set is reached from its root through     *)
(* visited nodes, whichever of the unvisited ones are left out (Rooted).   *)
(* Hence erasing those that nobody will visit leaves the others reached.   *)
(***************************************************************************)

\* Rounds of a host that it has entered, come out of, and counted.
Phases(h) ==
  /\ pc[h] = "generate" => posted[h] = pass[h] /\ taken[h] = pass[h]
  /\ pc[h] = "exchange" => posted[h] = pass[h] + 1 /\ taken[h] = pass[h]
  /\ pc[h] = "barrier" => posted[h] = pass[h] + 1 /\ taken[h] = pass[h] + 1
  /\ pc[h] \in {"return", "done"} =>
       posted[h] = Exchanges /\ taken[h] = Exchanges /\ pass[h] = Exchanges
  /\ \A g \in Host : taken[h] <= posted[g]
  /\ pc[h] = "done" => \A g \in Host : pc[g] \in {"return", "done"}

\* Where the sets of host h go in the finishing passes.
Homeward(h) ==
  /\ pc[h] = "generate" /\ Finishing(h) =>
       \A g \in Host : \A s \in bucket[h][g] : OwnerHost(s) = g
  /\ taken[h] = Exchanges =>
       /\ \A g \in Host : bucket[h][g] = {}
       /\ \A s \in partial[h] \cup working[h] : OwnerHost(s) = h
  /\ \A s \in stored[h] : OwnerHost(s) = h /\ frontier[s] = {}

\* Messages are of rounds that the receiver has still to come out of.
Travelling ==
  \A m \in wire : /\ taken[m.to] < m.round
                  /\ m.round = Exchanges => OwnerHost(m.set) = m.to

\* r is the root of s: it reaches all nodes of the set through visited ones.
Rooted(s, r) ==
  /\ Owner[r] = OwnerHost(s)
  /\ r \in frontier[s] => s \in partial[OwnerHost(s)]
  /\ \A U \in SUBSET reach[s] :
       r \in U /\ Visited(s) \subseteq U => ReachedFrom(r, U)

InvPhases == \A h \in Host : Phases(h)
InvHome == \A h \in Host : Homeward(h)
InvRoots == \A s \in SetId : \E r \in reach[s] : Rooted(s, r)

RInv ==
  /\ IInv
  /\ InvPhases
  /\ InvHome
  /\ Travelling
  /\ InvRoots
-----------------------------------------------------------------------------
USE NumHostsAssumption, NodeAssumption, OwnerAssumption, SuccAssumption,
    GlobalSetsAssumption, EpochsAssumption

\* Numbers of rounds, where the invariant compares them.
LEMMA RoundsNat ==
  ASSUME TypeOK, NEW h \in Host
  PROVE  /\ posted[h] \in 0 .. Exchanges /\ taken[h] \in 0 .. Exchanges
         /\ pass[h] \in 0 .. Exchanges
         /\ Exchanges = Epochs + 1 /\ Epochs \in Nat
BY DEF TypeOK, X!ATypeOK, Exchanges

\* In the beginning a set is its root.
LEMMA InitRInv == Init => RInv
<1> SUFFICES ASSUME Init PROVE RInv
  OBVIOUS
<1>1. IInv
  BY InitIInv
<1>2. InvPhases
  BY ExchangesNat DEF Init, X!AInit, InvPhases, Phases
<1>3. InvHome /\ Travelling
  BY ExchangesNat DEF Init, X!AInit, InvHome, Homeward, Travelling
<1>4. InvRoots
  <2>1. PICK root \in [SetId -> Node] :
          /\ \A s \in SetId : Owner[root[s]] = OwnerHost(s)
          /\ reach = [s \in SetId |-> SeedSet(root[s])]
          /\ frontier = [s \in SetId |-> {root[s]}]
    BY DEF Init
  <2> SUFFICES ASSUME NEW s \in SetId
               PROVE  root[s] \in reach[s] /\ Rooted(s, root[s])
    BY DEF InvRoots
  <2>2. reach[s] = {root[s]}
    BY <2>1 DEF SeedSet
  <2>3. ReachedFrom(root[s], {root[s]})
    BY DEF ReachedFrom
  <2>4. s \in partial[OwnerHost(s)]
    BY SetIdFinite DEF Init
  <2>5. \A U \in SUBSET reach[s] : root[s] \in U => U = {root[s]}
    BY <2>2
  <2> QED
    BY <2>1, <2>2, <2>3, <2>4, <2>5 DEF Rooted
<1> QED
  BY <1>1, <1>2, <1>3, <1>4 DEF RInv
-----------------------------------------------------------------------------
(* Rounds.                                                                 *)

\* Steps of threads do not touch the rounds.
LEMMA SamePhases ==
  ASSUME InvPhases, UNCHANGED <<pc, pass, posted, taken>>
  PROVE  InvPhases'
BY DEF InvPhases, Phases

\* A host enters a round and sends.
LEMMA SendSetsPhases ==
  ASSUME RInv, NEW h \in Host, SendSets(h)
  PROVE  InvPhases'
<1> USE DEF SendSets, PassOver, X!Post
<1>1. TypeOK
  BY DEF RInv, IInv
<1>2. /\ pc'[h] = "exchange" /\ posted'[h] = posted[h] + 1
      /\ taken' = taken /\ pass' = pass
      /\ \A g \in Host : g # h => pc'[g] = pc[g] /\ posted'[g] = posted[g]
  BY <1>1 DEF TypeOK, X!ATypeOK
<1> SUFFICES ASSUME NEW g \in Host PROVE Phases(g)'
  BY DEF InvPhases
<1>3. Phases(g) /\ Phases(h)
  BY DEF RInv, InvPhases
<1>4. \A k \in Host : posted'[k] >= posted[k] /\ posted[k] \in Nat /\ taken[k] \in Nat
  BY <1>1, <1>2, RoundsNat
<1>5. pc[g] = "done" => \A k \in Host : pc'[k] \in {"return", "done"}
  BY <1>2, <1>3 DEF Phases
<1>6. \A k \in Host : taken'[g] <= posted'[k]
  BY <1>2, <1>3, <1>4 DEF Phases
<1>7. CASE g = h
  BY <1>2, <1>3, <1>6, <1>7 DEF Phases
<1>8. CASE g # h
  BY <1>2, <1>3, <1>5, <1>6, <1>8 DEF Phases
<1> QED
  BY <1>7, <1>8

\* A host comes out of its round when all others have entered it.
LEMMA RecvSetsPhases ==
  ASSUME RInv, NEW h \in Host, RecvSets(h)
  PROVE  InvPhases'
<1> USE DEF RecvSets, X!Take
<1>1. TypeOK
  BY DEF RInv, IInv
<1>2. /\ pc'[h] = "barrier" /\ taken'[h] = posted[h]
      /\ posted' = posted /\ pass' = pass
      /\ \A g \in Host : g # h => pc'[g] = pc[g] /\ taken'[g] = taken[g]
  BY <1>1 DEF TypeOK, X!ATypeOK
<1> SUFFICES ASSUME NEW g \in Host PROVE Phases(g)'
  BY DEF InvPhases
<1>3. Phases(g) /\ Phases(h)
  BY DEF RInv, InvPhases
<1>4. \A k \in Host : posted[k] \in Nat /\ taken[k] \in Nat
  BY <1>1, RoundsNat
<1>5. pc[g] = "done" => \A k \in Host : pc'[k] \in {"return", "done"}
  BY <1>2, <1>3 DEF Phases
<1>6. \A k \in Host : taken'[g] <= posted'[k]
  BY <1>2, <1>3, <1>4 DEF Phases
<1>7. CASE g = h
  BY <1>2, <1>3, <1>6, <1>7 DEF Phases
<1>8. CASE g # h
  BY <1>2, <1>3, <1>5, <1>6, <1>8 DEF Phases
<1> QED
  BY <1>7, <1>8

\* A barrier opens, a host is through with its last pass, or returns.
LEMMA PcPhases ==
  ASSUME RInv, NEW h \in Host, LeaveBarrier(h) \/ Return(h) \/ LeaveReturn(h)
  PROVE  InvPhases'
<1> USE DEF LeaveBarrier, Return, LeaveReturn, PassOver
<1>1. TypeOK
  BY DEF RInv, IInv
<1>2. /\ posted' = posted /\ taken' = taken
      /\ \A g \in Host : g # h => pc'[g] = pc[g] /\ pass'[g] = pass[g]
      /\ \/ pc[h] = "barrier" /\ pc'[h] = "generate" /\ pass'[h] = pass[h] + 1
         \/ /\ pc[h] = "generate" /\ pc'[h] = "return"
            /\ pass[h] = Exchanges /\ pass'[h] = pass[h]
         \/ /\ pc[h] = "return" /\ pc'[h] = "done" /\ pass'[h] = pass[h]
            /\ \A g \in Host : pc[g] \in {"return", "done"}
  BY <1>1 DEF TypeOK
<1> SUFFICES ASSUME NEW g \in Host PROVE Phases(g)'
  BY DEF InvPhases
<1>3. Phases(g) /\ Phases(h)
  BY DEF RInv, InvPhases
<1>4. pc[g] = "done" => \A k \in Host : pc'[k] \in {"return", "done"}
  BY <1>2, <1>3 DEF Phases
<1>5. \A k \in Host : taken'[g] <= posted'[k]
  BY <1>2, <1>3 DEF Phases
<1>6. CASE g = h
  <2>1. pc'[h] = "done" => \A k \in Host : pc'[k] \in {"return", "done"}
    BY <1>2
  <2> QED
    BY <1>2, <1>3, <1>5, <1>6, <2>1 DEF Phases
<1>7. CASE g # h
  BY <1>2, <1>3, <1>4, <1>5, <1>7 DEF Phases
<1> QED
  BY <1>6, <1>7
-----------------------------------------------------------------------------
(* The way home.                                                           *)

\* A set that waits in partial_sets or that a thread grows is not stored.
LEMMA NotStored ==
  ASSUME IInv, NEW h \in Host, NEW s \in SetId, s \in partial[h] \/ s \in working[h]
  PROVE  \A g \in Host : s \notin stored[g]
BY WaitingIsIdle, WorkingIsAlone DEF InStored

\* A thread takes a set up, at home if it must be.
LEMMA BeginHome ==
  ASSUME RInv, NEW h \in Host, NEW s \in SetId, Begin(h, s)
  PROVE  InvHome' /\ Travelling'
<1> USE DEF Begin
<1>1. TypeOK /\ IInv
  BY DEF RInv, IInv
<1>2. \A g \in Host : s \notin stored[g]
  BY <1>1, NotStored
<1>3. \A g \in Host : partial'[g] \cup working'[g] \subseteq partial[g] \cup working[g]
  BY <1>1 DEF TypeOK
<1>4. \A t \in SetId : t # s => frontier'[t] = frontier[t]
  BY <1>1 DEF TypeOK
<1>5. \A g \in Host : stored[g] \subseteq SetId
  BY <1>1 DEF TypeOK
<1>6. InvHome'
  <2> SUFFICES ASSUME NEW g \in Host PROVE Homeward(g)'
    BY DEF InvHome
  <2>1. Homeward(g)
    BY DEF RInv, InvHome
  <2> QED
    BY <1>2, <1>3, <1>4, <1>5, <2>1 DEF Homeward, Finishing
<1> QED
  BY <1>6 DEF RInv, Travelling

\* A thread follows edges of a set.
LEMMA VisitHome ==
  ASSUME RInv, NEW h \in Host, NEW s \in SetId, NEW v \in queue[s],
         NEW T \in SUBSET Succ[v], Visit(h, s, v, T)
  PROVE  InvHome' /\ Travelling'
<1> USE DEF Visit, places
<1>1. TypeOK /\ IInv
  BY DEF RInv, IInv
<1>2. \A g \in Host : s \notin stored[g]
  BY <1>1, NotStored
<1>3. \A t \in SetId : t # s => frontier'[t] = frontier[t]
  BY <1>1 DEF TypeOK
<1>4. \A g \in Host : stored[g] \subseteq SetId
  BY <1>1 DEF TypeOK
<1>5. InvHome'
  <2> SUFFICES ASSUME NEW g \in Host PROVE Homeward(g)'
    BY DEF InvHome
  <2>1. Homeward(g)
    BY DEF RInv, InvHome
  <2> QED
    BY <1>2, <1>3, <1>4, <2>1 DEF Homeward, Finishing
<1> QED
  BY <1>5 DEF RInv, Travelling

\* A set is stored by its owner, with nothing left to visit.
LEMMA StoreHome ==
  ASSUME RInv, NEW h \in Host, NEW s \in SetId, Store(h, s)
  PROVE  InvHome' /\ Travelling'
<1> USE DEF Store, Grown
<1>1. TypeOK /\ IInv
  BY DEF RInv, IInv
<1>2. \A g \in Host : s \notin stored[g]
  BY <1>1, NotStored
<1>3. /\ \A t \in SetId : t # s => frontier'[t] = frontier[t]
      /\ frontier'[s] = Open(h, s)
  BY <1>1 DEF TypeOK
<1>4. /\ \A g \in Host : working'[g] \subseteq working[g] /\ stored[g] \subseteq SetId
      /\ \A g \in Host : stored'[g] = stored[g] \cup IF g = h THEN {s} ELSE {}
  BY <1>1 DEF TypeOK
<1>5. OwnerHost(s) = h /\ Open(h, s) = {}
  BY DEF AtHome, Open
<1>6. InvHome'
  <2> SUFFICES ASSUME NEW g \in Host PROVE Homeward(g)'
    BY DEF InvHome
  <2>1. Homeward(g)
    BY DEF RInv, InvHome
  <2>2. \A t \in stored'[g] : OwnerHost(t) = g /\ frontier'[t] = {}
    BY <1>2, <1>3, <1>4, <1>5, <2>1 DEF Homeward
  <2> QED
    BY <1>4, <2>1, <2>2 DEF Homeward, Finishing
<1> QED
  BY <1>6 DEF RInv, Travelling

\* A set leaves for its owner, if the epochs are over; after the last
\* exchange none does.
LEMMA ShipHome ==
  ASSUME RInv, NEW h \in Host, NEW s \in SetId, NEW k \in Host, Ship(h, s, k)
  PROVE  InvHome' /\ Travelling'
<1> USE DEF Ship, Grown
<1>1. TypeOK /\ IInv
  BY DEF RInv, IInv
<1>2. \A g \in Host : s \notin stored[g]
  BY <1>1, NotStored
<1>3. \A t \in SetId : t # s => frontier'[t] = frontier[t]
  BY <1>1 DEF TypeOK
<1>4. /\ \A g \in Host : working'[g] \subseteq working[g] /\ stored[g] \subseteq SetId
      /\ \A g, l \in Host :
           bucket'[g][l] = bucket[g][l] \cup IF g = h /\ l = k THEN {s} ELSE {}
  BY <1>1 DEF TypeOK
<1>5. Finishing(h) => OwnerHost(s) = k
  BY DEF NextHost
<1>6. taken[h] # Exchanges
  <2>1. SUFFICES ASSUME taken[h] = Exchanges PROVE FALSE
    OBVIOUS
  <2>2. pass[h] = Exchanges
    BY <2>1 DEF RInv, InvPhases, Phases
  <2>3. Finishing(h)
    BY <1>1, <2>2, RoundsNat DEF Finishing
  <2>4. OwnerHost(s) = h
    BY <2>1 DEF RInv, InvHome, Homeward
  <2> QED
    BY <2>3, <2>4 DEF AtHome
<1>7. InvHome'
  <2> SUFFICES ASSUME NEW g \in Host PROVE Homeward(g)'
    BY DEF InvHome
  <2>1. Homeward(g)
    BY DEF RInv, InvHome
  <2>2. pc[g] = "generate" /\ Finishing(g) =>
          \A l \in Host : \A t \in bucket'[g][l] : OwnerHost(t) = l
    BY <1>4, <1>5, <2>1 DEF Homeward
  <2>3. taken[g] = Exchanges => \A l \in Host : bucket'[g][l] = {}
    BY <1>4, <1>6, <2>1 DEF Homeward
  <2>4. \A t \in stored[g] : OwnerHost(t) = g /\ frontier'[t] = {}
    BY <1>2, <1>3, <1>4, <2>1 DEF Homeward
  <2> QED
    BY <1>4, <2>1, <2>2, <2>3, <2>4 DEF Homeward, Finishing
<1> QED
  BY <1>7 DEF RInv, Travelling

\* What is sent in the last round is sent home, and no receiver has come out
\* of the round of a message.
LEMMA SendSetsHome ==
  ASSUME RInv, NEW h \in Host, SendSets(h)
  PROVE  InvHome' /\ Travelling'
<1> USE DEF SendSets, PassOver, contents
<1>1. TypeOK
  BY DEF RInv, IInv
<1>2. /\ pc'[h] # "generate" /\ taken' = taken /\ pass' = pass
      /\ \A g \in Host : g # h => pc'[g] = pc[g]
  BY <1>1 DEF TypeOK, X!Post
<1>3. InvHome'
  <2> SUFFICES ASSUME NEW g \in Host PROVE Homeward(g)'
    BY DEF InvHome
  <2>1. Homeward(g)
    BY DEF RInv, InvHome
  <2> QED
    BY <1>2, <2>1 DEF Homeward, Finishing
<1>4. Travelling'
  <2> SUFFICES ASSUME NEW m \in wire'
               PROVE  /\ taken[m.to] < m.round
                      /\ m.round = Exchanges => OwnerHost(m.set) = m.to
    BY <1>2 DEF Travelling
  <2>1. CASE m \in wire
    BY <2>1 DEF RInv, Travelling
  <2>2. CASE m \notin wire
    <3>1. PICK g \in Host, t \in SetId :
            t \in bucket[h][g] /\ m = [to |-> g, round |-> posted[h] + 1, set |-> t]
      BY <1>1, <2>2 DEF Message, TypeOK
    <3>2. taken[g] <= posted[h]
      BY DEF RInv, InvPhases, Phases
    <3>3. taken[g] < posted[h] + 1
      BY <1>1, <3>2, RoundsNat
    <3>4. posted[h] + 1 = Exchanges => OwnerHost(t) = g
      <4>1. posted[h] = pass[h]
        BY DEF RInv, InvPhases, Phases
      <4>2. posted[h] + 1 = Exchanges => Finishing(h)
        BY <1>1, <4>1, RoundsNat DEF Finishing
      <4> QED
        BY <3>1, <4>2 DEF RInv, InvHome, Homeward
    <3> QED
      BY <3>1, <3>3, <3>4
  <2> QED
    BY <2>1, <2>2
<1> QED
  BY <1>3, <1>4

\* What arrives in the last round has arrived at its owner, and the buckets
\* are empty from there on.
LEMMA RecvSetsHome ==
  ASSUME RInv, NEW h \in Host, RecvSets(h)
  PROVE  InvHome' /\ Travelling'
<1> USE DEF RecvSets, contents, Cleared, Incoming
<1>1. TypeOK /\ working[h] = {}
  BY DEF RInv, IInv, InvPass
<1>2. /\ pc'[h] # "generate" /\ pass' = pass
      /\ taken'[h] = posted[h]
      /\ \A g \in Host : bucket'[h][g] = {}
      /\ \A g \in Host : g # h => /\ pc'[g] = pc[g] /\ taken'[g] = taken[g]
                                  /\ bucket'[g] = bucket[g] /\ partial'[g] = partial[g]
  BY <1>1 DEF TypeOK, X!ATypeOK, X!Take
<1>3. \A t \in partial'[h] : \E m \in wire : m.to = h /\ m.round = posted[h] /\ m.set = t
  BY <1>1 DEF TypeOK
<1>4. InvHome'
  <2> SUFFICES ASSUME NEW g \in Host PROVE Homeward(g)'
    BY DEF InvHome
  <2>1. Homeward(g)
    BY DEF RInv, InvHome
  <2>2. CASE g = h
    <3>1. posted[h] = Exchanges => \A t \in partial'[h] : OwnerHost(t) = h
      BY <1>3 DEF RInv, Travelling
    <3> QED
      BY <1>1, <1>2, <2>1, <2>2, <3>1 DEF Homeward
  <2>3. CASE g # h
    BY <1>2, <2>1, <2>3 DEF Homeward, Finishing
  <2> QED
    BY <2>2, <2>3
<1>5. Travelling'
  <2> SUFFICES ASSUME NEW m \in wire'
               PROVE  /\ taken'[m.to] < m.round
                      /\ m.round = Exchanges => OwnerHost(m.set) = m.to
    BY DEF Travelling
  <2>1. /\ m \in wire /\ m.to \in Host /\ m.round \in 1 .. Exchanges
        /\ ~(m.to = h /\ m.round = posted[h])
    BY <1>1 DEF TypeOK
  <2>2. /\ taken[m.to] < m.round
        /\ m.round = Exchanges => OwnerHost(m.set) = m.to
    BY <2>1 DEF RInv, Travelling
  <2>3. CASE m.to = h
    <3>1. posted[h] = taken[h] + 1
      BY <1>1, RoundsNat DEF RInv, InvPhases, Phases
    <3> QED
      BY <1>1, <1>2, <2>1, <2>2, <2>3, <3>1, RoundsNat
  <2>4. CASE m.to # h
    BY <1>2, <2>1, <2>2, <2>4
  <2> QED
    BY <2>3, <2>4
<1> QED
  BY <1>4, <1>5

\* A host that leaves a barrier has empty buckets.
LEMMA PcHome ==
  ASSUME RInv, NEW h \in Host, LeaveBarrier(h) \/ Return(h) \/ LeaveReturn(h)
  PROVE  InvHome' /\ Travelling'
<1> USE DEF LeaveBarrier, Return, LeaveReturn, places, contents
<1>1. TypeOK
  BY DEF RInv, IInv
<1>2. /\ \A g \in Host : g # h => pc'[g] = pc[g] /\ pass'[g] = pass[g]
      /\ pc'[h] = "generate" => \A g \in Host : bucket[h][g] = {}
  BY <1>1 DEF TypeOK, RInv, IInv, InvPass
<1>3. InvHome'
  <2> SUFFICES ASSUME NEW g \in Host PROVE Homeward(g)'
    BY DEF InvHome
  <2>1. Homeward(g)
    BY DEF RInv, InvHome
  <2>2. CASE g = h
    BY <1>2, <2>1, <2>2 DEF Homeward
  <2>3. CASE g # h
    BY <1>2, <2>1, <2>3 DEF Homeward, Finishing
  <2> QED
    BY <2>2, <2>3
<1> QED
  BY <1>3 DEF RInv, Travelling
-----------------------------------------------------------------------------
(* Roots.                                                                  *)

\* The root that stays one if the set has grown in no way, and the node
\* has not come to its frontier.
LEMMA SameRoot ==
  ASSUME NEW s \in SetId, NEW r, Rooted(s, r),
         reach'[s] = reach[s], Visited(s)' = Visited(s),
         r \in frontier'[s] => s \in partial'[OwnerHost(s)]
  PROVE  Rooted(s, r)'
BY DEF Rooted, ReachedFrom

LEMMA BeginRoots ==
  ASSUME RInv, NEW h \in Host, NEW s \in SetId, Begin(h, s)
  PROVE  InvRoots'
<1> USE DEF Begin
<1>1. TypeOK /\ IInv
  BY DEF RInv, IInv
<1>2. /\ reach' = reach
      /\ queue[s] = {} /\ InPartial(s) = {h}
      /\ queue'[s] = {v \in frontier[s] : Owner[v] = h}
      /\ frontier'[s] = {v \in frontier[s] : Owner[v] # h}
      /\ \A t \in SetId : t # s => queue'[t] = queue[t] /\ frontier'[t] = frontier[t]
      /\ \A g \in Host, t \in SetId : t # s => (t \in partial'[g] <=> t \in partial[g])
  BY <1>1, WaitingIsIdle DEF TypeOK
<1> SUFFICES ASSUME NEW t \in SetId PROVE \E r \in reach'[t] : Rooted(t, r)'
  BY DEF InvRoots
<1>3. PICK r \in reach[t] : Rooted(t, r)
  BY DEF RInv, InvRoots
<1>4. Visited(t)' = Visited(t)
  BY <1>2 DEF Visited
<1>5. r \in frontier'[t] => t \in partial'[OwnerHost(t)]
  <2>1. CASE t = s
    BY <1>2, <1>3, <2>1, SetIdFinite DEF Rooted, InPartial
  <2>2. CASE t # s
    BY <1>2, <1>3, <2>2, SetIdFinite DEF Rooted
  <2> QED
    BY <2>1, <2>2
<1> QED
  BY <1>2, <1>3, <1>4, <1>5, SameRoot

\* New nodes of the set come after the visited one.
LEMMA VisitRoots ==
  ASSUME RInv, NEW h \in Host, NEW s \in SetId, NEW v \in queue[s],
         NEW T \in SUBSET Succ[v], Visit(h, s, v, T)
  PROVE  InvRoots'
<1> USE DEF Visit, places
<1>1. TypeOK /\ IInv
  BY DEF RInv, IInv
<1>2. /\ v \in reach[s] /\ v \notin frontier[s] /\ T \cap reach[s] = {}
      /\ queue[s] \subseteq reach[s] /\ frontier[s] \subseteq reach[s]
      /\ queue[s] \cap frontier[s] = {}
  BY <1>1 DEF IInv, InvShape, NewlyReached
<1>3. /\ reach'[s] = reach[s] \cup T
      /\ queue'[s] = (queue[s] \ {v}) \cup {w \in T : Owner[w] = h}
      /\ frontier'[s] = frontier[s] \cup {w \in T : Owner[w] # h}
      /\ \A t \in SetId : t # s => /\ reach'[t] = reach[t]
                                   /\ queue'[t] = queue[t]
                                   /\ frontier'[t] = frontier[t]
      /\ partial' = partial
  BY <1>1 DEF TypeOK
<1> SUFFICES ASSUME NEW t \in SetId PROVE \E r \in reach'[t] : Rooted(t, r)'
  BY DEF InvRoots
<1>4. PICK r \in reach[t] : Rooted(t, r)
  BY DEF RInv, InvRoots
<1>5. CASE t # s
  <2>1. Visited(t)' = Visited(t)
    BY <1>3, <1>5 DEF Visited
  <2> QED
    BY <1>3, <1>4, <1>5, <2>1, SameRoot DEF Rooted
<1>6. CASE t = s
  <2>1. Visited(s)' = Visited(s) \cup {v}
    BY <1>2, <1>3 DEF Visited
  <2>2. r \in frontier'[s] => s \in partial[OwnerHost(s)]
    BY <1>2, <1>3, <1>4, <1>6 DEF Rooted
  <2>3. ASSUME NEW U \in SUBSET reach'[s], r \in U, Visited(s)' \subseteq U
        PROVE  ReachedFrom(r, U)
    <3> SUFFICES ASSUME NEW W \in SUBSET U, r \in W,
                        \A u \in W : Succ[u] \cap U \subseteq W
                 PROVE  W = U
      BY <2>3 DEF ReachedFrom
    <3> DEFINE U0 == U \cap reach[s]
               W0 == W \cap reach[s]
    <3>1. U0 \in SUBSET reach[s] /\ r \in U0 /\ Visited(s) \subseteq U0
      BY <1>4, <1>6, <2>1, <2>3 DEF Visited
    <3>2. ReachedFrom(r, U0)
      BY <1>4, <1>6, <3>1 DEF Rooted
    <3>3. W0 \in SUBSET U0 /\ r \in W0 /\ \A u \in W0 : Succ[u] \cap U0 \subseteq W0
      BY <1>4, <1>6
    <3>4. W0 = U0
      BY <3>2, <3>3 DEF ReachedFrom
    <3>5. v \in W
      BY <1>2, <2>1, <2>3, <3>4
    <3>6. T \cap U \subseteq W
      BY <3>5
    <3> QED
      BY <1>3, <3>4, <3>6
  <2>4. Rooted(s, r)'
    BY <1>3, <1>4, <1>6, <2>2, <2>3 DEF Rooted, ReachedFrom
  <2> QED
    BY <1>3, <1>4, <1>6, <2>4
<1> QED
  BY <1>5, <1>6

\* Only nodes that nobody has visited are erased, and the root is not one.
LEMMA GrownRoots ==
  ASSUME RInv, NEW h \in Host, NEW s \in SetId, Grown(h, s)
  PROVE  InvRoots'
<1> USE DEF Grown
<1>1. TypeOK /\ IInv /\ InPartial(s) = {} /\ frontier[s] \subseteq reach[s]
  BY WorkingIsAlone DEF RInv, IInv, InvShape
<1>2. /\ reach'[s] = Kept(h, s) /\ frontier'[s] = Open(h, s) /\ queue[s] = {}
      /\ queue' = queue /\ partial' = partial
      /\ \A t \in SetId : t # s => reach'[t] = reach[t] /\ frontier'[t] = frontier[t]
  BY <1>1 DEF TypeOK
<1> SUFFICES ASSUME NEW t \in SetId PROVE \E r \in reach'[t] : Rooted(t, r)'
  BY DEF InvRoots
<1>3. PICK r \in reach[t] : Rooted(t, r)
  BY DEF RInv, InvRoots
<1>4. CASE t # s
  <2>1. Visited(t)' = Visited(t)
    BY <1>2, <1>4 DEF Visited
  <2> QED
    BY <1>2, <1>3, <1>4, <2>1, SameRoot DEF Rooted
<1>5. CASE t = s
  <2>1. r \notin frontier[s]
    BY <1>1, <1>3, <1>5, SetIdFinite DEF Rooted, InPartial
  <2>2. /\ r \in reach'[s] /\ reach'[s] \subseteq reach[s]
        /\ r \notin frontier'[s] /\ Visited(s)' = Visited(s)
    BY <1>2, <1>3, <1>5, <2>1 DEF Kept, Open, Visited
  <2>3. Rooted(s, r)'
    BY <1>3, <1>5, <2>2 DEF Rooted, ReachedFrom
  <2> QED
    BY <1>5, <2>2, <2>3
<1> QED
  BY <1>4, <1>5

\* The other steps do not change the sets; those that arrive are not at
\* their root's host already.
LEMMA SameRoots ==
  ASSUME RInv, NEW h \in Host,
         SendSets(h) \/ RecvSets(h) \/ LeaveBarrier(h) \/ Return(h) \/ LeaveReturn(h)
  PROVE  InvRoots'
<1> USE DEF SendSets, RecvSets, LeaveBarrier, Return, LeaveReturn, PassOver
<1>1. reach' = reach /\ frontier' = frontier /\ queue' = queue
  BY DEF contents
<1>2. \A g \in Host : partial[g] \subseteq partial'[g]
  <2>1. CASE RecvSets(h)
    BY <2>1 DEF RInv, IInv, InvPass, TypeOK
  <2>2. CASE SendSets(h) \/ LeaveBarrier(h) \/ Return(h) \/ LeaveReturn(h)
    BY <2>2 DEF places
  <2> QED
    BY <2>1, <2>2
<1> SUFFICES ASSUME NEW t \in SetId PROVE \E r \in reach'[t] : Rooted(t, r)'
  BY DEF InvRoots
<1>3. PICK r \in reach[t] : Rooted(t, r)
  BY DEF RInv, InvRoots
<1>4. Visited(t)' = Visited(t)
  BY <1>1 DEF Visited
<1> QED
  BY <1>1, <1>2, <1>3, <1>4, SetIdFinite, SameRoot DEF Rooted
-----------------------------------------------------------------------------
(* All steps together.                                                     *)

\* Steps of the threads of a host.
LEMMA SetStepRInv ==
  ASSUME RInv, NEW h \in Host, NEW s \in SetId, SetStep(h, s)
  PROVE  RInv'
<1>1. IInv'
  <2>1. Next
    BY DEF Next, HostStep
  <2> QED
    BY <2>1, NextIInv DEF RInv
<1>2. CASE Begin(h, s)
  <2>1. UNCHANGED <<pc, pass, posted, taken>>
    BY <1>2 DEF Begin
  <2> QED
    BY <1>1, <1>2, <2>1, SamePhases, BeginHome, BeginRoots DEF RInv
<1>3. ASSUME NEW v \in queue[s], NEW T \in SUBSET Succ[v], Visit(h, s, v, T)
      PROVE  RInv'
  <2>1. UNCHANGED <<pc, pass, posted, taken>>
    BY <1>3 DEF Visit
  <2> QED
    BY <1>1, <1>3, <2>1, SamePhases, VisitHome, VisitRoots DEF RInv
<1>4. CASE Store(h, s)
  <2>1. Grown(h, s) /\ UNCHANGED <<pc, pass, posted, taken>>
    BY <1>4 DEF Store, Grown
  <2> QED
    BY <1>1, <1>4, <2>1, SamePhases, StoreHome, GrownRoots DEF RInv
<1>5. ASSUME NEW k \in Host, Ship(h, s, k)
      PROVE  RInv'
  <2>1. Grown(h, s) /\ UNCHANGED <<pc, pass, posted, taken>>
    BY <1>5 DEF Ship, Grown
  <2> QED
    BY <1>1, <1>5, <2>1, SamePhases, ShipHome, GrownRoots DEF RInv
<1> QED
  BY <1>2, <1>3, <1>4, <1>5 DEF SetStep

\* Steps of the main thread of a host.
LEMMA MainStepRInv ==
  ASSUME RInv, NEW h \in Host,
         SendSets(h) \/ RecvSets(h) \/ LeaveBarrier(h) \/ Return(h) \/ LeaveReturn(h)
  PROVE  RInv'
<1>1. IInv'
  <2>1. Next
    BY DEF Next, HostStep
  <2> QED
    BY <2>1, NextIInv DEF RInv
<1>2. InvRoots'
  BY SameRoots
<1>3. CASE SendSets(h)
  BY <1>1, <1>2, <1>3, SendSetsPhases, SendSetsHome DEF RInv
<1>4. CASE RecvSets(h)
  BY <1>1, <1>2, <1>4, RecvSetsPhases, RecvSetsHome DEF RInv
<1>5. CASE LeaveBarrier(h) \/ Return(h) \/ LeaveReturn(h)
  BY <1>1, <1>2, <1>5, PcPhases, PcHome DEF RInv
<1> QED
  BY <1>3, <1>4, <1>5

LEMMA StutterRInv == RInv /\ UNCHANGED vars => RInv'
<1> SUFFICES ASSUME RInv, UNCHANGED vars PROVE RInv'
  OBVIOUS
<1> USE DEF vars
<1>1. IInv'
  BY StutterIInv DEF RInv
<1>2. InvPhases'
  BY SamePhases DEF RInv
<1>3. InvHome' /\ Travelling'
  BY DEF RInv, InvHome, Homeward, Finishing, Travelling
<1>4. InvRoots'
  <2> SUFFICES ASSUME NEW t \in SetId PROVE \E r \in reach'[t] : Rooted(t, r)'
    BY DEF InvRoots
  <2>1. PICK r \in reach[t] : Rooted(t, r)
    BY DEF RInv, InvRoots
  <2>2. Visited(t)' = Visited(t)
    BY DEF Visited
  <2> QED
    BY <2>1, <2>2, SameRoot DEF Rooted
<1> QED
  BY <1>1, <1>2, <1>3, <1>4 DEF RInv

LEMMA NextRInv == RInv /\ [Next]_vars => RInv'
BY SetStepRInv, MainStepRInv, StutterRInv DEF Next, HostStep, Terminated

LEMMA ResultInvariant == Spec => []RInv
BY InitRInv, NextRInv, PTL DEF Spec
-----------------------------------------------------------------------------
(* What is returned.                                                       *)

\* When a host has returned all sets have been stored.
LEMMA StoredInTheEnd ==
  ASSUME RInv, NEW h \in Host, pc[h] = "done", NEW s \in SetId
  PROVE  /\ s \in stored[OwnerHost(s)]
         /\ \A g \in Host : s \in stored[g] => g = OwnerHost(s)
         /\ InWorking(s) = {} /\ frontier[s] = {}
<1>1. TypeOK /\ InvPass /\ InvPlaces /\ OwnerHost(s) \in Host
  BY SetIdFinite DEF RInv, IInv
<1>2. \A g \in Host : /\ pc[g] \in {"return", "done"}
                      /\ taken[g] = Exchanges /\ posted[g] = Exchanges
  BY DEF RInv, InvPhases, Phases
<1>3. \A g \in Host : /\ partial[g] = {} /\ working[g] = {}
                      /\ \A k \in Host : bucket[g][k] = {}
  BY <1>1, <1>2 DEF InvPass, RInv, InvHome, Homeward
<1>4. wire = {}
  <2> SUFFICES ASSUME NEW m \in wire PROVE FALSE
    OBVIOUS
  <2>1. m.to \in Host /\ m.round \in 1 .. Exchanges
    BY <1>1 DEF TypeOK
  <2>2. taken[m.to] < m.round
    BY DEF RInv, Travelling
  <2> QED
    BY <1>2, <2>1, <2>2, ExchangesNat
<1>5. /\ InPartial(s) = {} /\ InWorking(s) = {} /\ InBucket(s) = {}
      /\ InWire(s) = {}
  BY <1>3, <1>4 DEF InPartial, InWorking, InBucket, InWire
<1>6. InStored(s) # {}
  BY <1>1, <1>5 DEF InvPlaces, Only
<1>7. \A g \in Host : s \in stored[g] => g = OwnerHost(s) /\ frontier[s] = {}
  BY DEF RInv, InvHome, Homeward
<1> QED
  BY <1>1, <1>5, <1>6, <1>7 DEF InStored

\* On return every set is in the reachability_sets of its owner: two
\* finishing passes are enough to bring home whatever is still travelling
\* (influence_maximization.cpp:171-180).
THEOREM AllSetsStored == Spec => []EverySetStored
<1>1. ASSUME RInv PROVE EverySetStored
  <2> SUFFICES ASSUME NEW h \in Host, pc[h] = "done", NEW g \in Host
               PROVE  stored[g] = {s \in SetId : OwnerHost(s) = g}
    BY DEF EverySetStored
  <2>1. stored[g] \subseteq SetId
    BY <1>1 DEF RInv, IInv, TypeOK
  <2> QED
    BY <1>1, <2>1, StoredInTheEnd
<1> QED
  BY <1>1, ResultInvariant, PTL

\* On return frequency_ of a node is the number of sets that hold it, those
\* of other hosts included: nodes that nobody visited are not counted and
\* not kept (influence_maximization.cpp:386-396, 405-415).
THEOREM OccurrencesCounted == Spec => []FrequencyIsOccurrences
<1>1. ASSUME RInv PROVE FrequencyIsOccurrences
  <2> SUFFICES ASSUME NEW h \in Host, pc[h] = "done", NEW v \in Node
               PROVE  freq[v] = Cardinality({s \in SetId : v \in reach[s]})
    BY DEF FrequencyIsOccurrences
  <2>1. \A s \in SetId : Visited(s) = reach[s]
    <3> SUFFICES ASSUME NEW s \in SetId PROVE Visited(s) = reach[s]
      OBVIOUS
    <3>1. InWorking(s) = {} /\ frontier[s] = {}
      BY <1>1, StoredInTheEnd
    <3>2. queue[s] = {}
      BY <1>1, <3>1 DEF RInv, IInv, InvWork, InWorking
    <3> QED
      BY <3>1, <3>2 DEF Visited
  <2>2. {s \in SetId : v \in Visited(s)} = {s \in SetId : v \in reach[s]}
    BY <2>1
  <2> QED
    BY <1>1, <2>2 DEF RInv, IInv, FrequencyExact
<1> QED
  BY <1>1, ResultInvariant, PTL

\* What is kept is a reverse reachable set: a node of its owner reaches all
\* its nodes inside the set, although nodes were erased from it
\* (influence_maximization.cpp:371-415).
THEOREM StoredReachable == Spec => []StoredIsReachable
<1>1. ASSUME RInv PROVE StoredIsReachable
  <2> SUFFICES ASSUME NEW h \in Host, NEW s \in stored[h]
               PROVE  \E r \in reach[s] : Owner[r] = h /\ ReachedFrom(r, reach[s])
    BY DEF StoredIsReachable
  <2>1. s \in SetId /\ TypeOK
    BY <1>1 DEF RInv, IInv, TypeOK
  <2>2. OwnerHost(s) = h /\ frontier[s] = {}
    BY <1>1 DEF RInv, InvHome, Homeward
  <2>3. InWorking(s) = {}
    <3>1. InStored(s) # {}
      BY DEF InStored
    <3> QED
      BY <1>1, <2>1, <3>1 DEF RInv, IInv, InvPlaces, Only
  <2>4. queue[s] = {}
    BY <1>1, <2>1, <2>3 DEF RInv, IInv, InvWork, InWorking
  <2>5. Visited(s) = reach[s]
    BY <2>2, <2>4 DEF Visited
  <2>6. PICK r \in reach[s] : Rooted(s, r)
    BY <1>1, <2>1 DEF RInv, InvRoots
  <2> QED
    BY <2>2, <2>5, <2>6 DEF Rooted
<1> QED
  BY <1>1, ResultInvariant, PTL
=============================================================================
