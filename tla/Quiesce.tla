------------------------------ MODULE Quiesce ------------------------------
(***************************************************************************)
(* Buyers that lost a seller buy more from their other sellers:            *)
(* QuiesceGraph and the functions it calls (wf4/src/quiesce.cpp).          *)
(*                                                                         *)
(* A thread per buyer walks over the sellers of the buyer.  It reads what  *)
(* a seller has left, reserves by an atomicAdd on sold_, and takes the     *)
(* reservation back if the sum exceeds what the seller bought.  If the     *)
(* seller is a master of the host the trade is made; if it is a mirror the *)
(* trade is proposed to the seller's host, which tries the same on the     *)
(* master and sends back what it can give.  The two messages between each  *)
(* pair of hosts are rounds of AllToAll (TaggedExchange without barrier).  *)
(*                                                                         *)
(* Amounts are doubles.  SerializeSet stores a weight in a uint64_t, which *)
(* truncates it, and IncomingEdges reads the bits as a double again: the   *)
(* whole number n arrives as n times the smallest double there is.  The    *)
(* model counts in those, and Unit of them stand for the fraction 1/Parts  *)
(* of 1 that amounts are multiples of.  Adding them to anything that is    *)
(* not as small as they are changes nothing.                               *)
(***************************************************************************)
EXTENDS TradeGraph

CONSTANTS Parts, \* amounts are in multiples of 1/Parts
          Unit   \* how many smallest doubles make 1/Parts (a bound; about 2^1074)

ASSUME PartsAssumption == Parts \in Nat \ {0}
ASSUME UnitAssumption ==
  /\ Unit \in Nat
  /\ Unit % 2 = 0
  /\ Unit > 2 * Total(Trade) + 1

VARIABLES
  pc,           \* phase of each host in QuiesceGraph
  sold,         \* sold[h][v]: sold_ of host h's copy of v
  bought,       \* bought[h][v]
  needed,       \* needed[n]: local variable of TryQuiesceNode(n)
  left,         \* left[n]: PURCHASE edges it has not visited
  deals,        \* deals[h]: attempts that threads of h are in the middle of
  remote_edges, \* remote_edges[h]: proposals of h to all other hosts
  incoming,     \* incoming[h]: received edges that h has not dealt with
  wire,         \* edges in messages
  marks,        \* bitset_sold_ and bitset_bought_ of each host
  posted, taken, view  \* the state of the collective

network == <<posted, taken, view>>
vars == <<pc, sold, bought, needed, left, deals, remote_edges,
          incoming, wire, marks, network>>

X == INSTANCE AllToAll WITH Rounds <- 2

\* A sum of doubles: what is too small to show is lost.
Rounded(x) ==
  LET half == Unit \div 2
  IN IF -half < x /\ x < half THEN x ELSE ((x + half) \div Unit) * Unit

Plus(x, y) == Rounded(x + y)
Minus(x, y) == Rounded(x - y)
Least(x, y) == IF x < y THEN x ELSE y

\* An edge as ProposedEdge has it, and the host that holds it.
ProposedEdge == [src : Node, dst : Node, weight : Nat]

\* An attempt to buy: reserved is FALSE between the reading of the surplus
\* and the atomicAdd, total is what the atomicAdd made of sold_.
Deal == [src : Node, dst : Node, delta : Nat, from : Host,
         reserved : BOOLEAN, total : Nat]

TypeOK ==
  /\ pc \in [Host -> {"quiesce", "offers", "decide", "answers", "add",
                      "sync", "done"}]
  /\ sold \in [Host -> [Node -> Nat]]
  /\ bought \in [Host -> [Node -> Nat]]
  /\ needed \in [Node -> Nat]
  /\ left \in [Node -> SUBSET Trade]
  /\ deals \in [Host -> SUBSET Deal]
  /\ remote_edges \in [Host -> SUBSET ProposedEdge]
  /\ incoming \in [Host -> SUBSET [from : Host, edge : ProposedEdge]]
  /\ \A h \in Host : /\ \A d \in deals[h] : d.delta > 0
                     /\ \A o \in incoming[h] : o.from # h
  /\ \A m \in wire : /\ m.from \in Host /\ m.to \in Host \ {m.from}
                     /\ m.round \in 1 .. 2 /\ m.edge \in ProposedEdge
  /\ marks \in [Host -> [sold : SUBSET Node, bought : SUBSET Node]]
  /\ X!ATypeOK

\* A mirror's bought_ has a value if the cancellation touched the node.
BoughtSeen(h, v) ==
  \/ v \in Masters(h)
  \/ \E t \in Trade : Buyer[t] = v /\ Seller[t] \in Cancelled

SoldAtStart(h, v) == IF v \in Local(h) THEN Unit * SoldIn(Standing, v) ELSE 0
BoughtAtStart(h, v) ==
  IF v \in Local(h) /\ BoughtSeen(h, v) THEN Unit * BoughtIn(Standing, v) ELSE 0

\* The state that CancelNodes leaves (CancelExact, SoldCopiesAgree and
\* BoughtCopiesBelow of Cancel).  The thread of a buyer computes needed when
\* it starts; nobody else changes bought_ of the buyer before it ends.
Init ==
  /\ pc = [h \in Host |-> "quiesce"]
  /\ sold = [h \in Host |-> [v \in Node |-> SoldAtStart(h, v)]]
  /\ bought = [h \in Host |-> [v \in Node |-> BoughtAtStart(h, v)]]
  /\ needed = [n \in Node |-> Unit * (Desired(n) - BoughtIn(Standing, n))]
  /\ left = [n \in Node |-> {t \in Trade : Buyer[t] = n}]
  /\ deals = [h \in Host |-> {}]
  /\ remote_edges = [h \in Host |-> {}]
  /\ incoming = [h \in Host |-> {}]
  /\ wire = {}
  /\ marks = [h \in Host |-> [sold |-> {}, bought |-> {}]]
  /\ X!AInit
-----------------------------------------------------------------------------
(* What TryQuiesceNode and TryAddEdge have in common.                      *)

Surplus(h, v) == Minus(bought[h][v], sold[h][v])

\* trade_delta
TradeDelta(h, v, weight) == Least(weight, Surplus(h, v))

\* Mutant: an attempt is made whatever the surplus.
AttemptedAnyway(h, n, v, weight, from) ==
  deals[h] \cup {[src |-> n, dst |-> v, delta |-> TradeDelta(h, v, weight),
                  from |-> from, reserved |-> FALSE, total |-> 0]}

\* The attempts of host h after it has looked at seller v.
Attempted(h, n, v, weight, from) ==
  IF TradeDelta(h, v, weight) <= 0 THEN deals[h]
  ELSE deals[h] \cup {[src |-> n, dst |-> v, delta |-> TradeDelta(h, v, weight),
                       from |-> from, reserved |-> FALSE, total |-> 0]}

\* seller_sold = atomicAdd(sold_, trade_delta) + trade_delta
Reserve(h, d) ==
  /\ d \in deals[h]
  /\ ~d.reserved
  /\ LET seller_sold == Plus(sold[h][d.dst], d.delta)
     IN /\ sold' = [sold EXCEPT ![h][d.dst] = seller_sold]
        /\ deals' = [deals EXCEPT ![h] =
             (@ \ {d}) \cup {[d EXCEPT !.reserved = TRUE, !.total = seller_sold]}]
  /\ UNCHANGED <<pc, bought, needed, left, remote_edges, incoming, wire,
                 marks, network>>

\* Mutant: the sum is not checked again.
ExceedsNever(h, d) == FALSE

\* seller_sold > seller_data.bought_
Exceeds(h, d) == d.total > bought[h][d.dst]

\* Mutant: the reservation stays.
ReturnedNot(h, d) == sold

\* atomicSubtract(sold_, trade_delta)
Returned(h, d) == [sold EXCEPT ![h][d.dst] = Minus(@, d.delta)]

\* The reservation went too far and is taken back.
TakeBack(h, d) ==
  /\ d \in deals[h]
  /\ d.reserved
  /\ Exceeds(h, d)
  /\ sold' = Returned(h, d)
  /\ deals' = [deals EXCEPT ![h] = @ \ {d}]
  /\ UNCHANGED <<pc, bought, needed, left, remote_edges, incoming, wire,
                 marks, network>>

Accepted(h, d) ==
  /\ d \in deals[h]
  /\ d.reserved
  /\ ~Exceeds(h, d)
  /\ deals' = [deals EXCEPT ![h] = @ \ {d}]

\* Mutant: the mark is forgotten.
SoldMarkedNot(h, v) == marks[h].sold

\* bitset_sold_.set
SoldMarked(h, v) == marks[h].sold \cup {v}

\* lazy_emplace_l into the set: src and dst make the key, a second edge
\* between the same nodes changes nothing.
Emplaced(S, e) ==
  IF \E f \in S : f.src = e.src /\ f.dst = e.dst THEN S ELSE S \cup {e}
-----------------------------------------------------------------------------
(* TryQuiesceNode.                                                         *)

Buying(h, n) == \E d \in deals[h] : d.src = n

\* The next PURCHASE edge: read the surplus of its seller.
Look(h, n, t) ==
  /\ pc[h] = "quiesce"
  /\ n \in Masters(h)
  /\ needed[n] > 0
  /\ t \in left[n]
  /\ ~Buying(h, n)
  /\ left' = [left EXCEPT ![n] = @ \ {t}]
  /\ deals' = [deals EXCEPT ![h] = Attempted(h, n, Seller[t], needed[n], h)]
  /\ UNCHANGED <<pc, sold, bought, needed, remote_edges, incoming, wire,
                 marks, network>>

\* Mutant: the need is not reduced.
StillNeededAll(d) == needed[d.src]

\* needed -= trade_delta
StillNeeded(d) == Minus(needed[d.src], d.delta)

\* A seller of this host.  edge_data, whose amount_ is increased, is a copy
\* (quiesce.cpp:205, 228), so that no edge changes, and edges are no state.
Buy(h, d) ==
  /\ pc[h] = "quiesce"
  /\ Accepted(h, d)
  /\ d.dst \in Masters(h)
  /\ bought' = [bought EXCEPT ![h][d.src] = Plus(@, d.delta)]
  /\ needed' = [needed EXCEPT ![d.src] = StillNeeded(d)]
  /\ marks' = [marks EXCEPT ![h].bought = @ \cup {d.src},
                            ![h].sold = SoldMarked(h, d.dst)]
  /\ UNCHANGED <<pc, sold, left, remote_edges, incoming, wire, network>>

\* A seller of another host.
Propose(h, d) ==
  /\ pc[h] = "quiesce"
  /\ Accepted(h, d)
  /\ d.dst \notin Masters(h)
  /\ remote_edges' = [remote_edges EXCEPT ![h] =
       Emplaced(@, [src |-> d.src, dst |-> d.dst, weight |-> d.delta])]
  /\ needed' = [needed EXCEPT ![d.src] = StillNeeded(d)]
  /\ UNCHANGED <<pc, sold, bought, left, incoming, wire, marks, network>>
-----------------------------------------------------------------------------
(* SendNewEdges, twice.                                                    *)

\* A double stored in a uint64_t, and its bits read as a double.
OnWire(weight) == weight \div (Unit * Parts)

\* The messages of host h, where side says which end of an edge is elsewhere.
Messages(h, side) ==
  {[from |-> h, to |-> Owner[e[side]], round |-> posted[h] + 1,
    edge |-> [e EXCEPT !.weight = OnWire(@)]] : e \in remote_edges[h]}

Send(h, side) ==
  /\ X!Post(h)
  /\ wire' = wire \cup Messages(h, side)
  /\ remote_edges' = [remote_edges EXCEPT ![h] = {}]
  /\ UNCHANGED <<sold, bought, needed, left, deals, incoming, marks>>

Receive(h) ==
  LET msgs == {m \in wire : m.to = h /\ m.round = posted[h]}
  IN /\ X!Take(h)
     /\ incoming' = [incoming EXCEPT ![h] =
          {[from |-> m.from, edge |-> m.edge] : m \in msgs}]
     /\ wire' = wire \ msgs
     /\ UNCHANGED <<sold, bought, needed, left, deals, remote_edges, marks>>

\* Mutant: a buyer goes on until it has what it needs.
ThroughSatisfied(h) == \A n \in Masters(h) : needed[n] <= 0

\* All buyers of the host have what they need or have asked everyone.
Through(h) == \A n \in Masters(h) : needed[n] <= 0 \/ left[n] = {}

SendOffers(h) ==
  /\ pc[h] = "quiesce"
  /\ deals[h] = {}
  /\ Through(h)
  /\ Send(h, "dst")
  /\ pc' = [pc EXCEPT ![h] = "offers"]

RecvOffers(h) ==
  /\ pc[h] = "offers"
  /\ Receive(h)
  /\ pc' = [pc EXCEPT ![h] = "decide"]

\* TryAddEdges takes the senders one after the other.
MyTurn(h, o) ==
  /\ \A p \in incoming[h] : o.from <= p.from
  /\ \A d \in deals[h] : d.from = o.from

LookOffer(h, o) ==
  /\ pc[h] = "decide"
  /\ o \in incoming[h]
  /\ MyTurn(h, o)
  /\ incoming' = [incoming EXCEPT ![h] = @ \ {o}]
  /\ deals' = [deals EXCEPT ![h] =
       Attempted(h, o.edge.src, o.edge.dst, o.edge.weight, o.from)]
  /\ UNCHANGED <<pc, sold, bought, needed, left, remote_edges, wire, marks,
                 network>>

\* TryAddEdge: the seller can give this much; tell the buyer's host.
Confirm(h, d) ==
  /\ pc[h] = "decide"
  /\ Accepted(h, d)
  /\ remote_edges' = [remote_edges EXCEPT ![h] =
       Emplaced(@, [src |-> d.src, dst |-> d.dst, weight |-> d.delta])]
  /\ marks' = [marks EXCEPT ![h].sold = SoldMarked(h, d.dst)]
  /\ UNCHANGED <<pc, sold, bought, needed, left, incoming, wire, network>>

SendAnswers(h) ==
  /\ pc[h] = "decide"
  /\ incoming[h] = {}
  /\ deals[h] = {}
  /\ Send(h, "src")
  /\ pc' = [pc EXCEPT ![h] = "answers"]

RecvAnswers(h) ==
  /\ pc[h] = "answers"
  /\ Receive(h)
  /\ pc' = [pc EXCEPT ![h] = "add"]

AddPurchaseEdge(h, o) ==
  /\ pc[h] = "add"
  /\ o \in incoming[h]
  /\ incoming' = [incoming EXCEPT ![h] = @ \ {o}]
  /\ bought' = [bought EXCEPT ![h][o.edge.src] = Plus(@, o.edge.weight)]
  /\ marks' = [marks EXCEPT ![h].bought = @ \cup {o.edge.src}]
  /\ UNCHANGED <<pc, sold, needed, left, deals, remote_edges, wire, network>>

EnterSync(h) ==
  /\ pc[h] = "add"
  /\ incoming[h] = {}
  /\ pc' = [pc EXCEPT ![h] = "sync"]
  /\ UNCHANGED <<sold, bought, needed, left, deals, remote_edges, incoming,
                 wire, marks, network>>

\* Reduce_set: mirrors of a node that its owner has marked get its value.
Synced(f, M) ==
  [h \in Host |-> [v \in Node |->
     IF v \in Mirrors(h) /\ v \in M[Owner[v]] THEN f[Owner[v]][v] ELSE f[h][v]]]

\* The syncs of sold_ and bought_, when all hosts are in them (Gluon).
Sync ==
  /\ \A h \in Host : pc[h] = "sync"
  /\ sold' = Synced(sold, [h \in Host |-> marks[h].sold])
  /\ bought' = Synced(bought, [h \in Host |-> marks[h].bought])
  /\ pc' = [h \in Host |-> "done"]
  /\ UNCHANGED <<needed, left, deals, remote_edges, incoming, wire, marks,
                 network>>

AllDone == \A h \in Host : pc[h] = "done"
Terminated == AllDone /\ UNCHANGED vars

DealStep(h) ==
  \E d \in deals[h] :
    \/ Reserve(h, d) \/ TakeBack(h, d)
    \/ Buy(h, d) \/ Propose(h, d) \/ Confirm(h, d)

HostStep(h) ==
  \/ \E n \in Node : \E t \in left[n] : Look(h, n, t)
  \/ DealStep(h)
  \/ SendOffers(h)
  \/ RecvOffers(h)
  \/ \E o \in incoming[h] : LookOffer(h, o)
  \/ SendAnswers(h)
  \/ RecvAnswers(h)
  \/ \E o \in incoming[h] : AddPurchaseEdge(h, o)
  \/ EnterSync(h)

Next == (\E h \in Host : HostStep(h)) \/ Sync \/ Terminated

\* Each host is a process whose threads keep working.
Fairness == WF_vars(Sync) /\ \A h \in Host : WF_vars(HostStep(h))

Spec == Init /\ [][Next]_vars /\ Fairness
-----------------------------------------------------------------------------
\* Reservations of host h on v that may still be taken back.
OpenDeals(h, v) == {d \in deals[h] : d.dst = v /\ d.reserved}

Reserved(h, v) ==
  SumFunctionOnSet([d \in OpenDeals(h, v) |-> d.delta], OpenDeals(h, v))

\* Threads race for what a seller has left, and each adds before it knows.
\* Apart from reservations that are still open, no master is sold beyond what
\* it bought, or further beyond than the cancellation left it; nor is a
\* mirror, until the syncs give it the sold_ of its master but not always the
\* bought_ (quiesce.cpp:221-226, 283-288; verifyState, quiesce.cpp:39).
NoOversell ==
  \A h \in Host : \A v \in Node :
    LET firm == sold[h][v] - Reserved(h, v)
    IN \/ firm <= bought[h][v]
       \/ firm <= SoldAtStart(h, v)
       \/ v \in Mirrors(h) /\ pc[h] = "done"

\* A buyer does not buy more than it desires, in trades on its host and in
\* confirmed trades elsewhere together (verifyState, quiesce.cpp:44).
WithinDesired ==
  \A v \in Node : bought[Owner[v]][v] <= Unit * Desired(v)

\* What host h has proposed to buy for n.
Proposed(h, n) ==
  LET edges == {e \in remote_edges[h] : e.src = n}
  IN SumFunctionOnSet([e \in edges |-> e.weight], edges)

OneTradeEach(n) ==
  \A t, u \in Trade :
    Buyer[t] = n /\ Buyer[u] = n /\ Seller[t] = Seller[u] => t = u

\* Until it sends its proposals, what a host took off the needs of a buyer is
\* in the buyer's bought_ or in a proposal, once.  Some of it is lost only if
\* the buyer has two trades with one seller: when reservations of others come
\* back in between it proposes to buy from that seller again, and the second
\* proposal is dropped (quiesce.cpp:236).
NeedAccounted ==
  \A h \in Host : pc[h] = "quiesce" => \A n \in Masters(h) :
    LET sum == bought[h][n] + needed[n] + Proposed(h, n)
    IN /\ sum <= Unit * Desired(n)
       /\ OneTradeEach(n) => sum = Unit * Desired(n)

\* Trades made on a host are on both sides: when its buyers are through, what
\* its masters bought more is what its masters sold more, refused
\* reservations leave nothing behind (quiesce.cpp:221-231).
LocalTradesBalance ==
  \A h \in Host : pc[h] = "offers" =>
    SumFunctionOnSet([v \in Masters(h) |-> bought[h][v] - BoughtAtStart(h, v)], Masters(h))
      = SumFunctionOnSet([v \in Masters(h) |-> sold[h][v] - SoldAtStart(h, v)], Masters(h))

\* All hosts return, if messages arrive, recieveTagged hands them out and
\* Gluon's syncs return: then no loop of quiesce.cpp waits for what never
\* comes.  The tests that call QuiesceGraph are disabled, as they hang in CI
\* (test/wf4/test_quiesce.cpp:314).  That can only be where one of the three
\* fails, or in what the tests do besides, not in these loops.
AllReturn == <>AllDone

\* The buyer's state is deferred until the remote edge is confirmed
\* (quiesce.cpp:233, 292): then it is updated.
ConfirmedPurchaseCounts ==
  [][\A h \in Host : pc[h] = "add" /\ incoming'[h] # incoming[h] =>
       bought'[h] # bought[h]]_vars

\* The syncs "Update Mirrors with amount sold" (quiesce.cpp:122) leave the
\* mirrors of a seller with what its master has sold: what a host reserved on
\* its mirror for a proposal that was refused, without a mark on either side,
\* is gone.  Of whole amounts (Parts = 1) a refused one leaves a mark for
\* another buyer; a fraction is refused because it arrives as 0.
MirrorsUpdated ==
  AllDone => \A h \in Host : \A v \in Mirrors(h) : sold[h][v] = sold[Owner[v]][v]
=============================================================================
