------------------------------- MODULE Cancel -------------------------------
(***************************************************************************)
(* Taking nodes out of the trade network: CancelNodes and CancelNode       *)
(* (wf4/src/quiesce.cpp).                                                  *)
(*                                                                         *)
(* Every host runs CancelNode for every cancelled node it has a copy of;   *)
(* the owner also subtracts the node's trades from the other side.  Where  *)
(* the other side is a mirror, the mirror is turned into a delta (set to 0 *)
(* if it is above) that the Gluon sync adds to the master.  Masters and    *)
(* mirrors that were touched are then equal.  A last loop sets cancelled   *)
(* nodes to 0, since other cancelled nodes have subtracted from them.      *)
(*                                                                         *)
(* Gluon is external: Sync is what substrate.sync with Reduce_add and a    *)
(* bitset does, once all hosts are in it.                                  *)
(***************************************************************************)
EXTENDS TradeGraph

VARIABLES
  pc,       \* phase of each host in CancelNodes
  fresh,    \* cancelled nodes a host has not started with
  pending,  \* pending[h][n]: edges that CancelNode(n) on h has still to visit
  clamped,  \* clamped[h][n]: the edge whose mirror it has set to 0 or less
  sold,     \* sold[h][v]: sold_ of host h's copy of v
  bought,   \* bought[h][v]
  marks     \* bitset_sold_ and bitset_bought_ of each host

vars == <<pc, fresh, pending, clamped, sold, bought, marks>>

\* Edges of a node: the two kinds of edge have opposite other ends.
Edge == Trade \X {"SALE", "PURCHASE"}
EdgesOf(n) ==
  {<<t, "SALE">> : t \in {u \in Trade : Seller[u] = n}}
    \cup {<<t, "PURCHASE">> : t \in {u \in Trade : Buyer[u] = n}}
Dst(e) == IF e[2] = "SALE" THEN Buyer[e[1]] ELSE Seller[e[1]]

TypeOK ==
  /\ pc \in [Host -> {"cancel", "sync", "reset", "done"}]
  /\ fresh \in [Host -> SUBSET Cancelled]
  /\ pending \in [Host -> [Cancelled -> SUBSET Edge]]
  /\ clamped \in [Host -> [Cancelled -> SUBSET Edge]]
  /\ sold \in [Host -> [Node -> Int]]
  /\ bought \in [Host -> [Node -> Int]]
  /\ marks \in [Host -> [sold : SUBSET Node, bought : SUBSET Node]]
  /\ \A h \in Host : (marks[h].sold \cup marks[h].bought) \subseteq Local(h)

\* No host has begun with CancelNodes.
NotBegun ==
  /\ pc = [h \in Host |-> "cancel"]
  /\ fresh = [h \in Host |-> Cancelled]
  /\ pending = [h \in Host |-> [n \in Cancelled |-> {}]]
  /\ clamped = [h \in Host |-> [n \in Cancelled |-> {}]]
  /\ marks = [h \in Host |-> [sold |-> {}, bought |-> {}]]

\* After CalculateEdgeProbabilities: it has synced sold_ to the mirrors, and
\* nothing has ever synced bought_.
Init ==
  /\ NotBegun
  /\ sold = [h \in Host |-> [v \in Node |->
       IF v \in Local(h) THEN SoldIn(Trade, v) ELSE 0]]
  /\ bought = [h \in Host |-> [v \in Node |->
       IF v \in Masters(h) THEN BoughtIn(Trade, v) ELSE 0]]
-----------------------------------------------------------------------------
\* NodeData::Cancel for host h's copies of the nodes in S.
Zeroed(f, h, S) == [f EXCEPT ![h] = [v \in Node |-> IF v \in S THEN 0 ELSE @[v]]]

\* A thread starts CancelNode(n): nothing to do if the host has no copy, and
\* no edges to visit if the copy is a mirror.
Start(h, n) ==
  /\ pc[h] = "cancel"
  /\ n \in fresh[h]
  /\ fresh' = [fresh EXCEPT ![h] = @ \ {n}]
  /\ sold' = Zeroed(sold, h, {n} \cap Local(h))
  /\ bought' = Zeroed(bought, h, {n} \cap Local(h))
  /\ pending' = [pending EXCEPT ![h][n] =
                   IF n \in Masters(h) THEN EdgesOf(n) ELSE {}]
  /\ UNCHANGED <<pc, clamped, marks>>

\* galois::atomicMin(x, 0.0)
AtomicMin(x) == IF x > 0 THEN 0 ELSE x

\* The other end is a mirror: it starts to hold a delta.
Clamp(h, n, e) ==
  /\ e \in pending[h][n]
  /\ clamped[h][n] = {}
  /\ Dst(e) \notin Masters(h)
  /\ clamped' = [clamped EXCEPT ![h][n] = {e}]
  /\ IF e[2] = "SALE"
       THEN bought' = [bought EXCEPT ![h][Dst(e)] = AtomicMin(@)] /\ UNCHANGED sold
       ELSE sold' = [sold EXCEPT ![h][Dst(e)] = AtomicMin(@)] /\ UNCHANGED bought
  /\ UNCHANGED <<pc, fresh, pending, marks>>

\* The other end loses the trade, and is marked for the sync.
Subtract(h, n, e) ==
  /\ e \in pending[h][n]
  /\ IF Dst(e) \in Masters(h) THEN clamped[h][n] = {} ELSE clamped[h][n] = {e}
  /\ pending' = [pending EXCEPT ![h][n] = @ \ {e}]
  /\ clamped' = [clamped EXCEPT ![h][n] = {}]
  /\ IF e[2] = "SALE"
       THEN /\ bought' = [bought EXCEPT ![h][Dst(e)] = @ - Amount[e[1]]]
            /\ marks' = [marks EXCEPT ![h].bought = @ \cup {Dst(e)}]
            /\ UNCHANGED sold
       ELSE /\ sold' = [sold EXCEPT ![h][Dst(e)] = @ - Amount[e[1]]]
            /\ marks' = [marks EXCEPT ![h].sold = @ \cup {Dst(e)}]
            /\ UNCHANGED bought
  /\ UNCHANGED <<pc, fresh>>

\* The do_all is over; the host enters the two syncs.
EnterSync(h) ==
  /\ pc[h] = "cancel"
  /\ fresh[h] = {}
  /\ \A n \in Cancelled : pending[h][n] = {}
  /\ pc' = [pc EXCEPT ![h] = "sync"]
  /\ UNCHANGED <<fresh, pending, clamped, sold, bought, marks>>

\* Reduce_add: marked mirrors are added to their master, and masters that
\* were marked on any host are copied to all mirrors.
Marked(M, v) == {h \in Host : v \in M[h]}
AddedUp(f, M) ==
  [v \in Node |-> f[Owner[v]][v]
     + SumFunctionOnSet([h \in Host |-> f[h][v]], Marked(M, v) \ {Owner[v]})]
Reduced(f, M) ==
  [h \in Host |-> [v \in Node |->
     IF v \in Local(h) /\ Marked(M, v) # {} THEN AddedUp(f, M)[v] ELSE f[h][v]]]

\* Both syncs and the barrier after them.
Sync ==
  /\ \A h \in Host : pc[h] = "sync"
  /\ bought' = Reduced(bought, [h \in Host |-> marks[h].bought])
  /\ sold' = Reduced(sold, [h \in Host |-> marks[h].sold])
  /\ pc' = [h \in Host |-> "reset"]
  /\ UNCHANGED <<fresh, pending, clamped, marks>>

\* Mutants: the last loop is left out, or resets masters only.
ResetNone(h) == {}
ResetMasters(h) == Cancelled \cap Masters(h)

\* The last loop: cancelled nodes of which the host has a copy.
ResetNodes(h) == Cancelled \cap Local(h)

Reset(h) ==
  /\ pc[h] = "reset"
  /\ sold' = Zeroed(sold, h, ResetNodes(h))
  /\ bought' = Zeroed(bought, h, ResetNodes(h))
  /\ pc' = [pc EXCEPT ![h] = "done"]
  /\ UNCHANGED <<fresh, pending, clamped, marks>>

AllDone == \A h \in Host : pc[h] = "done"
Terminated == AllDone /\ UNCHANGED vars

HostStep(h) ==
  \/ \E n \in Cancelled : Start(h, n)
  \/ \E n \in Cancelled : \E e \in pending[h][n] : Clamp(h, n, e) \/ Subtract(h, n, e)
  \/ EnterSync(h)
  \/ Reset(h)

Next == (\E h \in Host : HostStep(h)) \/ Sync \/ Terminated

Spec == Init /\ [][Next]_vars
-----------------------------------------------------------------------------
\* After the cancellation the masters hold what the trades between the other
\* nodes amount to, and nothing for cancelled nodes: whatever the order in
\* which threads and hosts set nodes to 0, turn mirrors into deltas and
\* subtract, and although a trade between two cancelled nodes is subtracted
\* on both sides (quiesce.cpp:66-87).
CancelExact ==
  AllDone => \A v \in Node :
    /\ sold[Owner[v]][v] = SoldIn(Standing, v)
    /\ bought[Owner[v]][v] = BoughtIn(Standing, v)

\* sold_ of every copy equals the master's in the end: no host goes on with
\* a delta for a value.
SoldCopiesAgree ==
  AllDone => \A h \in Host : \A v \in Local(h) : sold[h][v] = sold[Owner[v]][v]

\* bought_ of a mirror is the master's in the end, or 0 if the cancellation
\* did not touch it: mirrors underestimate, and never hold a delta.
BoughtCopiesBelow ==
  AllDone => \A h \in Host : \A v \in Mirrors(h) :
    bought[h][v] = IF \E g \in Host : v \in marks[g].bought
                     THEN bought[Owner[v]][v] ELSE 0
=============================================================================
