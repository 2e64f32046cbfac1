----------------------------- MODULE TradeGraph -----------------------------
(***************************************************************************)
(* The trade network that CancelNodes and QuiesceGraph work on             *)
(* (wf4/include/wf4/graph.hpp), and its distribution.                      *)
(*                                                                         *)
(* A trade is in the graph twice: as a SALE edge of its seller and as a    *)
(* PURCHASE edge of its buyer.  The graph is cut by edge source: the host  *)
(* that owns a node has all its edges, and a mirror of every node they     *)
(* lead to.  The graph itself is galois::graphs::WMDGraph, external.       *)
(***************************************************************************)
EXTENDS Integers, FiniteSets, FiniteSetsExt

CONSTANTS NumHosts,   \* net.Num
          Node,       \* global node ids
          Owner,      \* Owner[v]: the host that holds v as a master
          Trade,      \* trades; there may be several between two nodes
          Seller,     \* Seller[t]: the source of its SALE edge
          Buyer,      \* Buyer[t]: the source of its PURCHASE edge
          Amount,     \* Amount[t]: amount_ of both edges
          Cancelled   \* the nodes that CancelNodes is called with

Host == 0 .. NumHosts - 1

ASSUME NumHostsAssumption == NumHosts \in Nat \ {0}
ASSUME NodeAssumption == IsFiniteSet(Node) /\ Owner \in [Node -> Host]
ASSUME TradeAssumption ==
  /\ IsFiniteSet(Trade)
  /\ Seller \in [Trade -> Node]
  /\ Buyer \in [Trade -> Node]
  /\ Amount \in [Trade -> Nat \ {0}]
ASSUME CancelledAssumption == Cancelled \subseteq Node

Masters(h) == {v \in Node : Owner[v] = h}

\* Nodes that a host has a mirror of.
Mirrors(h) ==
  {v \in Node \ Masters(h) : \E t \in Trade :
     \/ Seller[t] = v /\ Buyer[t] \in Masters(h)
     \/ Buyer[t] = v /\ Seller[t] \in Masters(h)}

\* Mutant: only masters are local.
LocalMasters(h) == Masters(h)

\* graph.isLocal: the host has a copy.
Local(h) == Masters(h) \cup Mirrors(h)

Total(T) == SumFunctionOnSet(Amount, T)

\* What a node has sold and bought in a set of trades (FillNodeValues).
SoldIn(T, v) == Total({t \in T : Seller[t] = v})
BoughtIn(T, v) == Total({t \in T : Buyer[t] = v})

\* The trades that a cancellation leaves.
Standing == {t \in Trade : {Seller[t], Buyer[t]} \cap Cancelled = {}}

\* desired_ of a master: all its purchases, nothing once it is cancelled.
Desired(v) == IF v \in Cancelled THEN 0 ELSE BoughtIn(Trade, v)
=============================================================================
