----------------------------- MODULE MCRRRSets -----------------------------
(***************************************************************************)
(* Small graphs for RRRSets.                                               *)
(***************************************************************************)
EXTENDS RRRSets

CONSTANTS a, b, c, d

\* Three hosts, two nodes on the first.  From a and c the walks leave for
\* another host and come back; from b they leave for two hosts at once, so
\* that one branch is cut off when the epochs end.
NodeMC == {a, b, c, d}
OwnerMC == [v \in NodeMC |-> CASE v \in {a, d} -> 0 [] v = b -> 1 [] v = c -> 2]
SuccMC == [v \in NodeMC |->
  CASE v = a -> {b} [] v = b -> {c, d} [] v = c -> {a, b} [] v = d -> {a}]
=============================================================================
