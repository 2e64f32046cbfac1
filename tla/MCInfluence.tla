---------------------------- MODULE MCInfluence ----------------------------
(***************************************************************************)
(* Small instances of Influence.                                           *)
(***************************************************************************)
EXTENDS Influence

CONSTANTS a, b, c,     \* nodes
          s1, s2, s3   \* sets

NodeMC == {a, b, c}
OwnerMC == [v \in NodeMC |-> IF v = c THEN 1 ELSE 0]
SetIdMC == {s1, s2, s3}
HomeMC == [s \in SetIdMC |-> IF s = s1 THEN 0 ELSE 1]
=============================================================================
