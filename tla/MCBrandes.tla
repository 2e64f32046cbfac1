----------------------------- MODULE MCBrandes -----------------------------
(***************************************************************************)
(* A small graph for Brandes: three ways from 0 to 4, one of them double,  *)
(* an edge between two of them, a tail with a way back, and a loop.        *)
(***************************************************************************)
EXTENDS Brandes

VertexMC == 0 .. 5
Pairs == {<<0, 1, 1>>, <<0, 2, 1>>, <<0, 3, 1>>, <<1, 4, 1>>, <<2, 4, 1>>, <<2, 4, 2>>,
          <<3, 4, 1>>, <<1, 2, 1>>, <<4, 5, 1>>, <<5, 0, 1>>, <<4, 4, 1>>}
SrcMC == [e \in Pairs |-> e[1]]
DstMC == [e \in Pairs |-> e[2]]
=============================================================================
