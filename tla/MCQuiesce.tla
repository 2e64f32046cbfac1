----------------------------- MODULE MCQuiesce -----------------------------
(***************************************************************************)
(* A small trade network for Quiesce.  The seller x is cancelled: p, u, q, *)
(* s and r need more.  r, which x bought from, has 3 left for p and u on   *)
(* one host, who need 4, and for q and s on its own host, who need 4.  s   *)
(* also buys from w, who has 1 left, as much as r itself wants from w.  p  *)
(* has sold more than it has bought since x is gone.                       *)
(***************************************************************************)
EXTENDS Quiesce

CONSTANTS x, p, q, s, u, r, w, t1, t2, t3, t4, t5, t6, t7, t8, t9, t10, t11, t12

NodeMC == {x, p, q, s, u, r, w}
TradeMC == {t1, t2, t3, t4, t5, t6, t7, t8, t9, t10, t11, t12}
CancelledMC == {x}
AllTrades == [t \in TradeMC |->
  CASE t = t1 -> <<x, p, 2>> [] t = t2 -> <<x, u, 2>> [] t = t3 -> <<x, q, 2>>
    [] t = t4 -> <<x, s, 2>> [] t = t5 -> <<x, r, 1>> [] t = t6 -> <<r, p, 1>>
    [] t = t7 -> <<r, u, 1>> [] t = t8 -> <<r, q, 1>> [] t = t9 -> <<r, s, 1>>
    [] t = t10 -> <<w, s, 1>> [] t = t11 -> <<p, r, 7>> [] t = t12 -> <<p, w, 2>>]
SellerMC == [t \in TradeMC |-> AllTrades[t][1]]
BuyerMC == [t \in TradeMC |-> AllTrades[t][2]]
AmountMC == [t \in TradeMC |-> AllTrades[t][3]]

\* p and u buy from a seller on another host, q and s from one on their own.
OwnerTwo == [v \in NodeMC |-> IF v \in {x, p, u} THEN 0 ELSE 1]

\* Nobody on the host of r needs anything from it.
OwnerApart == [v \in NodeMC |-> IF v \in {r, w} THEN 1 ELSE 0]
=============================================================================
