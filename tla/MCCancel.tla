------------------------------ MODULE MCCancel ------------------------------
(***************************************************************************)
(* A small trade network on two hosts for Pipeline and Cancel, as lines of *)
(* the input files.  The cancelled nodes 0, 1 and 2 trade with each other: *)
(* 0 and 1 across hosts, 0 and 2 on one host; each trades with a node of   *)
(* its own host or of the other, and 5 only sells.  Line 6 is a second     *)
(* trade of one pair, in a file of its own.                                *)
(***************************************************************************)
EXTENDS Pipeline, Sequences

NodeMC == 0 .. 5
OwnerMC == [v \in NodeMC |-> IF v \in {0, 2, 3} THEN 0 ELSE 1]
CancelledMC == {0, 1, 2}
HalfMaxMC == 8

L(file, word, src, dst, topic, amount) ==
  [file |-> file, path |-> "d", word |-> word, src |-> src, dst |-> dst,
   topic |-> topic, amount |-> amount]
Coffee(src, dst, amount) == L("c", "Sale", src, dst, "coffee", amount)

Lines ==
  <<Coffee(0, 1, 1), Coffee(0, 3, 2), Coffee(4, 0, 3), Coffee(1, 4, 1), Coffee(3, 4, 2),
    [Coffee(4, 0, 1) EXCEPT !.path = "c"], Coffee(0, 2, 1), Coffee(5, 3, 1)>>
  \o <<Coffee(0, 9, 1),                            \* to device 1
       Coffee(3, 4, 0),                            \* for nothing
       L("c", "Sale", 4, 1, "other", 1),
       L("c", "", 0, 1, "coffee", 1),              \* not a sale
       L("y", "", 0, 1, "other", 0), L("o", "", 3, 4, "other", 0),
       L("u", "", 0, 1, "other", 0)>>
  \o [v \in 1 .. 6 |-> L("n", "Person", v - 1, 0, "other", 0)]
  \o <<L("n", "Device", 0, 0, "other", 0), L("n", "Device", 1, 0, "other", 0)>>

LineMC == DOMAIN Lines

TradeMC == 1 .. 8
SellerMC == [t \in TradeMC |-> Lines[t].src]
BuyerMC == [t \in TradeMC |-> Lines[t].dst]
AmountMC == [t \in TradeMC |-> Lines[t].amount]

CommandLinesMC ==
  [k : {1}, rrr : {1}, given : {{"d", "c"}, {}}]
    \cup [k : {0}, rrr : {1}, given : {{"d"}}] \cup [k : {1}, rrr : {0}, given : {{"d"}}]
=============================================================================
