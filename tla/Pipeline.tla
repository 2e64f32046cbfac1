------------------------------ MODULE Pipeline ------------------------------
(***************************************************************************)
(* From the command line to the cancellation: main.cpp, the import of the  *)
(* five input files and its projection to the trade network (import.cpp,   *)
(* full_graph.hpp), and CalculateEdgeProbabilities, followed by Cancel.    *)
(*                                                                         *)
(* Cancel and Quiesce start from a network in which every trade is there   *)
(* twice, with the same weight, and every copy of a seller knows what it   *)
(* has sold.  Here these are results.  The sampling and the choice of      *)
(* influencers (RRRSets, Influence) come in between; all they tell the     *)
(* cancellation is the constant Cancelled.                                 *)
(***************************************************************************)
EXTENDS Cancel

CONSTANTS Line,         \* lines of the input files
          Content,      \* Content[l]: its file and tokens (see Tokens)
          HalfMax,      \* half_max, 2^63 - 1
          CommandLines  \* what the program may be called with

File == {"c", "y", "o", "u", "n"}  \* commercial, cyber, social, uses, nodes

\* path: "d" is in the input directory, any other file is given by its own
\* option.  word is tokens[0] of a line of "c" and "n"; lines of "n" have
\* their id in src; topic is that of coffee, 8486, or another.
Tokens == [file : File, path : File \cup {"d"}, word : {"Sale", "Person", "Device", ""},
           src : Nat, dst : Nat, topic : {"coffee", "other"}, amount : Nat]
ProgramOptions == [k : Nat, rrr : Nat, given : SUBSET (File \cup {"d"})]

ASSUME LineAssumption == IsFiniteSet(Line) /\ Content \in [Line -> Tokens]
ASSUME HalfMaxAssumption == HalfMax \in Nat \ {0} /\ Node \subseteq 0 .. HalfMax - 1
ASSUME CommandLinesAssumption == CommandLines \subseteq ProgramOptions

\* What the program goes on with.
Verified(o) ==
  /\ o.k > 0
  /\ o.rrr > 0
  /\ o.given # {}

\* Persons that are listed in nodes.csv, and sales of coffee among them.
Listed(o, v) ==
  \E l \in Line : /\ Content[l].file = "n" /\ Content[l].path \in o.given
                  /\ Content[l].word # "Device" /\ Content[l].src = v
CoffeeSale(o, l) ==
  /\ Content[l].file = "c" /\ Content[l].path \in o.given
  /\ Content[l].word = "Sale" /\ Content[l].topic = "coffee" /\ Content[l].amount > 0
  /\ Listed(o, Content[l].src) /\ Listed(o, Content[l].dst)

\* The trades of TradeGraph are lines of the input.
ASSUME TradesAssumption ==
  /\ \A o \in CommandLines : Verified(o) => Trade = {l \in Line : CoffeeSale(o, l)}
  /\ \A t \in Trade : /\ Seller[t] = Content[t].src
                      /\ Buyer[t] = Content[t].dst
                      /\ Amount[t] = Content[t].amount

VARIABLES
  options,
  stage,    \* how far each host is in main
  full,     \* full_graph: nodes, a type for each, and edges <<line, type>>
  network,  \* network[h]: edges of the projected graph on host h
  weight    \* weight[h]: weight_ of these, a quotient

mainVars == <<options, stage, full, network, weight>>
allVars == <<mainVars, vars>>

NoGraph == [node |-> {}, edge |-> {}]
NoWeight == <<0, 1>>

MainInit ==
  /\ options \in CommandLines
  /\ stage = [h \in Host |-> "start"]
  /\ full = NoGraph
  /\ network = [h \in Host |-> {}]
  /\ weight = [h \in Host |-> <<>>]
  /\ NotBegun
  /\ sold = [h \in Host |-> [v \in Node |-> 0]]
  /\ bought = [h \in Host |-> [v \in Node |-> 0]]
-----------------------------------------------------------------------------
AllAt(s) == \A h \in Host : stage[h] = s

Verify == Verified(options)

Parse(h) ==
  /\ stage[h] = "start"
  /\ stage' = [stage EXCEPT ![h] = IF Verify THEN "parsed" ELSE "exited"]
  /\ UNCHANGED <<options, full, network, weight, vars>>

\* InputFiles: a file of an option is read as well as that of the directory.
InputLines == {l \in Line : Content[l].path \in options.given}

\* Devices have the upper half of the ids.
Uid(type, id) == IF type = "DEVICE" THEN HalfMax + (id % HalfMax) ELSE id

SrcType(l) == IF Content[l].file = "y" THEN "DEVICE" ELSE "PERSON"
DstType(l) == IF Content[l].file \in {"y", "u"} THEN "DEVICE" ELSE "PERSON"

\* NodeParser.
NodeOf(l) ==
  LET type == IF Content[l].word = "Device" THEN "DEVICE" ELSE "PERSON"
  IN <<Uid(type, Content[l].src), type>>

\* WMDParser adds the purchase to each sale.
EdgesOfLine(l) ==
  {l} \X (CASE Content[l].file = "c" /\ Content[l].word = "Sale" -> {"SALE", "PURCHASE"}
            [] Content[l].file = "y" -> {"COMMUNICATION"}
            [] Content[l].file = "o" -> {"FRIEND"}
            [] Content[l].file = "u" -> {"USES"}
            [] OTHER -> {})

SrcOf(l) == Uid(SrcType(l), Content[l].src)
DstOf(l) == Uid(DstType(l), Content[l].dst)
From(e) == IF e[2] = "PURCHASE" THEN DstOf(e[1]) ELSE SrcOf(e[1])
To(e) == IF e[2] = "PURCHASE" THEN SrcOf(e[1]) ELSE DstOf(e[1])

\* All hosts read the files together, up to the barrier.
Import ==
  /\ AllAt("parsed")
  /\ full' = [node |-> {NodeOf(l) : l \in {m \in InputLines : Content[m].file = "n"}},
              edge |-> UNION {EdgesOfLine(l) : l \in InputLines}]
  /\ stage' = [h \in Host |-> "imported"]
  /\ UNCHANGED <<options, network, weight, vars>>

KeepNode(v) == <<v, "PERSON">> \in full.node

KeepEdge(e) ==
  /\ e[2] \in {"PURCHASE", "SALE"}
  /\ Content[e[1]].topic = "coffee"
  /\ Content[e[1]].amount > 0
  /\ KeepNode(To(e))

\* ProjectGraph: a host keeps edges of its own nodes.
Project(h) ==
  /\ stage[h] = "imported"
  /\ network' = [network EXCEPT ![h] =
       {e \in full.edge : KeepNode(From(e)) /\ From(e) \in Masters(h) /\ KeepEdge(e)}]
  /\ stage' = [stage EXCEPT ![h] = "projected"]
  /\ UNCHANGED <<options, full, weight, vars>>
-----------------------------------------------------------------------------
(* CalculateEdgeProbabilities.                                             *)

\* What the edges of v of one type add up to.
Amounts(h, v, type) ==
  SumFunctionOnSet([e \in network[h] |-> Content[e[1]].amount],
                   {e \in network[h] : From(e) = v /\ e[2] = type})

\* Mutant: the bits of those who have bought.
SoldBitsBought(h) == {v \in Masters(h) : Amounts(h, v, "PURCHASE") > 0}

\* The nodes that bitset_sold_ is set for.
SoldBits(h) == {v \in Masters(h) : Amounts(h, v, "SALE") > 0}

\* The first do_all: a step adds to its own node only.
FillNodeValues(h) ==
  /\ stage[h] = "projected"
  /\ sold' = [sold EXCEPT ![h] = [v \in Node |-> Amounts(h, v, "SALE")]]
  /\ bought' = [bought EXCEPT ![h] = [v \in Node |-> Amounts(h, v, "PURCHASE")]]
  /\ marks' = [marks EXCEPT ![h].sold = SoldBits(h)]
  /\ stage' = [stage EXCEPT ![h] = "filled"]
  /\ UNCHANGED <<options, full, network, weight, pc, fresh, pending, clamped>>

\* The sync copies marked masters to mirrors; then the bitsets are dropped.
UpdateMirrors ==
  /\ AllAt("filled")
  /\ sold' = [h \in Host |-> [v \in Node |->
       IF v \in marks[Owner[v]].sold /\ \E e \in network[h] : To(e) = v
         THEN sold[Owner[v]][v] ELSE sold[h][v]]]
  /\ marks' = [h \in Host |-> [marks[h] EXCEPT !.sold = {}]]
  /\ stage' = [h \in Host |-> "synced"]
  /\ UNCHANGED <<options, full, network, weight, pc, fresh, pending, clamped, bought>>

\* amount_ / sold_ of the seller, from the copy that the host has.
EdgeProbability(h, e) ==
  LET seller == IF e[2] = "SALE" THEN From(e) ELSE To(e)
  IN IF sold[h][seller] > 0 THEN <<Content[e[1]].amount, sold[h][seller]>> ELSE NoWeight

CalculateEdgeProbability(h) ==
  /\ stage[h] = "synced"
  /\ weight' = [weight EXCEPT ![h] = [e \in network[h] |-> EdgeProbability(h, e)]]
  /\ stage' = [stage EXCEPT ![h] = "weighed"]
  /\ UNCHANGED <<options, full, network, vars>>

\* All hosts reduce the totals; the choice of influencers, which ends with a
\* collective call, is left out; CancelNodes.
Main == AllAt("weighed") /\ Next /\ UNCHANGED mainVars

Exited == AllAt("exited") /\ UNCHANGED allVars

MainNext ==
  \/ \E h \in Host :
       Parse(h) \/ Project(h) \/ FillNodeValues(h) \/ CalculateEdgeProbability(h)
  \/ Import
  \/ UpdateMirrors
  \/ Main
  \/ Exited

MainSpec == MainInit /\ [][MainNext]_allVars
-----------------------------------------------------------------------------
\* A trade is a sale of coffee between persons.
NetworkIsTrades ==
  \A h \in Host : network[h] = UNION {EdgesOf(v) : v \in Masters(h)}

\* Both edges of a trade, on whatever hosts, have the same weight, the
\* trade's share in what the seller sells.
WeightsAgree ==
  \A t \in Trade :
    /\ weight[Owner[Seller[t]]][<<t, "SALE">>] = <<Amount[t], SoldIn(Trade, Seller[t])>>
    /\ weight[Owner[Buyer[t]]][<<t, "PURCHASE">>] = <<Amount[t], SoldIn(Trade, Seller[t])>>

\* What is handed over to the cancellation is what it counts on: the network
\* consists of the trades, each on both sides and no device among them, both
\* sides have the same probability although one of them only knows a mirror
\* of the seller (influence_maximization.cpp:325), and masters and mirrors
\* are as Cancel's Init says.
HandedOver ==
  AllAt("weighed") => /\ NetworkIsTrades
                      /\ WeightsAgree
                      /\ NotBegun => Init
=============================================================================
