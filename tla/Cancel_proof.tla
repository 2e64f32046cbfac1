---------------------------- MODULE Cancel_proof ----------------------------
(***************************************************************************)
(* CancelNodes is exact for every network, owner of its nodes and set of   *)
(* cancelled nodes, and the phases before hand it the state that it needs. *)
(*                                                                         *)
(* The argument is a ledger.  What a host has done to its copy of a node   *)
(* is the sum of the trades Gone through it: a master is short of them, a  *)
(* mirror that was touched is their negation.  At the sync no trade is     *)
(* pending, so the hosts' Gone trades are, together, all trades with       *)
(* cancelled nodes, each of them on one host; what is left are the trades  *)
(* that Stay.  Bought and sold are told apart by the kind of edge.         *)
(*                                                                         *)
(* The second part is about the whole of MainSpec: what a host has follows *)
(* from its stage alone, until every host is at the last one.              *)
(***************************************************************************)
EXTENDS Pipeline, SumTheorems

Kinds == {"SALE", "PURCHASE"}

\* The counter that CancelNode subtracts edges of kind k from, and its marks.
Count(k) == IF k = "SALE" THEN bought ELSE sold
MarksOf(h, k) == IF k = "SALE" THEN marks[h].bought ELSE marks[h].sold

\* The node whose edge it is.
Source(e) == IF e[2] = "SALE" THEN Seller[e[1]] ELSE Buyer[e[1]]

\* The trades that v's counter is made of, those that a cancellation leaves,
\* and those that host h has subtracted.
AllOf(k, v) == {t \in Trade : Dst(<<t, k>>) = v}
Stay(k, v) == {t \in AllOf(k, v) : Source(<<t, k>>) \notin Cancelled}
ToGo(h, k, v) == {t \in AllOf(k, v) : Source(<<t, k>>) \in Cancelled \cap Masters(h)}
Gone(h, k, v) ==
  {t \in ToGo(h, k, v) :
     /\ Source(<<t, k>>) \notin fresh[h]
     /\ <<t, k>> \notin pending[h][Source(<<t, k>>)]}

AtStart(h, k, v) ==
  IF k = "SALE" /\ v \notin Masters(h) THEN 0 ELSE Total(AllOf(k, v))

\* The counter has been subtracted from, or is about to be.
Touched(h, k, v) ==
  \/ Gone(h, k, v) # {}
  \/ \E n \in Cancelled : \E e \in clamped[h][n] : e[2] = k /\ Dst(e) = v

\* Edges are visited once, by the host of their source.
InvEdges ==
  \A h \in Host : \A n \in Cancelled :
    /\ pending[h][n] \subseteq EdgesOf(n)
    /\ n \in fresh[h] \/ n \notin Masters(h) => pending[h][n] = {}
    /\ clamped[h][n] = {} \/ \E e \in pending[h][n] :
         clamped[h][n] = {e} /\ Dst(e) \notin Masters(h)

InvPhases ==
  /\ \/ \A h \in Host : pc[h] \in {"cancel", "sync"}
     \/ \A h \in Host : pc[h] \in {"reset", "done"}
  /\ \A h \in Host : pc[h] # "cancel" =>
       fresh[h] = {} /\ \A n \in Cancelled : pending[h][n] = {}

InvMarks ==
  \A h \in Host : \A k \in Kinds : \A v \in Node :
    v \in MarksOf(h, k) <=> Gone(h, k, v) # {}

LedgerAt(h, k, v) ==
  IF v \notin Masters(h) /\ Touched(h, k, v)
    THEN Count(k)[h][v] = - Total(Gone(h, k, v))
    ELSE Count(k)[h][v] = AtStart(h, k, v) - Total(Gone(h, k, v))

InvLedger ==
  \A h \in Host : pc[h] \in {"cancel", "sync"} =>
    \A k \in Kinds : \A v \in Local(h) \ Cancelled : LedgerAt(h, k, v)

\* A mirror has its master's value, unless no edge led to it and it never had.
InvAfter ==
  \A h \in Host : \A k \in Kinds : \A v \in Local(h) :
    /\ pc[h] \in {"reset", "done"} /\ v \notin Cancelled =>
         Count(k)[h][v] =
           IF v \in Masters(h) \/ k = "PURCHASE" \/ \E g \in Host : v \in MarksOf(g, k)
             THEN Total(Stay(k, v)) ELSE 0
    /\ pc[h] = "done" /\ v \in Cancelled => Count(k)[h][v] = 0

IInv ==
  /\ TypeOK
  /\ InvEdges
  /\ InvPhases
  /\ InvMarks
  /\ InvLedger
  /\ InvAfter
-----------------------------------------------------------------------------
(* Constants.                                                              *)

LEMMA TotalNat ==
  ASSUME NEW T \in SUBSET Trade
  PROVE  Total(T) \in Nat /\ IsFiniteSet(T)
<1>1. IsFiniteSet(T)
  BY TradeAssumption, FS_Subset
<1>2. \A t \in T : Amount[t] \in Nat
  BY TradeAssumption
<1> QED
  BY <1>1, <1>2, SumNat DEF Total

LEMMA TotalAdd ==
  ASSUME NEW T \in SUBSET Trade, NEW t \in Trade \ T
  PROVE  Total(T \cup {t}) = Total(T) + Amount[t]
<1>1. IsFiniteSet(T)
  BY TotalNat
<1>2. \A u \in Trade : Amount[u] \in Int
  BY TradeAssumption
<1>3. Total(T \cup {t}) = Amount[t] + Total(T)
  BY <1>1, <1>2, SumAdd DEF Total
<1> QED
  BY <1>2, <1>3, TotalNat

LEMMA TotalUnion ==
  ASSUME NEW S \in SUBSET Trade, NEW T \in SUBSET Trade, S \cap T = {}
  PROVE  Total(S \cup T) = Total(S) + Total(T)
<1>1. IsFiniteSet(S) /\ IsFiniteSet(T)
  BY TotalNat
<1>2. \A u \in S \cup T : Amount[u] \in Int
  BY TradeAssumption
<1> QED
  BY <1>1, <1>2, SumUnion DEF Total

\* The edges of a node are those with that source, and lead to copies that
\* its host has.
LEMMA EdgeSource ==
  ASSUME NEW n \in Node, NEW e \in EdgesOf(n)
  PROVE  /\ e = <<e[1], e[2]>>
         /\ e[1] \in Trade /\ e[2] \in Kinds /\ e \in Edge
         /\ Source(e) = n
         /\ Dst(e) \in Node
         /\ e[1] \in AllOf(e[2], Dst(e))
         /\ \A h \in Host : n \in Masters(h) => Dst(e) \in Local(h)
<1>1. CASE \E t \in Trade : Seller[t] = n /\ e = <<t, "SALE">>
  BY <1>1, TradeAssumption
     DEF Kinds, Edge, Source, Dst, AllOf, Local, Masters, Mirrors
<1>2. CASE \E t \in Trade : Buyer[t] = n /\ e = <<t, "PURCHASE">>
  BY <1>2, TradeAssumption
     DEF Kinds, Edge, Source, Dst, AllOf, Local, Masters, Mirrors
<1> QED
  BY <1>1, <1>2 DEF EdgesOf

LEMMA SourceEdge ==
  ASSUME NEW t \in Trade, NEW k \in Kinds
  PROVE  /\ Source(<<t, k>>) \in Node
         /\ <<t, k>> \in EdgesOf(Source(<<t, k>>))
BY TradeAssumption DEF Kinds, Source, EdgesOf

LEMMA Copies ==
  /\ Cancelled \subseteq Node
  /\ \A v \in Node : Owner[v] \in Host /\ v \in Masters(Owner[v]) /\ v \in Local(Owner[v])
  /\ \A h \in Host : Masters(h) \subseteq Node /\ Masters(h) \subseteq Local(h)
                       /\ Local(h) \subseteq Node
  /\ \A h \in Host : \A v \in Masters(h) : Owner[v] = h
BY NodeAssumption, CancelledAssumption DEF Masters, Mirrors, Local

LEMMA GoneSubset ==
  ASSUME NEW h, NEW k, NEW v
  PROVE  /\ Gone(h, k, v) \subseteq ToGo(h, k, v)
         /\ ToGo(h, k, v) \subseteq AllOf(k, v)
         /\ AllOf(k, v) \subseteq Trade
         /\ Stay(k, v) \subseteq AllOf(k, v)
BY DEF Gone, ToGo, AllOf, Stay

LEMMA AtStartNat ==
  ASSUME NEW h, NEW k, NEW v
  PROVE  AtStart(h, k, v) \in Nat
BY GoneSubset, TotalNat DEF AtStart
-----------------------------------------------------------------------------
(* What the actions do to counters, marks and Gone trades.                 *)

LEMMA TypeInit == Init => TypeOK
<1> SUFFICES ASSUME Init PROVE TypeOK
  OBVIOUS
<1>1. \A v \in Node : SoldIn(Trade, v) \in Int /\ BoughtIn(Trade, v) \in Int
  BY TotalNat DEF SoldIn, BoughtIn
<1> QED
  BY <1>1, Copies DEF Init, NotBegun, TypeOK

LEMMA ZeroedType ==
  ASSUME NEW f \in [Host -> [Node -> Int]], NEW h \in Host, NEW S
  PROVE  /\ Zeroed(f, h, S) \in [Host -> [Node -> Int]]
         /\ \A g \in Host : \A v \in Node :
              Zeroed(f, h, S)[g][v] = IF g = h /\ v \in S THEN 0 ELSE f[g][v]
BY DEF Zeroed

LEMMA StartEffect ==
  ASSUME TypeOK, NEW h \in Host, NEW n \in Cancelled, Start(h, n)
  PROVE  /\ TypeOK'
         /\ \A g \in Host : \A k \in Kinds : \A v \in Node :
              /\ Count(k)'[g][v] = IF g = h /\ v = n /\ n \in Local(h)
                                     THEN 0 ELSE Count(k)[g][v]
              /\ MarksOf(g, k)' = MarksOf(g, k)
         /\ \A g \in Host : \A m \in Cancelled :
              pending'[g][m] = IF g = h /\ m = n
                THEN IF n \in Masters(h) THEN EdgesOf(n) ELSE {}
                ELSE pending[g][m]
<1> USE DEF TypeOK, Start
<1>1. EdgesOf(n) \in SUBSET Edge
  BY EdgeSource, Copies
<1>2. pending' \in [Host -> [Cancelled -> SUBSET Edge]]
  BY <1>1
<1>3. fresh' \in [Host -> SUBSET Cancelled]
  OBVIOUS
<1>4. /\ sold' \in [Host -> [Node -> Int]] /\ bought' \in [Host -> [Node -> Int]]
      /\ \A g \in Host : \A v \in Node :
           /\ sold'[g][v] = IF g = h /\ v \in {n} \cap Local(h) THEN 0 ELSE sold[g][v]
           /\ bought'[g][v] = IF g = h /\ v \in {n} \cap Local(h) THEN 0 ELSE bought[g][v]
  <2>1. sold \in [Host -> [Node -> Int]] /\ bought \in [Host -> [Node -> Int]]
    OBVIOUS
  <2>2. /\ sold' = Zeroed(sold, h, {n} \cap Local(h))
        /\ bought' = Zeroed(bought, h, {n} \cap Local(h))
    OBVIOUS
  <2> HIDE DEF TypeOK, Start
  <2> QED
    BY <2>1, <2>2, ZeroedType
<1>5. ASSUME NEW g \in Host, NEW k \in Kinds, NEW v \in Node
      PROVE  /\ Count(k)'[g][v] = IF g = h /\ v = n /\ n \in Local(h)
                                     THEN 0 ELSE Count(k)[g][v]
             /\ MarksOf(g, k)' = MarksOf(g, k)
  <2>1. marks' = marks
    OBVIOUS
  <2> HIDE DEF TypeOK, Start
  <2> QED
    BY <1>4, <2>1 DEF Count, MarksOf
<1>6. ASSUME NEW g \in Host, NEW m \in Cancelled
      PROVE  pending'[g][m] = IF g = h /\ m = n
                THEN IF n \in Masters(h) THEN EdgesOf(n) ELSE {}
                ELSE pending[g][m]
  OBVIOUS
<1> QED
  BY <1>2, <1>3, <1>4, <1>5, <1>6

LEMMA ClampEffect ==
  ASSUME TypeOK, NEW h \in Host, NEW n \in Cancelled, NEW e \in pending[h][n],
         InvEdges, Clamp(h, n, e)
  PROVE  /\ TypeOK'
         /\ \A g \in Host : \A k \in Kinds : \A v \in Node :
              /\ Count(k)'[g][v] = IF g = h /\ k = e[2] /\ v = Dst(e)
                                     THEN AtomicMin(Count(k)[g][v]) ELSE Count(k)[g][v]
              /\ MarksOf(g, k)' = MarksOf(g, k)
         /\ \A g \in Host : \A m \in Cancelled :
              clamped'[g][m] = IF g = h /\ m = n THEN {e} ELSE clamped[g][m]
<1> USE DEF TypeOK, Clamp
<1>1. e[2] \in Kinds /\ e \in Edge /\ Dst(e) \in Node
  BY EdgeSource, Copies DEF InvEdges
<1>2. clamped' \in [Host -> [Cancelled -> SUBSET Edge]]
  BY <1>1
<1>3. sold' \in [Host -> [Node -> Int]] /\ bought' \in [Host -> [Node -> Int]]
  <2>1. \A x \in Int : AtomicMin(x) \in Int
    BY DEF AtomicMin
  <2>2. CASE e[2] = "SALE"
    <3>1. AtomicMin(bought[h][Dst(e)]) \in Int
      BY <1>1, <2>1
    <3>2. /\ bought' = [bought EXCEPT ![h][Dst(e)] = AtomicMin(bought[h][Dst(e)])]
          /\ sold' = sold
      BY <2>2
    <3>3. bought \in [Host -> [Node -> Int]] /\ sold \in [Host -> [Node -> Int]]
      OBVIOUS
    <3> HIDE DEF TypeOK, Clamp
    <3> QED
      BY <1>1, <3>1, <3>2, <3>3
  <2>3. CASE e[2] # "SALE"
    <3>1. AtomicMin(sold[h][Dst(e)]) \in Int
      BY <1>1, <2>1
    <3>2. /\ sold' = [sold EXCEPT ![h][Dst(e)] = AtomicMin(sold[h][Dst(e)])]
          /\ bought' = bought
      BY <2>3
    <3>3. sold \in [Host -> [Node -> Int]] /\ bought \in [Host -> [Node -> Int]]
      OBVIOUS
    <3> HIDE DEF TypeOK, Clamp
    <3> QED
      BY <1>1, <3>1, <3>2, <3>3
  <2> QED
    BY <2>2, <2>3
<1>4. ASSUME NEW g \in Host, NEW k \in Kinds, NEW v \in Node
      PROVE  /\ Count(k)'[g][v] = IF g = h /\ k = e[2] /\ v = Dst(e)
                                     THEN AtomicMin(Count(k)[g][v]) ELSE Count(k)[g][v]
             /\ MarksOf(g, k)' = MarksOf(g, k)
  BY <1>1 DEF Count, MarksOf, Kinds
<1>5. ASSUME NEW g \in Host, NEW m \in Cancelled
      PROVE  clamped'[g][m] = IF g = h /\ m = n THEN {e} ELSE clamped[g][m]
  OBVIOUS
<1> QED
  BY <1>2, <1>3, <1>4, <1>5

LEMMA SubtractEffect ==
  ASSUME TypeOK, NEW h \in Host, NEW n \in Cancelled, NEW e \in pending[h][n],
         InvEdges, Subtract(h, n, e)
  PROVE  /\ TypeOK'
         /\ \A g \in Host : \A k \in Kinds : \A v \in Node :
              /\ Count(k)'[g][v] = IF g = h /\ k = e[2] /\ v = Dst(e)
                                     THEN Count(k)[g][v] - Amount[e[1]] ELSE Count(k)[g][v]
              /\ MarksOf(g, k)' = IF g = h /\ k = e[2]
                                    THEN MarksOf(g, k) \cup {Dst(e)} ELSE MarksOf(g, k)
         /\ \A g \in Host : \A m \in Cancelled :
              /\ pending'[g][m] = IF g = h /\ m = n THEN pending[g][m] \ {e}
                                                    ELSE pending[g][m]
              /\ clamped'[g][m] = IF g = h /\ m = n THEN {} ELSE clamped[g][m]
<1>1. e[2] \in Kinds /\ e \in Edge /\ Dst(e) \in Node /\ e[1] \in Trade
      /\ Amount[e[1]] \in Int /\ Dst(e) \in Local(h)
  <2>1. e \in EdgesOf(n) /\ n \in Masters(h)
    BY DEF InvEdges
  <2> QED
    BY <2>1, EdgeSource, Copies, TradeAssumption
<1>2. /\ pending' \in [Host -> [Cancelled -> SUBSET Edge]]
      /\ clamped' \in [Host -> [Cancelled -> SUBSET Edge]]
      /\ \A g \in Host : \A m \in Cancelled :
           /\ pending'[g][m] = IF g = h /\ m = n THEN pending[g][m] \ {e}
                                                 ELSE pending[g][m]
           /\ clamped'[g][m] = IF g = h /\ m = n THEN {} ELSE clamped[g][m]
  BY DEF TypeOK, Subtract
<1>3. /\ sold \in [Host -> [Node -> Int]] /\ bought \in [Host -> [Node -> Int]]
      /\ marks \in [Host -> [sold : SUBSET Node, bought : SUBSET Node]]
      /\ \A g \in Host : (marks[g].sold \cup marks[g].bought) \subseteq Local(g)
      /\ pc \in [Host -> {"cancel", "sync", "reset", "done"}] /\ pc' = pc
      /\ fresh \in [Host -> SUBSET Cancelled] /\ fresh' = fresh
  BY DEF TypeOK, Subtract
<1> DEFINE Effect(g, k, v) ==
      /\ Count(k)'[g][v] = IF g = h /\ k = e[2] /\ v = Dst(e)
                             THEN Count(k)[g][v] - Amount[e[1]] ELSE Count(k)[g][v]
      /\ MarksOf(g, k)' = IF g = h /\ k = e[2]
                            THEN MarksOf(g, k) \cup {Dst(e)} ELSE MarksOf(g, k)
<1>4. /\ sold' \in [Host -> [Node -> Int]] /\ bought' \in [Host -> [Node -> Int]]
      /\ marks' \in [Host -> [sold : SUBSET Node, bought : SUBSET Node]]
      /\ \A g \in Host : (marks'[g].sold \cup marks'[g].bought) \subseteq Local(g)
      /\ \A g \in Host : \A k \in Kinds : \A v \in Node : Effect(g, k, v)
  <2>1. CASE e[2] = "SALE"
    <3>1. /\ bought' = [bought EXCEPT ![h][Dst(e)] = @ - Amount[e[1]]]
          /\ marks' = [marks EXCEPT ![h].bought = @ \cup {Dst(e)}]
          /\ sold' = sold
      BY <2>1 DEF Subtract
    <3>2. bought' \in [Host -> [Node -> Int]]
      BY <1>1, <1>3, <3>1
    <3>3. /\ marks' \in [Host -> [sold : SUBSET Node, bought : SUBSET Node]]
          /\ \A g \in Host : (marks'[g].sold \cup marks'[g].bought) \subseteq Local(g)
      BY <1>1, <1>3, <3>1
    <3>4. ASSUME NEW g \in Host, NEW k \in Kinds, NEW v \in Node
          PROVE  Effect(g, k, v)
      BY <1>1, <1>3, <2>1, <3>1 DEF Count, MarksOf, Kinds
    <3> QED
      BY <1>3, <3>1, <3>2, <3>3, <3>4
  <2>2. CASE e[2] # "SALE"
    <3>1. /\ sold' = [sold EXCEPT ![h][Dst(e)] = @ - Amount[e[1]]]
          /\ marks' = [marks EXCEPT ![h].sold = @ \cup {Dst(e)}]
          /\ bought' = bought
      BY <2>2 DEF Subtract
    <3>2. sold' \in [Host -> [Node -> Int]]
      BY <1>1, <1>3, <3>1
    <3>3. /\ marks' \in [Host -> [sold : SUBSET Node, bought : SUBSET Node]]
          /\ \A g \in Host : (marks'[g].sold \cup marks'[g].bought) \subseteq Local(g)
      BY <1>1, <1>3, <3>1
    <3>4. ASSUME NEW g \in Host, NEW k \in Kinds, NEW v \in Node
          PROVE  Effect(g, k, v)
      BY <1>1, <1>3, <2>2, <3>1 DEF Count, MarksOf, Kinds
    <3> QED
      BY <1>3, <3>1, <3>2, <3>3, <3>4
  <2> QED
    BY <2>1, <2>2
<1>5. TypeOK'
  BY <1>2, <1>3, <1>4 DEF TypeOK
<1> QED
  BY <1>2, <1>4, <1>5

LEMMA ResetEffect ==
  ASSUME TypeOK, NEW h \in Host, Reset(h)
  PROVE  /\ TypeOK'
         /\ \A g \in Host : \A k \in Kinds : \A v \in Node :
              /\ Count(k)'[g][v] = IF g = h /\ v \in Cancelled \cap Local(h)
                                     THEN 0 ELSE Count(k)[g][v]
              /\ MarksOf(g, k)' = MarksOf(g, k)
<1>1. sold \in [Host -> [Node -> Int]] /\ bought \in [Host -> [Node -> Int]]
  BY DEF TypeOK
<1>2. /\ sold' = Zeroed(sold, h, Cancelled \cap Local(h))
      /\ bought' = Zeroed(bought, h, Cancelled \cap Local(h))
      /\ marks' = marks
  BY DEF Reset, ResetNodes
<1>3. /\ sold' \in [Host -> [Node -> Int]] /\ bought' \in [Host -> [Node -> Int]]
      /\ \A g \in Host : \A v \in Node :
           /\ sold'[g][v] = IF g = h /\ v \in Cancelled \cap Local(h)
                              THEN 0 ELSE sold[g][v]
           /\ bought'[g][v] = IF g = h /\ v \in Cancelled \cap Local(h)
                                THEN 0 ELSE bought[g][v]
  BY <1>1, <1>2, ZeroedType
<1>4. TypeOK'
  BY <1>3 DEF TypeOK, Reset
<1> QED
  BY <1>2, <1>3, <1>4 DEF Count, MarksOf

\* The counters of all copies of a node, and a copy's counter after the sync.
Column(f, v) == [g \in Host |-> f[g][v]]

LEMMA ReducedType ==
  ASSUME NEW f \in [Host -> [Node -> Int]], NEW M
  PROVE  Reduced(f, M) \in [Host -> [Node -> Int]]
<1>1. IsFiniteSet(Host)
  BY NumHostsAssumption, FS_Interval DEF Host
<1>2. ASSUME NEW v \in Node
      PROVE  AddedUp(f, M)[v] \in Int
  <2> DEFINE c == Column(f, v)
             S == Marked(M, v) \ {Owner[v]}
  <2>1. S \subseteq Host /\ IsFiniteSet(S)
    BY <1>1, FS_Subset DEF Marked
  <2>2. \A g \in S : c[g] \in Int
    BY <2>1 DEF Column
  <2>3. SumFunctionOnSet(c, S) \in Int
    BY <2>1, <2>2, SumInt
  <2>4. f[Owner[v]][v] \in Int
    BY Copies
  <2> QED
    BY <2>3, <2>4 DEF AddedUp, Column
<1> QED
  BY <1>2 DEF Reduced

LEMMA ReducedValue ==
  ASSUME NEW f, NEW M, NEW h \in Host, NEW v \in Node
  PROVE  Reduced(f, M)[h][v] =
           IF v \in Local(h) /\ Marked(M, v) # {}
             THEN f[Owner[v]][v] + SumFunctionOnSet(Column(f, v), Marked(M, v) \ {Owner[v]})
             ELSE f[h][v]
BY DEF Reduced, AddedUp, Column

LEMMA SyncEffect ==
  ASSUME TypeOK, Sync
  PROVE  /\ TypeOK'
         /\ \A k \in Kinds :
              /\ Count(k)' = Reduced(Count(k), [h \in Host |-> MarksOf(h, k)])
              /\ \A g \in Host : MarksOf(g, k)' = MarksOf(g, k)
<1>1. sold \in [Host -> [Node -> Int]] /\ bought \in [Host -> [Node -> Int]]
  BY DEF TypeOK
<1>2. /\ bought' = Reduced(bought, [h \in Host |-> marks[h].bought])
      /\ sold' = Reduced(sold, [h \in Host |-> marks[h].sold])
      /\ marks' = marks
  BY DEF Sync
<1>3. sold' \in [Host -> [Node -> Int]] /\ bought' \in [Host -> [Node -> Int]]
  BY <1>1, <1>2, ReducedType
<1>4. TypeOK'
  BY <1>3 DEF TypeOK, Sync
<1> QED
  BY <1>2, <1>4 DEF Count, MarksOf, Kinds

-----------------------------------------------------------------------------
(* Which trades are Gone.                                                  *)

LEMMA GoneStart ==
  ASSUME TypeOK, InvEdges, NEW h \in Host, NEW n \in Cancelled, Start(h, n),
         NEW g \in Host, NEW k \in Kinds, NEW v
  PROVE  Gone(g, k, v)' = Gone(g, k, v)
<1> SUFFICES ASSUME NEW t \in ToGo(g, k, v)
             PROVE  /\ Source(<<t, k>>) \notin fresh'[g]
                    /\ <<t, k>> \notin pending'[g][Source(<<t, k>>)]
                    <=> /\ Source(<<t, k>>) \notin fresh[g]
                        /\ <<t, k>> \notin pending[g][Source(<<t, k>>)]
  BY DEF Gone
<1> DEFINE s == Source(<<t, k>>)
<1>1. s \in Cancelled /\ s \in Masters(g) /\ <<t, k>> \in EdgesOf(s)
  BY SourceEdge DEF ToGo, AllOf
<1>2. /\ fresh'[g] = IF g = h THEN fresh[g] \ {n} ELSE fresh[g]
      /\ n \in fresh[h]
  BY DEF Start, TypeOK
<1>3. pending'[g][s] = IF g = h /\ s = n
                         THEN IF n \in Masters(h) THEN EdgesOf(n) ELSE {}
                         ELSE pending[g][s]
  BY <1>1, StartEffect
<1> QED
  BY <1>1, <1>2, <1>3

LEMMA GoneSame ==
  ASSUME fresh' = fresh, pending' = pending, NEW g, NEW k, NEW v
  PROVE  Gone(g, k, v)' = Gone(g, k, v)
BY DEF Gone

LEMMA GoneSubtract ==
  ASSUME TypeOK, InvEdges, NEW h \in Host, NEW n \in Cancelled,
         NEW e \in pending[h][n], Subtract(h, n, e)
  PROVE  /\ e[1] \in AllOf(e[2], Dst(e)) /\ e[1] \notin Gone(h, e[2], Dst(e))
         /\ \A g \in Host : \A k \in Kinds : \A v \in Node :
              Gone(g, k, v)' = IF g = h /\ k = e[2] /\ v = Dst(e)
                                 THEN Gone(g, k, v) \cup {e[1]} ELSE Gone(g, k, v)
<1>1. /\ e \in EdgesOf(n) /\ n \in Node /\ n \in Masters(h) /\ n \notin fresh[h]
      /\ e = <<e[1], e[2]>> /\ e[1] \in Trade /\ e[2] \in Kinds /\ Source(e) = n
      /\ e[1] \in AllOf(e[2], Dst(e))
  <2>1. e \in EdgesOf(n) /\ n \in Node /\ n \in Masters(h) /\ n \notin fresh[h]
    BY Copies DEF InvEdges
  <2> QED
    BY <2>1, EdgeSource
<1>2. e[1] \notin Gone(h, e[2], Dst(e))
  BY <1>1 DEF Gone
<1>3. ASSUME NEW g \in Host, NEW k \in Kinds, NEW v \in Node, NEW t \in ToGo(g, k, v)
      PROVE  t \in Gone(g, k, v)' <=>
               (t \in Gone(g, k, v) \/ (g = h /\ <<t, k>> = e))
  <2>1. Source(<<t, k>>) \in Cancelled
    BY DEF ToGo
  <2>2. pending'[g][Source(<<t, k>>)] =
          IF g = h /\ Source(<<t, k>>) = n THEN pending[g][n] \ {e}
                                           ELSE pending[g][Source(<<t, k>>)]
    <3>1. pending' = [pending EXCEPT ![h][n] = pending[h][n] \ {e}]
      BY DEF Subtract
    <3>2. pending \in [Host -> [Cancelled -> SUBSET Edge]]
      BY DEF TypeOK
    <3> QED
      BY <2>1, <3>1, <3>2
  <2>3. fresh' = fresh
    BY DEF Subtract
  <2> QED
    BY <1>1, <2>1, <2>2, <2>3 DEF Gone
<1>4. ASSUME NEW g \in Host, NEW k \in Kinds, NEW v \in Node, g = h, k = e[2], v = Dst(e)
      PROVE  e[1] \in ToGo(g, k, v)
  BY <1>1, <1>4 DEF ToGo
<1>5. ASSUME NEW g \in Host, NEW k \in Kinds, NEW v \in Node
      PROVE  Gone(g, k, v)' = IF g = h /\ k = e[2] /\ v = Dst(e)
                                THEN Gone(g, k, v) \cup {e[1]} ELSE Gone(g, k, v)
  <2>1. Gone(g, k, v)' \subseteq ToGo(g, k, v) /\ Gone(g, k, v) \subseteq ToGo(g, k, v)
    BY DEF Gone
  <2>2. ASSUME NEW t \in ToGo(g, k, v), <<t, k>> = e
        PROVE  t = e[1] /\ k = e[2] /\ v = Dst(e)
    BY <2>2 DEF ToGo, AllOf
  <2>3. ASSUME NEW t \in ToGo(g, k, v), t = e[1], k = e[2]
        PROVE  <<t, k>> = e
    BY <1>1, <2>3
  <2> QED
    BY <1>3, <1>4, <2>1, <2>2, <2>3
<1> QED
  BY <1>1, <1>2, <1>5

-----------------------------------------------------------------------------
(* The steps of the ledger.                                                *)

LEMMA InitStep == Init => IInv
<1> SUFFICES ASSUME Init PROVE IInv
  OBVIOUS
<1> USE DEF Init, NotBegun
<1>1. InvEdges /\ InvPhases
  BY DEF InvEdges, InvPhases
<1>2. ASSUME NEW h \in Host, NEW k \in Kinds, NEW v \in Node
      PROVE  /\ Gone(h, k, v) = {} /\ ~ Touched(h, k, v)
             /\ v \notin MarksOf(h, k)
  <2>1. Gone(h, k, v) = {}
    BY DEF Gone, ToGo
  <2>2. /\ \A n \in Cancelled : clamped[h][n] = {}
        /\ marks[h].sold = {} /\ marks[h].bought = {}
    OBVIOUS
  <2>3. ~ Touched(h, k, v)
    <3> HIDE DEF Init, NotBegun
    <3> QED
      BY <2>1, <2>2 DEF Touched
  <2>4. v \notin MarksOf(h, k)
    <3> HIDE DEF Init, NotBegun
    <3> QED
      BY <2>2 DEF MarksOf
  <2> QED
    BY <2>1, <2>3, <2>4
<1>3. InvMarks
  BY <1>2 DEF InvMarks
<1>4. ASSUME NEW h \in Host, NEW k \in Kinds, NEW v \in Local(h) \ Cancelled
      PROVE  LedgerAt(h, k, v)
  <2>1. v \in Node
    BY Copies
  <2>2. Count(k)[h][v] = AtStart(h, k, v)
    <3>1. AllOf("SALE", v) = {t \in Trade : Buyer[t] = v}
      BY DEF AllOf, Dst
    <3>2. AllOf("PURCHASE", v) = {t \in Trade : Seller[t] = v}
      BY DEF AllOf, Dst
    <3> QED
      BY <2>1, <3>1, <3>2 DEF Count, AtStart, SoldIn, BoughtIn, Kinds
  <2>3. Total(Gone(h, k, v)) = 0 /\ ~ Touched(h, k, v)
    BY <1>2, <2>1, SumEmpty DEF Total
  <2>4. AtStart(h, k, v) \in Nat
    BY AtStartNat
  <2> HIDE DEF Init, NotBegun
  <2> QED
    BY <2>2, <2>3, <2>4 DEF LedgerAt
<1> QED
  BY <1>1, <1>3, <1>4, TypeInit DEF IInv, InvLedger, InvAfter

LEMMA StartStep ==
  ASSUME IInv, NEW h \in Host, NEW n \in Cancelled, Start(h, n)
  PROVE  IInv'
<1> USE DEF IInv
<1>1. TypeOK'
  BY StartEffect
<1>2. /\ \A g \in Host : pc'[g] = pc[g] /\ clamped'[g] = clamped[g]
      /\ \A g \in Host : fresh'[g] = IF g = h THEN fresh[g] \ {n} ELSE fresh[g]
      /\ \A g \in Host : \A m \in Cancelled :
           pending'[g][m] = IF g = h /\ m = n
             THEN IF n \in Masters(h) THEN EdgesOf(n) ELSE {}
             ELSE pending[g][m]
      /\ pc[h] = "cancel" /\ n \in fresh[h]
  <2>1. \A g \in Host : fresh'[g] = IF g = h THEN fresh[g] \ {n} ELSE fresh[g]
    BY DEF Start, TypeOK
  <2>2. pc' = pc /\ clamped' = clamped /\ pc[h] = "cancel" /\ n \in fresh[h]
    BY DEF Start
  <2> HIDE DEF IInv
  <2> QED
    BY <2>1, <2>2, StartEffect DEF IInv
<1>3. InvEdges'
  <2> SUFFICES ASSUME NEW g \in Host, NEW m \in Cancelled
               PROVE  /\ pending'[g][m] \subseteq EdgesOf(m)
                      /\ m \in fresh'[g] \/ m \notin Masters(g) => pending'[g][m] = {}
                      /\ clamped'[g][m] = {} \/ \E e \in pending'[g][m] :
                           clamped'[g][m] = {e} /\ Dst(e) \notin Masters(g)
    BY DEF InvEdges
  <2>1. /\ pending[g][m] \subseteq EdgesOf(m)
        /\ m \in fresh[g] \/ m \notin Masters(g) => pending[g][m] = {}
        /\ clamped[g][m] = {} \/ \E e \in pending[g][m] :
             clamped[g][m] = {e} /\ Dst(e) \notin Masters(g)
    BY DEF InvEdges
  <2>2. /\ clamped'[g][m] = clamped[g][m]
        /\ fresh'[g] = IF g = h THEN fresh[g] \ {n} ELSE fresh[g]
        /\ pending'[g][m] = IF g = h /\ m = n
             THEN IF n \in Masters(h) THEN EdgesOf(n) ELSE {}
             ELSE pending[g][m]
    BY <1>2
  <2> HIDE DEF IInv
  <2> QED
    BY <1>2, <2>1, <2>2
<1>4. InvPhases'
  BY <1>2 DEF InvPhases
<1>5. ASSUME NEW g \in Host, NEW k \in Kinds, NEW v \in Node
      PROVE  /\ Gone(g, k, v)' = Gone(g, k, v)
             /\ MarksOf(g, k)' = MarksOf(g, k)
             /\ v \notin Cancelled => Count(k)'[g][v] = Count(k)[g][v]
             /\ Touched(g, k, v)' <=> Touched(g, k, v)
  <2>1. Gone(g, k, v)' = Gone(g, k, v)
    BY GoneStart
  <2> QED
    BY <1>2, <2>1, StartEffect DEF Touched
<1>6. InvMarks'
  BY <1>5 DEF InvMarks
<1>7. InvLedger'
  BY <1>2, <1>5, Copies DEF InvLedger, LedgerAt, AtStart
<1>8. InvAfter'
  BY <1>2 DEF InvAfter, InvPhases
<1> QED
  BY <1>1, <1>3, <1>4, <1>6, <1>7, <1>8

\* A mirror that is set to 0 or less has not been touched, or holds the
\* negation of a sum already.
LEMMA ClampStep ==
  ASSUME IInv, NEW h \in Host, NEW n \in Cancelled, NEW e \in pending[h][n],
         Clamp(h, n, e)
  PROVE  IInv'
<1> USE DEF IInv
<1>1. TypeOK'
  BY ClampEffect
<1>2. /\ pc' = pc /\ fresh' = fresh /\ pending' = pending
      /\ \A g \in Host : \A m \in Cancelled :
           clamped'[g][m] = IF g = h /\ m = n THEN {e} ELSE clamped[g][m]
      /\ Dst(e) \notin Masters(h)
      /\ clamped[h][n] = {}
  <2>1. /\ pc' = pc /\ fresh' = fresh /\ pending' = pending
        /\ Dst(e) \notin Masters(h) /\ clamped[h][n] = {}
    BY DEF Clamp
  <2> HIDE DEF IInv
  <2> QED
    BY <2>1, ClampEffect DEF IInv
<1>3. \A g \in Host : \A k \in Kinds : \A v \in Node :
        /\ Count(k)'[g][v] = IF g = h /\ k = e[2] /\ v = Dst(e)
                               THEN AtomicMin(Count(k)[g][v]) ELSE Count(k)[g][v]
        /\ MarksOf(g, k)' = MarksOf(g, k)
        /\ Gone(g, k, v)' = Gone(g, k, v)
  <2>1. \A g \in Host : \A k \in Kinds : \A v \in Node : Gone(g, k, v)' = Gone(g, k, v)
    BY <1>2, GoneSame
  <2>2. \A g \in Host : \A k \in Kinds : \A v \in Node :
          /\ Count(k)'[g][v] = IF g = h /\ k = e[2] /\ v = Dst(e)
                                 THEN AtomicMin(Count(k)[g][v]) ELSE Count(k)[g][v]
          /\ MarksOf(g, k)' = MarksOf(g, k)
    BY ClampEffect
  <2> HIDE DEF IInv
  <2> QED
    BY <2>1, <2>2
<1>4. pc[h] = "cancel"
  BY DEF InvPhases, TypeOK
<1>5. InvEdges'
  <2> SUFFICES ASSUME NEW g \in Host, NEW m \in Cancelled
               PROVE  clamped'[g][m] = {} \/ \E d \in pending'[g][m] :
                        clamped'[g][m] = {d} /\ Dst(d) \notin Masters(g)
    BY <1>2 DEF InvEdges
  <2> QED
    BY <1>2 DEF InvEdges
<1>6. InvPhases' /\ InvMarks'
  BY <1>2, <1>3 DEF InvPhases, InvMarks
<1>7. InvLedger'
  <2> SUFFICES ASSUME NEW g \in Host, pc[g] \in {"cancel", "sync"},
                      NEW k \in Kinds, NEW v \in Local(g) \ Cancelled
               PROVE  LedgerAt(g, k, v)'
    BY <1>2 DEF InvLedger
  <2>1. v \in Node /\ LedgerAt(g, k, v)
    BY Copies DEF InvLedger
  <2>2. Total(Gone(g, k, v)) \in Nat /\ AtStart(g, k, v) \in Nat
    BY AtStartNat, TotalNat, GoneSubset
  <2>3. CASE g = h /\ k = e[2] /\ v = Dst(e)
    <3>1. Touched(g, k, v)' /\ v \notin Masters(g)
      BY <1>2, <2>3 DEF Touched
    <3>2. Count(k)'[g][v] = AtomicMin(Count(k)[g][v])
      BY <1>3, <2>1, <2>3
    <3>3. (Gone(g, k, v) = {} /\ Total(Gone(g, k, v)) = 0) \/ Touched(g, k, v)
      BY SumEmpty DEF Touched, Total
    <3>4. AtomicMin(Count(k)[g][v]) = - Total(Gone(g, k, v))
      <4> HIDE DEF IInv
      <4> QED
        BY <2>1, <2>2, <3>1, <3>3 DEF LedgerAt, AtomicMin
    <3> QED
      BY <1>3, <2>1, <3>1, <3>2, <3>4 DEF LedgerAt
  <2>4. CASE ~ (g = h /\ k = e[2] /\ v = Dst(e))
    <3>1. Touched(g, k, v)' <=> Touched(g, k, v)
      BY <1>2, <1>3, <2>1, <2>4 DEF Touched
    <3>2. Count(k)'[g][v] = Count(k)[g][v] /\ Gone(g, k, v)' = Gone(g, k, v)
      BY <1>3, <2>1, <2>4
    <3> QED
      BY <2>1, <3>1, <3>2 DEF LedgerAt, AtStart
  <2> QED
    BY <2>3, <2>4
<1>8. InvAfter'
  BY <1>2, <1>4 DEF InvAfter, InvPhases
<1> QED
  BY <1>1, <1>5, <1>6, <1>7, <1>8

\* The trade is now gone through the copy it was subtracted from.
LEMMA SubtractStep ==
  ASSUME IInv, NEW h \in Host, NEW n \in Cancelled, NEW e \in pending[h][n],
         Subtract(h, n, e)
  PROVE  IInv'
<1> USE DEF IInv
<1>1. TypeOK'
  BY SubtractEffect
<1>2. /\ pc' = pc /\ fresh' = fresh
      /\ IF Dst(e) \in Masters(h) THEN clamped[h][n] = {} ELSE clamped[h][n] = {e}
      /\ \A g \in Host : \A m \in Cancelled :
           /\ pending'[g][m] = IF g = h /\ m = n THEN pending[g][m] \ {e}
                                                 ELSE pending[g][m]
           /\ clamped'[g][m] = IF g = h /\ m = n THEN {} ELSE clamped[g][m]
  <2>1. /\ pc' = pc /\ fresh' = fresh
        /\ IF Dst(e) \in Masters(h) THEN clamped[h][n] = {} ELSE clamped[h][n] = {e}
    BY DEF Subtract
  <2> HIDE DEF IInv
  <2> QED
    BY <2>1, SubtractEffect DEF IInv
<1>3. \A g \in Host : \A k \in Kinds : \A v \in Node :
        /\ Count(k)'[g][v] = IF g = h /\ k = e[2] /\ v = Dst(e)
                               THEN Count(k)[g][v] - Amount[e[1]] ELSE Count(k)[g][v]
        /\ MarksOf(g, k)' = IF g = h /\ k = e[2]
                              THEN MarksOf(g, k) \cup {Dst(e)} ELSE MarksOf(g, k)
        /\ Gone(g, k, v)' = IF g = h /\ k = e[2] /\ v = Dst(e)
                              THEN Gone(g, k, v) \cup {e[1]} ELSE Gone(g, k, v)
  BY SubtractEffect, GoneSubtract
<1>4. pc[h] = "cancel"
  BY DEF InvPhases, TypeOK
<1>5. InvEdges'
  <2> SUFFICES ASSUME NEW g \in Host, NEW m \in Cancelled
               PROVE  /\ pending'[g][m] \subseteq EdgesOf(m)
                      /\ m \in fresh'[g] \/ m \notin Masters(g) => pending'[g][m] = {}
                      /\ clamped'[g][m] = {} \/ \E d \in pending'[g][m] :
                           clamped'[g][m] = {d} /\ Dst(d) \notin Masters(g)
    BY DEF InvEdges
  <2>1. /\ pending[g][m] \subseteq EdgesOf(m)
        /\ m \in fresh[g] \/ m \notin Masters(g) => pending[g][m] = {}
        /\ clamped[g][m] = {} \/ \E d \in pending[g][m] :
             clamped[g][m] = {d} /\ Dst(d) \notin Masters(g)
    BY DEF InvEdges
  <2>2. fresh' = fresh
    BY <1>2
  <2>3. CASE g = h /\ m = n
    <3>1. pending'[g][m] = pending[g][m] \ {e} /\ clamped'[g][m] = {}
      BY <1>2, <2>3
    <3> HIDE DEF IInv
    <3> QED
      BY <2>1, <2>2, <3>1
  <2>4. CASE ~ (g = h /\ m = n)
    <3>1. pending'[g][m] = pending[g][m] /\ clamped'[g][m] = clamped[g][m]
      BY <1>2, <2>4
    <3> HIDE DEF IInv
    <3> QED
      BY <2>1, <2>2, <3>1
  <2> QED
    BY <2>3, <2>4
<1>6. InvPhases'
  BY <1>2, <1>4 DEF InvPhases
<1>7. InvMarks'
  BY <1>3 DEF InvMarks
<1>8. InvLedger'
  <2> SUFFICES ASSUME NEW g \in Host, pc[g] \in {"cancel", "sync"},
                      NEW k \in Kinds, NEW v \in Local(g) \ Cancelled
               PROVE  LedgerAt(g, k, v)'
    BY <1>2 DEF InvLedger
  <2>1. v \in Node /\ LedgerAt(g, k, v)
    BY Copies DEF InvLedger
  <2>2. Total(Gone(g, k, v)) \in Nat /\ AtStart(g, k, v) \in Nat
    BY AtStartNat, TotalNat, GoneSubset
  <2>3. CASE g = h /\ k = e[2] /\ v = Dst(e)
    <3>1. e[1] \in Trade \ Gone(g, k, v) /\ Amount[e[1]] \in Nat
      BY <2>3, GoneSubtract, GoneSubset, TradeAssumption
    <3>2. Gone(g, k, v)' = Gone(g, k, v) \cup {e[1]} /\ Touched(g, k, v)'
      BY <1>3, <2>1, <2>3 DEF Touched
    <3>3. Total(Gone(g, k, v) \cup {e[1]}) = Total(Gone(g, k, v)) + Amount[e[1]]
      BY <3>1, TotalAdd, GoneSubset
    <3>4. Count(k)'[g][v] = Count(k)[g][v] - Amount[e[1]]
      BY <1>3, <2>1, <2>3
    <3>5. v \notin Masters(g) => Touched(g, k, v)
      BY <1>2, <2>3 DEF Touched
    <3>6. Total(Gone(g, k, v))' = Total(Gone(g, k, v)) + Amount[e[1]]
      BY <3>2, <3>3 DEF Total
    <3> HIDE DEF IInv
    <3> QED
      BY <2>1, <2>2, <3>1, <3>2, <3>4, <3>5, <3>6 DEF LedgerAt, AtStart
  <2>4. CASE ~ (g = h /\ k = e[2] /\ v = Dst(e))
    <3>1. Gone(g, k, v)' = Gone(g, k, v) /\ Count(k)'[g][v] = Count(k)[g][v]
      BY <1>3, <2>1, <2>4
    <3>2. Touched(g, k, v)' <=> Touched(g, k, v)
      <4>1. ASSUME NEW m \in Cancelled
            PROVE  (\E d \in clamped'[g][m] : d[2] = k /\ Dst(d) = v)
                     <=> (\E d \in clamped[g][m] : d[2] = k /\ Dst(d) = v)
        <5>1. CASE g = h /\ m = n
          <6>1. clamped'[g][m] = {} /\ clamped[g][m] \subseteq {e}
            BY <1>2, <5>1
          <6> HIDE DEF IInv
          <6> QED
            BY <2>4, <5>1, <6>1
        <5>2. CASE ~ (g = h /\ m = n)
          BY <1>2, <5>2
        <5> QED
          BY <5>1, <5>2
      <4> HIDE DEF IInv
      <4> QED
        BY <3>1, <4>1 DEF Touched
    <3> QED
      BY <2>1, <3>1, <3>2 DEF LedgerAt, AtStart
  <2> QED
    BY <2>3, <2>4
<1>9. InvAfter'
  BY <1>2, <1>4 DEF InvAfter, InvPhases
<1> QED
  BY <1>1, <1>5, <1>6, <1>7, <1>8, <1>9

LEMMA EnterSyncStep ==
  ASSUME IInv, NEW h \in Host, EnterSync(h)
  PROVE  IInv'
<1>1. /\ fresh' = fresh /\ pending' = pending /\ clamped' = clamped
      /\ sold' = sold /\ bought' = bought /\ marks' = marks
      /\ pc[h] = "cancel" /\ pc' = [pc EXCEPT ![h] = "sync"]
      /\ fresh[h] = {} /\ \A n \in Cancelled : pending[h][n] = {}
  BY DEF EnterSync
<1>2. TypeOK'
  BY <1>1 DEF IInv, TypeOK
<1>3. InvEdges' /\ InvMarks'
  BY <1>1 DEF IInv, InvEdges, InvMarks, MarksOf, Gone
<1>4. /\ \A g \in Host : pc'[g] = IF g = h THEN "sync" ELSE pc[g]
      /\ \A g \in Host : pc[g] \in {"cancel", "sync"}
  BY <1>1 DEF IInv, InvPhases, TypeOK
<1>5. InvPhases'
  <2>1. \A g \in Host : pc[g] # "cancel" =>
          fresh[g] = {} /\ \A n \in Cancelled : pending[g][n] = {}
    BY DEF IInv, InvPhases
  <2>2. \A g \in Host : pc'[g] # "cancel" =>
          fresh'[g] = {} /\ \A n \in Cancelled : pending'[g][n] = {}
    BY <1>1, <1>4, <2>1
  <2>3. \A g \in Host : pc'[g] \in {"cancel", "sync"}
    BY <1>4
  <2> QED
    BY <2>2, <2>3 DEF InvPhases
<1>6. InvLedger'
  <2> SUFFICES ASSUME NEW g \in Host, NEW k \in Kinds, NEW v \in Local(g) \ Cancelled
               PROVE  LedgerAt(g, k, v)'
    BY DEF InvLedger
  <2>1. LedgerAt(g, k, v)
    BY <1>4 DEF IInv, InvLedger
  <2>2. /\ Gone(g, k, v)' = Gone(g, k, v)
        /\ Count(k)' = Count(k)
    BY <1>1, GoneSame DEF Count
  <2>3. Touched(g, k, v)' <=> Touched(g, k, v)
    BY <1>1, <2>2 DEF Touched
  <2> QED
    BY <2>1, <2>2, <2>3 DEF LedgerAt, AtStart
<1>7. InvAfter'
  BY <1>4 DEF InvAfter
<1> QED
  BY <1>2, <1>3, <1>5, <1>6, <1>7 DEF IInv

\* Each trade with a cancelled node is to go through one host.
LEMMA ToGoTogether ==
  ASSUME NEW k, NEW v, NEW d, \A g \in Host : d[g] = Total(ToGo(g, k, v))
  PROVE  Total(AllOf(k, v)) = Total(Stay(k, v)) + SumFunctionOnSet(d, Host)
<1> DEFINE Of(s) == UNION {ToGo(g, k, v) : g \in s}
           T == {s \in SUBSET Host : SumFunctionOnSet(d, s) = Total(Of(s))}
<1>1. IsFiniteSet(Host)
  BY NumHostsAssumption, FS_Interval DEF Host
<1>2. \A g \in Host : d[g] \in Int
  BY TotalNat, GoneSubset
<1>3. {} \in T
  <2>1. Of({}) = {}
    OBVIOUS
  <2>2. Total({}) = 0
    BY SumEmpty DEF Total
  <2> QED
    BY <2>1, <2>2, SumEmpty
<1>4. ASSUME NEW s \in SUBSET Host, NEW g \in Host \ s, s \in T
      PROVE  s \cup {g} \in T
  <2>1. Of(s \cup {g}) = Of(s) \cup ToGo(g, k, v)
    OBVIOUS
  <2>2. Of(s) \cap ToGo(g, k, v) = {}
    BY Copies DEF ToGo
  <2>3. Of(s) \in SUBSET Trade /\ ToGo(g, k, v) \in SUBSET Trade
    BY GoneSubset
  <2>4. SumFunctionOnSet(d, s) = Total(Of(s))
    BY <1>4
  <2>5. SumFunctionOnSet(d, s \cup {g}) = d[g] + SumFunctionOnSet(d, s)
    BY <1>1, <1>2, SumAdd, FS_Subset
  <2> HIDE DEF Of
  <2>6. Total(Of(s \cup {g})) = Total(Of(s)) + Total(ToGo(g, k, v))
    BY <2>1, <2>2, <2>3, TotalUnion
  <2>7. Total(Of(s)) \in Nat /\ Total(ToGo(g, k, v)) \in Nat
    BY <2>3, TotalNat
  <2> QED
    BY <2>4, <2>5, <2>6, <2>7
<1>5. Host \in T
  <2> HIDE DEF T
  <2> QED
    BY <1>1, <1>3, <1>4, SetInduction
<1>6. AllOf(k, v) = Stay(k, v) \cup Of(Host) /\ Stay(k, v) \cap Of(Host) = {}
  <2>1. ASSUME NEW t \in AllOf(k, v), Source(<<t, k>>) \in Cancelled
        PROVE  \E g \in Host : t \in ToGo(g, k, v)
    BY <2>1, Copies DEF ToGo
  <2> QED
    BY <2>1 DEF Stay, ToGo
<1>7. Stay(k, v) \in SUBSET Trade /\ Of(Host) \in SUBSET Trade
  BY GoneSubset
<1>8. Total(Stay(k, v) \cup Of(Host)) = Total(Stay(k, v)) + Total(Of(Host))
  <2> HIDE DEF Of
  <2> QED
    BY <1>6, <1>7, TotalUnion
<1>9. SumFunctionOnSet(d, Host) = Total(Of(Host))
  BY <1>5
<1> HIDE DEF Of, T
<1> QED
  BY <1>6, <1>8, <1>9

\* What the sync makes of deltas: with everything gone that had to, the
\* master and the marked mirrors add up to the trades that stay.
LEMMA LedgerSum ==
  ASSUME NEW k, NEW v, NEW o \in Host, NEW c, NEW S \in SUBSET Host, o \notin S,
         c[o] = Total(AllOf(k, v)) - Total(ToGo(o, k, v)),
         \A g \in S : c[g] = - Total(ToGo(g, k, v)),
         \A g \in Host \ S : g # o => ToGo(g, k, v) = {}
  PROVE  c[o] + SumFunctionOnSet(c, S) = Total(Stay(k, v))
<1> DEFINE d == [g \in Host |-> Total(ToGo(g, k, v))]
           m == [g \in Host |-> - Total(ToGo(g, k, v))]
           z == [g \in Host |-> 0]
           R == (Host \ {o}) \ S
<1>1. IsFiniteSet(Host) /\ IsFiniteSet(S) /\ IsFiniteSet(R) /\ IsFiniteSet(S \cup R)
  <2>1. IsFiniteSet(Host)
    BY NumHostsAssumption, FS_Interval DEF Host
  <2>2. R \subseteq Host /\ (S \cup R) \subseteq Host
    OBVIOUS
  <2> HIDE DEF R
  <2> QED
    BY <2>1, <2>2, FS_Subset
<1>2. \A g \in Host : d[g] \in Int /\ m[g] \in Int /\ z[g] = d[g] + m[g] /\ z[g] = 0
  BY TotalNat, GoneSubset
<1>3. \A g \in S : c[g] = m[g]
  OBVIOUS
<1>4. \A g \in R : d[g] = 0
  BY SumEmpty DEF Total
<1>5. d[o] = Total(ToGo(o, k, v))
  OBVIOUS
<1>6. Total(AllOf(k, v)) = Total(Stay(k, v)) + SumFunctionOnSet(d, Host)
  BY ToGoTogether
<1>7. S \cup R = Host \ {o} /\ S \cap R = {}
  OBVIOUS
<1>8. Total(AllOf(k, v)) \in Int /\ Total(Stay(k, v)) \in Int /\ d[o] \in Int
  BY <1>2, TotalNat, GoneSubset
<1> HIDE DEF d, m, z, R
<1>9. SumFunctionOnSet(c, S) = SumFunctionOnSet(m, S)
  BY <1>1, <1>2, <1>3, SumSame
<1>10. SumFunctionOnSet(z, S) = SumFunctionOnSet(d, S) + SumFunctionOnSet(m, S)
  BY <1>1, <1>2, SumPlus
<1>11. SumFunctionOnSet(z, S) = 0
  BY <1>1, <1>2, SumZero
<1>12. SumFunctionOnSet(d, Host) = d[o] + SumFunctionOnSet(d, Host \ {o})
  BY <1>1, <1>2, SumRemove
<1>13. SumFunctionOnSet(d, S \cup R) = SumFunctionOnSet(d, S) + SumFunctionOnSet(d, R)
  BY <1>1, <1>2, <1>7, SumUnion
<1>14. SumFunctionOnSet(d, R) = 0
  BY <1>1, <1>4, SumZero
<1>15. SumFunctionOnSet(d, S) \in Int /\ SumFunctionOnSet(m, S) \in Int
  BY <1>1, <1>2, SumInt
<1> QED
  <2>1. SumFunctionOnSet(d, Host \ {o}) = SumFunctionOnSet(d, S)
    <3>1. SumFunctionOnSet(d, Host \ {o})
            = SumFunctionOnSet(d, S) + SumFunctionOnSet(d, R)
      BY <1>7, <1>13
    <3> QED
      BY <1>14, <1>15, <3>1
  <2>2. SumFunctionOnSet(c, S) = - SumFunctionOnSet(d, S)
    BY <1>9, <1>10, <1>11, <1>15
  <2>3. Total(AllOf(k, v)) = Total(Stay(k, v)) + (d[o] + SumFunctionOnSet(d, S))
    BY <1>6, <1>12, <2>1
  <2>4. c[o] = Total(AllOf(k, v)) - d[o]
    BY <1>5
  <2> DEFINE x == Total(AllOf(k, v))
             y == Total(Stay(k, v))
             u == SumFunctionOnSet(d, S)
             w == SumFunctionOnSet(c, S)
  <2>5. x \in Int /\ y \in Int /\ d[o] \in Int /\ u \in Int
    BY <1>8, <1>15
  <2>6. w = - u /\ x = y + (d[o] + u) /\ c[o] = x - d[o]
    BY <2>2, <2>3, <2>4
  <2> SUFFICES c[o] + w = y
    OBVIOUS
  <2> HIDE DEF x, y, u, w
  <2> QED
    BY <2>5, <2>6

LEMMA SyncStep ==
  ASSUME IInv, Sync
  PROVE  IInv'
<1>1. /\ fresh' = fresh /\ pending' = pending /\ clamped' = clamped
      /\ pc' = [h \in Host |-> "reset"]
      /\ \A h \in Host : pc[h] = "sync"
  BY DEF Sync
<1>2. TypeOK'
  BY SyncEffect DEF IInv
<1>3. \A k \in Kinds : \A h \in Host : MarksOf(h, k)' = MarksOf(h, k)
  BY SyncEffect DEF IInv
<1>4. \A k \in Kinds : \A h \in Host : \A v \in Node : Gone(h, k, v)' = Gone(h, k, v)
  BY <1>1, GoneSame
<1>5. InvEdges' /\ InvPhases'
  BY <1>1 DEF IInv, InvEdges, InvPhases
<1>6. InvMarks'
  BY <1>3, <1>4 DEF IInv, InvMarks
<1>7. InvLedger'
  BY <1>1 DEF InvLedger
\* Nothing is pending.
<1>8. \A h \in Host : \A k \in Kinds : \A v \in Node :
        /\ Gone(h, k, v) = ToGo(h, k, v)
        /\ v \in MarksOf(h, k) <=> ToGo(h, k, v) # {}
        /\ Touched(h, k, v) <=> ToGo(h, k, v) # {}
  <2>1. \A h \in Host : fresh[h] = {} /\ \A n \in Cancelled :
          pending[h][n] = {} /\ clamped[h][n] = {}
    BY <1>1 DEF IInv, InvPhases, InvEdges
  <2>2. ASSUME NEW h \in Host, NEW k \in Kinds, NEW v \in Node
        PROVE  Gone(h, k, v) = ToGo(h, k, v)
    BY <2>1 DEF Gone, ToGo
  <2> QED
    BY <2>1, <2>2 DEF Touched, IInv, InvMarks
<1>9. ASSUME NEW h \in Host, NEW k \in Kinds, NEW v \in Local(h) \ Cancelled
      PROVE  Count(k)'[h][v] =
               IF v \in Masters(h) \/ k = "PURCHASE" \/ \E g \in Host : v \in MarksOf(g, k)
                 THEN Total(Stay(k, v)) ELSE 0
  <2> DEFINE Mk == [g \in Host |-> MarksOf(g, k)]
             S == Marked(Mk, v) \ {Owner[v]}
             c == Column(Count(k), v)
  <2>1. v \in Node /\ Owner[v] \in Host /\ v \in Local(Owner[v]) /\ v \in Masters(Owner[v])
        /\ \A g \in Host : v \in Masters(g) => g = Owner[v]
    BY Copies
  <2>2. Marked(Mk, v) = {g \in Host : v \in MarksOf(g, k)}
    BY DEF Marked
  <2>3. \A g \in Marked(Mk, v) : v \in Local(g)
    BY <2>2 DEF IInv, TypeOK, MarksOf
  <2>4. \A g \in Host : v \in Local(g) => LedgerAt(g, k, v)
    BY <1>1 DEF IInv, InvLedger
  <2>5. Count(k) \in [Host -> [Node -> Int]]
    BY DEF Count, IInv, TypeOK
  <2>6. Count(k)'[h][v] = IF Marked(Mk, v) # {}
          THEN Count(k)[Owner[v]][v] + SumFunctionOnSet(c, S) ELSE Count(k)[h][v]
    <3>1. Count(k)' = Reduced(Count(k), Mk)
      BY SyncEffect DEF IInv
    <3>2. Reduced(Count(k), Mk)[h][v] =
            IF v \in Local(h) /\ Marked(Mk, v) # {}
              THEN Count(k)[Owner[v]][v]
                     + SumFunctionOnSet(Column(Count(k), v), Marked(Mk, v) \ {Owner[v]})
              ELSE Count(k)[h][v]
      <4> HIDE DEF Mk
      <4> QED
        BY <2>1, ReducedValue
    <3> HIDE DEF Mk
    <3> QED
      BY <3>1, <3>2
  <2>12. \A g \in Host : c[g] = Count(k)[g][v]
    BY DEF Column
  <2>7. c[Owner[v]] = Total(AllOf(k, v)) - Total(ToGo(Owner[v], k, v))
    BY <1>8, <2>1, <2>4, <2>12 DEF LedgerAt, AtStart
  <2>8. \A g \in S : c[g] = - Total(ToGo(g, k, v))
    BY <1>8, <2>1, <2>2, <2>3, <2>4, <2>12 DEF LedgerAt
  <2>9. \A g \in Host \ S : g # Owner[v] => ToGo(g, k, v) = {}
    BY <1>8, <2>1, <2>2
  <2>10. CASE Marked(Mk, v) # {}
    <3>1. c[Owner[v]] = Count(k)[Owner[v]][v] /\ S \in SUBSET Host /\ Owner[v] \notin S
      BY <2>1, <2>2, <2>12
    <3>2. \E g \in Host : v \in MarksOf(g, k)
      BY <2>2, <2>10
    <3> HIDE DEF Mk, S, c
    <3>3. c[Owner[v]] + SumFunctionOnSet(c, S) = Total(Stay(k, v))
      BY <2>1, <2>7, <2>8, <2>9, <3>1, LedgerSum
    <3> QED
      BY <2>6, <2>10, <3>1, <3>2, <3>3
  <2>11. CASE Marked(Mk, v) = {}
    <3>1. \A g \in Host : v \notin MarksOf(g, k) /\ ToGo(g, k, v) = {}
      BY <1>8, <2>1, <2>2, <2>11
    <3>2. Stay(k, v) = AllOf(k, v)
      <4>1. ASSUME NEW t \in AllOf(k, v), Source(<<t, k>>) \in Cancelled
            PROVE  \E g \in Host : t \in ToGo(g, k, v)
        BY <4>1, Copies DEF ToGo
      <4> QED
        BY <3>1, <4>1 DEF Stay
    <3>3. Total(Gone(h, k, v)) = 0 /\ ~ Touched(h, k, v)
      BY <1>8, <2>1, <3>1, SumEmpty DEF Total
    <3>4. Count(k)[h][v] = AtStart(h, k, v)
      <4>1. AtStart(h, k, v) \in Nat
        BY AtStartNat
      <4>2. LedgerAt(h, k, v)
        BY <2>4
      <4> HIDE DEF Mk, S, c
      <4> QED
        BY <3>3, <4>1, <4>2 DEF LedgerAt
    <3>5. Count(k)'[h][v] = AtStart(h, k, v)
      BY <2>6, <2>11, <3>4
    <3> QED
      BY <3>1, <3>2, <3>5 DEF AtStart, Kinds
  <2> QED
    BY <2>10, <2>11
<1>10. InvAfter'
  <2> SUFFICES ASSUME NEW h \in Host, NEW k \in Kinds, NEW v \in Local(h)
               PROVE  v \notin Cancelled => Count(k)'[h][v] =
                        IF v \in Masters(h) \/ k = "PURCHASE"
                             \/ \E g \in Host : v \in MarksOf(g, k)'
                          THEN Total(Stay(k, v)) ELSE 0
    BY <1>1 DEF InvAfter
  <2>1. \A g \in Host : MarksOf(g, k)' = MarksOf(g, k)
    BY <1>3
  <2> QED
    BY <1>9, <2>1
<1> QED
  BY <1>2, <1>5, <1>6, <1>7, <1>10 DEF IInv

LEMMA ResetStep ==
  ASSUME IInv, NEW h \in Host, Reset(h)
  PROVE  IInv'
<1>1. /\ fresh' = fresh /\ pending' = pending /\ clamped' = clamped
      /\ pc[h] = "reset" /\ pc' = [pc EXCEPT ![h] = "done"]
  BY DEF Reset
<1>2. /\ TypeOK'
      /\ \A g \in Host : \A k \in Kinds : \A v \in Node :
           /\ Count(k)'[g][v] = IF g = h /\ v \in Cancelled \cap Local(h)
                                  THEN 0 ELSE Count(k)[g][v]
           /\ MarksOf(g, k)' = MarksOf(g, k)
  BY ResetEffect DEF IInv
<1>3. \A k \in Kinds : \A g \in Host : \A v \in Node : Gone(g, k, v)' = Gone(g, k, v)
  BY <1>1, GoneSame
<1>4. /\ \A g \in Host : pc[g] \in {"reset", "done"}
      /\ \A g \in Host : pc'[g] = IF g = h THEN "done" ELSE pc[g]
  BY <1>1 DEF IInv, InvPhases, TypeOK
<1>5. InvEdges'
  BY <1>1 DEF IInv, InvEdges
<1>6. InvPhases'
  <2>1. \A g \in Host : pc'[g] \in {"reset", "done"}
    BY <1>4
  <2>2. \A g \in Host : fresh[g] = {} /\ \A n \in Cancelled : pending[g][n] = {}
    BY <1>4 DEF IInv, InvPhases
  <2> QED
    BY <1>1, <2>1, <2>2 DEF InvPhases
<1>7. InvMarks'
  BY <1>2, <1>3 DEF IInv, InvMarks
<1>8. InvLedger'
  BY <1>4 DEF InvLedger
<1>9. InvAfter'
  <2> SUFFICES ASSUME NEW g \in Host, NEW k \in Kinds, NEW v \in Local(g)
               PROVE  /\ v \notin Cancelled => Count(k)'[g][v] =
                           IF v \in Masters(g) \/ k = "PURCHASE"
                                \/ \E f \in Host : v \in MarksOf(f, k)'
                             THEN Total(Stay(k, v)) ELSE 0
                      /\ pc'[g] = "done" /\ v \in Cancelled => Count(k)'[g][v] = 0
    BY DEF InvAfter
  <2>1. v \in Node
    BY Copies
  <2>2. \A f \in Host : MarksOf(f, k)' = MarksOf(f, k)
    BY <1>2, <2>1
  <2>3. Count(k)'[g][v] = IF g = h /\ v \in Cancelled \cap Local(h)
                            THEN 0 ELSE Count(k)[g][v]
    BY <1>2, <2>1
  <2>4. /\ v \notin Cancelled => Count(k)[g][v] =
             IF v \in Masters(g) \/ k = "PURCHASE" \/ \E f \in Host : v \in MarksOf(f, k)
               THEN Total(Stay(k, v)) ELSE 0
        /\ pc[g] = "done" /\ v \in Cancelled => Count(k)[g][v] = 0
    BY <1>4 DEF IInv, InvAfter
  <2> QED
    BY <1>4, <2>2, <2>3, <2>4
<1> QED
  BY <1>2, <1>5, <1>6, <1>7, <1>8, <1>9 DEF IInv

LEMMA UnchangedStep ==
  ASSUME IInv, UNCHANGED vars
  PROVE  IInv'
<1> USE DEF vars, IInv
<1>1. TypeOK' /\ InvEdges' /\ InvPhases'
  BY DEF TypeOK, InvEdges, InvPhases
<1>2. ASSUME NEW g \in Host, NEW k \in Kinds, NEW v \in Node
      PROVE  /\ Count(k)' = Count(k)
             /\ MarksOf(g, k)' = MarksOf(g, k)
             /\ Gone(g, k, v)' = Gone(g, k, v)
             /\ Touched(g, k, v)' <=> Touched(g, k, v)
             /\ LedgerAt(g, k, v)' <=> LedgerAt(g, k, v)
  <2>1. Gone(g, k, v)' = Gone(g, k, v) /\ Count(k)' = Count(k)
    BY GoneSame DEF Count
  <2>2. Touched(g, k, v)' <=> Touched(g, k, v)
    BY <2>1 DEF Touched
  <2>3. LedgerAt(g, k, v)' <=> LedgerAt(g, k, v)
    BY <2>1, <2>2 DEF LedgerAt, AtStart
  <2> QED
    BY <2>1, <2>2, <2>3 DEF MarksOf
<1>3. InvMarks'
  BY <1>2 DEF InvMarks
<1>4. InvLedger'
  BY <1>2, Copies DEF InvLedger
<1>5. InvAfter'
  <2>1. \A k \in Kinds : Count(k)' = Count(k) /\ \A g \in Host : MarksOf(g, k)' = MarksOf(g, k)
    BY DEF Count, MarksOf
  <2> QED
    BY <2>1 DEF InvAfter
<1> QED
  BY <1>1, <1>3, <1>4, <1>5

LEMMA NextStep == IInv /\ [Next]_vars => IInv'
<1> SUFFICES ASSUME IInv, [Next]_vars PROVE IInv'
  OBVIOUS
<1>1. ASSUME NEW h \in Host, HostStep(h) PROVE IInv'
  <2>1. ASSUME NEW n \in Cancelled, Start(h, n) PROVE IInv'
    BY <2>1, StartStep
  <2>2. ASSUME NEW n \in Cancelled, NEW e \in pending[h][n], Clamp(h, n, e) PROVE IInv'
    BY <2>2, ClampStep
  <2>3. ASSUME NEW n \in Cancelled, NEW e \in pending[h][n], Subtract(h, n, e) PROVE IInv'
    BY <2>3, SubtractStep
  <2>4. CASE EnterSync(h)
    BY <2>4, EnterSyncStep
  <2>5. CASE Reset(h)
    BY <2>5, ResetStep
  <2> QED
    BY <1>1, <2>1, <2>2, <2>3, <2>4, <2>5 DEF HostStep
<1>2. CASE Sync
  BY <1>2, SyncStep
<1>3. CASE UNCHANGED vars
  BY <1>3, UnchangedStep
<1> QED
  BY <1>1, <1>2, <1>3 DEF Next, Terminated

\* The ledger is an invariant of the cancellation.
THEOREM InductiveInvariant == Spec => []IInv
<1>1. Init => IInv
  BY InitStep
<1>2. IInv /\ [Next]_vars => IInv'
  BY NextStep
<1> QED
  BY <1>1, <1>2, PTL DEF Spec
-----------------------------------------------------------------------------
(* What the ledger says in the end.                                        *)

\* Every counter, mark and list of edges stays in its range: a host marks
\* copies that it has.
THEOREM TypeCorrect == Spec => []TypeOK
<1>1. IInv => TypeOK
  BY DEF IInv
<1> QED
  BY <1>1, InductiveInvariant, PTL

LEMMA StandingSums ==
  ASSUME NEW v \in Node
  PROVE  /\ v \in Cancelled => SoldIn(Standing, v) = 0 /\ BoughtIn(Standing, v) = 0
         /\ v \notin Cancelled =>
              /\ SoldIn(Standing, v) = Total(Stay("PURCHASE", v))
              /\ BoughtIn(Standing, v) = Total(Stay("SALE", v))
<1> DEFINE S == {t \in Standing : Seller[t] = v}
           B == {t \in Standing : Buyer[t] = v}
<1>1. CASE v \in Cancelled
  <2>1. S = {} /\ B = {}
    BY <1>1 DEF Standing
  <2> QED
    BY <1>1, <2>1, SumEmpty DEF SoldIn, BoughtIn, Total
<1>2. CASE v \notin Cancelled
  <2>1. S = Stay("PURCHASE", v)
    BY <1>2 DEF Standing, Stay, AllOf, Dst, Source
  <2>2. B = Stay("SALE", v)
    BY <1>2 DEF Standing, Stay, AllOf, Dst, Source
  <2> QED
    BY <1>2, <2>1, <2>2 DEF SoldIn, BoughtIn
<1> QED
  BY <1>1, <1>2

LEMMA AtEnd ==
  ASSUME IInv, AllDone
  PROVE  /\ \A h \in Host : \A v \in Local(h) :
              /\ v \in Node
              /\ sold[h][v] = IF v \in Cancelled THEN 0 ELSE Total(Stay("PURCHASE", v))
              /\ bought[h][v] =
                   IF v \notin Cancelled
                        /\ (v \in Masters(h) \/ \E g \in Host : v \in marks[g].bought)
                     THEN Total(Stay("SALE", v)) ELSE 0
<1> SUFFICES ASSUME NEW h \in Host, NEW v \in Local(h)
             PROVE  /\ v \in Node
                    /\ sold[h][v] = IF v \in Cancelled THEN 0
                                                       ELSE Total(Stay("PURCHASE", v))
                    /\ bought[h][v] =
                         IF v \notin Cancelled
                              /\ (v \in Masters(h) \/ \E g \in Host : v \in marks[g].bought)
                           THEN Total(Stay("SALE", v)) ELSE 0
  OBVIOUS
<1>1. pc[h] = "done"
  BY DEF AllDone
<1>2. \A k \in Kinds :
        /\ v \notin Cancelled =>
             Count(k)[h][v] =
               IF v \in Masters(h) \/ k = "PURCHASE" \/ \E g \in Host : v \in MarksOf(g, k)
                 THEN Total(Stay(k, v)) ELSE 0
        /\ v \in Cancelled => Count(k)[h][v] = 0
  BY <1>1 DEF IInv, InvAfter
<1>3. sold[h][v] = IF v \in Cancelled THEN 0 ELSE Total(Stay("PURCHASE", v))
  BY <1>2 DEF Count, Kinds
<1>4. bought[h][v] =
        IF v \notin Cancelled
             /\ (v \in Masters(h) \/ \E g \in Host : v \in marks[g].bought)
          THEN Total(Stay("SALE", v)) ELSE 0
  BY <1>2 DEF Count, Kinds, MarksOf
<1> QED
  BY <1>3, <1>4, Copies

LEMMA IInvImplies ==
  IInv => CancelExact /\ SoldCopiesAgree /\ BoughtCopiesBelow
<1> SUFFICES ASSUME IInv, AllDone
             PROVE  CancelExact /\ SoldCopiesAgree /\ BoughtCopiesBelow
  BY DEF CancelExact, SoldCopiesAgree, BoughtCopiesBelow
<1>1. ASSUME NEW v \in Node
      PROVE  /\ sold[Owner[v]][v] = SoldIn(Standing, v)
             /\ bought[Owner[v]][v] = BoughtIn(Standing, v)
  <2>1. Owner[v] \in Host /\ v \in Local(Owner[v]) /\ v \in Masters(Owner[v])
    BY Copies
  <2> QED
    BY <2>1, AtEnd, StandingSums
<1>2. ASSUME NEW h \in Host, NEW v \in Local(h)
      PROVE  sold[h][v] = sold[Owner[v]][v]
  <2>1. v \in Node /\ Owner[v] \in Host /\ v \in Local(Owner[v])
    BY Copies
  <2> QED
    BY <2>1, AtEnd
<1>3. ASSUME NEW h \in Host, NEW v \in Mirrors(h)
      PROVE  bought[h][v] = IF \E g \in Host : v \in marks[g].bought
                              THEN bought[Owner[v]][v] ELSE 0
  <2>1. /\ v \in Local(h) /\ v \notin Masters(h)
        /\ Owner[v] \in Host /\ v \in Local(Owner[v]) /\ v \in Masters(Owner[v])
    BY Copies DEF Local, Mirrors
  <2> QED
    BY <2>1, AtEnd
<1> QED
  BY <1>1, <1>2, <1>3 DEF CancelExact, SoldCopiesAgree, BoughtCopiesBelow

\* In the end a master has sold and bought exactly what the trades between
\* nodes that are not cancelled amount to, in whatever order hosts and threads
\* have visited the edges.
THEOREM CancelExactCorrect == Spec => []CancelExact
BY IInvImplies, InductiveInvariant, PTL

\* sold_ of every mirror is its master's: the deltas are gone.
THEOREM SoldCopiesAgreeCorrect == Spec => []SoldCopiesAgree
BY IInvImplies, InductiveInvariant, PTL

\* bought_ of a mirror is its master's if any host has marked it, else 0.
THEOREM BoughtCopiesBelowCorrect == Spec => []BoughtCopiesBelow
BY IInvImplies, InductiveInvariant, PTL
-----------------------------------------------------------------------------
(* The phases before, up to the state that the cancellation starts from.   *)

Stages == {"start", "parsed", "exited", "imported", "projected", "filled", "synced", "weighed"}

\* What Import reads, and a host's part of the trade network.
ReadGraph ==
  [node |-> {NodeOf(l) : l \in {m \in InputLines : Content[m].file = "n"}},
   edge |-> UNION {EdgesOfLine(l) : l \in InputLines}]
EdgesHere(h) == UNION {EdgesOf(v) : v \in Masters(h)}

SoldHere(h, S) == [v \in Node |-> IF v \in S THEN SoldIn(Trade, v) ELSE 0]
BoughtHere(h) == [v \in Node |-> IF v \in Masters(h) THEN BoughtIn(Trade, v) ELSE 0]
Nothing == [v \in Node |-> 0]

\* What a host has, by its stage.
StageOk(h) ==
  /\ stage[h] \notin {"start", "exited"} => Verify
  /\ stage[h] \notin {"start", "parsed", "exited"} => full = ReadGraph
  /\ stage[h] \in {"projected", "filled", "synced", "weighed"} => network[h] = EdgesHere(h)
  /\ stage[h] = "weighed" => weight[h] = [e \in network[h] |->
       <<Amount[e[1]], SoldIn(Trade, Seller[e[1]])>>]

\* Counters and marks until the cancellation starts.
CountersOk(h) ==
  /\ stage[h] \in {"start", "parsed", "exited", "imported", "projected"} =>
       sold[h] = Nothing /\ bought[h] = Nothing
  /\ stage[h] = "filled" => /\ sold[h] = SoldHere(h, Masters(h))
                            /\ marks[h].sold = {v \in Masters(h) : SoldIn(Trade, v) > 0}
  /\ stage[h] \in {"synced", "weighed"} => sold[h] = SoldHere(h, Local(h))
  /\ stage[h] \in {"filled", "synced", "weighed"} => bought[h] = BoughtHere(h)
  /\ stage[h] # "filled" => marks[h].sold = {}
  /\ marks[h].bought = {}

Waiting ==
  /\ pc = [h \in Host |-> "cancel"]
  /\ fresh = [h \in Host |-> Cancelled]
  /\ pending = [h \in Host |-> [n \in Cancelled |-> {}]]
  /\ clamped = [h \in Host |-> [n \in Cancelled |-> {}]]
  /\ \A h \in Host : CountersOk(h)

MainInv ==
  /\ TypeOK
  /\ options \in CommandLines
  /\ stage \in [Host -> Stages]
  /\ network = [h \in Host |-> network[h]]
  /\ weight = [h \in Host |-> weight[h]]
  /\ \A h \in Host : StageOk(h)
  /\ IF AllAt("weighed") THEN IInv /\ (NotBegun => Init) ELSE Waiting

LEMMA SomeHost == \E h : h \in Host
<1>1. 0 \in Host
  BY NumHostsAssumption DEF Host
<1> QED
  BY <1>1

LEMMA MainInitStep == MainInit => MainInv
<1> SUFFICES ASSUME MainInit PROVE MainInv
  OBVIOUS
<1>1. TypeOK
  BY DEF MainInit, NotBegun, TypeOK
<1>2. ~ AllAt("weighed")
  BY SomeHost DEF MainInit, AllAt
<1>3. Waiting
  BY DEF MainInit, NotBegun, Waiting, CountersOk, Nothing
<1>4. \A h \in Host : StageOk(h)
  BY DEF MainInit, StageOk
<1> QED
  BY <1>1, <1>2, <1>3, <1>4 DEF MainInit, MainInv, Stages
-----------------------------------------------------------------------------
(* Lines, edges and trades.                                                *)

\* The persons of the full graph.
LEMMA ListedNodes ==
  ASSUME options \in CommandLines, full = ReadGraph, NEW v
  PROVE  KeepNode(v) <=> Listed(options, v)
<1>1. \A l \in Line : NodeOf(l) = <<v, "PERSON">> <=>
        Content[l].word # "Device" /\ Content[l].src = v
  BY DEF NodeOf, Uid
<1>2. KeepNode(v) <=> \E l \in InputLines : Content[l].file = "n" /\ NodeOf(l) = <<v, "PERSON">>
  BY DEF KeepNode, ReadGraph
<1> QED
  BY <1>1, <1>2 DEF InputLines, Listed

\* The ends of a trade's edges.
LEMMA TradeEnds ==
  ASSUME options \in CommandLines, Verify, NEW t \in Trade, NEW k \in Kinds
  PROVE  /\ t \in Line /\ CoffeeSale(options, t)
         /\ From(<<t, k>>) = Source(<<t, k>>)
         /\ To(<<t, k>>) = Dst(<<t, k>>)
         /\ Content[t].amount = Amount[t]
<1>1. t \in Line /\ CoffeeSale(options, t)
  BY TradesAssumption DEF Verify
<1>2. SrcOf(t) = Content[t].src /\ DstOf(t) = Content[t].dst
  BY <1>1 DEF CoffeeSale, SrcOf, DstOf, SrcType, DstType, Uid
<1>3. Content[t].src = Seller[t] /\ Content[t].dst = Buyer[t] /\ Content[t].amount = Amount[t]
  BY TradesAssumption
<1> QED
  BY <1>1, <1>2, <1>3 DEF From, To, Source, Dst, Kinds

\* Sales and purchases come from lines of sale, each line has both.
LEMMA SaleLines ==
  ASSUME NEW e, e[2] \in Kinds
  PROVE  e \in ReadGraph.edge <=>
           \E l \in InputLines : /\ e = <<l, e[2]>>
                                 /\ Content[l].file = "c" /\ Content[l].word = "Sale"
<1>1. ASSUME NEW l
      PROVE  e \in EdgesOfLine(l) <=>
               e = <<l, e[2]>> /\ Content[l].file = "c" /\ Content[l].word = "Sale"
  <2>1. CASE Content[l].file = "c" /\ Content[l].word = "Sale"
    <3>1. EdgesOfLine(l) = {l} \X {"SALE", "PURCHASE"}
      BY <2>1 DEF EdgesOfLine
    <3> QED
      BY <2>1, <3>1 DEF Kinds
  <2>2. CASE ~ (Content[l].file = "c" /\ Content[l].word = "Sale")
    <3>1. \/ EdgesOfLine(l) = {l} \X {"COMMUNICATION"}
          \/ EdgesOfLine(l) = {l} \X {"FRIEND"}
          \/ EdgesOfLine(l) = {l} \X {"USES"}
          \/ EdgesOfLine(l) = {l} \X {}
      BY <2>2 DEF EdgesOfLine
    <3> QED
      BY <2>2, <3>1 DEF Kinds
  <2> QED
    BY <2>1, <2>2
<1>2. e \in ReadGraph.edge <=> \E l \in InputLines : e \in EdgesOfLine(l)
  BY DEF ReadGraph
<1> QED
  BY <1>1, <1>2

\* A host keeps the edges of its traders.
LEMMA Projection ==
  ASSUME options \in CommandLines, Verify, full = ReadGraph, NEW h \in Host
  PROVE  {e \in full.edge : KeepNode(From(e)) /\ From(e) \in Masters(h) /\ KeepEdge(e)}
           = EdgesHere(h)
<1> DEFINE K == {e \in full.edge : KeepNode(From(e)) /\ From(e) \in Masters(h) /\ KeepEdge(e)}
<1>1. ASSUME NEW e \in K
      PROVE  e \in EdgesHere(h)
  <2>1. /\ e \in ReadGraph.edge /\ e[2] \in Kinds /\ KeepNode(From(e))
        /\ From(e) \in Masters(h) /\ KeepNode(To(e))
        /\ Content[e[1]].topic = "coffee" /\ Content[e[1]].amount > 0
    BY DEF KeepEdge, Kinds
  <2>2. PICK l \in InputLines : /\ e = <<l, e[2]>>
                                /\ Content[l].file = "c" /\ Content[l].word = "Sale"
    BY <2>1, SaleLines
  <2>3. e[1] = l
    BY <2>2
  <2>4. l \in Line /\ Content[l].path \in options.given
    BY DEF InputLines
  <2>5. {From(e), To(e)} = {Content[l].src, Content[l].dst}
    BY <2>1, <2>2, <2>3 DEF From, To, SrcOf, DstOf, SrcType, DstType, Uid, Kinds
  <2>6. Listed(options, From(e)) /\ Listed(options, To(e))
    BY <2>1, ListedNodes
  <2>7. CoffeeSale(options, l)
    BY <2>1, <2>2, <2>3, <2>4, <2>5, <2>6 DEF CoffeeSale
  <2>8. l \in Trade
    BY <2>4, <2>7, TradesAssumption DEF Verify
  <2>9. From(e) = Source(<<l, e[2]>>)
    BY <2>1, <2>2, <2>8, TradeEnds
  <2>10. e \in EdgesOf(From(e))
    BY <2>1, <2>2, <2>8, <2>9, SourceEdge
  <2> QED
    BY <2>1, <2>10 DEF EdgesHere
<1>2. ASSUME NEW e \in EdgesHere(h)
      PROVE  e \in K
  <2>1. PICK v \in Masters(h) : e \in EdgesOf(v)
    BY DEF EdgesHere
  <2>2. v \in Node
    BY Copies
  <2>3. /\ e = <<e[1], e[2]>> /\ e[1] \in Trade /\ e[2] \in Kinds /\ Source(e) = v
    BY <2>1, <2>2, EdgeSource
  <2>4. /\ e[1] \in Line /\ CoffeeSale(options, e[1])
        /\ From(e) = v /\ To(e) = Dst(e)
    BY <2>3, TradeEnds
  <2>5. e \in full.edge
    BY <2>3, <2>4, SaleLines DEF CoffeeSale, InputLines
  <2>6. {From(e), To(e)} \subseteq {Content[e[1]].src, Content[e[1]].dst}
    <3>1. Seller[e[1]] = Content[e[1]].src /\ Buyer[e[1]] = Content[e[1]].dst
      BY <2>3, TradesAssumption
    <3> QED
      BY <2>3, <2>4, <3>1 DEF Source, Dst
  <2>7. KeepNode(From(e)) /\ KeepNode(To(e))
    BY <2>4, <2>6, ListedNodes DEF CoffeeSale
  <2> QED
    BY <2>1, <2>3, <2>4, <2>5, <2>7 DEF KeepEdge, CoffeeSale, Kinds
<1> QED
  BY <1>1, <1>2

\* What a host adds up are the totals of its traders.
LEMMA AmountsAre ==
  ASSUME options \in CommandLines, Verify, NEW h \in Host, network[h] = EdgesHere(h),
         NEW v \in Node
  PROVE  /\ Amounts(h, v, "SALE") = IF v \in Masters(h) THEN SoldIn(Trade, v) ELSE 0
         /\ Amounts(h, v, "PURCHASE") = IF v \in Masters(h) THEN BoughtIn(Trade, v) ELSE 0
<1> DEFINE T(k) == {t \in Trade : Source(<<t, k>>) = v}
           E(k) == {e \in network[h] : From(e) = v /\ e[2] = k}
           g == [e \in network[h] |-> Content[e[1]].amount]
<1>1. ASSUME NEW k \in Kinds
      PROVE  Amounts(h, v, k) = IF v \in Masters(h) THEN Total(T(k)) ELSE 0
  <2>1. Amounts(h, v, k) = SumFunctionOnSet(g, E(k))
    BY DEF Amounts
  <2>2. ASSUME NEW e \in network[h]
        PROVE  /\ e = <<e[1], e[2]>> /\ e[1] \in Trade /\ e[2] \in Kinds
               /\ From(e) \in Masters(h) /\ From(e) = Source(e)
    <3>1. PICK n \in Masters(h) : e \in EdgesOf(n)
      BY DEF EdgesHere
    <3>2. e = <<e[1], e[2]>> /\ e[1] \in Trade /\ e[2] \in Kinds /\ Source(e) = n
      BY <3>1, Copies, EdgeSource
    <3> QED
      BY <3>2, TradeEnds
  <2>3. CASE v \notin Masters(h)
    <3>1. E(k) = {}
      BY <2>2, <2>3
    <3> QED
      BY <2>1, <2>3, <3>1, SumEmpty
  <2>4. CASE v \in Masters(h)
    <3> DEFINE m == [t \in Trade |-> <<t, k>>]
               S == T(k)
    <3>1. \A t \in S : <<t, k>> \in network[h] /\ g[<<t, k>>] = Amount[t]
      <4> SUFFICES ASSUME NEW t \in S PROVE <<t, k>> \in network[h] /\ g[<<t, k>>] = Amount[t]
        OBVIOUS
      <4>1. <<t, k>> \in EdgesOf(v)
        BY SourceEdge
      <4>2. <<t, k>> \in network[h]
        BY <2>4, <4>1 DEF EdgesHere
      <4> QED
        BY <4>2, TradeEnds
    <3>2. E(k) = {m[t] : t \in S}
      <4>1. ASSUME NEW e \in E(k) PROVE e[1] \in S /\ e = m[e[1]]
        BY <2>2
      <4>2. ASSUME NEW t \in S PROVE m[t] \in E(k)
        <5>1. m[t] = <<t, k>> /\ <<t, k>> \in network[h]
          BY <3>1
        <5>2. From(<<t, k>>) = v
          BY TradeEnds
        <5> QED
          BY <5>1, <5>2
      <4> HIDE DEF m, S
      <4> QED
        BY <4>1, <4>2
    <3>3. S \in SUBSET Trade /\ IsFiniteSet(S)
      BY TradeAssumption, FS_Subset
    <3>4. \A t \in S : Amount[t] \in Int /\ g[m[t]] = Amount[t]
      BY <3>1, TradeAssumption
    <3>5. \A t, u \in S : m[t] = m[u] => t = u
      OBVIOUS
    <3> HIDE DEF m, S, g
    <3>6. SumFunctionOnSet(g, {m[t] : t \in S}) = SumFunctionOnSet(Amount, S)
      BY <3>3, <3>4, <3>5, SumImage
    <3> QED
      BY <2>1, <2>4, <3>2, <3>6 DEF Total, S
  <2> QED
    BY <2>3, <2>4
<1>2. Total(T("SALE")) = SoldIn(Trade, v) /\ Total(T("PURCHASE")) = BoughtIn(Trade, v)
  <2>1. T("SALE") = {t \in Trade : Seller[t] = v} /\ T("PURCHASE") = {t \in Trade : Buyer[t] = v}
    BY DEF Source
  <2> QED
    BY <2>1 DEF SoldIn, BoughtIn
<1> HIDE DEF T
<1> QED
  BY <1>1, <1>2 DEF Kinds

-----------------------------------------------------------------------------
(* Steps of the phases before.                                             *)

LEMMA ParseStep ==
  ASSUME MainInv, NEW h \in Host, Parse(h)
  PROVE  MainInv'
<1> USE DEF Parse, vars
<1>1. ~ AllAt("weighed") /\ ~ AllAt("weighed")'
  BY DEF AllAt, MainInv
<1>2. stage' \in [Host -> Stages] /\ \A g \in Host : g # h => stage'[g] = stage[g]
  BY DEF MainInv, Stages
<1>3. stage'[h] = IF Verify THEN "parsed" ELSE "exited"
  BY DEF MainInv
<1>4. \A g \in Host : StageOk(g)'
  <2> SUFFICES ASSUME NEW g \in Host PROVE StageOk(g)'
    OBVIOUS
  <2>1. Verify' = Verify
    BY DEF Verify
  <2>2. CASE g = h
    BY <1>3, <2>1, <2>2 DEF StageOk
  <2>3. CASE g # h
    BY <1>2, <2>1, <2>3 DEF MainInv, StageOk, ReadGraph, InputLines
  <2> QED
    BY <2>2, <2>3
<1>5. Waiting'
  <2>1. \A g \in Host : CountersOk(g)'
    BY <1>1, <1>2, <1>3 DEF MainInv, Waiting, CountersOk
  <2> QED
    BY <1>1, <2>1 DEF MainInv, Waiting
<1>6. TypeOK'
  BY DEF MainInv, TypeOK
<1> QED
  BY <1>1, <1>2, <1>4, <1>5, <1>6 DEF MainInv

LEMMA ImportStep ==
  ASSUME MainInv, Import
  PROVE  MainInv'
<1> USE DEF Import, vars
<1>1. ~ AllAt("weighed") /\ ~ AllAt("weighed")'
  BY SomeHost DEF AllAt
<1>2. stage' \in [Host -> Stages] /\ \A g \in Host : stage'[g] = "imported" /\ stage[g] = "parsed"
  BY DEF AllAt, Stages
<1>3. full' = ReadGraph'
  BY DEF ReadGraph, InputLines
<1>4. \A g \in Host : StageOk(g)'
  <2>1. \A g \in Host : Verify'
    BY <1>2 DEF MainInv, StageOk, Verify
  <2> QED
    BY <1>2, <1>3, <2>1 DEF StageOk
<1>5. Waiting'
  <2>1. \A g \in Host : CountersOk(g)'
    BY <1>1, <1>2 DEF MainInv, Waiting, CountersOk
  <2> QED
    BY <1>1, <2>1 DEF MainInv, Waiting
<1>6. TypeOK'
  BY DEF MainInv, TypeOK
<1> QED
  BY <1>1, <1>2, <1>4, <1>5, <1>6 DEF MainInv

LEMMA ProjectStep ==
  ASSUME MainInv, NEW h \in Host, Project(h)
  PROVE  MainInv'
<1> USE DEF Project, vars
<1>1. ~ AllAt("weighed") /\ ~ AllAt("weighed")'
  BY DEF AllAt, MainInv
<1>2. /\ stage' \in [Host -> Stages] /\ stage'[h] = "projected"
      /\ \A g \in Host : g # h => stage'[g] = stage[g]
  BY DEF MainInv, Stages
<1>3. Verify /\ full = ReadGraph /\ Verify' /\ full' = ReadGraph' /\ options \in CommandLines
  BY DEF MainInv, StageOk, Verify, ReadGraph, InputLines
<1>4. /\ network'[h] = EdgesHere(h)
      /\ \A g \in Host : g # h => network'[g] = network[g]
      /\ network' = [g \in Host |-> network'[g]]
  <2>1. network = [g \in Host |-> network[g]]
    BY DEF MainInv
  <2>2. network' = [network EXCEPT ![h] = EdgesHere(h)]
    BY <1>3, Projection
  <2> QED
    BY <2>1, <2>2
<1>5. \A g \in Host : StageOk(g)'
  <2> SUFFICES ASSUME NEW g \in Host PROVE StageOk(g)'
    OBVIOUS
  <2>1. CASE g = h
    BY <1>2, <1>3, <1>4, <2>1 DEF StageOk
  <2>2. CASE g # h
    BY <1>2, <1>3, <1>4, <2>2 DEF MainInv, StageOk
  <2> QED
    BY <2>1, <2>2
<1>6. Waiting'
  <2>1. \A g \in Host : CountersOk(g)'
    BY <1>1, <1>2 DEF MainInv, Waiting, CountersOk
  <2> QED
    BY <1>1, <2>1 DEF MainInv, Waiting
<1>7. TypeOK'
  BY DEF MainInv, TypeOK
<1> QED
  BY <1>1, <1>2, <1>4, <1>5, <1>6, <1>7 DEF MainInv

LEMMA TotalsAre ==
  ASSUME NEW v \in Node
  PROVE  /\ SoldIn(Trade, v) \in Nat /\ BoughtIn(Trade, v) \in Nat
         /\ SoldIn(Trade, v) > 0 => \E t \in Trade : Seller[t] = v
         /\ \A t \in Trade : Seller[t] = v => SoldIn(Trade, v) > 0
<1> DEFINE S == {t \in Trade : Seller[t] = v}
<1>1. SoldIn(Trade, v) \in Nat /\ BoughtIn(Trade, v) \in Nat
  BY TotalNat DEF SoldIn, BoughtIn
<1>2. S = {} => SoldIn(Trade, v) = 0
  BY SumEmpty DEF SoldIn, Total
<1>3. ASSUME NEW t \in S PROVE SoldIn(Trade, v) > 0
  <2> DEFINE R == S \ {t}
  <2>1. R \in SUBSET Trade /\ t \in Trade \ R /\ R \cup {t} = S
    OBVIOUS
  <2>2. SoldIn(Trade, v) = Total(S)
    BY DEF SoldIn
  <2> HIDE DEF R, S
  <2>3. Total(S) = Total(R) + Amount[t] /\ Total(R) \in Nat
    BY <2>1, TotalAdd, TotalNat
  <2>4. Amount[t] \in Nat \ {0}
    BY <2>1, TradeAssumption
  <2> QED
    BY <2>2, <2>3, <2>4
<1> QED
  BY <1>1, <1>2, <1>3

LEMMA FillStep ==
  ASSUME MainInv, NEW h \in Host, FillNodeValues(h)
  PROVE  MainInv'
<1> USE DEF FillNodeValues
<1>1. ~ AllAt("weighed") /\ ~ AllAt("weighed")'
  BY DEF AllAt, MainInv
<1>2. /\ stage' \in [Host -> Stages] /\ stage'[h] = "filled"
      /\ \A g \in Host : g # h => stage'[g] = stage[g]
  BY DEF MainInv, Stages
<1>3. Verify /\ network[h] = EdgesHere(h) /\ options \in CommandLines
  BY DEF MainInv, StageOk
<1>4. \A g \in Host : StageOk(g)'
  <2> SUFFICES ASSUME NEW g \in Host PROVE StageOk(g)'
    OBVIOUS
  <2>1. stage[g] \in Stages /\ StageOk(g)
    BY DEF MainInv
  <2>2. UNCHANGED <<options, full, network, weight, Verify, ReadGraph>>
    BY DEF Verify, ReadGraph, InputLines
  <2>3. CASE g = h
    BY <1>2, <2>1, <2>2, <2>3 DEF StageOk
  <2>4. CASE g # h
    BY <1>2, <2>1, <2>2, <2>4 DEF StageOk
  <2> QED
    BY <2>3, <2>4
<1>5. /\ sold \in [Host -> [Node -> Int]] /\ bought \in [Host -> [Node -> Int]]
      /\ marks \in [Host -> [sold : SUBSET Node, bought : SUBSET Node]]
      /\ \A g \in Host : (marks[g].sold \cup marks[g].bought) \subseteq Local(g)
  BY DEF MainInv, TypeOK
<1>6. /\ [v \in Node |-> Amounts(h, v, "SALE")] = SoldHere(h, Masters(h))
      /\ [v \in Node |-> Amounts(h, v, "PURCHASE")] = BoughtHere(h)
  BY <1>3, AmountsAre DEF SoldHere, BoughtHere
<1>7. SoldBits(h) = {v \in Masters(h) : SoldIn(Trade, v) > 0}
  BY <1>3, AmountsAre, Copies DEF SoldBits
<1>8. /\ sold' = [sold EXCEPT ![h] = SoldHere(h, Masters(h))]
      /\ bought' = [bought EXCEPT ![h] = BoughtHere(h)]
      /\ marks' = [marks EXCEPT ![h].sold = {v \in Masters(h) : SoldIn(Trade, v) > 0}]
  BY <1>6, <1>7
<1>9. /\ SoldHere(h, Masters(h)) \in [Node -> Int] /\ BoughtHere(h) \in [Node -> Int]
      /\ {v \in Masters(h) : SoldIn(Trade, v) > 0} \subseteq Local(h) \cap Node
  BY TotalsAre, Copies DEF SoldHere, BoughtHere
<1> DEFINE x == SoldHere(h, Masters(h))
           y == BoughtHere(h)
           z == {v \in Masters(h) : SoldIn(Trade, v) > 0}
<1>10. /\ \A g \in Host :
            /\ sold'[g] = IF g = h THEN x ELSE sold[g]
            /\ bought'[g] = IF g = h THEN y ELSE bought[g]
            /\ marks'[g].sold = IF g = h THEN z ELSE marks[g].sold
            /\ marks'[g].bought = marks[g].bought
       /\ sold' \in [Host -> [Node -> Int]] /\ bought' \in [Host -> [Node -> Int]]
       /\ marks' \in [Host -> [sold : SUBSET Node, bought : SUBSET Node]]
  <2>1. /\ sold' = [sold EXCEPT ![h] = x]
        /\ bought' = [bought EXCEPT ![h] = y]
        /\ marks' = [marks EXCEPT ![h].sold = z]
    BY <1>8
  <2>2. x \in [Node -> Int] /\ y \in [Node -> Int] /\ z \in SUBSET Node
    BY <1>9
  <2> HIDE DEF x, y, z, FillNodeValues
  <2>3. /\ \A g \in Host : /\ sold'[g] = IF g = h THEN x ELSE sold[g]
                           /\ bought'[g] = IF g = h THEN y ELSE bought[g]
        /\ sold' \in [Host -> [Node -> Int]] /\ bought' \in [Host -> [Node -> Int]]
    BY <1>5, <2>1, <2>2
  <2>4. /\ \A g \in Host : /\ marks'[g].sold = IF g = h THEN z ELSE marks[g].sold
                           /\ marks'[g].bought = marks[g].bought
        /\ marks' \in [Host -> [sold : SUBSET Node, bought : SUBSET Node]]
    BY <1>5, <2>1, <2>2
  <2> QED
    BY <2>3, <2>4
<1>11. TypeOK'
  <2>1. /\ sold' \in [Host -> [Node -> Int]] /\ bought' \in [Host -> [Node -> Int]]
        /\ marks' \in [Host -> [sold : SUBSET Node, bought : SUBSET Node]]
    BY <1>10
  <2>2. \A g \in Host : (marks'[g].sold \cup marks'[g].bought) \subseteq Local(g)
    <3>1. z \subseteq Local(h)
      BY <1>9
    <3> HIDE DEF x, y, z, FillNodeValues
    <3>2. \A g \in Host : marks'[g].sold \subseteq Local(g) /\ marks'[g].bought \subseteq Local(g)
      BY <1>5, <1>10, <3>1
    <3> QED
      BY <3>2
  <2> QED
    BY <2>1, <2>2 DEF MainInv, TypeOK
<1>12. Waiting'
  <2>1. \A g \in Host : CountersOk(g)'
    <3> SUFFICES ASSUME NEW g \in Host PROVE CountersOk(g)'
      OBVIOUS
    <3>1. CountersOk(g)
      BY <1>1 DEF MainInv, Waiting
    <3>2. CASE g = h
      <4>1. marks[h].bought = {}
        BY <3>1, <3>2 DEF CountersOk
      <4> QED
        BY <1>2, <1>10, <3>2, <4>1 DEF CountersOk
    <3>3. CASE g # h
      BY <1>2, <1>10, <3>1, <3>3 DEF CountersOk
    <3> QED
      BY <3>2, <3>3
  <2> QED
    BY <1>1, <2>1 DEF MainInv, Waiting
<1> QED
  BY <1>1, <1>2, <1>4, <1>11, <1>12 DEF MainInv

LEMMA UpdateMirrorsStep ==
  ASSUME MainInv, UpdateMirrors
  PROVE  MainInv'
<1> USE DEF UpdateMirrors
<1>1. ~ AllAt("weighed") /\ ~ AllAt("weighed")'
  BY SomeHost DEF AllAt
<1>2. /\ stage' \in [Host -> Stages]
      /\ \A g \in Host : stage'[g] = "synced" /\ stage[g] = "filled"
  BY DEF AllAt, Stages
<1>3. \A g \in Host : CountersOk(g) /\ StageOk(g) /\ network[g] = EdgesHere(g) /\ Verify
  BY <1>1, <1>2 DEF MainInv, Waiting, StageOk
<1>4. \A g \in Host : StageOk(g)'
  <2> SUFFICES ASSUME NEW g \in Host PROVE StageOk(g)'
    OBVIOUS
  <2>1. UNCHANGED <<full, network, weight, Verify, ReadGraph>>
    BY DEF Verify, ReadGraph, InputLines
  <2> QED
    BY <1>2, <1>3, <2>1 DEF StageOk
<1>5. ASSUME NEW g \in Host, NEW v \in Node
      PROVE  sold'[g][v] = IF v \in Local(g) THEN SoldIn(Trade, v) ELSE 0
  <2>1. Owner[v] \in Host /\ v \in Masters(Owner[v])
    BY Copies
  <2>2. sold'[g][v] = IF v \in marks[Owner[v]].sold /\ \E e \in network[g] : To(e) = v
                        THEN sold[Owner[v]][v] ELSE sold[g][v]
    OBVIOUS
  <2>3. sold[Owner[v]][v] = SoldIn(Trade, v)
    BY <1>2, <1>3, <2>1 DEF CountersOk, SoldHere
  <2>4. sold[g][v] = IF v \in Masters(g) THEN SoldIn(Trade, v) ELSE 0
    BY <1>2, <1>3 DEF CountersOk, SoldHere
  <2>5. v \in marks[Owner[v]].sold <=> SoldIn(Trade, v) > 0
    BY <1>2, <1>3, <2>1 DEF CountersOk
  <2>6. SoldIn(Trade, v) \in Nat
    BY TotalsAre
  <2>7. ASSUME NEW e \in network[g] PROVE To(e) \in Local(g)
    <3>1. PICK n \in Masters(g) : e \in EdgesOf(n)
      BY <1>3 DEF EdgesHere
    <3>2. e = <<e[1], e[2]>> /\ e[1] \in Trade /\ e[2] \in Kinds /\ Dst(e) \in Local(g)
      BY <3>1, Copies, EdgeSource
    <3> QED
      BY <1>3, <3>2, TradeEnds DEF MainInv
  <2>8. ASSUME v \in Mirrors(g) PROVE \E e \in network[g] : To(e) = v
    <3>1. PICK t \in Trade : \/ Seller[t] = v /\ Buyer[t] \in Masters(g)
                             \/ Buyer[t] = v /\ Seller[t] \in Masters(g)
      BY <2>8 DEF Mirrors
    <3>2. PICK k \in Kinds : Dst(<<t, k>>) = v /\ Source(<<t, k>>) \in Masters(g)
      <4>1. CASE Seller[t] = v /\ Buyer[t] \in Masters(g)
        <5>1. /\ Dst(<<t, "PURCHASE">>) = v /\ Source(<<t, "PURCHASE">>) \in Masters(g)
              /\ "PURCHASE" \in Kinds
          BY <4>1 DEF Kinds, Dst, Source
        <5> QED
          BY <5>1
      <4>2. CASE Buyer[t] = v /\ Seller[t] \in Masters(g)
        <5>1. /\ Dst(<<t, "SALE">>) = v /\ Source(<<t, "SALE">>) \in Masters(g)
              /\ "SALE" \in Kinds
          BY <4>2 DEF Kinds, Dst, Source
        <5> QED
          BY <5>1
      <4> QED
        BY <3>1, <4>1, <4>2
    <3>3. <<t, k>> \in network[g]
      BY <1>3, <3>2, SourceEdge DEF EdgesHere
    <3>4. To(<<t, k>>) = v
      BY <1>3, <3>2, TradeEnds DEF MainInv
    <3> QED
      BY <3>3, <3>4
  <2>9. v \in Local(g) <=> v \in Masters(g) \/ v \in Mirrors(g)
    BY DEF Local
  <2> HIDE DEF UpdateMirrors
  <2>10. CASE \E e \in network[g] : To(e) = v
    <3>1. v \in Local(g)
      BY <2>7, <2>10
    <3> QED
      BY <2>2, <2>3, <2>4, <2>5, <2>6, <2>10, <3>1
  <2>11. CASE ~ \E e \in network[g] : To(e) = v
    BY <2>2, <2>4, <2>8, <2>9, <2>11
  <2> QED
    BY <2>10, <2>11
<1>6. \A g \in Host : sold'[g] = SoldHere(g, Local(g))
  <2>1. \A g \in Host : sold'[g] = [v \in Node |-> sold'[g][v]]
    OBVIOUS
  <2> HIDE DEF UpdateMirrors
  <2> QED
    BY <1>5, <2>1 DEF SoldHere
<1>7. \A g \in Host : marks'[g] = [marks[g] EXCEPT !.sold = {}]
  OBVIOUS
<1>8. marks \in [Host -> [sold : SUBSET Node, bought : SUBSET Node]]
  BY DEF MainInv, TypeOK
<1>9. \A g \in Host : /\ marks'[g] \in [sold : SUBSET Node, bought : SUBSET Node]
                      /\ marks'[g].sold = {} /\ marks'[g].bought = {}
  <2>1. \A g \in Host : marks[g].bought = {}
    BY <1>3 DEF CountersOk
  <2> HIDE DEF UpdateMirrors
  <2>2. \A m \in [sold : SUBSET Node, bought : SUBSET Node] :
          LET n == [m EXCEPT !.sold = {}]
          IN /\ n \in [sold : SUBSET Node, bought : SUBSET Node]
             /\ n.sold = {} /\ n.bought = m.bought
    OBVIOUS
  <2>3. \A g \in Host : marks[g] \in [sold : SUBSET Node, bought : SUBSET Node]
    BY <1>8
  <2> QED
    BY <1>7, <2>1, <2>2, <2>3
<1>10. TypeOK'
  <2>1. marks' = [g \in Host |-> marks'[g]] /\ sold' = [g \in Host |-> sold'[g]]
    OBVIOUS
  <2>2. \A g \in Host : SoldHere(g, Local(g)) \in [Node -> Int]
    BY TotalsAre DEF SoldHere
  <2>3. UNCHANGED <<pc, fresh, pending, clamped, bought>>
    OBVIOUS
  <2> HIDE DEF UpdateMirrors
  <2>4. sold' \in [Host -> [Node -> Int]]
    BY <1>6, <2>1, <2>2
  <2>5. marks' \in [Host -> [sold : SUBSET Node, bought : SUBSET Node]]
    BY <1>9, <2>1
  <2> QED
    BY <1>9, <2>3, <2>4, <2>5 DEF MainInv, TypeOK
<1>11. Waiting'
  <2>1. \A g \in Host : bought'[g] = BoughtHere(g)
    BY <1>2, <1>3 DEF CountersOk
  <2>2. UNCHANGED <<pc, fresh, pending, clamped>>
    OBVIOUS
  <2> HIDE DEF UpdateMirrors
  <2>3. \A g \in Host : CountersOk(g)'
    BY <1>2, <1>6, <1>9, <2>1 DEF CountersOk
  <2> QED
    BY <1>1, <2>2, <2>3 DEF MainInv, Waiting
<1>12. network' = network /\ weight' = weight /\ options' = options
  OBVIOUS
<1> HIDE DEF UpdateMirrors
<1> QED
  BY <1>1, <1>2, <1>4, <1>10, <1>11, <1>12 DEF MainInv

\* A seller's copy on a host with one of its edges is not 0, and is the total.
LEMMA Weighing ==
  ASSUME MainInv, NEW h \in Host, stage[h] = "synced", Waiting, NEW e \in network[h]
  PROVE  EdgeProbability(h, e) = <<Amount[e[1]], SoldIn(Trade, Seller[e[1]])>>
<1>1. network[h] = EdgesHere(h) /\ Verify /\ options \in CommandLines
  BY DEF MainInv, StageOk
<1>2. PICK n \in Masters(h) : e \in EdgesOf(n)
  BY <1>1 DEF EdgesHere
<1>3. /\ e = <<e[1], e[2]>> /\ e[1] \in Trade /\ e[2] \in Kinds
      /\ Source(e) \in Local(h) /\ Dst(e) \in Local(h)
  BY <1>2, Copies, EdgeSource
<1>4. From(e) = Source(e) /\ To(e) = Dst(e) /\ Content[e[1]].amount = Amount[e[1]]
  BY <1>1, <1>3, TradeEnds
<1> DEFINE s == Seller[e[1]]
<1>5. s = (IF e[2] = "SALE" THEN From(e) ELSE To(e)) /\ s \in Local(h)
  BY <1>3, <1>4 DEF Source, Dst, Kinds
<1>6. s \in Node
  BY <1>5, Copies
<1>7. sold[h][s] = SoldIn(Trade, s)
  BY <1>5, <1>6 DEF Waiting, CountersOk, SoldHere
<1>8. SoldIn(Trade, s) > 0
  BY <1>3, <1>6, TotalsAre
<1> HIDE DEF s
<1>9. EdgeProbability(h, e) = <<Amount[e[1]], SoldIn(Trade, s)>>
  BY <1>4, <1>5, <1>7, <1>8 DEF EdgeProbability
<1> QED
  BY <1>9 DEF s

\* The last host to weigh its edges: all counters are those of Cancel's Init.
LEMMA WeighStep ==
  ASSUME MainInv, NEW h \in Host, CalculateEdgeProbability(h)
  PROVE  MainInv'
<1> USE DEF CalculateEdgeProbability, vars
<1>1. ~ AllAt("weighed") /\ Waiting
  BY DEF AllAt, MainInv
<1>2. /\ stage' \in [Host -> Stages] /\ stage'[h] = "weighed" /\ stage[h] = "synced"
      /\ \A g \in Host : g # h => stage'[g] = stage[g]
  BY DEF MainInv, Stages
<1>3. weight' = [weight EXCEPT ![h] =
                   [e \in network[h] |-> <<Amount[e[1]], SoldIn(Trade, Seller[e[1]])>>]]
  BY <1>1, <1>2, Weighing
<1>4. /\ weight'[h] = [e \in network[h] |-> <<Amount[e[1]], SoldIn(Trade, Seller[e[1]])>>]
      /\ \A g \in Host : g # h => weight'[g] = weight[g]
      /\ weight' = [g \in Host |-> weight'[g]]
  <2>1. weight = [g \in Host |-> weight[g]]
    BY DEF MainInv
  <2> QED
    BY <1>3, <2>1
<1>5. \A g \in Host : StageOk(g)'
  <2> SUFFICES ASSUME NEW g \in Host PROVE StageOk(g)'
    OBVIOUS
  <2>1. StageOk(g)
    BY DEF MainInv
  <2>2. UNCHANGED <<full, network, Verify, ReadGraph>>
    BY DEF Verify, ReadGraph, InputLines
  <2> HIDE DEF CalculateEdgeProbability
  <2>3. CASE g = h
    BY <1>2, <1>4, <2>1, <2>2, <2>3 DEF StageOk
  <2>4. CASE g # h
    BY <1>2, <1>4, <2>1, <2>2, <2>4 DEF StageOk
  <2> QED
    BY <2>3, <2>4
<1>6. Waiting'
  <2>1. \A g \in Host : CountersOk(g)
    BY <1>1 DEF Waiting
  <2>2. \A g \in Host : CountersOk(g)'
    BY <1>2, <2>1 DEF CountersOk
  <2> QED
    BY <1>1, <2>2 DEF Waiting
<1>7. TypeOK' /\ network' = [g \in Host |-> network'[g]] /\ options' \in CommandLines
  BY DEF MainInv, TypeOK
<1>8. ASSUME AllAt("weighed")' PROVE Init'
  <2>1. \A g \in Host : stage'[g] = "weighed"
    BY <1>8 DEF AllAt
  <2>2. \A g \in Host : /\ sold'[g] = SoldHere(g, Local(g)) /\ bought'[g] = BoughtHere(g)
                        /\ marks'[g].sold = {} /\ marks'[g].bought = {}
    BY <1>6, <2>1 DEF Waiting, CountersOk
  <2>3. /\ sold' \in [Host -> [Node -> Int]] /\ bought' \in [Host -> [Node -> Int]]
        /\ marks' \in [Host -> [sold : SUBSET Node, bought : SUBSET Node]]
    BY <1>7 DEF TypeOK
  <2>4. marks' = [g \in Host |-> [sold |-> {}, bought |-> {}]]
    <3>1. \A g \in Host : marks'[g] = [sold |-> {}, bought |-> {}]
      <4>1. \A m \in [sold : SUBSET Node, bought : SUBSET Node] :
              m.sold = {} /\ m.bought = {} => m = [sold |-> {}, bought |-> {}]
        OBVIOUS
      <4>2. \A g \in Host : marks'[g] \in [sold : SUBSET Node, bought : SUBSET Node]
        BY <2>3
      <4> QED
        BY <2>2, <4>1, <4>2
    <3> QED
      BY <2>3, <3>1
  <2>5. NotBegun'
    BY <1>6, <2>4 DEF Waiting, NotBegun
  <2>6. sold' = [g \in Host |-> [v \in Node |->
                   IF v \in Local(g) THEN SoldIn(Trade, v) ELSE 0]]
    BY <2>2, <2>3 DEF SoldHere
  <2>7. bought' = [g \in Host |-> [v \in Node |->
                   IF v \in Masters(g) THEN BoughtIn(Trade, v) ELSE 0]]
    BY <2>2, <2>3 DEF BoughtHere
  <2> QED
    BY <2>5, <2>6, <2>7 DEF Init
<1>9. Init' => IInv'
  BY InitStep, PTL
<1> QED
  BY <1>2, <1>4, <1>5, <1>6, <1>7, <1>8, <1>9 DEF MainInv

\* The first step of the cancellation leaves a trace, so that a state in which
\* it has not begun is the one it started from.
LEMMA BegunForGood ==
  ASSUME IInv, Next, NotBegun'
  PROVE  UNCHANGED vars
<1>1. ASSUME NEW h \in Host, NEW n \in Cancelled, Start(h, n) PROVE FALSE
  <2>1. fresh'[h] = fresh[h] \ {n}
    BY <1>1 DEF Start, IInv, TypeOK
  <2>2. fresh'[h] = Cancelled
    BY DEF NotBegun
  <2> QED
    BY <2>1, <2>2
<1>2. ASSUME NEW h \in Host, NEW n \in Cancelled, NEW e \in pending[h][n], Clamp(h, n, e)
      PROVE  FALSE
  <2>1. clamped \in [Host -> [Cancelled -> SUBSET Edge]]
    BY DEF IInv, TypeOK
  <2>2. clamped' = [clamped EXCEPT ![h][n] = {e}]
    BY <1>2 DEF Clamp
  <2>3. clamped'[h][n] = {e}
    BY <2>1, <2>2
  <2>4. clamped'[h][n] = {}
    BY DEF NotBegun
  <2> QED
    BY <2>3, <2>4
<1>3. ASSUME NEW h \in Host, NEW n \in Cancelled, NEW e \in pending[h][n], Subtract(h, n, e)
      PROVE  FALSE
  <2>1. \A k \in {"sold", "bought"} : marks[h] \in [sold : SUBSET Node, bought : SUBSET Node]
    BY DEF IInv, TypeOK
  <2>2. Dst(e) \in marks'[h].bought \/ Dst(e) \in marks'[h].sold
    BY <1>3 DEF Subtract, IInv, TypeOK
  <2>3. marks'[h] = [sold |-> {}, bought |-> {}]
    BY DEF NotBegun
  <2> QED
    BY <2>2, <2>3
<1>4. ASSUME NEW h \in Host, EnterSync(h) PROVE FALSE
  BY <1>4 DEF EnterSync, NotBegun, IInv, TypeOK
<1>5. ASSUME NEW h \in Host, Reset(h) PROVE FALSE
  BY <1>5 DEF Reset, NotBegun, IInv, TypeOK
<1>6. ASSUME Sync PROVE FALSE
  <2>1. PICK h : h \in Host
    BY SomeHost
  <2>2. pc'[h] = "cancel" /\ pc'[h] = "reset"
    BY <1>6, <2>1 DEF Sync, NotBegun
  <2> QED
    BY <2>2
<1> QED
  BY <1>1, <1>2, <1>3, <1>4, <1>5, <1>6 DEF Next, HostStep, Terminated

LEMMA MainStep ==
  ASSUME MainInv, Main
  PROVE  MainInv'
<1>1. AllAt("weighed") /\ AllAt("weighed")' /\ Next /\ UNCHANGED mainVars
  BY DEF Main, AllAt, mainVars
<1>2. IInv /\ IInv' /\ TypeOK'
  <2>1. IInv
    BY <1>1 DEF MainInv
  <2>2. IInv'
    BY <1>1, <2>1, NextStep
  <2> QED
    BY <2>1, <2>2 DEF IInv
<1>3. NotBegun' => Init'
  <2> SUFFICES ASSUME NotBegun' PROVE Init'
    OBVIOUS
  <2>1. UNCHANGED vars
    BY <1>1, <1>2, BegunForGood
  <2>2. NotBegun
    BY <2>1 DEF NotBegun, vars
  <2>3. Init
    BY <1>1, <2>2 DEF MainInv
  <2> QED
    BY <2>1, <2>3 DEF Init, NotBegun, vars
<1>4. \A h \in Host : StageOk(h)'
  BY <1>1 DEF mainVars, MainInv, StageOk, Verify, ReadGraph, InputLines
<1> QED
  BY <1>1, <1>2, <1>3, <1>4 DEF MainInv, mainVars

LEMMA MainUnchangedStep ==
  ASSUME MainInv, UNCHANGED allVars
  PROVE  MainInv'
<1>1. UNCHANGED mainVars /\ UNCHANGED vars
  BY DEF allVars
<1>2. /\ \A h \in Host : StageOk(h)' = StageOk(h)
      /\ AllAt("weighed")' = AllAt("weighed")
  BY <1>1 DEF mainVars, StageOk, AllAt, Verify, ReadGraph, InputLines
<1>3. Waiting' = Waiting /\ TypeOK' = TypeOK /\ NotBegun' = NotBegun /\ Init' = Init
  BY <1>1 DEF mainVars, vars, Waiting, CountersOk, TypeOK, NotBegun, Init
<1>4. IInv => IInv'
  BY <1>1, UnchangedStep
<1> QED
  BY <1>1, <1>2, <1>3, <1>4 DEF MainInv, mainVars

LEMMA MainNextStep == MainInv /\ [MainNext]_allVars => MainInv'
<1> SUFFICES ASSUME MainInv, [MainNext]_allVars PROVE MainInv'
  OBVIOUS
<1>1. ASSUME NEW h \in Host, Parse(h) PROVE MainInv'
  BY <1>1, ParseStep
<1>2. ASSUME NEW h \in Host, Project(h) PROVE MainInv'
  BY <1>2, ProjectStep
<1>3. ASSUME NEW h \in Host, FillNodeValues(h) PROVE MainInv'
  BY <1>3, FillStep
<1>4. ASSUME NEW h \in Host, CalculateEdgeProbability(h) PROVE MainInv'
  BY <1>4, WeighStep
<1>5. CASE Import
  BY <1>5, ImportStep
<1>6. CASE UpdateMirrors
  BY <1>6, UpdateMirrorsStep
<1>7. CASE Main
  BY <1>7, MainStep
<1>8. CASE Exited \/ UNCHANGED allVars
  BY <1>8, MainUnchangedStep DEF Exited
<1> QED
  BY <1>1, <1>2, <1>3, <1>4, <1>5, <1>6, <1>7, <1>8 DEF MainNext

THEOREM MainInvariant == MainSpec => []MainInv
<1>1. MainInit => MainInv
  BY MainInitStep
<1>2. MainInv /\ [MainNext]_allVars => MainInv'
  BY MainNextStep
<1> QED
  BY <1>1, <1>2, PTL DEF MainSpec
-----------------------------------------------------------------------------
(* What the whole program hands over, and what it ends with.               *)

\* From whatever lines and valid options, the cancellation gets the trades on
\* both sides, equal probabilities for them, and totals that masters and
\* mirrors of sellers agree on (import.cpp, influence_maximization.cpp:81-120,
\* 290-332).
THEOREM HandedOverCorrect == MainSpec => []HandedOver
<1>1. MainInv => HandedOver
  <2> SUFFICES ASSUME MainInv, AllAt("weighed")
               PROVE  NetworkIsTrades /\ WeightsAgree /\ (NotBegun => Init)
    BY DEF HandedOver
  <2>1. \A h \in Host : /\ network[h] = EdgesHere(h)
                        /\ weight[h] = [e \in network[h] |->
                             <<Amount[e[1]], SoldIn(Trade, Seller[e[1]])>>]
    BY DEF MainInv, StageOk, AllAt
  <2>2. NetworkIsTrades
    BY <2>1 DEF NetworkIsTrades, EdgesHere
  <2>3. ASSUME NEW t \in Trade, NEW k \in Kinds
        PROVE  weight[Owner[Source(<<t, k>>)]][<<t, k>>]
                 = <<Amount[t], SoldIn(Trade, Seller[t])>>
    <3> DEFINE v == Source(<<t, k>>)
               e == <<t, k>>
    <3>1. v \in Node /\ e \in EdgesOf(v) /\ e[1] = t
      BY SourceEdge
    <3>2. Owner[v] \in Host /\ v \in Masters(Owner[v])
      BY <3>1, Copies
    <3> HIDE DEF e, v
    <3>3. e \in network[Owner[v]]
      <4>1. network[Owner[v]] = EdgesHere(Owner[v])
        BY <2>1, <3>2
      <4> QED
        BY <3>1, <3>2, <4>1 DEF EdgesHere
    <3>4. weight[Owner[v]][e] = <<Amount[e[1]], SoldIn(Trade, Seller[e[1]])>>
      BY <2>1, <3>2, <3>3
    <3> QED
      BY <3>1, <3>4 DEF e, v
  <2>4. ASSUME NEW t \in Trade
        PROVE  Source(<<t, "SALE">>) = Seller[t] /\ Source(<<t, "PURCHASE">>) = Buyer[t]
    BY DEF Source
  <2>5. WeightsAgree
    <3>1. "SALE" \in Kinds /\ "PURCHASE" \in Kinds
      BY DEF Kinds
    <3> QED
      BY <2>3, <2>4, <3>1 DEF WeightsAgree
  <2>6. NotBegun => Init
    BY DEF MainInv
  <2> QED
    BY <2>2, <2>5, <2>6
<1> QED
  BY <1>1, MainInvariant, PTL

\* The program as a whole has the right counters on every copy once no host
\* has any cancellation left, or has not got that far (main.cpp:135-181,
\* cancel.cpp:205-266).
THEOREM ProgramCorrect ==
  MainSpec => [](TypeOK /\ CancelExact /\ SoldCopiesAgree /\ BoughtCopiesBelow)
<1>1. MainInv => TypeOK /\ CancelExact /\ SoldCopiesAgree /\ BoughtCopiesBelow
  <2> SUFFICES ASSUME MainInv
               PROVE  TypeOK /\ CancelExact /\ SoldCopiesAgree /\ BoughtCopiesBelow
    OBVIOUS
  <2>1. CASE AllAt("weighed")
    BY <2>1, IInvImplies DEF MainInv, IInv
  <2>2. CASE ~AllAt("weighed")
    <3>1. PICK h : h \in Host
      BY SomeHost
    <3>2. pc[h] = "cancel"
      BY <2>2, <3>1 DEF MainInv, Waiting
    <3>3. ~AllDone
      BY <3>1, <3>2 DEF AllDone
    <3> QED
      BY <3>3 DEF MainInv, CancelExact, SoldCopiesAgree, BoughtCopiesBelow
  <2> QED
    BY <2>1, <2>2
<1> QED
  BY <1>1, MainInvariant, PTL
=============================================================================
