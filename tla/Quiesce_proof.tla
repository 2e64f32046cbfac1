--------------------------- MODULE Quiesce_proof ---------------------------
(***************************************************************************)
(* QuiesceGraph does not oversell a seller or buy more than is desired,    *)
(* for every network and owner of its nodes.                               *)
(*                                                                         *)
(* Before a host sends its proposals its amounts are whole units and sums  *)
(* are exact.  Threads race for a seller with b bought and s sold, which   *)
(* includes the open reservations D.  What will be accepted is not known   *)
(* yet, and b may still grow.  The invariant (Fits) is that for every      *)
(* level l from b on, the reservations that were told a total up to l fit  *)
(* below l, together with what is sold for good.  Afterwards all that      *)
(* arrives is smaller than half a unit: it adds nothing to a unit, and     *)
(* less than a unit to nothing (Kept).                                     *)
(*                                                                         *)
(* The last part is about the mirrors of sellers: of whole amounts every   *)
(* seller that somebody proposed to buy from ends with a mark, so the sync *)
(* leaves its mirrors with what the master has sold.                       *)
(***************************************************************************)
EXTENDS Quiesce, SumTheorems

Half == Unit \div 2
Grid == {Unit * i : i \in Nat}
Small == 0 .. Half - 1

Deltas(D) == SumFunctionOnSet([d \in D |-> d.delta], D)
Weights(S) == SumFunctionOnSet([e \in S |-> e.weight], S)

Fits(b, s, D, x) ==
  \A l \in Nat : l >= b =>
    \/ (s - Deltas(D)) + Deltas({d \in D : d.total <= l}) <= l
    \/ ({d \in D : d.total <= l} = {} /\ s - Deltas(D) <= x)

Kept(b, s, D, x) ==
  /\ (s \in Grid /\ s >= Unit) \/ (s \in Small /\ Deltas(D) <= s)
  /\ s <= b \/ s <= x

\* The sellers from which n is buying, or has proposed to.
Asked(h, n) ==
  {d.dst : d \in {c \in deals[h] : c.src = n}}
    \cup {e.dst : e \in {f \in remote_edges[h] : f.src = n}}

-----------------------------------------------------------------------------
(* The invariant of a host.                                                *)

\* A buyer makes one attempt at a time, and not for more than it needs.
InvDeals(h) ==
  /\ \A d \in deals[h] :
       /\ d.src \in Masters(h)
       /\ d.delta \in Grid
       /\ d.delta <= needed[d.src]
  /\ \A d, f \in deals[h] : d.src = f.src => d = f

InvProposals(h) ==
  \A e \in remote_edges[h] :
    e.src \in Masters(h) /\ e.dst \notin Masters(h) /\ e.weight <= Unit * Desired(e.src)

\* Without a second trade with it, a seller is not asked again.
InvAsked(h) ==
  \A n \in Masters(h) :
    /\ \A t \in left[n] : Buyer[t] = n
    /\ OneTradeEach(n) =>
         /\ \A t \in left[n] : Seller[t] \notin Asked(h, n)
         /\ \A d \in deals[h] : \A e \in remote_edges[h] :
              ~ (d.src = n /\ e.src = n /\ d.dst = e.dst)

InvExact(h) ==
  /\ \A v \in Node : sold[h][v] \in Grid /\ bought[h][v] \in Grid
  /\ \A n \in Masters(h) : needed[n] \in Grid

InvRace(h) ==
  \A v \in Node :
    /\ Reserved(h, v) <= sold[h][v]
    /\ Fits(bought[h][v], sold[h][v], OpenDeals(h, v), SoldAtStart(h, v))

NeedOf(h, n) == bought[h][n] + needed[n] + Weights({e \in remote_edges[h] : e.src = n})

InvNeed(h) ==
  \A n \in Masters(h) :
    /\ NeedOf(h, n) <= Unit * Desired(n)
    /\ OneTradeEach(n) => NeedOf(h, n) = Unit * Desired(n)

\* What masters of the host have bought and sold for good.
Gain(h, v) == bought[h][v] - BoughtAtStart(h, v)
Sale(h, v) == (sold[h][v] - Reserved(h, v)) - SoldAtStart(h, v)
InvBalance(h) ==
  SumFunctionOnSet([v \in Masters(h) |-> Gain(h, v)], Masters(h))
    = SumFunctionOnSet([v \in Masters(h) |-> Sale(h, v)], Masters(h))

InvBuying(h) ==
  /\ InvDeals(h)
  /\ InvProposals(h)
  /\ InvAsked(h)
  /\ InvExact(h)
  /\ InvRace(h)
  /\ InvNeed(h)

InvSent(h) ==
  /\ \A v \in Node :
       /\ bought[h][v] \in Grid
       /\ Kept(bought[h][v], sold[h][v], OpenDeals(h, v), SoldAtStart(h, v))
  /\ \A v \in Masters(h) : bought[h][v] <= Unit * Desired(v)
  /\ \A d \in deals[h] : /\ d.src \notin Masters(h)
                         /\ d.delta \in Small
                         /\ bought[h][d.dst] > 0
  /\ \A e \in remote_edges[h] : e.src \notin Masters(h) /\ e.weight \in Small
  /\ pc[h] # "decide" => deals[h] = {} /\ remote_edges[h] = {}
  /\ pc[h] = "decide" => \A o \in incoming[h] :
       o.edge.src \notin Masters(h) /\ o.edge.weight \in Small
  /\ pc[h] = "add" => \A o \in incoming[h] : o.edge.weight = 0

InvDone(h) ==
  /\ deals[h] = {}
  /\ \A v \in Masters(h) :
       /\ bought[h][v] <= Unit * Desired(v)
  /\ \A v \in Node \ Mirrors(h) : sold[h][v] <= bought[h][v] \/ sold[h][v] <= SoldAtStart(h, v)

InvHost(h) ==
  /\ IsFiniteSet(deals[h]) /\ IsFiniteSet(remote_edges[h])
  /\ pc[h] = "quiesce" => InvBuying(h)
  /\ pc[h] \in {"quiesce", "offers"} => InvBalance(h)
  /\ pc[h] \in {"offers", "decide", "answers", "add", "sync"} => InvSent(h)
  /\ pc[h] = "done" => InvDone(h)

\* The first round is of proposals, and nothing is left of an answer.
InvWire ==
  \A m \in wire :
    IF m.round = 1 THEN m.edge.weight \in Small /\ m.edge.src \notin Masters(m.to)
    ELSE m.edge.weight = 0

InvRounds ==
  \A h \in Host :
    /\ posted[h] = CASE pc[h] = "quiesce" -> 0
                     [] pc[h] \in {"offers", "decide"} -> 1
                     [] OTHER -> 2
    /\ taken[h] = CASE pc[h] \in {"quiesce", "offers"} -> 0
                    [] pc[h] \in {"decide", "answers"} -> 1
                    [] OTHER -> 2

IInv ==
  /\ TypeOK
  /\ InvRounds
  /\ InvWire
  /\ \A h \in Host : InvHost(h)
-----------------------------------------------------------------------------
(* Units, and what is smaller than half a unit.                            *)

LEMMA UnitEven ==
  /\ Unit \in Nat /\ Half \in Nat /\ Unit = Half + Half
  /\ Half > Total(Trade) /\ Total(Trade) \in Nat /\ Half > 0
<1>1. Total(Trade) \in Nat
  <2>1. \A t \in Trade : Amount[t] \in Nat
    BY TradeAssumption
  <2> QED
    BY <2>1, SumNat, TradeAssumption DEF Total
<1> QED
  BY <1>1, UnitAssumption DEF Half

LEMMA Divide ==
  ASSUME NEW b \in Nat \ {0}, NEW q \in Int, NEW r \in 0 .. b - 1
  PROVE  (b * q + r) \div b = q
BY Z3

LEMMA GridType == Grid \subseteq Nat /\ 0 \in Grid /\ \A s \in Grid : s > 0 => s >= Unit
<1>1. \A i \in Nat : Unit * i \in Nat /\ (Unit * i > 0 => Unit * i >= Unit)
  BY UnitEven
<1>2. 0 = Unit * 0
  BY UnitEven
<1> QED
  BY <1>1, <1>2 DEF Grid

\* Whole units are not rounded.
LEMMA RoundedUnits ==
  ASSUME NEW k \in Int
  PROVE  Rounded(Unit * k) = Unit * k
<1>1. CASE - Half < Unit * k /\ Unit * k < Half
  BY <1>1 DEF Rounded, Half
<1>2. CASE ~ (- Half < Unit * k /\ Unit * k < Half)
  <2>1. (Unit * k + Half) \div Unit = k
    BY UnitEven, Divide
  <2> QED
    BY <1>2, <2>1, UnitEven DEF Rounded, Half
<1> QED
  BY <1>1, <1>2

LEMMA GridPlus ==
  ASSUME NEW x \in Grid, NEW y \in Grid
  PROVE  Plus(x, y) = x + y /\ x + y \in Grid
<1>1. PICK i \in Nat : x = Unit * i
  BY DEF Grid
<1>2. PICK j \in Nat : y = Unit * j
  BY DEF Grid
<1>3. x + y = Unit * (i + j) /\ i + j \in Nat
  BY <1>1, <1>2, UnitEven
<1> QED
  BY <1>3, RoundedUnits DEF Plus, Grid

LEMMA GridMinus ==
  ASSUME NEW x \in Grid, NEW y \in Grid
  PROVE  /\ Minus(x, y) = x - y
         /\ x - y >= 0 => x - y \in Grid
<1>1. PICK i \in Nat : x = Unit * i
  BY DEF Grid
<1>2. PICK j \in Nat : y = Unit * j
  BY DEF Grid
<1>3. x - y = Unit * (i - j) /\ i - j \in Int
  BY <1>1, <1>2, UnitEven
<1>4. x - y >= 0 => i - j \in Nat
  BY <1>3, UnitEven
<1> QED
  BY <1>3, <1>4, RoundedUnits DEF Minus, Grid

\* What is less than half a unit disappears in whole units.
LEMMA SmallInGrid ==
  ASSUME NEW x \in Grid, x >= Unit, NEW y \in Small
  PROVE  Plus(x, y) = x /\ Minus(x, y) = x
<1>1. PICK i \in Nat : x = Unit * i
  BY DEF Grid
<1>2. y \in Nat /\ y < Half
  BY UnitEven DEF Small
<1>3. (x + y + Half) \div Unit = i
  <2>1. y + Half \in 0 .. Unit - 1
    BY <1>2, UnitEven
  <2>2. x + y + Half = Unit * i + (y + Half)
    BY <1>1, <1>2, UnitEven
  <2> QED
    BY <2>1, <2>2, UnitEven, Divide
<1>4. (x - y + Half) \div Unit = i
  <2>1. Half - y \in 0 .. Unit - 1
    BY <1>2, UnitEven
  <2>2. x - y + Half = Unit * i + (Half - y)
    BY <1>1, <1>2, UnitEven
  <2> QED
    BY <2>1, <2>2, UnitEven, Divide
<1>5. i * Unit = x
  BY <1>1, UnitEven
<1>6. Rounded(x + y) = x /\ Rounded(x - y) = x
  <2>1. x \in Nat
    BY GridType
  <2>2. ~ (x + y < Half) /\ ~ (x - y < Half)
    BY <1>2, <2>1, UnitEven
  <2> QED
    BY <1>3, <1>4, <1>5, <2>2 DEF Rounded, Half
<1> QED
  BY <1>6 DEF Plus, Minus

\* Two of them make at most a unit.
LEMMA SmallPlus ==
  ASSUME NEW x \in Small, NEW y \in Small
  PROVE  \/ x + y \in Small /\ Plus(x, y) = x + y
         \/ Plus(x, y) = Unit
<1>1. x \in Nat /\ y \in Nat /\ x < Half /\ y < Half
  BY UnitEven DEF Small
<1>2. CASE x + y < Half
  BY <1>1, <1>2, UnitEven DEF Plus, Rounded, Small, Half
<1>3. CASE x + y >= Half
  <2>1. x + y - Half \in 0 .. Unit - 1
    BY <1>1, <1>3, UnitEven
  <2>2. x + y + Half = Unit + (x + y - Half)
    BY <1>1, UnitEven
  <2>3. (x + y + Half) \div Unit = 1
    <3>1. \A r \in 0 .. Unit - 1 : (Unit + r) \div Unit = 1
      BY UnitEven, Z3
    <3> QED
      BY <2>1, <2>2, <3>1
  <2>4. ~ (x + y < Half)
    BY <1>1, <1>3, UnitEven
  <2> QED
    BY <2>3, <2>4, UnitEven DEF Plus, Rounded, Half
<1> QED
  BY <1>1, <1>2, <1>3, UnitEven

LEMMA SmallMinus ==
  ASSUME NEW x \in Small, NEW y \in Nat, y <= x
  PROVE  Minus(x, y) = x - y /\ x - y \in Small
BY UnitEven DEF Minus, Rounded, Small, Half

LEMMA RoundedSign ==
  ASSUME NEW x \in Int
  PROVE  /\ Rounded(x) \in Int
         /\ Rounded(x) > 0 => x > 0
         /\ x >= 0 => Rounded(x) \in Nat
<1>1. CASE - Half < x /\ x < Half
  BY <1>1 DEF Rounded, Half
<1>2. CASE ~ (- Half < x /\ x < Half)
  <2>1. Rounded(x) = ((x + Half) \div Unit) * Unit
    BY <1>2 DEF Rounded, Half
  <2>2. (x + Half) \div Unit \in Int
    BY UnitEven
  <2>3. x <= 0 => (x + Half) \div Unit <= 0
    BY <1>2, UnitEven
  <2>4. x >= 0 => (x + Half) \div Unit >= 0
    BY UnitEven
  <2> HIDE DEF Rounded
  <2>5. \A k \in Int : /\ k * Unit \in Int
                       /\ k <= 0 => k * Unit <= 0
                       /\ k >= 0 => k * Unit >= 0
    BY UnitEven
  <2> QED
    BY <2>1, <2>2, <2>3, <2>4, <2>5
<1> QED
  BY <1>1, <1>2

-----------------------------------------------------------------------------
(* Sums over attempts and proposals.                                       *)

LEMMA DeltasNat ==
  ASSUME NEW D \in SUBSET Deal, IsFiniteSet(D)
  PROVE  Deltas(D) \in Nat
<1> DEFINE f == [d \in D |-> d.delta]
<1>1. \A d \in D : f[d] \in Nat
  BY DEF Deal
<1> HIDE DEF f
<1>2. SumFunctionOnSet(f, D) \in Nat
  BY <1>1, SumNat
<1> QED
  BY <1>2 DEF Deltas, f

LEMMA DeltasEmpty == Deltas({}) = 0
BY SumEmpty DEF Deltas

LEMMA DeltasAdd ==
  ASSUME NEW D \in SUBSET Deal, IsFiniteSet(D), NEW e \in Deal \ D
  PROVE  Deltas(D \cup {e}) = Deltas(D) + e.delta
<1> DEFINE f == [d \in D |-> d.delta]
           g == [d \in D \cup {e} |-> d.delta]
<1>1. \A d \in D : f[d] \in Int /\ g[d] = f[d] /\ g[d] \in Int
  BY DEF Deal
<1>2. g[e] = e.delta /\ g[e] \in Int
  BY DEF Deal
<1>3. Deltas(D \cup {e}) = SumFunctionOnSet(g, D \cup {e})
      /\ Deltas(D) = SumFunctionOnSet(f, D)
  BY DEF Deltas
<1>4. Deltas(D) \in Int
  BY DeltasNat
<1> HIDE DEF f, g
<1>5. SumFunctionOnSet(g, D \cup {e}) = g[e] + SumFunctionOnSet(g, D)
  BY <1>1, <1>2, SumAdd
<1>6. SumFunctionOnSet(g, D) = SumFunctionOnSet(f, D)
  BY <1>1, SumSame
<1> QED
  BY <1>2, <1>3, <1>4, <1>5, <1>6

LEMMA DeltasDrop ==
  ASSUME NEW D \in SUBSET Deal, IsFiniteSet(D), NEW e \in D
  PROVE  Deltas(D \ {e}) = Deltas(D) - e.delta
<1> DEFINE E == D \ {e}
<1>1. E \cup {e} = D /\ IsFiniteSet(E) /\ e \in Deal \ E /\ E \in SUBSET Deal
  BY FS_Subset
<1>2. e.delta \in Nat
  BY DEF Deal
<1> SUFFICES Deltas(E) = Deltas(D) - e.delta
  OBVIOUS
<1> HIDE DEF E
<1>3. Deltas(D) = Deltas(E) + e.delta
  BY <1>1, DeltasAdd
<1>4. Deltas(E) \in Nat
  BY <1>1, DeltasNat
<1> QED
  BY <1>2, <1>3, <1>4

LEMMA DeltasSubset ==
  ASSUME NEW D \in SUBSET Deal, IsFiniteSet(D), NEW F \in SUBSET D
  PROVE  Deltas(F) <= Deltas(D) /\ Deltas(F) \in Nat
<1> DEFINE f == [d \in D |-> d.delta]
           g == [d \in F |-> d.delta]
<1>1. \A d \in D : f[d] \in Nat
  BY DEF Deal
<1>2. \A d \in F : g[d] \in Int /\ f[d] = g[d]
  BY DEF Deal
<1>3. Deltas(D) = SumFunctionOnSet(f, D) /\ Deltas(F) = SumFunctionOnSet(g, F)
  BY DEF Deltas
<1>4. IsFiniteSet(F)
  BY FS_Subset
<1> HIDE DEF f, g
<1>5. SumFunctionOnSet(f, F) <= SumFunctionOnSet(f, D)
  BY <1>1, SumSubset
<1>6. SumFunctionOnSet(f, F) = SumFunctionOnSet(g, F)
  BY <1>2, <1>4, SumSame
<1> QED
  BY <1>3, <1>4, <1>5, <1>6, DeltasNat

LEMMA WeightsNat ==
  ASSUME NEW S \in SUBSET ProposedEdge, IsFiniteSet(S)
  PROVE  Weights(S) \in Nat
<1> DEFINE f == [d \in S |-> d.weight]
<1>1. \A d \in S : f[d] \in Nat
  BY DEF ProposedEdge
<1> HIDE DEF f
<1>2. SumFunctionOnSet(f, S) \in Nat
  BY <1>1, SumNat
<1> QED
  BY <1>2 DEF Weights, f

LEMMA WeightsAdd ==
  ASSUME NEW S \in SUBSET ProposedEdge, IsFiniteSet(S), NEW e \in ProposedEdge \ S
  PROVE  Weights(S \cup {e}) = Weights(S) + e.weight
<1> DEFINE f == [d \in S |-> d.weight]
           g == [d \in S \cup {e} |-> d.weight]
<1>1. \A d \in S : f[d] \in Int /\ g[d] = f[d] /\ g[d] \in Int
  BY DEF ProposedEdge
<1>2. g[e] = e.weight /\ g[e] \in Int
  BY DEF ProposedEdge
<1>3. Weights(S \cup {e}) = SumFunctionOnSet(g, S \cup {e})
      /\ Weights(S) = SumFunctionOnSet(f, S)
  BY DEF Weights
<1>4. Weights(S) \in Int
  BY WeightsNat
<1> HIDE DEF f, g
<1>5. SumFunctionOnSet(g, S \cup {e}) = g[e] + SumFunctionOnSet(g, S)
  BY <1>1, <1>2, SumAdd
<1>6. SumFunctionOnSet(g, S) = SumFunctionOnSet(f, S)
  BY <1>1, SumSame
<1> QED
  BY <1>2, <1>3, <1>4, <1>5, <1>6
-----------------------------------------------------------------------------
(* The race for a seller, in whole units.                                  *)

LEMMA FitsReserve ==
  ASSUME NEW b \in Nat, NEW s \in Nat, NEW x \in Nat,
         NEW D \in SUBSET Deal, IsFiniteSet(D), Deltas(D) <= s, Fits(b, s, D, x),
         NEW e \in Deal \ D, e.total = s + e.delta
  PROVE  Fits(b, s + e.delta, D \cup {e}, x) /\ Deltas(D \cup {e}) <= s + e.delta
<1> DEFINE E == D \cup {e}
           u == s + e.delta
<1>1. e.delta \in Nat /\ Deltas(D) \in Nat
  BY DeltasNat DEF Deal
<1>2. Deltas(E) = Deltas(D) + e.delta
  BY DeltasAdd
<1>3. ASSUME NEW l \in Nat, l >= b
      PROVE  \/ (u - Deltas(E))
                    + Deltas({d \in E : d.total <= l}) <= l
             \/ ({d \in E : d.total <= l} = {}
                    /\ u - Deltas(E) <= x)
  <2> DEFINE F == {d \in D : d.total <= l}
             G == {d \in E : d.total <= l}
  <2>1. F \in SUBSET D /\ IsFiniteSet(F) /\ F \in SUBSET Deal /\ e \notin F
    BY FS_Subset
  <2>2. Deltas(F) \in Nat /\ Deltas(F) <= Deltas(D)
    <3> HIDE DEF F
    <3> QED
      BY <2>1, DeltasSubset
  <2>3. CASE e.total <= l
    <3>1. G = F \cup {e}
      BY <2>3
    <3> HIDE DEF F, G
    <3>2. Deltas(G) = Deltas(F) + e.delta
      BY <2>1, <3>1, DeltasAdd
    <3>3. (u - Deltas(E)) + Deltas(G) <= l
      BY <1>1, <1>2, <2>2, <2>3, <3>2
    <3> QED
      BY <3>3 DEF G
  <2>4. CASE ~ (e.total <= l)
    <3>1. G = F
      BY <2>4
    <3>2. (s - Deltas(D)) + Deltas(F) <= l \/ (F = {} /\ s - Deltas(D) <= x)
      BY <1>3 DEF Fits
    <3>3. u - Deltas(E) = s - Deltas(D)
      BY <1>1, <1>2
    <3> HIDE DEF F, G
    <3> QED
      BY <3>1, <3>2, <3>3 DEF G
  <2> QED
    BY <2>3, <2>4
<1> HIDE DEF E, u
<1>4. Fits(b, u, E, x)
  BY <1>3 DEF Fits
<1>5. Deltas(E) <= u
  BY <1>1, <1>2 DEF u
<1> QED
  BY <1>4, <1>5 DEF E, u

\* Taking back what exceeds b changes nothing for the others.
LEMMA FitsTakeBack ==
  ASSUME NEW b \in Nat, NEW s \in Nat, NEW x \in Nat,
         NEW D \in SUBSET Deal, IsFiniteSet(D), Deltas(D) <= s, Fits(b, s, D, x),
         NEW e \in D
  PROVE  /\ Fits(b, s - e.delta, D \ {e}, x)
         /\ Deltas(D \ {e}) <= s - e.delta
         /\ e.delta <= s
<1>1. e.delta \in Nat /\ Deltas(D) \in Nat
  BY DeltasNat DEF Deal
<1>2. Deltas(D \ {e}) = Deltas(D) - e.delta /\ Deltas(D \ {e}) \in Nat
  BY DeltasDrop, DeltasSubset
<1>3. ASSUME NEW l \in Nat, l >= b
      PROVE  \/ (s - e.delta - Deltas(D \ {e}))
                    + Deltas({d \in D \ {e} : d.total <= l}) <= l
             \/ ({d \in D \ {e} : d.total <= l} = {}
                    /\ s - e.delta - Deltas(D \ {e}) <= x)
  <2> DEFINE F == {d \in D : d.total <= l}
             G == {d \in D \ {e} : d.total <= l}
  <2>1. F \in SUBSET D /\ G \in SUBSET F /\ IsFiniteSet(F) /\ F \in SUBSET Deal
    BY FS_Subset
  <2>2. (s - Deltas(D)) + Deltas(F) <= l \/ (F = {} /\ s - Deltas(D) <= x)
    BY <1>3 DEF Fits
  <2> HIDE DEF F, G
  <2>3. Deltas(F) \in Nat /\ Deltas(G) \in Nat /\ Deltas(G) <= Deltas(F)
    BY <2>1, DeltasSubset
  <2>4. \/ (s - e.delta - Deltas(D \ {e})) + Deltas(G) <= l
        \/ (G = {} /\ s - e.delta - Deltas(D \ {e}) <= x)
    BY <1>1, <1>2, <2>1, <2>2, <2>3
  <2> QED
    BY <2>4 DEF G
<1>4. Fits(b, s - e.delta, D \ {e}, x)
  BY <1>3 DEF Fits
<1>5. Deltas(D \ {e}) <= s - e.delta /\ e.delta <= s
  BY <1>1, <1>2
<1> QED
  BY <1>4, <1>5

\* What is accepted has been told a total up to b.
LEMMA FitsAccept ==
  ASSUME NEW b \in Nat, NEW s \in Nat, NEW x \in Nat,
         NEW D \in SUBSET Deal, IsFiniteSet(D), Deltas(D) <= s, Fits(b, s, D, x),
         NEW e \in D, e.total <= b
  PROVE  Fits(b, s, D \ {e}, x) /\ Deltas(D \ {e}) <= s
<1>1. e.delta \in Nat /\ Deltas(D) \in Nat /\ e.total \in Nat
  BY DeltasNat DEF Deal
<1>2. Deltas(D \ {e}) = Deltas(D) - e.delta /\ Deltas(D \ {e}) \in Nat
  BY DeltasDrop, DeltasSubset
<1>3. ASSUME NEW l \in Nat, l >= b
      PROVE  \/ (s - Deltas(D \ {e})) + Deltas({d \in D \ {e} : d.total <= l}) <= l
             \/ ({d \in D \ {e} : d.total <= l} = {} /\ s - Deltas(D \ {e}) <= x)
  <2> DEFINE F == {d \in D : d.total <= l}
             G == {d \in D \ {e} : d.total <= l}
  <2>1. F \in SUBSET D /\ IsFiniteSet(F) /\ F \in SUBSET Deal /\ e \in F /\ G = F \ {e}
    BY <1>1, <1>3, FS_Subset
  <2>2. (s - Deltas(D)) + Deltas(F) <= l
    BY <1>3, <2>1 DEF Fits
  <2> HIDE DEF F, G
  <2>3. Deltas(F) \in Nat /\ Deltas(G) = Deltas(F) - e.delta
    BY <2>1, DeltasDrop, DeltasNat
  <2>4. (s - Deltas(D \ {e})) + Deltas(G) <= l
    BY <1>1, <1>2, <2>2, <2>3
  <2> QED
    BY <2>4 DEF G
<1>4. Fits(b, s, D \ {e}, x)
  BY <1>3 DEF Fits
<1>5. Deltas(D \ {e}) <= s
  BY <1>1, <1>2
<1> QED
  BY <1>4, <1>5

LEMMA FitsMore ==
  ASSUME NEW b \in Nat, NEW c \in Nat, b <= c, NEW s, NEW D, NEW x, Fits(b, s, D, x)
  PROVE  Fits(c, s, D, x)
BY DEF Fits

\* With no reservation open, what is sold is bought.
LEMMA FitsEnd ==
  ASSUME NEW b \in Nat, NEW s \in Nat, NEW x \in Nat, Fits(b, s, {}, x)
  PROVE  s <= b \/ s <= x
BY DeltasEmpty DEF Fits

\* In any case what is sold for good is.
LEMMA FitsFirm ==
  ASSUME NEW b \in Nat, NEW s \in Nat, NEW x \in Nat,
         NEW D \in SUBSET Deal, IsFiniteSet(D), Fits(b, s, D, x)
  PROVE  s - Deltas(D) <= b \/ s - Deltas(D) <= x
<1> DEFINE F == {d \in D : d.total <= b}
<1>1. (s - Deltas(D)) + Deltas(F) <= b \/ s - Deltas(D) <= x
  BY DEF Fits
<1>2. F \in SUBSET D
  OBVIOUS
<1> HIDE DEF F
<1>3. Deltas(F) \in Nat /\ Deltas(D) \in Nat
  BY <1>2, DeltasSubset, DeltasNat
<1> QED
  BY <1>1, <1>3
-----------------------------------------------------------------------------
(* Attempts that are smaller than half a unit.                             *)

LEMMA SmallType == Small \subseteq Nat /\ \A x \in Small : x < Half
BY UnitEven DEF Small

LEMMA KeptReserve ==
  ASSUME NEW b \in Grid, b > 0, NEW s \in Nat, NEW x \in Nat, NEW y \in Small,
         NEW D, NEW E, Deltas(D) \in Nat, Deltas(E) \in Nat,
         Deltas(E) <= Deltas(D) + y, Kept(b, s, D, x)
  PROVE  Kept(b, Plus(s, y), E, x)
<1>1. b \in Nat /\ b >= Unit /\ Unit \in Nat /\ y \in Nat /\ Half \in Nat /\ Half <= Unit
  BY GridType, UnitEven, SmallType
<1>2. Unit \in Grid
  <2>1. Unit = Unit * 1
    BY <1>1
  <2> QED
    BY <2>1 DEF Grid
<1>3. CASE s \in Grid /\ s >= Unit
  <2>1. Plus(s, y) = s
    BY <1>3, SmallInGrid
  <2> QED
    BY <1>3, <2>1 DEF Kept
<1>4. CASE s \in Small /\ Deltas(D) <= s
  <2>1. CASE s + y \in Small /\ Plus(s, y) = s + y
    <3>1. s + y <= b /\ Deltas(E) <= s + y
      BY <1>1, <1>4, <2>1, SmallType
    <3> QED
      BY <2>1, <3>1 DEF Kept
  <2>2. CASE Plus(s, y) = Unit
    BY <1>1, <1>2, <2>2 DEF Kept
  <2> QED
    BY <1>4, <2>1, <2>2, SmallPlus
<1> QED
  BY <1>3, <1>4 DEF Kept

LEMMA KeptTakeBack ==
  ASSUME NEW b \in Nat, NEW s \in Nat, NEW x \in Nat,
         NEW D \in SUBSET Deal, IsFiniteSet(D), NEW e \in D, e.delta \in Small,
         Kept(b, s, D, x)
  PROVE  Kept(b, Minus(s, e.delta), D \ {e}, x) /\ Minus(s, e.delta) \in Nat
<1>1. e.delta \in Nat /\ Deltas(D) \in Nat /\ Deltas(D \ {e}) \in Nat
      /\ Deltas(D \ {e}) = Deltas(D) - e.delta
  BY DeltasDrop, DeltasNat, DeltasSubset DEF Deal
<1>2. CASE s \in Grid /\ s >= Unit
  <2>1. Minus(s, e.delta) = s
    BY <1>2, SmallInGrid
  <2> QED
    BY <1>2, <2>1 DEF Kept
<1>3. CASE s \in Small /\ Deltas(D) <= s
  <2>1. e.delta <= s
    BY <1>1, <1>3
  <2>2. Minus(s, e.delta) = s - e.delta /\ s - e.delta \in Small
    BY <1>1, <1>3, <2>1, SmallMinus
  <2>3. Deltas(D \ {e}) <= s - e.delta
    BY <1>1, <1>3
  <2> QED
    BY <1>1, <2>2, <2>3, <1>3, SmallType DEF Kept
<1> QED
  BY <1>2, <1>3 DEF Kept

LEMMA KeptLess ==
  ASSUME NEW b, NEW s \in Nat, NEW x, NEW D, NEW E, Deltas(D) \in Nat,
         Deltas(E) \in Nat, Deltas(E) <= Deltas(D), Kept(b, s, D, x)
  PROVE  Kept(b, s, E, x)
BY SmallType DEF Kept

\* The state after the trades on the host.
LEMMA KeptStart ==
  ASSUME NEW b, NEW s \in Grid, NEW x, s <= b \/ s <= x
  PROVE  Kept(b, s, {}, x)
BY GridType, DeltasEmpty, UnitEven DEF Kept, Small

LEMMA AtStartNat ==
  ASSUME NEW h \in Host, NEW v \in Node
  PROVE  /\ SoldAtStart(h, v) \in Grid /\ SoldAtStart(h, v) \in Nat
         /\ BoughtAtStart(h, v) \in Grid /\ BoughtAtStart(h, v) \in Nat
<1>1. ASSUME NEW T \in SUBSET Trade
      PROVE  Total(T) \in Nat
  <2>1. IsFiniteSet(T) /\ \A t \in T : Amount[t] \in Nat
    BY TradeAssumption, FS_Subset
  <2> QED
    BY <2>1, SumNat DEF Total
<1>2. SoldIn(Standing, v) \in Nat /\ BoughtIn(Standing, v) \in Nat
  BY <1>1 DEF SoldIn, BoughtIn, Standing
<1>3. SoldAtStart(h, v) \in Grid /\ BoughtAtStart(h, v) \in Grid
  BY <1>2, GridType DEF SoldAtStart, BoughtAtStart, Grid
<1> QED
  BY <1>3, GridType
-----------------------------------------------------------------------------
(* What does not change.                                                   *)

SameHost(g) ==
  /\ pc'[g] = pc[g]
  /\ sold'[g] = sold[g]
  /\ bought'[g] = bought[g]
  /\ deals'[g] = deals[g]
  /\ remote_edges'[g] = remote_edges[g]
  /\ incoming'[g] = incoming[g]
  /\ \A n \in Masters(g) : needed'[n] = needed[n] /\ left'[n] = left[n]

LEMMA KeepDeals ==
  ASSUME NEW h \in Host, InvDeals(h), deals'[h] = deals[h],
         \A n \in Masters(h) : needed'[n] = needed[n]
  PROVE  InvDeals(h)'
BY DEF InvDeals

LEMMA KeepProposals ==
  ASSUME NEW h \in Host, InvProposals(h), remote_edges'[h] = remote_edges[h]
  PROVE  InvProposals(h)'
BY DEF InvProposals

LEMMA KeepAsked ==
  ASSUME NEW h \in Host, InvAsked(h), remote_edges'[h] = remote_edges[h],
         deals'[h] = deals[h], \A n \in Masters(h) : left'[n] = left[n]
  PROVE  InvAsked(h)'
BY DEF InvAsked, Asked

LEMMA KeepExact ==
  ASSUME NEW h \in Host, InvExact(h), sold'[h] = sold[h], bought'[h] = bought[h],
         \A n \in Masters(h) : needed'[n] = needed[n]
  PROVE  InvExact(h)'
BY DEF InvExact

LEMMA SameOpen ==
  ASSUME NEW h \in Host, deals'[h] = deals[h], NEW v \in Node
  PROVE  OpenDeals(h, v)' = OpenDeals(h, v) /\ Reserved(h, v)' = Reserved(h, v)
BY DEF OpenDeals, Reserved

LEMMA KeepRace ==
  ASSUME NEW h \in Host, InvRace(h), sold'[h] = sold[h], bought'[h] = bought[h],
         \A v \in Node : OpenDeals(h, v)' = OpenDeals(h, v)
  PROVE  InvRace(h)'
<1>1. \A v \in Node : Reserved(h, v)' = Reserved(h, v)
  BY DEF Reserved
<1> QED
  BY <1>1 DEF InvRace

LEMMA KeepNeed ==
  ASSUME NEW h \in Host, InvNeed(h), bought'[h] = bought[h],
         remote_edges'[h] = remote_edges[h],
         \A n \in Masters(h) : needed'[n] = needed[n]
  PROVE  InvNeed(h)'
BY DEF InvNeed, NeedOf

LEMMA KeepBalance ==
  ASSUME NEW h \in Host, InvBalance(h), sold'[h] = sold[h], bought'[h] = bought[h],
         \A v \in Node : OpenDeals(h, v)' = OpenDeals(h, v)
  PROVE  InvBalance(h)'
<1>1. \A v \in Node : Reserved(h, v)' = Reserved(h, v)
  BY DEF Reserved
<1>2. \A v \in Masters(h) : Gain(h, v)' = Gain(h, v) /\ Sale(h, v)' = Sale(h, v)
  BY <1>1 DEF Gain, Sale, Masters
<1>3. [v \in Masters(h) |-> Gain(h, v)]' = [v \in Masters(h) |-> Gain(h, v)]
      /\ [v \in Masters(h) |-> Sale(h, v)]' = [v \in Masters(h) |-> Sale(h, v)]
  BY <1>2
<1> QED
  BY <1>3 DEF InvBalance

LEMMA KeepSent ==
  ASSUME NEW h \in Host, InvSent(h), SameHost(h)
  PROVE  InvSent(h)'
<1>1. \A v \in Node : OpenDeals(h, v)' = OpenDeals(h, v)
  BY SameOpen DEF SameHost
<1> QED
  BY <1>1 DEF InvSent, SameHost

LEMMA KeepHost ==
  ASSUME NEW h \in Host, InvHost(h), SameHost(h)
  PROVE  InvHost(h)'
<1>1. \A v \in Node : OpenDeals(h, v)' = OpenDeals(h, v)
  BY SameOpen DEF SameHost
<1>2. InvBuying(h) => InvBuying(h)'
  BY <1>1, KeepDeals, KeepProposals, KeepAsked, KeepExact, KeepRace, KeepNeed
     DEF InvBuying, SameHost
<1>3. InvBalance(h) => InvBalance(h)'
  BY <1>1, KeepBalance DEF SameHost
<1>4. InvSent(h) => InvSent(h)'
  BY KeepSent
<1>5. InvDone(h) => InvDone(h)'
  BY DEF InvDone, SameHost
<1> QED
  BY <1>2, <1>3, <1>4, <1>5 DEF InvHost, SameHost

LEMMA HostNodes ==
  ASSUME NEW h \in Host
  PROVE  /\ Masters(h) \subseteq Node /\ IsFiniteSet(Masters(h))
         /\ \A g \in Host \ {h} : Masters(g) \cap Masters(h) = {}
         /\ \A v \in Node : v \in Masters(Owner[v]) /\ Owner[v] \in Host
BY NodeAssumption, FS_Subset DEF Masters

\* A step of a host leaves the others alone.
LEMMA OtherHosts ==
  ASSUME TypeOK, NEW h \in Host, InvHost(h), HostStep(h), NEW g \in Host \ {h}
  PROVE  SameHost(g)
<1>1. Masters(g) \cap Masters(h) = {}
  BY HostNodes
<1>2. pc[h] = "quiesce" => \A d \in deals[h] : d.src \in Masters(h)
  BY DEF InvHost, InvBuying, InvDeals
<1>3. ASSUME NEW n \in Node, NEW t \in left[n], Look(h, n, t)
      PROVE  SameHost(g)
  BY <1>1, <1>3 DEF Look, TypeOK, SameHost, Masters
<1>4. ASSUME NEW d \in deals[h], Reserve(h, d)
      PROVE  SameHost(g)
  BY <1>4 DEF Reserve, TypeOK, SameHost
<1>5. ASSUME NEW d \in deals[h], TakeBack(h, d)
      PROVE  SameHost(g)
  BY <1>5 DEF TakeBack, Returned, TypeOK, SameHost
<1>6. ASSUME NEW d \in deals[h], Buy(h, d)
      PROVE  SameHost(g)
  <2>1. d.src \in Masters(h)
    BY <1>2, <1>6 DEF Buy
  <2> QED
    BY <1>1, <1>6, <2>1 DEF Buy, Accepted, TypeOK, SameHost, Masters
<1>7. ASSUME NEW d \in deals[h], Propose(h, d)
      PROVE  SameHost(g)
  <2>1. d.src \in Masters(h)
    BY <1>2, <1>7 DEF Propose
  <2> QED
    BY <1>1, <1>7, <2>1 DEF Propose, Accepted, TypeOK, SameHost, Masters
<1>8. ASSUME NEW d \in deals[h], Confirm(h, d)
      PROVE  SameHost(g)
  BY <1>8 DEF Confirm, Accepted, TypeOK, SameHost
<1>9. CASE SendOffers(h)
  BY <1>9 DEF SendOffers, Send, TypeOK, SameHost
<1>10. CASE RecvOffers(h)
  BY <1>10 DEF RecvOffers, Receive, TypeOK, SameHost
<1>11. ASSUME NEW o \in incoming[h], LookOffer(h, o)
       PROVE  SameHost(g)
  BY <1>11 DEF LookOffer, TypeOK, SameHost
<1>12. CASE SendAnswers(h)
  BY <1>12 DEF SendAnswers, Send, TypeOK, SameHost
<1>13. CASE RecvAnswers(h)
  BY <1>13 DEF RecvAnswers, Receive, TypeOK, SameHost
<1>14. ASSUME NEW o \in incoming[h], AddPurchaseEdge(h, o)
       PROVE  SameHost(g)
  BY <1>14 DEF AddPurchaseEdge, TypeOK, SameHost
<1>15. CASE EnterSync(h)
  BY <1>15 DEF EnterSync, TypeOK, SameHost
<1> QED
  BY <1>3, <1>4, <1>5, <1>6, <1>7, <1>8, <1>9, <1>10, <1>11, <1>12, <1>13,
     <1>14, <1>15 DEF HostStep, DealStep
-----------------------------------------------------------------------------
(* Reservations.                                                           *)

LEMMA Shape ==
  ASSUME TypeOK, NEW h \in Host, IsFiniteSet(deals[h]), NEW v \in Node
  PROVE  /\ OpenDeals(h, v) \in SUBSET Deal /\ IsFiniteSet(OpenDeals(h, v))
         /\ Reserved(h, v) = Deltas(OpenDeals(h, v)) /\ Reserved(h, v) \in Nat
         /\ sold[h][v] \in Nat /\ bought[h][v] \in Nat
<1>1. deals[h] \in SUBSET Deal /\ sold[h][v] \in Nat /\ bought[h][v] \in Nat
  BY DEF TypeOK
<1>2. OpenDeals(h, v) \in SUBSET deals[h]
  BY DEF OpenDeals
<1>3. OpenDeals(h, v) \in SUBSET Deal /\ IsFiniteSet(OpenDeals(h, v))
  BY <1>1, <1>2, FS_Subset
<1>4. Reserved(h, v) = Deltas(OpenDeals(h, v))
  BY DEF Reserved, Deltas
<1> QED
  BY <1>1, <1>3, <1>4, DeltasNat

\* Its threads are at one of the two places where they make attempts.
LEMMA DealPhase ==
  ASSUME TypeOK, NEW h \in Host, InvHost(h), NEW d \in deals[h]
  PROVE  pc[h] \in {"quiesce", "decide"}
BY DEF TypeOK, InvHost, InvSent, InvDone

LEMMA ReserveEffect ==
  ASSUME TypeOK, NEW h \in Host, NEW d \in deals[h], Reserve(h, d)
  PROVE  \E e \in Deal :
           /\ e.src = d.src /\ e.dst = d.dst /\ e.delta = d.delta /\ e.from = d.from
           /\ e.reserved /\ e # d /\ e.total = Plus(sold[h][d.dst], d.delta)
           /\ deals' = [deals EXCEPT ![h] = (deals[h] \ {d}) \cup {e}]
           /\ deals'[h] = (deals[h] \ {d}) \cup {e}
           /\ sold'[h] = [sold[h] EXCEPT ![d.dst] = Plus(sold[h][d.dst], d.delta)]
           /\ sold' \in [Host -> [Node -> Nat]]
           /\ OpenDeals(h, d.dst)' = OpenDeals(h, d.dst) \cup {e}
           /\ \A v \in Node \ {d.dst} : OpenDeals(h, v)' = OpenDeals(h, v)
<1> DEFINE u == Plus(sold[h][d.dst], d.delta)
           e == [d EXCEPT !.reserved = TRUE, !.total = u]
<1>1. d \in Deal /\ d.dst \in Node /\ d.delta \in Nat
  BY DEF TypeOK, Deal
<1>2. u \in Nat
  <2>1. sold[h][d.dst] + d.delta \in Int /\ sold[h][d.dst] + d.delta >= 0
    BY <1>1 DEF TypeOK
  <2> QED
    BY <2>1, RoundedSign DEF Plus
<1>3. /\ deals' = [deals EXCEPT ![h] = (deals[h] \ {d}) \cup {e}]
      /\ sold' = [sold EXCEPT ![h][d.dst] = u] /\ ~ d.reserved
  BY DEF Reserve
<1>4. /\ e \in Deal
      /\ e.src = d.src /\ e.dst = d.dst /\ e.delta = d.delta /\ e.from = d.from
      /\ e.reserved /\ e.total = u /\ e # d
  <2> HIDE DEF u
  <2> QED
    BY <1>1, <1>2, <1>3 DEF Deal
<1> HIDE DEF e, u
<1>5. deals'[h] = (deals[h] \ {d}) \cup {e}
  BY <1>3 DEF TypeOK
<1>6. sold'[h] = [sold[h] EXCEPT ![d.dst] = u] /\ sold' \in [Host -> [Node -> Nat]]
  BY <1>1, <1>2, <1>3 DEF TypeOK
<1>7. OpenDeals(h, d.dst)' = OpenDeals(h, d.dst) \cup {e}
  BY <1>3, <1>4, <1>5 DEF OpenDeals
<1>8. \A v \in Node \ {d.dst} : OpenDeals(h, v)' = OpenDeals(h, v)
  BY <1>3, <1>4, <1>5 DEF OpenDeals
<1> QED
  BY <1>3, <1>4, <1>5, <1>6, <1>7, <1>8 DEF u

LEMMA TakeBackEffect ==
  ASSUME TypeOK, NEW h \in Host, NEW d \in deals[h], TakeBack(h, d)
  PROVE  /\ deals'[h] = deals[h] \ {d}
         /\ d \in OpenDeals(h, d.dst) /\ d.dst \in Node
         /\ sold'[h] = [sold[h] EXCEPT ![d.dst] = Minus(sold[h][d.dst], d.delta)]
         /\ OpenDeals(h, d.dst)' = OpenDeals(h, d.dst) \ {d}
         /\ \A v \in Node \ {d.dst} : OpenDeals(h, v)' = OpenDeals(h, v)
<1>1. d \in Deal /\ d.dst \in Node /\ d.reserved
  BY DEF TypeOK, Deal, TakeBack
<1>2. deals'[h] = deals[h] \ {d}
  BY DEF TypeOK, TakeBack
<1>3. sold'[h] = [sold[h] EXCEPT ![d.dst] = Minus(sold[h][d.dst], d.delta)]
  BY DEF TypeOK, TakeBack, Returned
<1>4. OpenDeals(h, d.dst)' = OpenDeals(h, d.dst) \ {d}
  BY <1>2 DEF OpenDeals
<1>5. \A v \in Node \ {d.dst} : OpenDeals(h, v)' = OpenDeals(h, v)
  BY <1>2 DEF OpenDeals
<1> QED
  BY <1>1, <1>2, <1>3, <1>4, <1>5 DEF OpenDeals

LEMMA AcceptEffect ==
  ASSUME TypeOK, NEW h \in Host, NEW d \in deals[h], Accepted(h, d)
  PROVE  /\ deals'[h] = deals[h] \ {d}
         /\ d \in OpenDeals(h, d.dst) /\ d.dst \in Node /\ d.src \in Node
         /\ d.total <= bought[h][d.dst]
         /\ OpenDeals(h, d.dst)' = OpenDeals(h, d.dst) \ {d}
         /\ \A v \in Node \ {d.dst} : OpenDeals(h, v)' = OpenDeals(h, v)
<1>1. d \in Deal /\ d.dst \in Node /\ d.src \in Node /\ d.total \in Nat /\ d.reserved
  BY DEF TypeOK, Deal, Accepted
<1>2. deals'[h] = deals[h] \ {d}
  BY DEF TypeOK, Accepted
<1>3. d.total <= bought[h][d.dst]
  BY <1>1 DEF TypeOK, Accepted, Exceeds
<1>4. OpenDeals(h, d.dst)' = OpenDeals(h, d.dst) \ {d}
  BY <1>2 DEF OpenDeals
<1>5. \A v \in Node \ {d.dst} : OpenDeals(h, v)' = OpenDeals(h, v)
  BY <1>2 DEF OpenDeals
<1> QED
  BY <1>1, <1>2, <1>3, <1>4, <1>5 DEF OpenDeals

LEMMA ReserveBuying ==
  ASSUME TypeOK, NEW h \in Host, InvHost(h), pc[h] = "quiesce",
         NEW d \in deals[h], Reserve(h, d)
  PROVE  InvHost(h)'
<1> DEFINE v == d.dst
           D == OpenDeals(h, v)
           s == sold[h][v]
           b == bought[h][v]
           x == SoldAtStart(h, v)
<1>1. PICK e \in Deal :
           /\ e.src = d.src /\ e.dst = d.dst /\ e.delta = d.delta /\ e.from = d.from
           /\ e.reserved /\ e # d /\ e.total = Plus(sold[h][d.dst], d.delta)
           /\ deals' = [deals EXCEPT ![h] = (deals[h] \ {d}) \cup {e}]
           /\ deals'[h] = (deals[h] \ {d}) \cup {e}
           /\ sold'[h] = [sold[h] EXCEPT ![d.dst] = Plus(sold[h][d.dst], d.delta)]
           /\ sold' \in [Host -> [Node -> Nat]]
           /\ OpenDeals(h, d.dst)' = OpenDeals(h, d.dst) \cup {e}
           /\ \A w \in Node \ {d.dst} : OpenDeals(h, w)' = OpenDeals(h, w)
  <2> HIDE DEF v, D, s, b, x
  <2> QED
    BY ReserveEffect
<1>2. /\ pc'[h] = "quiesce" /\ bought' = bought /\ needed' = needed /\ left' = left
      /\ remote_edges' = remote_edges
  BY DEF Reserve
<1>3. /\ IsFiniteSet(deals[h]) /\ IsFiniteSet(remote_edges[h])
      /\ InvDeals(h) /\ InvProposals(h) /\ InvAsked(h) /\ InvExact(h) /\ InvRace(h)
      /\ InvNeed(h) /\ InvBalance(h)
  BY DEF InvHost, InvBuying
<1>4. /\ d \in Deal /\ v \in Node /\ d.delta \in Grid
      /\ s \in Grid /\ b \in Nat /\ s \in Nat /\ x \in Nat
  BY <1>3, GridType, AtStartNat DEF TypeOK, Deal, InvDeals, InvExact
<1>5. Plus(s, d.delta) = s + d.delta /\ s + d.delta \in Grid
  BY <1>4, GridPlus
<1>6. /\ D \in SUBSET Deal /\ IsFiniteSet(D) /\ e \in Deal \ D
      /\ Reserved(h, v) = Deltas(D)
  <2>1. e \notin D
    BY <1>1, <1>3 DEF OpenDeals, InvDeals
  <2> QED
    BY <1>1, <1>3, <1>4, <2>1, Shape
<1>7. sold'[h][v] = s + e.delta /\ \A w \in Node \ {v} : sold'[h][w] = sold[h][w]
  BY <1>1, <1>4, <1>5 DEF TypeOK
<1>8. /\ Reserved(h, v)' = Deltas(D \cup {e})
      /\ Deltas(D \cup {e}) = Deltas(D) + e.delta
      /\ Deltas(D) \in Nat /\ e.delta \in Nat
  <2>1. Reserved(h, v)' = Deltas(D \cup {e})
    <3> DEFINE E == D \cup {e}
    <3>1. OpenDeals(h, v)' = E
      BY <1>1
    <3> HIDE DEF E
    <3> QED
      BY <3>1 DEF Reserved, Deltas, E
  <2> QED
    BY <1>1, <1>4, <1>6, <2>1, DeltasAdd, DeltasNat DEF Deal
<1>9. \A w \in Node \ {v} : Reserved(h, w)' = Reserved(h, w)
  BY <1>1 DEF Reserved
<1>10. OpenDeals(h, v)' = D \cup {e}
  BY <1>1
<1>11. Deltas(D) <= s /\ Fits(b, s, D, x)
  BY <1>3, <1>4, <1>6 DEF InvRace
<1> HIDE DEF D, s, b, x
<1>12. Fits(b, s + e.delta, D \cup {e}, x) /\ Deltas(D \cup {e}) <= s + e.delta
  <2>1. e.total = s + e.delta
    BY <1>1, <1>5 DEF s
  <2> QED
    BY <1>4, <1>6, <1>11, <2>1, FitsReserve
<1>13. InvRace(h)'
  <2> SUFFICES ASSUME NEW w \in Node
               PROVE  /\ Reserved(h, w)' <= sold'[h][w]
                      /\ Fits(bought'[h][w], sold'[h][w], OpenDeals(h, w)', SoldAtStart(h, w))
    BY DEF InvRace
  <2>1. CASE w = v
    BY <1>2, <1>7, <1>8, <1>10, <1>12, <2>1 DEF b, x
  <2>2. CASE w # v
    <3>1. /\ Reserved(h, w) <= sold[h][w]
          /\ Fits(bought[h][w], sold[h][w], OpenDeals(h, w), SoldAtStart(h, w))
      BY <1>3 DEF InvRace
    <3> QED
      BY <1>1, <1>2, <1>7, <1>9, <2>2, <3>1
  <2> QED
    BY <2>1, <2>2
<1>14. InvDeals(h)'
  BY <1>1, <1>2, <1>3 DEF InvDeals
<1>15. InvAsked(h)'
  <2>1. \A n \in Masters(h) : Asked(h, n)' = Asked(h, n)
    BY <1>1, <1>2 DEF Asked
  <2>2. \A c \in deals'[h] : \E f \in deals[h] : c.src = f.src /\ c.dst = f.dst
    BY <1>1
  <2> QED
    BY <1>2, <1>3, <2>1, <2>2 DEF InvAsked
<1>16. InvExact(h)'
  BY <1>1, <1>2, <1>3, <1>4, <1>5, <1>7 DEF InvExact
<1>17. InvBalance(h)'
  <2>1. \A w \in Node : Gain(h, w)' = Gain(h, w) /\ Sale(h, w)' = Sale(h, w)
    <3>1. \A w \in Node : Gain(h, w)' = Gain(h, w)
      BY <1>2 DEF Gain
    <3>2. \A w \in Node \ {v} : Sale(h, w)' = Sale(h, w)
      BY <1>7, <1>9 DEF Sale
    <3>3. sold'[h][v] - Reserved(h, v)' = sold[h][v] - Reserved(h, v)
      BY <1>4, <1>6, <1>7, <1>8 DEF s
    <3>4. Sale(h, v)' = Sale(h, v)
      BY <3>3 DEF Sale
    <3> QED
      BY <3>1, <3>2, <3>4
  <2>2. [w \in Masters(h) |-> Gain(h, w)]' = [w \in Masters(h) |-> Gain(h, w)]
        /\ [w \in Masters(h) |-> Sale(h, w)]' = [w \in Masters(h) |-> Sale(h, w)]
    BY <2>1, HostNodes
  <2> QED
    BY <1>3, <2>2 DEF InvBalance
<1>18. IsFiniteSet(deals'[h]) /\ IsFiniteSet(remote_edges'[h])
  <2> DEFINE E == deals[h] \ {d}
  <2>1. IsFiniteSet(E)
    BY <1>3, FS_Subset
  <2>2. deals'[h] = E \cup {e}
    BY <1>1
  <2> HIDE DEF E
  <2> QED
    BY <1>2, <1>3, <2>1, <2>2, FS_AddElement
<1> QED
  BY <1>2, <1>3, <1>13, <1>14, <1>15, <1>16, <1>17, <1>18, KeepProposals, KeepNeed
     DEF InvHost, InvBuying

\* An attempt has ended.
LEMMA DealDropped ==
  ASSUME TypeOK, NEW h \in Host, IsFiniteSet(deals[h]), NEW d \in deals[h],
         NEW v \in Node, d \in OpenDeals(h, v),
         OpenDeals(h, v)' = OpenDeals(h, v) \ {d}
  PROVE  /\ d \in Deal /\ d.delta \in Nat /\ d.delta <= Reserved(h, v)
         /\ Reserved(h, v)' = Reserved(h, v) - d.delta
         /\ Reserved(h, v)' = Deltas(OpenDeals(h, v) \ {d})
         /\ Reserved(h, v)' \in Nat
<1> DEFINE D == OpenDeals(h, v)
           E == D \ {d}
<1>1. /\ D \in SUBSET Deal /\ IsFiniteSet(D) /\ Reserved(h, v) = Deltas(D)
      /\ Reserved(h, v) \in Nat
  BY Shape
<1>2. OpenDeals(h, v)' = E /\ d \in Deal /\ d.delta \in Nat /\ E \in SUBSET D
  BY DEF TypeOK, Deal
<1> HIDE DEF E
<1>3. Reserved(h, v)' = Deltas(E)
  BY <1>2 DEF Reserved, Deltas
<1>4. Deltas(E) = Deltas(D) - d.delta
  <2> HIDE DEF D
  <2>1. Deltas(D \ {d}) = Deltas(D) - d.delta
    <3>1. d \in D
      BY DEF D
    <3> QED
      BY <1>1, <3>1, DeltasDrop
  <2> QED
    BY <2>1 DEF E
<1>5. Deltas(E) \in Nat
  <2> HIDE DEF D
  <2> QED
    BY <1>1, <1>2, DeltasSubset
<1> QED
  BY <1>1, <1>2, <1>3, <1>4, <1>5 DEF E

LEMMA FewerDeals ==
  ASSUME NEW h \in Host, InvDeals(h), InvAsked(h), deals'[h] \subseteq deals[h],
         remote_edges'[h] = remote_edges[h],
         \A n \in Masters(h) : needed'[n] = needed[n] /\ left'[n] = left[n]
  PROVE  InvDeals(h)' /\ InvAsked(h)'
<1>1. InvDeals(h)'
  BY DEF InvDeals
<1>2. \A n \in Masters(h) : Asked(h, n)' \subseteq Asked(h, n)
  BY DEF Asked
<1>3. InvAsked(h)'
  BY <1>2 DEF InvAsked
<1> QED
  BY <1>1, <1>3

LEMMA TakeBackBuying ==
  ASSUME TypeOK, NEW h \in Host, InvHost(h), pc[h] = "quiesce",
         NEW d \in deals[h], TakeBack(h, d)
  PROVE  InvHost(h)'
<1> DEFINE v == d.dst
           D == OpenDeals(h, v)
           s == sold[h][v]
           b == bought[h][v]
           x == SoldAtStart(h, v)
<1>1. /\ deals'[h] = deals[h] \ {d}
      /\ d \in OpenDeals(h, d.dst) /\ d.dst \in Node
      /\ sold'[h] = [sold[h] EXCEPT ![d.dst] = Minus(sold[h][d.dst], d.delta)]
      /\ OpenDeals(h, d.dst)' = OpenDeals(h, d.dst) \ {d}
      /\ \A w \in Node \ {d.dst} : OpenDeals(h, w)' = OpenDeals(h, w)
  <2> HIDE DEF v, D, s, b, x
  <2> QED
    BY TakeBackEffect
<1>2. /\ pc'[h] = "quiesce" /\ bought' = bought /\ needed' = needed /\ left' = left
      /\ remote_edges' = remote_edges
  BY DEF TakeBack
<1>3. /\ IsFiniteSet(deals[h]) /\ IsFiniteSet(remote_edges[h])
      /\ InvDeals(h) /\ InvProposals(h) /\ InvAsked(h) /\ InvExact(h) /\ InvRace(h)
      /\ InvNeed(h) /\ InvBalance(h)
  BY DEF InvHost, InvBuying
<1>4. /\ d.delta \in Grid /\ s \in Grid /\ b \in Nat /\ s \in Nat /\ x \in Nat
  BY <1>1, <1>3, GridType, AtStartNat DEF TypeOK, InvDeals, InvExact
<1>5. /\ D \in SUBSET Deal /\ IsFiniteSet(D) /\ d \in D
      /\ Reserved(h, v) = Deltas(D) /\ Reserved(h, v) \in Nat
  BY <1>1, <1>3, Shape
<1>6. /\ d \in Deal /\ d.delta \in Nat /\ d.delta <= Reserved(h, v)
      /\ Reserved(h, v)' = Reserved(h, v) - d.delta
      /\ Reserved(h, v)' = Deltas(D \ {d})
  BY <1>1, <1>3, DealDropped
<1>7. \A w \in Node \ {v} : Reserved(h, w)' = Reserved(h, w)
  BY <1>1 DEF Reserved
<1>8. Deltas(D) <= s /\ Fits(b, s, D, x)
  BY <1>1, <1>3, <1>5 DEF InvRace
<1>9. /\ OpenDeals(h, v)' = D \ {d}
      /\ sold'[h][v] = Minus(s, d.delta)
      /\ \A w \in Node \ {v} : sold'[h][w] = sold[h][w]
  BY <1>1 DEF TypeOK
<1> HIDE DEF D, s, b, x
<1>10. /\ Fits(b, s - d.delta, D \ {d}, x)
       /\ Deltas(D \ {d}) <= s - d.delta
       /\ d.delta <= s
  BY <1>4, <1>5, <1>8, FitsTakeBack
<1>11. Minus(s, d.delta) = s - d.delta /\ s - d.delta \in Grid
  BY <1>4, <1>6, <1>10, GridMinus
<1>12. InvRace(h)'
  <2> SUFFICES ASSUME NEW w \in Node
               PROVE  /\ Reserved(h, w)' <= sold'[h][w]
                      /\ Fits(bought'[h][w], sold'[h][w], OpenDeals(h, w)', SoldAtStart(h, w))
    BY DEF InvRace
  <2>1. CASE w = v
    BY <1>2, <1>6, <1>9, <1>10, <1>11, <2>1 DEF b, x
  <2>2. CASE w # v
    <3>1. /\ Reserved(h, w) <= sold[h][w]
          /\ Fits(bought[h][w], sold[h][w], OpenDeals(h, w), SoldAtStart(h, w))
      BY <1>3 DEF InvRace
    <3> QED
      BY <1>1, <1>2, <1>7, <1>9, <2>2, <3>1
  <2> QED
    BY <2>1, <2>2
<1>13. InvDeals(h)' /\ InvAsked(h)'
  BY <1>1, <1>2, <1>3, FewerDeals
<1>14. InvExact(h)'
  BY <1>1, <1>2, <1>3, <1>9, <1>11 DEF InvExact
<1>15. InvBalance(h)'
  <2>1. \A w \in Node : Gain(h, w)' = Gain(h, w) /\ Sale(h, w)' = Sale(h, w)
    <3>1. \A w \in Node : Gain(h, w)' = Gain(h, w)
      BY <1>2 DEF Gain
    <3>2. \A w \in Node \ {v} : Sale(h, w)' = Sale(h, w)
      BY <1>7, <1>9 DEF Sale
    <3>3. sold'[h][v] - Reserved(h, v)' = s - Reserved(h, v)
      BY <1>4, <1>5, <1>6, <1>9, <1>11
    <3>4. Sale(h, v)' = Sale(h, v)
      BY <3>3 DEF Sale, s
    <3> QED
      BY <3>1, <3>2, <3>4
  <2>2. [w \in Masters(h) |-> Gain(h, w)]' = [w \in Masters(h) |-> Gain(h, w)]
        /\ [w \in Masters(h) |-> Sale(h, w)]' = [w \in Masters(h) |-> Sale(h, w)]
    BY <2>1, HostNodes
  <2> QED
    BY <1>3, <2>2 DEF InvBalance
<1>16. IsFiniteSet(deals'[h]) /\ IsFiniteSet(remote_edges'[h])
  BY <1>1, <1>2, <1>3, FS_Subset
<1> QED
  BY <1>2, <1>3, <1>12, <1>13, <1>14, <1>15, <1>16, KeepProposals, KeepNeed
     DEF InvHost, InvBuying

LEMMA ReserveDeciding ==
  ASSUME TypeOK, NEW h \in Host, InvHost(h), pc[h] = "decide",
         NEW d \in deals[h], Reserve(h, d)
  PROVE  InvHost(h)'
<1> DEFINE D == OpenDeals(h, d.dst)
           s == sold[h][d.dst]
           b == bought[h][d.dst]
           x == SoldAtStart(h, d.dst)
<1>1. PICK e \in Deal :
           /\ e.src = d.src /\ e.dst = d.dst /\ e.delta = d.delta /\ e.from = d.from
           /\ e.reserved /\ e # d /\ e.total = Plus(sold[h][d.dst], d.delta)
           /\ deals' = [deals EXCEPT ![h] = (deals[h] \ {d}) \cup {e}]
           /\ deals'[h] = (deals[h] \ {d}) \cup {e}
           /\ sold'[h] = [sold[h] EXCEPT ![d.dst] = Plus(sold[h][d.dst], d.delta)]
           /\ sold' \in [Host -> [Node -> Nat]]
           /\ OpenDeals(h, d.dst)' = OpenDeals(h, d.dst) \cup {e}
           /\ \A v \in Node \ {d.dst} : OpenDeals(h, v)' = OpenDeals(h, v)
  <2> HIDE DEF D, s, b, x
  <2> QED
    BY ReserveEffect
<1>2. /\ pc'[h] = "decide" /\ bought' = bought /\ remote_edges' = remote_edges
      /\ incoming' = incoming
  BY DEF Reserve
<1>3. IsFiniteSet(deals[h]) /\ IsFiniteSet(remote_edges[h]) /\ InvSent(h)
  BY DEF InvHost
<1>4. /\ d \in Deal /\ d.dst \in Node /\ d.delta \in Small /\ d.delta \in Nat
      /\ b \in Grid /\ b > 0 /\ s \in Nat /\ x \in Nat
      /\ Kept(b, s, D, x)
  BY <1>3, AtStartNat DEF TypeOK, Deal, InvSent
<1>5. D \in SUBSET Deal /\ IsFiniteSet(D) /\ Deltas(D) \in Nat
  BY <1>3, <1>4, Shape, DeltasNat
<1>6. Deltas(D \cup {e}) \in Nat /\ Deltas(D \cup {e}) <= Deltas(D) + d.delta
  <2> HIDE DEF D
  <2>1. CASE e \in D
    <3>1. D \cup {e} = D
      BY <2>1
    <3> QED
      BY <1>4, <1>5, <3>1
  <2>2. CASE e \notin D
    <3>1. Deltas(D \cup {e}) = Deltas(D) + e.delta
      BY <1>5, <2>2, DeltasAdd
    <3> QED
      BY <1>1, <1>4, <1>5, <3>1
  <2> QED
    BY <2>1, <2>2
<1>7. Kept(b, Plus(s, d.delta), D \cup {e}, x)
  <2> HIDE DEF D, s, b, x
  <2> QED
    BY <1>4, <1>5, <1>6, KeptReserve
<1>8. \A v \in Node :
        Kept(bought'[h][v], sold'[h][v], OpenDeals(h, v)', SoldAtStart(h, v))
  <2> SUFFICES ASSUME NEW v \in Node
               PROVE  Kept(bought'[h][v], sold'[h][v], OpenDeals(h, v)', SoldAtStart(h, v))
    OBVIOUS
  <2>1. CASE v = d.dst
    BY <1>1, <1>2, <1>7, <2>1 DEF TypeOK
  <2>2. CASE v # d.dst
    <3>1. sold'[h][v] = sold[h][v]
      BY <1>1, <2>2 DEF TypeOK
    <3>2. Kept(bought[h][v], sold[h][v], OpenDeals(h, v), SoldAtStart(h, v))
      BY <1>3 DEF InvSent
    <3> QED
      BY <1>1, <1>2, <2>2, <3>1, <3>2
  <2> QED
    BY <2>1, <2>2
<1>9. IsFiniteSet(deals'[h]) /\ IsFiniteSet(remote_edges'[h])
  <2> DEFINE E == deals[h] \ {d}
  <2>1. IsFiniteSet(E)
    BY <1>3, FS_Subset
  <2>2. deals'[h] = E \cup {e}
    BY <1>1
  <2> HIDE DEF E
  <2> QED
    BY <1>2, <1>3, <2>1, <2>2, FS_AddElement
<1>10. InvSent(h)'
  <2> HIDE DEF D, s, b, x
  <2>1. \A c \in deals'[h] : /\ c.src \notin Masters(h)
                             /\ c.delta \in Small
                             /\ bought'[h][c.dst] > 0
    BY <1>1, <1>2, <1>3 DEF InvSent
  <2> QED
    BY <1>2, <1>3, <1>8, <2>1 DEF InvSent
<1> QED
  BY <1>2, <1>9, <1>10 DEF InvHost

LEMMA TakeBackDeciding ==
  ASSUME TypeOK, NEW h \in Host, InvHost(h), pc[h] = "decide",
         NEW d \in deals[h], TakeBack(h, d)
  PROVE  InvHost(h)'
<1> DEFINE D == OpenDeals(h, d.dst)
           s == sold[h][d.dst]
           b == bought[h][d.dst]
           x == SoldAtStart(h, d.dst)
<1>1. /\ deals'[h] = deals[h] \ {d}
      /\ d \in OpenDeals(h, d.dst) /\ d.dst \in Node
      /\ sold'[h] = [sold[h] EXCEPT ![d.dst] = Minus(sold[h][d.dst], d.delta)]
      /\ OpenDeals(h, d.dst)' = OpenDeals(h, d.dst) \ {d}
      /\ \A v \in Node \ {d.dst} : OpenDeals(h, v)' = OpenDeals(h, v)
  <2> HIDE DEF D, s, b, x
  <2> QED
    BY TakeBackEffect
<1>2. /\ pc'[h] = "decide" /\ bought' = bought /\ remote_edges' = remote_edges
      /\ incoming' = incoming
  BY DEF TakeBack
<1>3. IsFiniteSet(deals[h]) /\ IsFiniteSet(remote_edges[h]) /\ InvSent(h)
  BY DEF InvHost
<1>4. /\ d.delta \in Small /\ b \in Nat /\ s \in Nat /\ x \in Nat
      /\ Kept(b, s, D, x) /\ d \in D
  BY <1>1, <1>3, AtStartNat DEF TypeOK, Deal, InvSent
<1>5. D \in SUBSET Deal /\ IsFiniteSet(D)
  BY <1>1, <1>3, Shape
<1>6. Kept(b, Minus(s, d.delta), D \ {d}, x)
  <2> HIDE DEF D, s, b, x
  <2> QED
    BY <1>4, <1>5, KeptTakeBack
<1>7. \A v \in Node :
        Kept(bought'[h][v], sold'[h][v], OpenDeals(h, v)', SoldAtStart(h, v))
  <2> SUFFICES ASSUME NEW v \in Node
               PROVE  Kept(bought'[h][v], sold'[h][v], OpenDeals(h, v)', SoldAtStart(h, v))
    OBVIOUS
  <2>1. CASE v = d.dst
    BY <1>1, <1>2, <1>6, <2>1 DEF TypeOK
  <2>2. CASE v # d.dst
    <3>1. sold'[h][v] = sold[h][v]
      BY <1>1, <2>2 DEF TypeOK
    <3>2. Kept(bought[h][v], sold[h][v], OpenDeals(h, v), SoldAtStart(h, v))
      BY <1>3 DEF InvSent
    <3> QED
      BY <1>1, <1>2, <2>2, <3>1, <3>2
  <2> QED
    BY <2>1, <2>2
<1>8. IsFiniteSet(deals'[h]) /\ IsFiniteSet(remote_edges'[h])
  BY <1>1, <1>2, <1>3, FS_Subset
<1>9. InvSent(h)'
  BY <1>1, <1>2, <1>3, <1>7 DEF InvSent
<1> QED
  BY <1>2, <1>8, <1>9 DEF InvHost
-----------------------------------------------------------------------------
(* Attempts.                                                               *)

LEMMA AttemptedEffect ==
  ASSUME TypeOK, NEW h \in Host, IsFiniteSet(deals[h]), NEW n \in Node, NEW v \in Node,
         NEW w \in Nat, NEW g \in Host,
         deals' = [deals EXCEPT ![h] = Attempted(h, n, v, w, g)]
  PROVE  /\ \/ deals'[h] = deals[h]
            \/ \E e \in Deal :
                 /\ e.src = n /\ e.dst = v /\ e.from = g /\ ~ e.reserved
                 /\ e.delta > 0 /\ e.delta <= w
                 /\ e.delta = w \/ e.delta = Surplus(h, v)
                 /\ bought[h][v] > sold[h][v]
                 /\ deals'[h] = deals[h] \cup {e}
         /\ deals' \in [Host -> SUBSET Deal]
         /\ IsFiniteSet(deals'[h])
         /\ \A c \in deals'[h] : c \in deals[h] \/ c.delta > 0
         /\ \A u \in Node : OpenDeals(h, u)' = OpenDeals(h, u)
<1> DEFINE a == TradeDelta(h, v, w)
           e == [src |-> n, dst |-> v, delta |-> a, from |-> g,
                 reserved |-> FALSE, total |-> 0]
<1>1. deals'[h] = Attempted(h, n, v, w, g)
  BY DEF TypeOK
<1>2. bought[h][v] \in Nat /\ sold[h][v] \in Nat
  BY DEF TypeOK
<1>3. /\ Surplus(h, v) \in Int
      /\ Surplus(h, v) > 0 => bought[h][v] > sold[h][v]
  <2>1. bought[h][v] - sold[h][v] \in Int
    BY <1>2
  <2>2. Surplus(h, v) = Rounded(bought[h][v] - sold[h][v])
    BY DEF Surplus, Minus
  <2> QED
    BY <1>2, <2>1, <2>2, RoundedSign
<1>4. /\ a \in Int /\ a <= w /\ a <= Surplus(h, v) /\ (a = w \/ a = Surplus(h, v))
  <2> HIDE DEF Surplus
  <2> QED
    BY <1>3 DEF TradeDelta, Least
<1>5. CASE a <= 0
  <2>1. deals'[h] = deals[h]
    BY <1>1, <1>5 DEF Attempted
  <2>2. deals' = deals
    BY <1>1, <2>1 DEF TypeOK
  <2> QED
    BY <2>1, <2>2 DEF TypeOK, OpenDeals
<1>6. CASE ~ (a <= 0)
  <2>1. deals'[h] = deals[h] \cup {e}
    BY <1>1, <1>6 DEF Attempted
  <2> HIDE DEF a
  <2>2. /\ e \in Deal
        /\ e.src = n /\ e.dst = v /\ e.from = g /\ ~ e.reserved /\ e.delta = a
    BY <1>4, <1>6 DEF Deal
  <2> HIDE DEF e
  <2>3. e.delta > 0 /\ e.delta <= w /\ (e.delta = w \/ e.delta = Surplus(h, v))
        /\ bought[h][v] > sold[h][v]
    BY <1>3, <1>4, <1>6, <2>2
  <2>4. deals' \in [Host -> SUBSET Deal]
    <3>1. deals' = [deals EXCEPT ![h] = deals[h] \cup {e}]
      BY <2>1, <1>1
    <3> QED
      BY <2>2, <3>1 DEF TypeOK
  <2>5. IsFiniteSet(deals'[h])
    BY <2>1, FS_AddElement
  <2>6. \A u \in Node : OpenDeals(h, u)' = OpenDeals(h, u)
    BY <2>1, <2>2 DEF OpenDeals
  <2> QED
    BY <2>1, <2>2, <2>3, <2>4, <2>5, <2>6
<1> QED
  BY <1>4, <1>5, <1>6

LEMMA LookHost ==
  ASSUME TypeOK, NEW h \in Host, InvHost(h), NEW n \in Node, NEW t \in left[n],
         Look(h, n, t)
  PROVE  InvHost(h)'
<1>1. /\ pc[h] = "quiesce" /\ n \in Masters(h) /\ needed[n] > 0 /\ ~ Buying(h, n)
      /\ left' = [left EXCEPT ![n] = left[n] \ {t}]
      /\ deals' = [deals EXCEPT ![h] = Attempted(h, n, Seller[t], needed[n], h)]
      /\ pc' = pc /\ sold' = sold /\ bought' = bought /\ needed' = needed
      /\ remote_edges' = remote_edges
  BY DEF Look
<1>2. /\ IsFiniteSet(deals[h]) /\ IsFiniteSet(remote_edges[h])
      /\ InvDeals(h) /\ InvProposals(h) /\ InvAsked(h) /\ InvExact(h) /\ InvRace(h)
      /\ InvNeed(h) /\ InvBalance(h)
  BY <1>1 DEF InvHost, InvBuying
<1>3. t \in Trade /\ Seller[t] \in Node /\ needed[n] \in Nat /\ Buyer[t] = n
  BY <1>1, <1>2, TradeAssumption DEF TypeOK, InvAsked
<1>4. /\ \/ deals'[h] = deals[h]
         \/ \E e \in Deal :
              /\ e.src = n /\ e.dst = Seller[t] /\ e.from = h /\ ~ e.reserved
              /\ e.delta > 0 /\ e.delta <= needed[n]
              /\ e.delta = needed[n] \/ e.delta = Surplus(h, Seller[t])
              /\ bought[h][Seller[t]] > sold[h][Seller[t]]
              /\ deals'[h] = deals[h] \cup {e}
      /\ deals' \in [Host -> SUBSET Deal]
      /\ IsFiniteSet(deals'[h])
      /\ \A c \in deals'[h] : c \in deals[h] \/ c.delta > 0
      /\ \A v \in Node : OpenDeals(h, v)' = OpenDeals(h, v)
  <2> DEFINE v == Seller[t]
             w == needed[n]
  <2>1. v \in Node /\ w \in Nat
    BY <1>3
  <2>2. deals' = [deals EXCEPT ![h] = Attempted(h, n, v, w, h)]
    BY <1>1
  <2> SUFFICES
      /\ \/ deals'[h] = deals[h]
         \/ \E e \in Deal :
              /\ e.src = n /\ e.dst = v /\ e.from = h /\ ~ e.reserved
              /\ e.delta > 0 /\ e.delta <= w
              /\ e.delta = w \/ e.delta = Surplus(h, v)
              /\ bought[h][v] > sold[h][v]
              /\ deals'[h] = deals[h] \cup {e}
      /\ deals' \in [Host -> SUBSET Deal]
      /\ IsFiniteSet(deals'[h])
      /\ \A c \in deals'[h] : c \in deals[h] \/ c.delta > 0
      /\ \A u \in Node : OpenDeals(h, u)' = OpenDeals(h, u)
    OBVIOUS
  <2> HIDE DEF v, w
  <2> QED
    BY <1>2, <2>1, <2>2, AttemptedEffect
<1>5. InvDeals(h)' /\ InvAsked(h)'
  <2>1. CASE deals'[h] = deals[h]
    <3>1. InvDeals(h)'
      BY <1>1, <1>2, <2>1, KeepDeals
    <3>2. \A m \in Masters(h) : Asked(h, m)' = Asked(h, m) /\ left'[m] \subseteq left[m]
      BY <1>1, <2>1 DEF Asked, TypeOK, Masters
    <3>3. InvAsked(h)'
      BY <1>1, <1>2, <2>1, <3>2 DEF InvAsked
    <3> QED
      BY <3>1, <3>3
  <2>2. ASSUME NEW e \in Deal,
              /\ e.src = n /\ e.dst = Seller[t] /\ e.from = h /\ ~ e.reserved
              /\ e.delta > 0 /\ e.delta <= needed[n]
              /\ e.delta = needed[n] \/ e.delta = Surplus(h, Seller[t])
              /\ bought[h][Seller[t]] > sold[h][Seller[t]]
              /\ deals'[h] = deals[h] \cup {e}
        PROVE  InvDeals(h)' /\ InvAsked(h)'
    <3>1. e.delta \in Grid
      <4>1. bought[h][Seller[t]] \in Grid /\ sold[h][Seller[t]] \in Grid /\ needed[n] \in Grid
        BY <1>1, <1>2, <1>3 DEF InvExact
      <4>2. /\ Surplus(h, Seller[t]) = bought[h][Seller[t]] - sold[h][Seller[t]]
            /\ bought[h][Seller[t]] - sold[h][Seller[t]] >= 0 =>
                 bought[h][Seller[t]] - sold[h][Seller[t]] \in Grid
        BY <4>1, GridMinus DEF Surplus
      <4>3. bought[h][Seller[t]] - sold[h][Seller[t]] >= 0
        <5>1. bought[h][Seller[t]] \in Nat /\ sold[h][Seller[t]] \in Nat
          BY <4>1, GridType
        <5> QED
          BY <2>2, <5>1
      <4> QED
        BY <2>2, <4>1, <4>2, <4>3
    <3>2. InvDeals(h)'
      <4>1. \A d \in deals[h] : d.src # n
        BY <1>1 DEF Buying
      <4>2. /\ \A d \in deals[h] : d.src \in Masters(h) /\ d.delta \in Grid
                                   /\ d.delta <= needed[d.src]
            /\ \A d, f \in deals[h] : d.src = f.src => d = f
        BY <1>2 DEF InvDeals
      <4>3. \A d \in deals'[h] : d.src \in Masters(h) /\ d.delta \in Grid
                                 /\ d.delta <= needed[d.src]
        BY <1>1, <2>2, <3>1, <4>2
      <4>4. \A d, f \in deals'[h] : d.src = f.src => d = f
        BY <2>2, <4>1, <4>2
      <4> QED
        BY <1>1, <4>3, <4>4 DEF InvDeals
    <3>3. InvAsked(h)'
      <4> SUFFICES ASSUME NEW m \in Masters(h)
                   PROVE  /\ \A u \in left'[m] : Buyer[u] = m
                          /\ OneTradeEach(m) =>
                               /\ \A u \in left'[m] : Seller[u] \notin Asked(h, m)'
                               /\ \A d \in deals'[h] : \A f \in remote_edges'[h] :
                                    ~ (d.src = m /\ f.src = m /\ d.dst = f.dst)
        BY DEF InvAsked
      <4>1. /\ \A u \in left[m] : Buyer[u] = m
            /\ OneTradeEach(m) =>
                 /\ \A u \in left[m] : Seller[u] \notin Asked(h, m)
                 /\ \A d \in deals[h] : \A f \in remote_edges[h] :
                      ~ (d.src = m /\ f.src = m /\ d.dst = f.dst)
        BY <1>2 DEF InvAsked
      <4>2. m \in Node /\ left[m] \subseteq Trade
        BY DEF TypeOK, Masters
      <4>3. left'[m] = IF m = n THEN left[n] \ {t} ELSE left[m]
        BY <1>1, <4>2 DEF TypeOK
      <4>4. Asked(h, m)' \subseteq (IF m = n THEN Asked(h, n) \cup {Seller[t]} ELSE Asked(h, m))
        BY <1>1, <2>2 DEF Asked
      <4>5. CASE m = n
        <5>1. OneTradeEach(n) => \A u \in left[n] \ {t} : Seller[u] # Seller[t]
          BY <4>1, <4>2, <4>5, <1>3 DEF OneTradeEach
        <5>2. OneTradeEach(n) => \A u \in left'[n] : Seller[u] \notin Asked(h, n)'
          BY <4>1, <4>3, <4>4, <4>5, <5>1
        <5>3. OneTradeEach(n) => \A f \in remote_edges[h] : ~ (f.src = n /\ f.dst = Seller[t])
          BY <4>1, <4>5 DEF Asked
        <5> QED
          BY <1>1, <2>2, <4>1, <4>3, <4>5, <5>2, <5>3
      <4>6. CASE m # n
        BY <1>1, <2>2, <4>1, <4>3, <4>4, <4>6
      <4> QED
        BY <4>5, <4>6
    <3> QED
      BY <3>2, <3>3
  <2> QED
    BY <1>4, <2>1, <2>2
<1>6. InvProposals(h)' /\ InvExact(h)' /\ InvRace(h)' /\ InvNeed(h)' /\ InvBalance(h)'
  BY <1>1, <1>2, <1>4, KeepProposals, KeepExact, KeepRace, KeepNeed, KeepBalance
<1> QED
  BY <1>1, <1>2, <1>4, <1>5, <1>6 DEF InvHost, InvBuying
-----------------------------------------------------------------------------
(* Trades on a host, and proposals.                                        *)

\* What an accepted attempt leaves of the race and of the sales.
LEMMA AcceptRace ==
  ASSUME TypeOK, NEW h \in Host, IsFiniteSet(deals[h]), InvRace(h),
         NEW d \in deals[h], Accepted(h, d), sold' = sold,
         bought' \in [Host -> [Node -> Nat]],
         \A v \in Node : bought[h][v] <= bought'[h][v]
  PROVE  /\ InvRace(h)'
         /\ Sale(h, d.dst)' = Sale(h, d.dst) + d.delta
         /\ \A v \in Node \ {d.dst} : Sale(h, v)' = Sale(h, v)
<1> DEFINE D == OpenDeals(h, d.dst)
           s == sold[h][d.dst]
           b == bought[h][d.dst]
           x == SoldAtStart(h, d.dst)
<1>1. /\ deals'[h] = deals[h] \ {d}
      /\ d \in OpenDeals(h, d.dst) /\ d.dst \in Node /\ d.src \in Node
      /\ d.total <= bought[h][d.dst]
      /\ OpenDeals(h, d.dst)' = OpenDeals(h, d.dst) \ {d}
      /\ \A v \in Node \ {d.dst} : OpenDeals(h, v)' = OpenDeals(h, v)
  <2> HIDE DEF D, s, b, x
  <2> QED
    BY AcceptEffect
<1>2. /\ D \in SUBSET Deal /\ IsFiniteSet(D) /\ d \in D
      /\ Reserved(h, d.dst) = Deltas(D) /\ Reserved(h, d.dst) \in Nat
      /\ s \in Nat /\ b \in Nat /\ x \in Nat
  BY <1>1, Shape, AtStartNat
<1>3. /\ d \in Deal /\ d.delta \in Nat /\ d.delta <= Reserved(h, d.dst)
      /\ Reserved(h, d.dst)' = Reserved(h, d.dst) - d.delta
      /\ Reserved(h, d.dst)' = Deltas(D \ {d})
      /\ Reserved(h, d.dst)' \in Nat
  BY <1>1, DealDropped
<1>4. Deltas(D) <= s /\ Fits(b, s, D, x)
  BY <1>1, <1>2 DEF InvRace
<1>5. \A v \in Node \ {d.dst} : Reserved(h, v)' = Reserved(h, v)
  BY <1>1 DEF Reserved
<1>6. OpenDeals(h, d.dst)' = D \ {d}
  BY <1>1
<1> HIDE DEF D, s, b, x
<1>7. Fits(b, s, D \ {d}, x) /\ Deltas(D \ {d}) <= s
  <2>1. d.total <= b
    BY <1>1 DEF b
  <2> QED
    BY <1>2, <1>4, <2>1, FitsAccept
<1>8. \A v \in Node : /\ Reserved(h, v)' <= sold[h][v]
                      /\ Fits(bought[h][v], sold[h][v], OpenDeals(h, v)', SoldAtStart(h, v))
  <2> SUFFICES ASSUME NEW v \in Node
               PROVE  /\ Reserved(h, v)' <= sold[h][v]
                      /\ Fits(bought[h][v], sold[h][v], OpenDeals(h, v)', SoldAtStart(h, v))
    OBVIOUS
  <2>1. CASE v = d.dst
    BY <1>3, <1>6, <1>7, <2>1 DEF s, b, x
  <2>2. CASE v # d.dst
    BY <1>1, <1>5, <2>2 DEF InvRace
  <2> QED
    BY <2>1, <2>2
<1>9. InvRace(h)'
  <2> SUFFICES ASSUME NEW v \in Node
               PROVE  /\ Reserved(h, v)' <= sold'[h][v]
                      /\ Fits(bought'[h][v], sold'[h][v], OpenDeals(h, v)', SoldAtStart(h, v))
    BY DEF InvRace
  <2>1. bought[h][v] \in Nat /\ bought'[h][v] \in Nat /\ bought[h][v] <= bought'[h][v]
    BY DEF TypeOK
  <2>2. Fits(bought[h][v], sold[h][v], OpenDeals(h, v)', SoldAtStart(h, v))
    BY <1>8
  <2> DEFINE F == OpenDeals(h, v)'
  <2> HIDE DEF F
  <2>3. Fits(bought'[h][v], sold[h][v], F, SoldAtStart(h, v))
    <3>1. Fits(bought[h][v], sold[h][v], F, SoldAtStart(h, v))
      BY <2>2 DEF F
    <3> DEFINE c == bought'[h][v]
    <3>2. c \in Nat /\ bought[h][v] <= c
      BY <2>1
    <3> HIDE DEF c
    <3>3. Fits(c, sold[h][v], F, SoldAtStart(h, v))
      BY <2>1, <3>1, <3>2, FitsMore
    <3> QED
      BY <3>3 DEF c
  <2> QED
    BY <1>8, <2>3 DEF F
<1>10. Sale(h, d.dst)' = Sale(h, d.dst) + d.delta
  <2>1. (s - Reserved(h, d.dst)') - x = ((s - Reserved(h, d.dst)) - x) + d.delta
    BY <1>2, <1>3
  <2> QED
    BY <2>1 DEF Sale, s, x
<1>11. \A v \in Node \ {d.dst} : Sale(h, v)' = Sale(h, v)
  BY <1>5 DEF Sale
<1> QED
  BY <1>9, <1>10, <1>11

LEMMA BalanceType ==
  ASSUME TypeOK, NEW h \in Host, IsFiniteSet(deals[h]), NEW v \in Node
  PROVE  Gain(h, v) \in Int /\ Sale(h, v) \in Int
<1>1. /\ Reserved(h, v) \in Nat /\ sold[h][v] \in Nat /\ bought[h][v] \in Nat
      /\ SoldAtStart(h, v) \in Nat /\ BoughtAtStart(h, v) \in Nat
  BY Shape, AtStartNat
<1> QED
  BY <1>1 DEF Gain, Sale

LEMMA BothMore ==
  ASSUME NEW S, IsFiniteSet(S), NEW f \in [S -> Int], NEW g \in [S -> Int],
         NEW f2 \in [S -> Int], NEW g2 \in [S -> Int], NEW a \in S, NEW b \in S, NEW y \in Int,
         SumFunctionOnSet(f, S) = SumFunctionOnSet(g, S),
         f2[a] = f[a] + y, \A v \in S \ {a} : f2[v] = f[v],
         g2[b] = g[b] + y, \A v \in S \ {b} : g2[v] = g[v]
  PROVE  SumFunctionOnSet(f2, S) = SumFunctionOnSet(g2, S)
<1>1. SumFunctionOnSet(f2, S) = SumFunctionOnSet(f, S) - f[a] + f2[a]
  BY SumUpdate
<1>2. SumFunctionOnSet(g2, S) = SumFunctionOnSet(g, S) - g[b] + g2[b]
  BY SumUpdate
<1>3. SumFunctionOnSet(f, S) \in Int /\ f[a] \in Int /\ g[b] \in Int
  BY SumInt
<1> QED
  BY <1>1, <1>2, <1>3

LEMMA BuyHost ==
  ASSUME TypeOK, TypeOK', NEW h \in Host, InvHost(h), NEW d \in deals[h], Buy(h, d)
  PROVE  InvHost(h)'
<1> DEFINE n == d.src
           b == bought[h][n]
           w == needed[n]
<1>1. /\ pc[h] = "quiesce" /\ Accepted(h, d) /\ d.dst \in Masters(h)
      /\ bought' = [bought EXCEPT ![h][n] = Plus(b, d.delta)]
      /\ needed' = [needed EXCEPT ![n] = Minus(w, d.delta)]
      /\ pc' = pc /\ sold' = sold /\ left' = left /\ remote_edges' = remote_edges
  BY DEF Buy, StillNeeded
<1>2. /\ IsFiniteSet(deals[h]) /\ IsFiniteSet(remote_edges[h])
      /\ InvDeals(h) /\ InvProposals(h) /\ InvAsked(h) /\ InvExact(h) /\ InvRace(h)
      /\ InvNeed(h) /\ InvBalance(h)
  BY <1>1 DEF InvHost, InvBuying
<1>3. deals'[h] = deals[h] \ {d}
  <2> HIDE DEF n, b, w
  <2> QED
    BY <1>1, AcceptEffect
<1>4. /\ n \in Masters(h) /\ n \in Node /\ d.delta \in Grid /\ d.delta <= w
      /\ \A c \in deals'[h] : c.src # n
  BY <1>2, <1>3, HostNodes DEF InvDeals
<1>5. b \in Grid /\ w \in Grid /\ b \in Nat /\ w \in Nat /\ d.delta \in Nat
  BY <1>2, <1>4, GridType DEF InvExact
<1>6. Plus(b, d.delta) = b + d.delta /\ b + d.delta \in Grid
  BY <1>4, <1>5, GridPlus
<1>7. Minus(w, d.delta) = w - d.delta /\ w - d.delta \in Grid
  <2>1. w - d.delta >= 0
    BY <1>4, <1>5
  <2> QED
    BY <1>4, <1>5, <2>1, GridMinus
<1>8. /\ bought'[h][n] = b + d.delta
      /\ \A v \in Node \ {n} : bought'[h][v] = bought[h][v]
      /\ needed'[n] = w - d.delta
      /\ \A v \in Node \ {n} : needed'[v] = needed[v]
  BY <1>1, <1>4, <1>6, <1>7 DEF TypeOK
<1>9. /\ InvRace(h)'
      /\ Sale(h, d.dst)' = Sale(h, d.dst) + d.delta
      /\ \A v \in Node \ {d.dst} : Sale(h, v)' = Sale(h, v)
  <2>1. \A v \in Node : bought[h][v] <= bought'[h][v]
    <3>1. bought[h][n] <= bought'[h][n]
      BY <1>5, <1>8
    <3>2. \A v \in Node : bought[h][v] \in Nat
      BY DEF TypeOK
    <3> QED
      BY <1>8, <3>1, <3>2
  <2>2. bought' \in [Host -> [Node -> Nat]]
    BY DEF TypeOK
  <2> HIDE DEF n, b, w
  <2> QED
    BY <1>1, <1>2, <2>1, <2>2, AcceptRace
<1>10. IsFiniteSet(deals'[h]) /\ IsFiniteSet(remote_edges'[h])
  BY <1>1, <1>2, <1>3, FS_Subset
<1>11. InvDeals(h)'
  <2>1. \A c \in deals'[h] : needed'[c.src] = needed[c.src]
    BY <1>2, <1>3, <1>4, <1>8, HostNodes DEF InvDeals
  <2> QED
    BY <1>2, <1>3, <2>1 DEF InvDeals
<1>12. InvAsked(h)'
  <2>1. \A m \in Masters(h) : Asked(h, m)' \subseteq Asked(h, m)
    BY <1>1, <1>3 DEF Asked
  <2> QED
    BY <1>1, <1>2, <1>3, <2>1 DEF InvAsked
<1>13. InvExact(h)'
  <2>1. \A v \in Node : sold'[h][v] \in Grid /\ bought'[h][v] \in Grid
    BY <1>1, <1>2, <1>6, <1>8 DEF InvExact
  <2>2. \A m \in Masters(h) : needed'[m] \in Grid
    BY <1>2, <1>7, <1>8, HostNodes DEF InvExact
  <2> QED
    BY <2>1, <2>2 DEF InvExact
<1>14. InvNeed(h)'
  <2> SUFFICES ASSUME NEW m \in Masters(h)
               PROVE  NeedOf(h, m)' = NeedOf(h, m)
    BY <1>2 DEF InvNeed
  <2> DEFINE W == Weights({e \in remote_edges[h] : e.src = m})
  <2>1. W \in Nat
    <3> DEFINE S == {e \in remote_edges[h] : e.src = m}
    <3>1. S \in SUBSET ProposedEdge /\ IsFiniteSet(S)
      <4>1. remote_edges[h] \in SUBSET ProposedEdge
        BY DEF TypeOK
      <4> QED
        BY <1>2, <4>1, FS_Subset
    <3> HIDE DEF S
    <3> QED
      BY <3>1, WeightsNat DEF S
  <2>2. NeedOf(h, m) = bought[h][m] + needed[m] + W
        /\ NeedOf(h, m)' = bought'[h][m] + needed'[m] + W
    BY <1>1 DEF NeedOf
  <2> HIDE DEF W
  <2>3. m \in Node /\ bought[h][m] \in Nat /\ needed[m] \in Nat
    BY HostNodes DEF TypeOK
  <2>4. bought'[h][m] + needed'[m] = bought[h][m] + needed[m]
    <3>1. CASE m = n
      BY <1>5, <1>8, <3>1
    <3>2. CASE m # n
      BY <1>8, <2>3, <3>2
    <3> QED
      BY <3>1, <3>2
  <2> QED
    BY <2>2, <2>4
<1>15. InvBalance(h)'
  <2> DEFINE S == Masters(h)
             f == [v \in S |-> Gain(h, v)]
             g == [v \in S |-> Sale(h, v)]
             f2 == [v \in S |-> Gain(h, v)']
             g2 == [v \in S |-> Sale(h, v)']
  <2>1. SumFunctionOnSet(f, S) = SumFunctionOnSet(g, S)
    BY <1>2 DEF InvBalance
  <2>4. Gain(h, n)' = Gain(h, n) + d.delta /\ \A v \in Node \ {n} : Gain(h, v)' = Gain(h, v)
    <3>1. (b + d.delta) - BoughtAtStart(h, n) = (b - BoughtAtStart(h, n)) + d.delta
      BY <1>4, <1>5, AtStartNat
    <3> QED
      BY <1>8, <3>1 DEF Gain
  <2>2. f \in [S -> Int] /\ g \in [S -> Int] /\ f2 \in [S -> Int] /\ g2 \in [S -> Int]
    <3>1. \A v \in Node : Gain(h, v) \in Int /\ Sale(h, v) \in Int
      BY <1>2, BalanceType
    <3>2. \A v \in Node : Gain(h, v)' \in Int /\ Sale(h, v)' \in Int
      <4>1. \A v \in Node : Gain(h, v)' \in {Gain(h, v), Gain(h, v) + d.delta}
        BY <2>4
      <4>2. \A v \in Node : Sale(h, v)' \in {Sale(h, v), Sale(h, v) + d.delta}
        BY <1>9
      <4> QED
        BY <1>5, <3>1, <4>1, <4>2
    <3> QED
      BY <3>1, <3>2, HostNodes
  <2>3. IsFiniteSet(S) /\ n \in S /\ d.dst \in S
    BY <1>1, <1>4, HostNodes
  <2>5. /\ f2[n] = f[n] + d.delta /\ \A v \in S \ {n} : f2[v] = f[v]
        /\ g2[d.dst] = g[d.dst] + d.delta /\ \A v \in S \ {d.dst} : g2[v] = g[v]
    BY <1>9, <2>3, <2>4, HostNodes
  <2>6. InvBalance(h)' <=> SumFunctionOnSet(f2, S) = SumFunctionOnSet(g2, S)
    BY DEF InvBalance
  <2> DEFINE m == d.dst
             y == d.delta
  <2>7. /\ IsFiniteSet(S) /\ n \in S /\ m \in S /\ y \in Int
        /\ f2[n] = f[n] + y /\ \A v \in S \ {n} : f2[v] = f[v]
        /\ g2[m] = g[m] + y /\ \A v \in S \ {m} : g2[v] = g[v]
    BY <1>5, <2>3, <2>5
  <2> HIDE DEF f, g, f2, g2, S, n, m, y
  <2>8. SumFunctionOnSet(f2, S) = SumFunctionOnSet(g2, S)
    BY <2>1, <2>2, <2>7, BothMore, SMTT(30)
  <2> QED
    BY <2>6, <2>8
<1>16. InvProposals(h)'
  BY <1>1, <1>2, KeepProposals
<1> QED
  BY <1>1, <1>9, <1>10, <1>11, <1>12, <1>13, <1>14, <1>15, <1>16, <1>2 DEF InvHost, InvBuying

LEMMA ProposedShape ==
  ASSUME TypeOK, NEW h \in Host, IsFiniteSet(remote_edges[h]), NEW n
  PROVE  /\ {e \in remote_edges[h] : e.src = n} \in SUBSET ProposedEdge
         /\ IsFiniteSet({e \in remote_edges[h] : e.src = n})
         /\ Weights({e \in remote_edges[h] : e.src = n}) \in Nat
<1> DEFINE S == {e \in remote_edges[h] : e.src = n}
<1>1. S \in SUBSET ProposedEdge /\ IsFiniteSet(S)
  <2>1. remote_edges[h] \in SUBSET ProposedEdge
    BY DEF TypeOK
  <2> QED
    BY <2>1, FS_Subset
<1>2. Weights(S) \in Nat
  <2> HIDE DEF S
  <2> QED
    BY <1>1, WeightsNat
<1> QED
  BY <1>1, <1>2

LEMMA ProposeHost ==
  ASSUME TypeOK, TypeOK', NEW h \in Host, InvHost(h), NEW d \in deals[h], Propose(h, d)
  PROVE  InvHost(h)'
<1> DEFINE n == d.src
           w == needed[n]
           p == [src |-> d.src, dst |-> d.dst, weight |-> d.delta]
           R == remote_edges[h]
<1>1. /\ pc[h] = "quiesce" /\ Accepted(h, d) /\ d.dst \notin Masters(h)
      /\ remote_edges' = [remote_edges EXCEPT ![h] = Emplaced(R, p)]
      /\ needed' = [needed EXCEPT ![n] = Minus(w, d.delta)]
      /\ pc' = pc /\ sold' = sold /\ bought' = bought /\ left' = left
  BY DEF Propose, StillNeeded
<1>2. /\ IsFiniteSet(deals[h]) /\ IsFiniteSet(R)
      /\ InvDeals(h) /\ InvProposals(h) /\ InvAsked(h) /\ InvExact(h) /\ InvRace(h)
      /\ InvNeed(h) /\ InvBalance(h)
  BY <1>1 DEF InvHost, InvBuying
<1>3. deals'[h] = deals[h] \ {d}
  <2> HIDE DEF n, w, p, R
  <2> QED
    BY <1>1, AcceptEffect
<1>4. /\ n \in Masters(h) /\ n \in Node /\ d.delta \in Grid /\ d.delta <= w
      /\ \A c \in deals'[h] : c.src # n
  BY <1>2, <1>3, HostNodes DEF InvDeals
<1>5. w \in Grid /\ w \in Nat /\ d.delta \in Nat
  BY <1>2, <1>4, GridType DEF InvExact
<1>6. Minus(w, d.delta) = w - d.delta /\ w - d.delta \in Grid
  <2>1. w - d.delta >= 0
    BY <1>4, <1>5
  <2> QED
    BY <1>4, <1>5, <2>1, GridMinus
<1>7. /\ needed'[n] = w - d.delta
      /\ \A v \in Node \ {n} : needed'[v] = needed[v]
  BY <1>1, <1>4, <1>6 DEF TypeOK
<1>8. /\ p \in ProposedEdge /\ p.src = n /\ p.dst = d.dst /\ p.weight = d.delta
  <2>1. d \in Deal
    BY DEF TypeOK
  <2> QED
    BY <2>1 DEF Deal, ProposedEdge
<1> HIDE DEF p
<1>9. \/ remote_edges'[h] = R /\ \E f \in R : f.src = n /\ f.dst = d.dst
      \/ remote_edges'[h] = R \cup {p} /\ p \notin R
  <2>1. remote_edges'[h] = Emplaced(R, p)
    BY <1>1 DEF TypeOK
  <2> QED
    BY <1>8, <2>1 DEF Emplaced
<1>10. /\ InvRace(h)'
       /\ \A v \in Node \ {d.dst} : Sale(h, v)' = Sale(h, v)
  <2>1. \A v \in Node : bought[h][v] <= bought'[h][v]
    BY <1>1 DEF TypeOK
  <2>2. bought' \in [Host -> [Node -> Nat]]
    BY DEF TypeOK
  <2> HIDE DEF n, w, R
  <2> QED
    BY <1>1, <1>2, <2>1, <2>2, AcceptRace
<1>11. IsFiniteSet(deals'[h]) /\ IsFiniteSet(remote_edges'[h])
  BY <1>2, <1>3, <1>9, FS_Subset, FS_AddElement
<1>12. InvDeals(h)'
  <2>1. \A c \in deals'[h] : needed'[c.src] = needed[c.src]
    BY <1>2, <1>3, <1>4, <1>7, HostNodes DEF InvDeals
  <2> QED
    BY <1>2, <1>3, <2>1 DEF InvDeals
<1>13. InvExact(h)'
  <2>1. \A m \in Masters(h) : needed'[m] \in Grid
    BY <1>2, <1>6, <1>7, HostNodes DEF InvExact
  <2> QED
    BY <1>1, <1>2, <2>1 DEF InvExact
<1>14. /\ NeedOf(h, n) <= Unit * Desired(n)
       /\ OneTradeEach(n) => NeedOf(h, n) = Unit * Desired(n)
       /\ NeedOf(h, n) \in Nat /\ w <= NeedOf(h, n)
  <2> DEFINE W == Weights({e \in R : e.src = n})
  <2>1. W \in Nat
    BY <1>2, ProposedShape
  <2>2. NeedOf(h, n) = bought[h][n] + w + W
    BY DEF NeedOf
  <2> HIDE DEF W
  <2>3. bought[h][n] \in Nat
    BY <1>4 DEF TypeOK
  <2> QED
    BY <1>2, <1>4, <1>5, <2>1, <2>2, <2>3 DEF InvNeed
<1>15. Unit * Desired(n) \in Int
  <2>1. BoughtIn(Trade, n) \in Nat
    <3>1. \A T \in SUBSET Trade : IsFiniteSet(T) /\ \A t \in T : Amount[t] \in Nat
      BY TradeAssumption, FS_Subset
    <3> QED
      BY <3>1, SumNat DEF BoughtIn, Total
  <2> QED
    BY <2>1, UnitEven DEF Desired
<1>16. InvProposals(h)'
  <2>1. p.weight <= Unit * Desired(n)
    BY <1>4, <1>5, <1>8, <1>14, <1>15
  <2> QED
    BY <1>1, <1>2, <1>4, <1>8, <1>9, <2>1 DEF InvProposals
<1>17. InvAsked(h)'
  <2>1. \A m \in Masters(h) : Asked(h, m)' \subseteq Asked(h, m)
    BY <1>3, <1>8, <1>9 DEF Asked
  <2>2. \A c \in deals'[h] : \A f \in remote_edges'[h] :
          \/ c \in deals[h] /\ f \in R
          \/ f.src = n /\ c.src # n
    BY <1>3, <1>4, <1>8, <1>9
  <2> QED
    BY <1>1, <1>2, <1>3, <2>1, <2>2 DEF InvAsked
<1>18. InvNeed(h)'
  <2> SUFFICES ASSUME NEW m \in Masters(h)
               PROVE  /\ NeedOf(h, m)' <= Unit * Desired(m)
                      /\ OneTradeEach(m) => NeedOf(h, m)' = Unit * Desired(m)
    BY DEF InvNeed
  <2> DEFINE S == {e \in R : e.src = m}
             S2 == {e \in remote_edges'[h] : e.src = m}
  <2>1. S \in SUBSET ProposedEdge /\ IsFiniteSet(S) /\ Weights(S) \in Nat
    BY <1>2, ProposedShape
  <2>2. NeedOf(h, m) = bought[h][m] + needed[m] + Weights(S)
        /\ NeedOf(h, m)' = bought[h][m] + needed'[m] + Weights(S2)
    BY <1>1 DEF NeedOf
  <2>3. m \in Node /\ bought[h][m] \in Nat /\ needed[m] \in Nat
    BY HostNodes DEF TypeOK
  <2>4. CASE m = n
    <3>1. CASE remote_edges'[h] = R /\ \E f \in R : f.src = n /\ f.dst = d.dst
      <4>1. S2 = S
        BY <3>1
      <4>2. ~ OneTradeEach(n)
        BY <1>2, <1>4, <3>1 DEF InvAsked
      <4>3. NeedOf(h, m)' = NeedOf(h, m) - d.delta
        <5> HIDE DEF S, S2, n, w
        <5>1. needed'[m] = needed[m] - d.delta
          BY <1>7, <2>4 DEF w
        <5> QED
          BY <1>5, <2>1, <2>2, <2>3, <4>1, <5>1
      <4>4. NeedOf(h, m)' <= NeedOf(h, m) /\ NeedOf(h, m)' \in Int
        BY <1>5, <1>14, <2>4, <4>3
      <4> QED
        BY <1>14, <1>15, <2>4, <4>2, <4>4
    <3>2. CASE remote_edges'[h] = R \cup {p} /\ p \notin R
      <4>1. S2 = S \cup {p} /\ p \notin S
        BY <1>8, <2>4, <3>2
      <4> HIDE DEF S, S2
      <4>2. Weights(S2) = Weights(S) + d.delta
        BY <1>8, <2>1, <4>1, WeightsAdd
      <4>3. NeedOf(h, m)' = NeedOf(h, m)
        <5>1. needed'[m] = needed[m] - d.delta
          BY <1>7, <2>4 DEF w
        <5> HIDE DEF n, w
        <5> QED
          BY <1>5, <2>1, <2>2, <2>3, <4>2, <5>1
      <4> QED
        BY <1>14, <2>4, <4>3
    <3> QED
      BY <1>9, <3>1, <3>2
  <2>5. CASE m # n
    <3>1. S2 = S
      BY <1>8, <1>9, <2>5
    <3> HIDE DEF S, S2
    <3>2. NeedOf(h, m)' = NeedOf(h, m)
      BY <1>7, <2>2, <2>3, <2>5, <3>1
    <3> QED
      BY <1>2, <3>2 DEF InvNeed
  <2> QED
    BY <2>4, <2>5
<1>19. InvBalance(h)'
  <2>1. \A v \in Masters(h) : Gain(h, v)' = Gain(h, v) /\ Sale(h, v)' = Sale(h, v)
    BY <1>1, <1>10, HostNodes DEF Gain
  <2>2. [v \in Masters(h) |-> Gain(h, v)]' = [v \in Masters(h) |-> Gain(h, v)]
        /\ [v \in Masters(h) |-> Sale(h, v)]' = [v \in Masters(h) |-> Sale(h, v)]
    BY <2>1, HostNodes
  <2> QED
    BY <1>2, <2>2 DEF InvBalance
<1> QED
  BY <1>1, <1>10, <1>11, <1>12, <1>13, <1>16, <1>17, <1>18, <1>19 DEF InvHost, InvBuying
-----------------------------------------------------------------------------
(* The messages.                                                           *)

LEMMA DesiredNat ==
  ASSUME NEW v \in Node
  PROVE  Desired(v) \in Nat /\ Desired(v) <= Total(Trade)
<1> DEFINE T == {t \in Trade : Buyer[t] = v}
<1>1. T \subseteq Trade /\ IsFiniteSet(T) /\ \A t \in Trade : Amount[t] \in Nat
  BY TradeAssumption, FS_Subset
<1> HIDE DEF T
<1>2. SumFunctionOnSet(Amount, T) \in Nat
  BY <1>1, SumNat
<1>3. SumFunctionOnSet(Amount, T) <= SumFunctionOnSet(Amount, Trade)
  BY <1>1, TradeAssumption, SumSubset
<1>4. BoughtIn(Trade, v) = SumFunctionOnSet(Amount, T)
  BY DEF BoughtIn, Total, T
<1>5. Total(Trade) = SumFunctionOnSet(Amount, Trade)
  BY DEF Total
<1> QED
  BY <1>2, <1>3, <1>4, <1>5, UnitEven DEF Desired

\* What is left of an amount on the wire.
LEMMA OnWireSmall ==
  ASSUME NEW x \in Nat, NEW v \in Node, x <= Unit * Desired(v) \/ x \in Small
  PROVE  OnWire(x) \in Small /\ (x \in Small => OnWire(x) = 0)
<1> DEFINE u == Unit * Parts
           q == x \div u
<1>1. u \in Nat /\ u >= Unit /\ Unit \in Nat /\ Unit > 0
  <2>1. Parts \in Nat /\ Parts > 0 /\ Unit \in Nat /\ Unit > 0
    BY UnitEven, PartsAssumption
  <2>2. \A p, k \in Nat : p > 0 => k * p \in Nat /\ k * p >= k
    BY Z3
  <2> QED
    BY <2>1, <2>2
<1> HIDE DEF u
<1>2. q \in Nat /\ u * q <= x
  BY <1>1, Z3
<1> HIDE DEF q
<1>3. Unit * q <= x
  <2>1. \A a, b, c \in Nat : a >= b => a * c >= b * c
    BY Z3
  <2>2. u * q >= Unit * q
    BY <1>1, <1>2, <2>1
  <2>3. u * q \in Nat /\ Unit * q \in Nat
    BY <1>1, <1>2
  <2> QED
    BY <1>2, <2>2, <2>3
<1>4. x \in Small => q = 0
  <2> SUFFICES ASSUME x \in Small, q >= 1
               PROVE  FALSE
    BY <1>2
  <2>1. Unit * q >= Unit
    BY <1>1, <1>2
  <2>2. x < Half /\ Half \in Nat /\ Half <= Unit
    BY UnitEven, SmallType
  <2>3. Unit * q \in Nat
    BY <1>1, <1>2
  <2> QED
    BY <1>3, <2>1, <2>2, <2>3, <1>1
<1>5. x <= Unit * Desired(v) => q <= Desired(v)
  <2> DEFINE e == Desired(v)
  <2>1. e \in Nat
    BY DesiredNat
  <2> HIDE DEF e
  <2> SUFFICES ASSUME x <= Unit * e, q >= e + 1
               PROVE  FALSE
    BY <1>2, <2>1 DEF e
  <2>2. Unit * q >= Unit * (e + 1)
    <3>1. \A a, b, c \in Nat : a >= b => c * a >= c * b
      BY Z3
    <3> QED
      BY <1>1, <1>2, <2>1, <3>1
  <2>3. Unit * (e + 1) = Unit * e + Unit
    BY <1>1, <2>1
  <2>4. Unit * q \in Nat /\ Unit * e \in Nat
    BY <1>1, <1>2, <2>1
  <2> QED
    BY <1>1, <1>3, <2>2, <2>3, <2>4
<1>6. q \in Small
  <2>1. CASE x \in Small
    BY <1>4, <2>1, UnitEven DEF Small
  <2>2. CASE x <= Unit * Desired(v)
    BY <1>2, <1>5, <2>2, UnitEven, DesiredNat DEF Small
  <2> QED
    BY <2>1, <2>2
<1> QED
  BY <1>4, <1>6 DEF OnWire, q, u

LEMMA OfferMessages ==
  ASSUME TypeOK, NEW h \in Host, InvHost(h), posted[h] = 0, pc[h] = "quiesce",
         NEW m \in Messages(h, "dst")
  PROVE  /\ m.from = h /\ m.to \in Host \ {h} /\ m.round = 1
         /\ m.edge \in ProposedEdge /\ m.edge.weight \in Small
         /\ m.edge.src \notin Masters(m.to)
<1>1. PICK e \in remote_edges[h] :
        m = [from |-> h, to |-> Owner[e["dst"]], round |-> posted[h] + 1,
             edge |-> [e EXCEPT !.weight = OnWire(e.weight)]]
  BY DEF Messages
<1>2. /\ e \in ProposedEdge /\ e.src \in Masters(h) /\ e.dst \notin Masters(h)
      /\ e.weight <= Unit * Desired(e.src)
      /\ e.src \in Node /\ e.dst \in Node /\ e.weight \in Nat
  BY DEF TypeOK, InvHost, InvBuying, InvProposals, ProposedEdge
<1>3. OnWire(e.weight) \in Small /\ OnWire(e.weight) \in Nat
  BY <1>2, OnWireSmall, SmallType
<1>4. Owner[e.dst] \in Host \ {h} /\ e.src \notin Masters(Owner[e.dst])
  BY <1>2, HostNodes
<1> DEFINE w == OnWire(e.weight)
<1> HIDE DEF w
<1>5. m = [from |-> h, to |-> Owner[e.dst], round |-> 1, edge |-> [e EXCEPT !.weight = w]]
  BY <1>1 DEF w
<1>6. /\ [e EXCEPT !.weight = w] \in ProposedEdge
      /\ [e EXCEPT !.weight = w].weight = w
      /\ [e EXCEPT !.weight = w].src = e.src
  BY <1>2, <1>3 DEF w, ProposedEdge
<1> QED
  BY <1>3, <1>4, <1>5, <1>6 DEF w

LEMMA AnswerMessages ==
  ASSUME TypeOK, NEW h \in Host, InvHost(h), posted[h] = 1, pc[h] = "decide",
         NEW m \in Messages(h, "src")
  PROVE  /\ m.from = h /\ m.to \in Host \ {h} /\ m.round = 2
         /\ m.edge \in ProposedEdge /\ m.edge.weight = 0
<1>1. PICK e \in remote_edges[h] :
        m = [from |-> h, to |-> Owner[e["src"]], round |-> posted[h] + 1,
             edge |-> [e EXCEPT !.weight = OnWire(e.weight)]]
  BY DEF Messages
<1>2. /\ e \in ProposedEdge /\ e.src \notin Masters(h) /\ e.weight \in Small
      /\ e.src \in Node /\ e.weight \in Nat
  BY DEF TypeOK, InvHost, InvSent, ProposedEdge
<1>3. OnWire(e.weight) = 0
  BY <1>2, OnWireSmall
<1>4. Owner[e.src] \in Host \ {h}
  BY <1>2, HostNodes
<1>5. m = [from |-> h, to |-> Owner[e.src], round |-> 2, edge |-> [e EXCEPT !.weight = 0]]
  BY <1>1, <1>3
<1>6. /\ [e EXCEPT !.weight = 0] \in ProposedEdge
      /\ [e EXCEPT !.weight = 0].weight = 0
  BY <1>2 DEF ProposedEdge
<1> QED
  BY <1>4, <1>5, <1>6

LEMMA SendOffersHost ==
  ASSUME TypeOK, NEW h \in Host, InvHost(h), SendOffers(h)
  PROVE  InvHost(h)'
<1>1. /\ pc[h] = "quiesce" /\ pc'[h] = "offers"
      /\ deals[h] = {} /\ remote_edges'[h] = {}
      /\ sold' = sold /\ bought' = bought /\ needed' = needed /\ left' = left
      /\ deals' = deals /\ incoming' = incoming
  BY DEF SendOffers, Send, TypeOK
<1>2. /\ IsFiniteSet(deals[h]) /\ IsFiniteSet(remote_edges[h])
      /\ InvExact(h) /\ InvRace(h) /\ InvNeed(h) /\ InvBalance(h)
  BY <1>1 DEF InvHost, InvBuying
<1>3. \A v \in Node : OpenDeals(h, v) = {} /\ OpenDeals(h, v)' = OpenDeals(h, v)
  BY <1>1 DEF OpenDeals
<1>4. InvBalance(h)'
  BY <1>1, <1>2, <1>3, KeepBalance
<1>5. \A v \in Node :
        /\ bought[h][v] \in Grid
        /\ Kept(bought[h][v], sold[h][v], OpenDeals(h, v), SoldAtStart(h, v))
  <2> SUFFICES ASSUME NEW v \in Node
               PROVE  /\ bought[h][v] \in Grid
                      /\ Kept(bought[h][v], sold[h][v], {}, SoldAtStart(h, v))
    BY <1>3
  <2>1. /\ sold[h][v] \in Grid /\ bought[h][v] \in Grid
        /\ sold[h][v] \in Nat /\ bought[h][v] \in Nat /\ SoldAtStart(h, v) \in Nat
    BY <1>2, GridType, AtStartNat DEF InvExact
  <2>2. Fits(bought[h][v], sold[h][v], {}, SoldAtStart(h, v))
    BY <1>2, <1>3 DEF InvRace
  <2>3. sold[h][v] <= bought[h][v] \/ sold[h][v] <= SoldAtStart(h, v)
    BY <2>1, <2>2, FitsEnd
  <2> QED
    BY <2>1, <2>3, KeptStart
<1>6. \A v \in Masters(h) : bought[h][v] <= Unit * Desired(v)
  <2> SUFFICES ASSUME NEW v \in Masters(h)
               PROVE  bought[h][v] <= Unit * Desired(v)
    OBVIOUS
  <2> DEFINE W == Weights({e \in remote_edges[h] : e.src = v})
  <2>1. W \in Nat
    BY <1>2, ProposedShape
  <2>2. bought[h][v] + needed[v] + W <= Unit * Desired(v)
    BY <1>2 DEF InvNeed, NeedOf
  <2> HIDE DEF W
  <2>3. v \in Node /\ bought[h][v] \in Nat /\ needed[v] \in Nat
    BY HostNodes DEF TypeOK
  <2>4. Unit * Desired(v) \in Nat
    BY <2>3, DesiredNat, UnitEven
  <2> QED
    BY <2>1, <2>2, <2>3, <2>4
<1>7. InvSent(h)'
  BY <1>1, <1>3, <1>5, <1>6 DEF InvSent
<1>8. IsFiniteSet(deals'[h]) /\ IsFiniteSet(remote_edges'[h])
  BY <1>1, <1>2, FS_EmptySet
<1> QED
  BY <1>1, <1>4, <1>7, <1>8 DEF InvHost

\* From here on a host keeps what it has, and what it holds only shrinks.
LEMMA RecvOffersHost ==
  ASSUME TypeOK, NEW h \in Host, InvHost(h), InvRounds, InvWire, RecvOffers(h)
  PROVE  InvHost(h)'
<1>1. /\ pc[h] = "offers" /\ pc'[h] = "decide" /\ posted[h] = 1
      /\ sold' = sold /\ bought' = bought /\ deals' = deals /\ remote_edges' = remote_edges
      /\ incoming'[h] = {[from |-> m.from, edge |-> m.edge] :
                           m \in {m \in wire : m.to = h /\ m.round = posted[h]}}
  BY DEF RecvOffers, Receive, TypeOK, InvRounds
<1>2. InvSent(h) /\ IsFiniteSet(deals[h]) /\ IsFiniteSet(remote_edges[h])
  BY <1>1 DEF InvHost
<1>3. \A v \in Node : OpenDeals(h, v)' = OpenDeals(h, v)
  BY <1>1 DEF OpenDeals
<1>4. \A o \in incoming'[h] : o.edge.src \notin Masters(h) /\ o.edge.weight \in Small
  <2> SUFFICES ASSUME NEW m \in wire, m.to = h, m.round = 1
               PROVE  m.edge.src \notin Masters(h) /\ m.edge.weight \in Small
    BY <1>1
  <2> QED
    BY DEF InvWire
<1>5. InvSent(h)'
  BY <1>1, <1>2, <1>3, <1>4 DEF InvSent
<1> QED
  BY <1>1, <1>2, <1>5 DEF InvHost

LEMMA RecvAnswersHost ==
  ASSUME TypeOK, NEW h \in Host, InvHost(h), InvRounds, InvWire, RecvAnswers(h)
  PROVE  InvHost(h)'
<1>1. /\ pc[h] = "answers" /\ pc'[h] = "add" /\ posted[h] = 2
      /\ sold' = sold /\ bought' = bought /\ deals' = deals /\ remote_edges' = remote_edges
      /\ incoming'[h] = {[from |-> m.from, edge |-> m.edge] :
                           m \in {m \in wire : m.to = h /\ m.round = posted[h]}}
  BY DEF RecvAnswers, Receive, TypeOK, InvRounds
<1>2. InvSent(h) /\ IsFiniteSet(deals[h]) /\ IsFiniteSet(remote_edges[h])
  BY <1>1 DEF InvHost
<1>3. \A v \in Node : OpenDeals(h, v)' = OpenDeals(h, v)
  BY <1>1 DEF OpenDeals
<1>4. \A o \in incoming'[h] : o.edge.weight = 0
  <2> SUFFICES ASSUME NEW m \in wire, m.to = h, m.round = 2
               PROVE  m.edge.weight = 0
    BY <1>1
  <2> QED
    BY DEF InvWire
<1>5. InvSent(h)'
  BY <1>1, <1>2, <1>3, <1>4 DEF InvSent
<1> QED
  BY <1>1, <1>2, <1>5 DEF InvHost
-----------------------------------------------------------------------------
(* Offers and answers.                                                     *)

LEMMA LookOfferHost ==
  ASSUME TypeOK, NEW h \in Host, InvHost(h), NEW o \in incoming[h], LookOffer(h, o)
  PROVE  InvHost(h)'
<1> DEFINE n == o.edge.src
           v == o.edge.dst
           w == o.edge.weight
           g == o.from
<1>1. /\ pc[h] = "decide" /\ pc'[h] = "decide"
      /\ deals' = [deals EXCEPT ![h] = Attempted(h, n, v, w, g)]
      /\ sold' = sold /\ bought' = bought /\ remote_edges' = remote_edges
      /\ incoming'[h] = incoming[h] \ {o}
  BY DEF LookOffer, TypeOK
<1>2. InvSent(h) /\ IsFiniteSet(deals[h]) /\ IsFiniteSet(remote_edges[h])
  BY <1>1 DEF InvHost
<1>3. /\ n \in Node /\ v \in Node /\ w \in Nat /\ g \in Host
      /\ n \notin Masters(h) /\ w \in Small
  BY <1>1, <1>2 DEF TypeOK, ProposedEdge, InvSent
<1> HIDE DEF n, v, w, g
<1>4. /\ \/ deals'[h] = deals[h]
         \/ \E e \in Deal :
              /\ e.src = n /\ e.dst = v /\ e.from = g /\ ~ e.reserved
              /\ e.delta > 0 /\ e.delta <= w
              /\ e.delta = w \/ e.delta = Surplus(h, v)
              /\ bought[h][v] > sold[h][v]
              /\ deals'[h] = deals[h] \cup {e}
      /\ deals' \in [Host -> SUBSET Deal]
      /\ IsFiniteSet(deals'[h])
      /\ \A c \in deals'[h] : c \in deals[h] \/ c.delta > 0
      /\ \A u \in Node : OpenDeals(h, u)' = OpenDeals(h, u)
  BY <1>1, <1>2, <1>3, AttemptedEffect
<1>5. \A d \in deals'[h] : /\ d.src \notin Masters(h)
                           /\ d.delta \in Small
                           /\ bought'[h][d.dst] > 0
  <2>1. \A d \in deals[h] : /\ d.src \notin Masters(h)
                            /\ d.delta \in Small
                            /\ bought'[h][d.dst] > 0
    BY <1>1, <1>2 DEF InvSent
  <2>2. ASSUME NEW e \in Deal, e.src = n, e.dst = v, e.delta <= w, bought[h][v] > sold[h][v]
        PROVE  /\ e.src \notin Masters(h)
               /\ e.delta \in Small
               /\ bought'[h][e.dst] > 0
    <3>1. e.delta \in Nat /\ Half \in Nat /\ w < Half
      BY <1>3, SmallType, UnitEven DEF Deal
    <3>2. e.delta \in Small
      BY <1>3, <2>2, <3>1 DEF Small
    <3>3. bought[h][v] \in Nat /\ sold[h][v] \in Nat
      BY <1>3 DEF TypeOK
    <3> QED
      BY <1>1, <1>3, <2>2, <3>2, <3>3
  <2> QED
    BY <1>4, <2>1, <2>2
<1>6. InvSent(h)'
  BY <1>1, <1>2, <1>4, <1>5 DEF InvSent
<1> QED
  BY <1>1, <1>2, <1>4, <1>6 DEF InvHost

LEMMA ConfirmHost ==
  ASSUME TypeOK, NEW h \in Host, InvHost(h), NEW d \in deals[h], Confirm(h, d)
  PROVE  InvHost(h)'
<1> DEFINE p == [src |-> d.src, dst |-> d.dst, weight |-> d.delta]
           R == remote_edges[h]
           D == OpenDeals(h, d.dst)
<1>1. /\ pc[h] = "decide" /\ pc'[h] = "decide" /\ Accepted(h, d)
      /\ remote_edges' = [remote_edges EXCEPT ![h] = Emplaced(R, p)]
      /\ sold' = sold /\ bought' = bought /\ incoming' = incoming
  BY DEF Confirm
<1>2. InvSent(h) /\ IsFiniteSet(deals[h]) /\ IsFiniteSet(R)
  BY <1>1 DEF InvHost
<1>3. /\ deals'[h] = deals[h] \ {d}
      /\ d \in OpenDeals(h, d.dst) /\ d.dst \in Node /\ d.src \in Node
      /\ d.total <= bought[h][d.dst]
      /\ OpenDeals(h, d.dst)' = OpenDeals(h, d.dst) \ {d}
      /\ \A v \in Node \ {d.dst} : OpenDeals(h, v)' = OpenDeals(h, v)
  <2> HIDE DEF p, R, D
  <2> QED
    BY <1>1, AcceptEffect
<1>4. D \in SUBSET Deal /\ IsFiniteSet(D) /\ d \in D /\ sold[h][d.dst] \in Nat
  BY <1>2, <1>3, Shape
<1>5. /\ d.src \notin Masters(h) /\ d.delta \in Small /\ d.delta \in Nat
      /\ Kept(bought[h][d.dst], sold[h][d.dst], D, SoldAtStart(h, d.dst))
  BY <1>2, <1>3, SmallType DEF InvSent
<1>6. Kept(bought[h][d.dst], sold[h][d.dst], D \ {d}, SoldAtStart(h, d.dst))
  <2> HIDE DEF D
  <2>1. Deltas(D) \in Nat /\ Deltas(D \ {d}) \in Nat /\ Deltas(D \ {d}) <= Deltas(D)
    BY <1>4, DeltasNat, DeltasSubset
  <2> QED
    BY <1>4, <1>5, <2>1, KeptLess
<1>7. \A v \in Node :
        Kept(bought'[h][v], sold'[h][v], OpenDeals(h, v)', SoldAtStart(h, v))
  <2> SUFFICES ASSUME NEW v \in Node
               PROVE  Kept(bought[h][v], sold[h][v], OpenDeals(h, v)', SoldAtStart(h, v))
    BY <1>1
  <2>1. CASE v = d.dst
    BY <1>3, <1>6, <2>1
  <2>2. CASE v # d.dst
    BY <1>2, <1>3, <2>2 DEF InvSent
  <2> QED
    BY <2>1, <2>2
<1>8. p.src = d.src /\ p.weight = d.delta
  OBVIOUS
<1>9. remote_edges'[h] \subseteq R \cup {p} /\ IsFiniteSet(remote_edges'[h])
  <2>1. remote_edges'[h] = Emplaced(R, p)
    BY <1>1 DEF TypeOK
  <2> HIDE DEF p, R
  <2> QED
    BY <1>2, <2>1, FS_AddElement DEF Emplaced
<1> HIDE DEF p
<1>10. \A e \in remote_edges'[h] : e.src \notin Masters(h) /\ e.weight \in Small
  BY <1>2, <1>5, <1>8, <1>9 DEF InvSent
<1>11. InvSent(h)'
  BY <1>1, <1>2, <1>3, <1>7, <1>10 DEF InvSent
<1>12. IsFiniteSet(deals'[h])
  BY <1>2, <1>3, FS_Subset
<1> QED
  BY <1>1, <1>9, <1>11, <1>12 DEF InvHost

LEMMA SendAnswersHost ==
  ASSUME TypeOK, NEW h \in Host, InvHost(h), SendAnswers(h)
  PROVE  InvHost(h)'
<1>1. /\ pc[h] = "decide" /\ pc'[h] = "answers"
      /\ deals[h] = {} /\ remote_edges'[h] = {}
      /\ sold' = sold /\ bought' = bought /\ deals' = deals /\ incoming' = incoming
  BY DEF SendAnswers, Send, TypeOK
<1>2. InvSent(h) /\ IsFiniteSet(deals[h])
  BY <1>1 DEF InvHost
<1>3. \A v \in Node : OpenDeals(h, v)' = OpenDeals(h, v)
  BY <1>1 DEF OpenDeals
<1>4. InvSent(h)'
  BY <1>1, <1>2, <1>3 DEF InvSent
<1> QED
  BY <1>1, <1>2, <1>4, FS_EmptySet DEF InvHost

LEMMA AddPurchaseEdgeHost ==
  ASSUME TypeOK, NEW h \in Host, InvHost(h), NEW o \in incoming[h], AddPurchaseEdge(h, o)
  PROVE  InvHost(h)'
<1>1. /\ pc[h] = "add" /\ pc'[h] = "add"
      /\ bought' = [bought EXCEPT ![h][o.edge.src] = Plus(bought[h][o.edge.src], o.edge.weight)]
      /\ sold' = sold /\ deals' = deals /\ remote_edges' = remote_edges
      /\ incoming'[h] = incoming[h] \ {o}
  BY DEF AddPurchaseEdge, TypeOK
<1>2. InvSent(h) /\ IsFiniteSet(deals[h]) /\ IsFiniteSet(remote_edges[h])
  BY <1>1 DEF InvHost
<1>3. o.edge.src \in Node /\ o.edge.weight = 0
  BY <1>1, <1>2 DEF TypeOK, ProposedEdge, InvSent
<1>4. Plus(bought[h][o.edge.src], 0) = bought[h][o.edge.src]
  <2> DEFINE b == bought[h][o.edge.src]
  <2>1. b \in Grid /\ 0 \in Grid /\ b \in Nat
    BY <1>2, <1>3, GridType DEF InvSent
  <2> HIDE DEF b
  <2>2. Plus(b, 0) = b + 0
    BY <2>1, GridPlus
  <2>3. b + 0 = b
    BY <2>1
  <2> QED
    BY <2>2, <2>3 DEF b
<1>5. bought' = bought
  BY <1>1, <1>3, <1>4 DEF TypeOK
<1>6. \A v \in Node : OpenDeals(h, v)' = OpenDeals(h, v)
  BY <1>1 DEF OpenDeals
<1>7. InvSent(h)'
  BY <1>1, <1>2, <1>5, <1>6 DEF InvSent
<1> QED
  BY <1>1, <1>2, <1>7 DEF InvHost

LEMMA EnterSyncHost ==
  ASSUME TypeOK, NEW h \in Host, InvHost(h), EnterSync(h)
  PROVE  InvHost(h)'
<1>1. /\ pc[h] = "add" /\ pc'[h] = "sync"
      /\ sold' = sold /\ bought' = bought /\ deals' = deals /\ remote_edges' = remote_edges
      /\ incoming' = incoming
  BY DEF EnterSync, TypeOK
<1>2. InvSent(h) /\ IsFiniteSet(deals[h]) /\ IsFiniteSet(remote_edges[h])
  BY <1>1 DEF InvHost
<1>3. \A v \in Node : OpenDeals(h, v)' = OpenDeals(h, v)
  BY <1>1 DEF OpenDeals
<1>4. InvSent(h)'
  BY <1>1, <1>2, <1>3 DEF InvSent
<1> QED
  BY <1>1, <1>2, <1>4 DEF InvHost

LEMMA SyncHost ==
  ASSUME TypeOK, NEW h \in Host, InvHost(h), Sync
  PROVE  InvHost(h)'
<1>1. /\ pc[h] = "sync" /\ pc'[h] = "done"
      /\ deals' = deals /\ remote_edges' = remote_edges
      /\ sold' = Synced(sold, [g \in Host |-> marks[g].sold])
      /\ bought' = Synced(bought, [g \in Host |-> marks[g].bought])
  BY DEF Sync
<1>2. InvSent(h) /\ IsFiniteSet(deals[h]) /\ IsFiniteSet(remote_edges[h])
  BY <1>1 DEF InvHost
<1>3. \A v \in Node \ Mirrors(h) : sold'[h][v] = sold[h][v] /\ bought'[h][v] = bought[h][v]
  BY <1>1 DEF Synced
<1>4. Masters(h) \subseteq Node \ Mirrors(h)
  BY HostNodes DEF Mirrors
<1>5. \A v \in Node : sold[h][v] <= bought[h][v] \/ sold[h][v] <= SoldAtStart(h, v)
  BY <1>2 DEF InvSent, Kept
<1>6. InvDone(h)'
  BY <1>1, <1>2, <1>3, <1>4, <1>5 DEF InvDone, InvSent
<1> QED
  BY <1>1, <1>2, <1>6 DEF InvHost
-----------------------------------------------------------------------------
(* Types.                                                                  *)

SameNetwork == posted' = posted /\ taken' = taken /\ view' = view

LEMMA KeepNetwork ==
  ASSUME TypeOK, SameNetwork
  PROVE  X!ATypeOK'
BY DEF TypeOK, SameNetwork, X!ATypeOK

LEMMA ReserveType ==
  ASSUME TypeOK, NEW h \in Host, NEW d \in deals[h], Reserve(h, d)
  PROVE  TypeOK'
<1>1. PICK e \in Deal :
           /\ e.src = d.src /\ e.dst = d.dst /\ e.delta = d.delta /\ e.from = d.from
           /\ e.reserved /\ e # d /\ e.total = Plus(sold[h][d.dst], d.delta)
           /\ deals' = [deals EXCEPT ![h] = (deals[h] \ {d}) \cup {e}]
           /\ deals'[h] = (deals[h] \ {d}) \cup {e}
           /\ sold'[h] = [sold[h] EXCEPT ![d.dst] = Plus(sold[h][d.dst], d.delta)]
           /\ sold' \in [Host -> [Node -> Nat]]
           /\ OpenDeals(h, d.dst)' = OpenDeals(h, d.dst) \cup {e}
           /\ \A v \in Node \ {d.dst} : OpenDeals(h, v)' = OpenDeals(h, v)
  BY ReserveEffect
<1>2. /\ pc' = pc /\ bought' = bought /\ needed' = needed
      /\ left' = left /\ remote_edges' = remote_edges /\ incoming' = incoming
      /\ wire' = wire /\ marks' = marks /\ SameNetwork
  BY DEF Reserve, network, SameNetwork
<1>3. deals' \in [Host -> SUBSET Deal]
  BY <1>1 DEF TypeOK
<1>4. \A g \in Host : \A c \in deals'[g] : c.delta > 0
  <2>1. \A g \in Host : \A c \in deals[g] : c.delta > 0
    BY DEF TypeOK
  <2>2. \A g \in Host : deals'[g] \subseteq deals[g] \cup (IF g = h THEN {e} ELSE {})
    BY <1>1 DEF TypeOK
  <2> QED
    BY <1>1, <2>1, <2>2
<1> QED
  BY <1>1, <1>2, <1>3, <1>4, KeepNetwork DEF TypeOK

LEMMA TakeBackType ==
  ASSUME TypeOK, NEW h \in Host, InvHost(h), NEW d \in deals[h], TakeBack(h, d)
  PROVE  TypeOK'
<1>1. /\ deals'[h] = deals[h] \ {d}
      /\ d \in OpenDeals(h, d.dst) /\ d.dst \in Node
      /\ sold'[h] = [sold[h] EXCEPT ![d.dst] = Minus(sold[h][d.dst], d.delta)]
      /\ OpenDeals(h, d.dst)' = OpenDeals(h, d.dst) \ {d}
      /\ \A v \in Node \ {d.dst} : OpenDeals(h, v)' = OpenDeals(h, v)
  BY TakeBackEffect
<1>2. /\ pc' = pc /\ bought' = bought /\ needed' = needed
      /\ left' = left /\ remote_edges' = remote_edges /\ incoming' = incoming
      /\ wire' = wire /\ marks' = marks /\ SameNetwork
      /\ deals' = [deals EXCEPT ![h] = @ \ {d}]
      /\ sold' = [sold EXCEPT ![h][d.dst] = Minus(sold[h][d.dst], d.delta)]
  BY DEF TakeBack, network, SameNetwork, Returned
<1>3. deals' \in [Host -> SUBSET Deal] /\ \A g \in Host : deals'[g] \subseteq deals[g]
  BY <1>2 DEF TypeOK
<1>4. Minus(sold[h][d.dst], d.delta) \in Nat
  <2> DEFINE D == OpenDeals(h, d.dst)
             s == sold[h][d.dst]
  <2>1. /\ IsFiniteSet(deals[h])
        /\ D \in SUBSET Deal /\ IsFiniteSet(D) /\ d \in D /\ d \in Deal
        /\ Reserved(h, d.dst) = Deltas(D) /\ s \in Nat
        /\ bought[h][d.dst] \in Nat /\ SoldAtStart(h, d.dst) \in Nat
    BY <1>1, Shape, AtStartNat DEF InvHost, TypeOK
  <2>2. CASE pc[h] = "quiesce"
    <3>1. d.delta <= Reserved(h, d.dst) /\ d.delta \in Nat /\ Reserved(h, d.dst) \in Nat
      BY <1>1, <2>1, DealDropped, Shape
    <3>2. Reserved(h, d.dst) <= s /\ s \in Grid /\ d.delta \in Grid
      BY <1>1, <2>2 DEF InvHost, InvBuying, InvRace, InvExact, InvDeals
    <3> HIDE DEF s
    <3>3. s - d.delta >= 0
      BY <2>1, <3>1, <3>2
    <3>4. Minus(s, d.delta) \in Grid
      BY <3>2, <3>3, GridMinus
    <3> QED
      BY <3>4, GridType DEF s
  <2>3. CASE pc[h] = "decide"
    <3>1. d.delta \in Small /\ Kept(bought[h][d.dst], s, D, SoldAtStart(h, d.dst))
      BY <1>1, <2>3 DEF InvHost, InvSent
    <3> HIDE DEF D, s
    <3>2. Minus(s, d.delta) \in Nat
      BY <2>1, <3>1, KeptTakeBack
    <3> QED
      BY <3>2 DEF s
  <2> QED
    BY <2>2, <2>3, DealPhase
<1>5. sold' \in [Host -> [Node -> Nat]]
  <2> DEFINE u == Minus(sold[h][d.dst], d.delta)
  <2>1. sold' = [sold EXCEPT ![h][d.dst] = u] /\ u \in Nat
    BY <1>2, <1>4
  <2> HIDE DEF u
  <2> QED
    BY <1>1, <2>1 DEF TypeOK
<1> QED
  BY <1>2, <1>3, <1>5, KeepNetwork DEF TypeOK

LEMMA LookType ==
  ASSUME TypeOK, NEW h \in Host, InvHost(h), NEW n \in Node, NEW t \in left[n],
         Look(h, n, t)
  PROVE  TypeOK'
<1>1. /\ left' = [left EXCEPT ![n] = left[n] \ {t}]
      /\ deals' = [deals EXCEPT ![h] = Attempted(h, n, Seller[t], needed[n], h)]
      /\ pc' = pc /\ sold' = sold /\ bought' = bought /\ needed' = needed
     
      /\ remote_edges' = remote_edges /\ incoming' = incoming
      /\ wire' = wire /\ marks' = marks /\ SameNetwork
  BY DEF Look, network, SameNetwork
<1>2. IsFiniteSet(deals[h])
  BY DEF InvHost
<1>3. deals' \in [Host -> SUBSET Deal] /\ \A c \in deals'[h] : c \in deals[h] \/ c.delta > 0
  <2> DEFINE v == Seller[t]
             w == needed[n]
  <2>1. v \in Node /\ w \in Nat
    BY TradeAssumption DEF TypeOK
  <2>2. deals' = [deals EXCEPT ![h] = Attempted(h, n, v, w, h)]
    BY <1>1
  <2> HIDE DEF v, w
  <2> QED
    BY <1>2, <2>1, <2>2, AttemptedEffect
<1>4. \A g \in Host : \A c \in deals'[g] : c.delta > 0
  BY <1>1, <1>3 DEF TypeOK
<1>5. left' \in [Node -> SUBSET Trade]
  BY <1>1 DEF TypeOK
<1> QED
  BY <1>1, <1>3, <1>4, <1>5, KeepNetwork DEF TypeOK

LEMMA LookOfferType ==
  ASSUME TypeOK, NEW h \in Host, InvHost(h), NEW o \in incoming[h], LookOffer(h, o)
  PROVE  TypeOK'
<1> DEFINE n == o.edge.src
           v == o.edge.dst
           w == o.edge.weight
           g == o.from
<1>1. /\ deals' = [deals EXCEPT ![h] = Attempted(h, n, v, w, g)]
      /\ incoming' = [incoming EXCEPT ![h] = incoming[h] \ {o}]
      /\ pc' = pc /\ sold' = sold /\ bought' = bought /\ needed' = needed /\ left' = left
      /\ remote_edges' = remote_edges
      /\ wire' = wire /\ marks' = marks /\ SameNetwork
  BY DEF LookOffer, network, SameNetwork
<1>2. IsFiniteSet(deals[h])
  BY DEF InvHost
<1>3. n \in Node /\ v \in Node /\ w \in Nat /\ g \in Host
  BY DEF TypeOK, ProposedEdge
<1>4. deals' \in [Host -> SUBSET Deal] /\ \A c \in deals'[h] : c \in deals[h] \/ c.delta > 0
  <2> HIDE DEF n, v, w, g
  <2> QED
    BY <1>1, <1>2, <1>3, AttemptedEffect
<1>5. \A k \in Host : \A c \in deals'[k] : c.delta > 0
  BY <1>1, <1>4 DEF TypeOK
<1>6. /\ incoming' \in [Host -> SUBSET [from : Host, edge : ProposedEdge]]
      /\ \A k \in Host : \A p \in incoming'[k] : p.from # k
  BY <1>1 DEF TypeOK
<1> QED
  BY <1>1, <1>4, <1>5, <1>6, KeepNetwork DEF TypeOK

LEMMA AcceptType ==
  ASSUME TypeOK, NEW h \in Host, NEW d \in deals[h], Accepted(h, d)
  PROVE  /\ deals' \in [Host -> SUBSET Deal]
         /\ \A g \in Host : \A c \in deals'[g] : c.delta > 0
         /\ d \in Deal /\ d.src \in Node /\ d.dst \in Node /\ d.delta \in Nat
<1>1. deals' = [deals EXCEPT ![h] = @ \ {d}]
  BY DEF Accepted
<1>2. deals' \in [Host -> SUBSET Deal] /\ \A g \in Host : deals'[g] \subseteq deals[g]
  BY <1>1 DEF TypeOK
<1> QED
  BY <1>2 DEF TypeOK, Deal

\* What is still needed is an amount.
LEMMA NeededType ==
  ASSUME TypeOK, NEW h \in Host, InvHost(h), pc[h] = "quiesce", NEW d \in deals[h]
  PROVE  StillNeeded(d) \in Nat
<1>1. /\ d.src \in Masters(h) /\ d.delta \in Grid /\ d.delta <= needed[d.src]
      /\ needed[d.src] \in Grid
  BY DEF InvHost, InvBuying, InvDeals, InvExact
<1>2. needed[d.src] - d.delta >= 0
  <2>1. needed[d.src] \in Nat /\ d.delta \in Nat
    BY <1>1, GridType
  <2> QED
    BY <1>1, <2>1
<1> QED
  BY <1>1, <1>2, GridMinus, GridType DEF StillNeeded

LEMMA BuyType ==
  ASSUME TypeOK, NEW h \in Host, InvHost(h), NEW d \in deals[h], Buy(h, d)
  PROVE  TypeOK'
<1> DEFINE u == Plus(bought[h][d.src], d.delta)
           w == StillNeeded(d)
           S == marks[h].sold \cup {d.dst}
           B == marks[h].bought \cup {d.src}
<1>1. /\ pc[h] = "quiesce" /\ Accepted(h, d)
      /\ bought' = [bought EXCEPT ![h][d.src] = u]
      /\ needed' = [needed EXCEPT ![d.src] = w]
      /\ marks' = [marks EXCEPT ![h].bought = B, ![h].sold = S]
      /\ pc' = pc /\ sold' = sold /\ left' = left
      /\ remote_edges' = remote_edges /\ incoming' = incoming
      /\ wire' = wire /\ SameNetwork
  BY DEF Buy, SoldMarked, network, SameNetwork
<1>2. /\ deals' \in [Host -> SUBSET Deal]
      /\ \A g \in Host : \A c \in deals'[g] : c.delta > 0
      /\ d \in Deal /\ d.src \in Node /\ d.dst \in Node /\ d.delta \in Nat
  <2> HIDE DEF u, w, S, B
  <2> QED
    BY <1>1, AcceptType
<1>3. u \in Nat
  <2>1. bought[h][d.src] + d.delta \in Int /\ bought[h][d.src] + d.delta >= 0
    BY <1>2 DEF TypeOK
  <2> QED
    BY <2>1, RoundedSign DEF Plus
<1>4. w \in Nat
  BY <1>1, NeededType
<1>5. S \in SUBSET Node /\ B \in SUBSET Node
  BY <1>2 DEF TypeOK
<1> HIDE DEF u, w, S, B
<1>6. marks' \in [Host -> [sold : SUBSET Node, bought : SUBSET Node]]
  BY <1>1, <1>5 DEF TypeOK
<1>7. bought' \in [Host -> [Node -> Nat]]
  BY <1>1, <1>2, <1>3 DEF TypeOK
<1>8. needed' \in [Node -> Nat]
  BY <1>1, <1>2, <1>4 DEF TypeOK
<1> QED
  BY <1>1, <1>2, <1>6, <1>7, <1>8, KeepNetwork DEF TypeOK

LEMMA EmplacedType ==
  ASSUME TypeOK, NEW h \in Host, NEW d \in Deal,
         remote_edges' = [remote_edges EXCEPT ![h] =
           Emplaced(@, [src |-> d.src, dst |-> d.dst, weight |-> d.delta])]
  PROVE  remote_edges' \in [Host -> SUBSET ProposedEdge]
<1> DEFINE p == [src |-> d.src, dst |-> d.dst, weight |-> d.delta]
           E == Emplaced(remote_edges[h], p)
<1>1. p \in ProposedEdge
  BY DEF Deal, ProposedEdge
<1> HIDE DEF p
<1>2. E \in SUBSET ProposedEdge
  BY <1>1 DEF TypeOK, Emplaced
<1>3. remote_edges' = [remote_edges EXCEPT ![h] = E]
  BY DEF p
<1> HIDE DEF E
<1> QED
  BY <1>2, <1>3 DEF TypeOK

LEMMA ProposeType ==
  ASSUME TypeOK, NEW h \in Host, InvHost(h), NEW d \in deals[h], Propose(h, d)
  PROVE  TypeOK'
<1> DEFINE w == StillNeeded(d)
<1>1. /\ pc[h] = "quiesce" /\ Accepted(h, d)
      /\ remote_edges' = [remote_edges EXCEPT ![h] =
           Emplaced(@, [src |-> d.src, dst |-> d.dst, weight |-> d.delta])]
      /\ needed' = [needed EXCEPT ![d.src] = w]
      /\ pc' = pc /\ sold' = sold /\ bought' = bought /\ left' = left
      /\ incoming' = incoming
      /\ wire' = wire /\ marks' = marks /\ SameNetwork
  BY DEF Propose, network, SameNetwork
<1>2. /\ deals' \in [Host -> SUBSET Deal]
      /\ \A g \in Host : \A c \in deals'[g] : c.delta > 0
      /\ d \in Deal /\ d.src \in Node /\ d.dst \in Node /\ d.delta \in Nat
  <2> HIDE DEF w
  <2> QED
    BY <1>1, AcceptType
<1>3. w \in Nat
  BY <1>1, NeededType
<1> HIDE DEF w
<1>4. remote_edges' \in [Host -> SUBSET ProposedEdge]
  BY <1>1, <1>2, EmplacedType
<1>5. needed' \in [Node -> Nat]
  BY <1>1, <1>2, <1>3 DEF TypeOK
<1> QED
  BY <1>1, <1>2, <1>4, <1>5, KeepNetwork DEF TypeOK

LEMMA ConfirmType ==
  ASSUME TypeOK, NEW h \in Host, NEW d \in deals[h], Confirm(h, d)
  PROVE  TypeOK'
<1> DEFINE S == marks[h].sold \cup {d.dst}
<1>1. /\ Accepted(h, d)
      /\ remote_edges' = [remote_edges EXCEPT ![h] =
           Emplaced(@, [src |-> d.src, dst |-> d.dst, weight |-> d.delta])]
      /\ marks' = [marks EXCEPT ![h].sold = S]
      /\ pc' = pc /\ sold' = sold /\ bought' = bought /\ left' = left /\ needed' = needed
      /\ incoming' = incoming
      /\ wire' = wire /\ SameNetwork
  BY DEF Confirm, SoldMarked, network, SameNetwork
<1>2. /\ deals' \in [Host -> SUBSET Deal]
      /\ \A g \in Host : \A c \in deals'[g] : c.delta > 0
      /\ d \in Deal /\ d.src \in Node /\ d.dst \in Node /\ d.delta \in Nat
  <2> HIDE DEF S
  <2> QED
    BY <1>1, AcceptType
<1>3. S \in SUBSET Node
  BY <1>2 DEF TypeOK
<1> HIDE DEF S
<1>4. remote_edges' \in [Host -> SUBSET ProposedEdge]
  BY <1>1, <1>2, EmplacedType
<1>5. marks' \in [Host -> [sold : SUBSET Node, bought : SUBSET Node]]
  BY <1>1, <1>3 DEF TypeOK
<1> QED
  BY <1>1, <1>2, <1>4, <1>5, KeepNetwork DEF TypeOK

LEMMA AddPurchaseEdgeType ==
  ASSUME TypeOK, NEW h \in Host, NEW o \in incoming[h], AddPurchaseEdge(h, o)
  PROVE  TypeOK'
<1> DEFINE n == o.edge.src
           u == Plus(bought[h][n], o.edge.weight)
           B == marks[h].bought \cup {n}
<1>1. /\ bought' = [bought EXCEPT ![h][n] = u]
      /\ marks' = [marks EXCEPT ![h].bought = B]
      /\ incoming' = [incoming EXCEPT ![h] = incoming[h] \ {o}]
      /\ pc' = pc /\ sold' = sold /\ left' = left /\ needed' = needed /\ deals' = deals
      /\ remote_edges' = remote_edges
      /\ wire' = wire /\ SameNetwork
  BY DEF AddPurchaseEdge, network, SameNetwork
<1>2. n \in Node /\ o.edge.weight \in Nat
  BY DEF TypeOK, ProposedEdge
<1>3. u \in Nat
  <2>1. bought[h][n] + o.edge.weight \in Int /\ bought[h][n] + o.edge.weight >= 0
    BY <1>2 DEF TypeOK
  <2> QED
    BY <2>1, RoundedSign DEF Plus
<1>4. B \in SUBSET Node
  BY <1>2 DEF TypeOK
<1> HIDE DEF n, u, B
<1>5. bought' \in [Host -> [Node -> Nat]]
  BY <1>1, <1>2, <1>3 DEF TypeOK
<1>6. marks' \in [Host -> [sold : SUBSET Node, bought : SUBSET Node]]
  BY <1>1, <1>4 DEF TypeOK
<1>7. /\ incoming' \in [Host -> SUBSET [from : Host, edge : ProposedEdge]]
      /\ \A k \in Host : \A p \in incoming'[k] : p.from # k
  BY <1>1 DEF TypeOK
<1> QED
  BY <1>1, <1>5, <1>6, <1>7, KeepNetwork DEF TypeOK

\* The messages of a collective are those that InvWire speaks of.
LEMMA SendWire ==
  ASSUME TypeOK, NEW h \in Host, InvHost(h), InvRounds, InvWire, SendOffers(h) \/ SendAnswers(h)
  PROVE  /\ \A m \in wire' : /\ m.from \in Host /\ m.to \in Host \ {m.from}
                             /\ m.round \in 1 .. 2 /\ m.edge \in ProposedEdge
         /\ InvWire'
<1>1. \A m \in wire : /\ m.from \in Host /\ m.to \in Host \ {m.from}
                      /\ m.round \in 1 .. 2 /\ m.edge \in ProposedEdge
  BY DEF TypeOK
<1>2. CASE SendOffers(h)
  <2>1. wire' = wire \cup Messages(h, "dst") /\ posted[h] = 0 /\ pc[h] = "quiesce"
    BY <1>2 DEF SendOffers, Send, InvRounds
  <2>2. \A m \in Messages(h, "dst") :
          /\ m.from = h /\ m.to \in Host \ {h} /\ m.round = 1
          /\ m.edge \in ProposedEdge /\ m.edge.weight \in Small
          /\ m.edge.src \notin Masters(m.to)
    BY <2>1, OfferMessages
  <2> QED
    BY <1>1, <2>1, <2>2 DEF InvWire
<1>3. CASE SendAnswers(h)
  <2>1. wire' = wire \cup Messages(h, "src") /\ posted[h] = 1 /\ pc[h] = "decide"
    BY <1>3 DEF SendAnswers, Send, InvRounds
  <2>2. \A m \in Messages(h, "src") :
          /\ m.from = h /\ m.to \in Host \ {h} /\ m.round = 2
          /\ m.edge \in ProposedEdge /\ m.edge.weight = 0
    BY <2>1, AnswerMessages
  <2> QED
    BY <1>1, <2>1, <2>2 DEF InvWire
<1> QED
  BY <1>2, <1>3

LEMMA PostType ==
  ASSUME TypeOK, NEW h \in Host, X!Post(h)
  PROVE  /\ X!ATypeOK' /\ taken' = taken
         /\ posted'[h] = posted[h] + 1 /\ \A g \in Host \ {h} : posted'[g] = posted[g]
<1>1. /\ posted[h] < 2
      /\ posted' = [posted EXCEPT ![h] = @ + 1]
      /\ view' = [view EXCEPT ![h] = X!Nothing]
      /\ taken' = taken
  BY DEF X!Post
<1>2. posted' \in [Host -> 0 .. 2]
  <2>1. posted \in [Host -> 0 .. 2]
    BY DEF TypeOK, X!ATypeOK
  <2>2. posted[h] + 1 \in 0 .. 2
    BY <1>1, <2>1
  <2> QED
    BY <1>1, <2>1, <2>2
<1>3. view' \in [Host -> [Host -> 0 .. 2]]
  BY <1>1 DEF TypeOK, X!ATypeOK, X!Nothing
<1> QED
  BY <1>1, <1>2, <1>3 DEF TypeOK, X!ATypeOK

LEMMA TakeType ==
  ASSUME TypeOK, NEW h \in Host, X!Take(h)
  PROVE  /\ X!ATypeOK' /\ posted' = posted
         /\ taken'[h] = posted[h] /\ \A g \in Host \ {h} : taken'[g] = taken[g]
<1>1. /\ taken' = [taken EXCEPT ![h] = posted[h]]
      /\ view' = [view EXCEPT ![h] = X!RoundOf(h, posted[h])]
      /\ posted' = posted
  BY DEF X!Take
<1>2. taken' \in [Host -> 0 .. 2]
  BY <1>1 DEF TypeOK, X!ATypeOK
<1>3. view' \in [Host -> [Host -> 0 .. 2]]
  <2>1. X!RoundOf(h, posted[h]) \in [Host -> 0 .. 2]
    BY DEF TypeOK, X!ATypeOK, X!RoundOf
  <2> QED
    BY <1>1, <2>1 DEF TypeOK, X!ATypeOK
<1> QED
  BY <1>1, <1>2, <1>3 DEF TypeOK, X!ATypeOK

LEMMA SendType ==
  ASSUME TypeOK, NEW h \in Host, InvHost(h), InvRounds, InvWire, SendOffers(h) \/ SendAnswers(h)
  PROVE  TypeOK'
<1>1. /\ X!Post(h) /\ remote_edges' = [remote_edges EXCEPT ![h] = {}]
      /\ pc' = [pc EXCEPT ![h] = "offers"] \/ pc' = [pc EXCEPT ![h] = "answers"]
      /\ sold' = sold /\ bought' = bought
      /\ needed' = needed /\ left' = left /\ deals' = deals /\ incoming' = incoming
      /\ marks' = marks
  BY DEF SendOffers, SendAnswers, Send
<1>2. \A m \in wire' : /\ m.from \in Host /\ m.to \in Host \ {m.from}
                       /\ m.round \in 1 .. 2 /\ m.edge \in ProposedEdge
  BY SendWire
<1>3. X!ATypeOK'
  BY <1>1, PostType
<1>4. remote_edges' \in [Host -> SUBSET ProposedEdge]
  BY <1>1 DEF TypeOK
<1>5. pc' \in [Host -> {"quiesce", "offers", "decide", "answers", "add", "sync", "done"}]
  BY <1>1 DEF TypeOK
<1> QED
  BY <1>1, <1>2, <1>3, <1>4, <1>5 DEF TypeOK

LEMMA ReceiveType ==
  ASSUME TypeOK, NEW h \in Host, RecvOffers(h) \/ RecvAnswers(h)
  PROVE  TypeOK'
<1> DEFINE I == {[from |-> m.from, edge |-> m.edge] :
                   m \in {m \in wire : m.to = h /\ m.round = posted[h]}}
<1>1. /\ X!Take(h) /\ incoming' = [incoming EXCEPT ![h] = I]
      /\ wire' \subseteq wire
      /\ pc' = [pc EXCEPT ![h] = "decide"] \/ pc' = [pc EXCEPT ![h] = "add"]
      /\ sold' = sold /\ bought' = bought
      /\ needed' = needed /\ left' = left /\ deals' = deals
      /\ remote_edges' = remote_edges /\ marks' = marks
  BY DEF RecvOffers, RecvAnswers, Receive
<1>2. I \in SUBSET [from : Host, edge : ProposedEdge] /\ \A o \in I : o.from # h
  BY DEF TypeOK
<1> HIDE DEF I
<1>3. X!ATypeOK'
  BY <1>1, TakeType
<1>4. /\ incoming' \in [Host -> SUBSET [from : Host, edge : ProposedEdge]]
      /\ \A k \in Host : \A p \in incoming'[k] : p.from # k
  BY <1>1, <1>2 DEF TypeOK
<1>5. pc' \in [Host -> {"quiesce", "offers", "decide", "answers", "add", "sync", "done"}]
  BY <1>1 DEF TypeOK
<1> QED
  BY <1>1, <1>3, <1>4, <1>5 DEF TypeOK

LEMMA EnterSyncType ==
  ASSUME TypeOK, NEW h \in Host, EnterSync(h)
  PROVE  TypeOK'
<1>1. /\ pc' = [pc EXCEPT ![h] = "sync"]
      /\ sold' = sold /\ bought' = bought
      /\ needed' = needed /\ left' = left /\ deals' = deals /\ incoming' = incoming
      /\ remote_edges' = remote_edges /\ marks' = marks /\ wire' = wire /\ SameNetwork
  BY DEF EnterSync, network, SameNetwork
<1> QED
  BY <1>1, KeepNetwork DEF TypeOK

LEMMA SyncType ==
  ASSUME TypeOK, Sync
  PROVE  TypeOK'
<1>1. /\ pc' = [h \in Host |-> "done"]
      /\ sold' = Synced(sold, [h \in Host |-> marks[h].sold])
      /\ bought' = Synced(bought, [h \in Host |-> marks[h].bought])
     
      /\ needed' = needed /\ left' = left /\ deals' = deals /\ incoming' = incoming
      /\ remote_edges' = remote_edges /\ marks' = marks /\ wire' = wire /\ SameNetwork
  BY DEF Sync, network, SameNetwork
<1>2. \A v \in Node : Owner[v] \in Host
  BY NodeAssumption
<1>3. sold' \in [Host -> [Node -> Nat]] /\ bought' \in [Host -> [Node -> Nat]]
  BY <1>1, <1>2 DEF TypeOK, Synced
<1> QED
  BY <1>1, <1>3, KeepNetwork DEF TypeOK
-----------------------------------------------------------------------------
(* The invariant holds throughout.                                         *)

LEMMA StandingBought ==
  ASSUME NEW v \in Node
  PROVE  BoughtIn(Standing, v) \in Nat /\ BoughtIn(Standing, v) <= Desired(v)
<1> DEFINE S == {t \in Standing : Buyer[t] = v}
           T == {t \in Trade : Buyer[t] = v}
<1>1. /\ S \subseteq T /\ IsFiniteSet(S) /\ IsFiniteSet(T)
      /\ \A t \in T : Amount[t] \in Nat
      /\ v \in Cancelled => S = {}
  BY TradeAssumption, FS_Subset DEF Standing
<1>2. /\ BoughtIn(Standing, v) = SumFunctionOnSet(Amount, S)
      /\ BoughtIn(Trade, v) = SumFunctionOnSet(Amount, T)
  BY DEF BoughtIn, Total
<1> HIDE DEF S, T
<1>3. SumFunctionOnSet(Amount, S) \in Nat
  BY <1>1, SumNat
<1>4. SumFunctionOnSet(Amount, S) <= SumFunctionOnSet(Amount, T)
  BY <1>1, SumSubset
<1>5. v \in Cancelled => SumFunctionOnSet(Amount, S) = 0
  BY <1>1, SumEmpty
<1> QED
  BY <1>2, <1>3, <1>4, <1>5 DEF Desired

LEMMA TypeInit == Init => TypeOK
<1> SUFFICES ASSUME Init
             PROVE  TypeOK
  OBVIOUS
<1>1. /\ sold \in [Host -> [Node -> Nat]]
      /\ bought \in [Host -> [Node -> Nat]]
  BY AtStartNat DEF Init
<1>2. needed \in [Node -> Nat]
  <2>1. \A n \in Node : Unit * (Desired(n) - BoughtIn(Standing, n)) \in Nat
    <3> SUFFICES ASSUME NEW n \in Node
                 PROVE  Unit * (Desired(n) - BoughtIn(Standing, n)) \in Nat
      OBVIOUS
    <3> DEFINE k == Desired(n) - BoughtIn(Standing, n)
    <3>1. k \in Nat
      BY StandingBought, DesiredNat
    <3> HIDE DEF k
    <3>2. Unit * k \in Nat
      BY <3>1, UnitEven
    <3> QED
      BY <3>2 DEF k
  <2> QED
    BY <2>1 DEF Init
<1>3. left \in [Node -> SUBSET Trade]
  BY DEF Init
<1>4. /\ deals \in [Host -> SUBSET Deal]
      /\ remote_edges \in [Host -> SUBSET ProposedEdge]
      /\ incoming \in [Host -> SUBSET [from : Host, edge : ProposedEdge]]
      /\ \A h \in Host : deals[h] = {} /\ incoming[h] = {}
  BY DEF Init
<1>5. marks \in [Host -> [sold : SUBSET Node, bought : SUBSET Node]]
  BY DEF Init
<1>6. X!ATypeOK
  BY DEF Init, X!AInit, X!ATypeOK, X!Nothing
<1>7. pc \in [Host -> {"quiesce", "offers", "decide", "answers", "add", "sync", "done"}]
      /\ wire = {}
  BY DEF Init
<1> QED
  BY <1>1, <1>2, <1>3, <1>4, <1>5, <1>6, <1>7 DEF TypeOK

LEMMA InitStep == Init => IInv
<1> SUFFICES ASSUME Init
             PROVE  IInv
  OBVIOUS
<1>1. TypeOK
  BY TypeInit
<1>2. InvRounds /\ InvWire
  BY DEF Init, InvRounds, InvWire, X!AInit
<1>3. ASSUME NEW h \in Host
      PROVE  InvHost(h)
  <2>1. /\ pc[h] = "quiesce" /\ deals[h] = {} /\ remote_edges[h] = {}
        /\ \A v \in Node : sold[h][v] = SoldAtStart(h, v) /\ bought[h][v] = BoughtAtStart(h, v)
        /\ \A n \in Node : /\ needed[n] = Unit * (Desired(n) - BoughtIn(Standing, n))
                           /\ left[n] = {t \in Trade : Buyer[t] = n}
    BY DEF Init
  <2>2. \A v \in Node : OpenDeals(h, v) = {} /\ Reserved(h, v) = 0
    <3>1. \A v \in Node : OpenDeals(h, v) = {}
      BY <2>1 DEF OpenDeals
    <3> QED
      BY <3>1, SumEmpty DEF Reserved
  <2>3. InvDeals(h) /\ InvProposals(h)
    BY <2>1 DEF InvDeals, InvProposals
  <2>4. InvAsked(h)
    <3>1. \A n \in Masters(h) : Asked(h, n) = {}
      BY <2>1 DEF Asked
    <3> QED
      BY <2>1, <3>1, HostNodes DEF InvAsked
  <2>5. InvExact(h)
    <3>1. \A n \in Masters(h) : needed[n] \in Grid
      <4>1. \A n \in Node : Desired(n) - BoughtIn(Standing, n) \in Nat
        BY StandingBought, DesiredNat
      <4> QED
        BY <2>1, <4>1, HostNodes DEF Grid
    <3> QED
      BY <2>1, <3>1, AtStartNat DEF InvExact
  <2>6. InvRace(h)
    <3> SUFFICES ASSUME NEW v \in Node
                 PROVE  /\ 0 <= SoldAtStart(h, v)
                        /\ Fits(BoughtAtStart(h, v), SoldAtStart(h, v), {}, SoldAtStart(h, v))
      BY <2>1, <2>2 DEF InvRace
    <3>1. SoldAtStart(h, v) \in Nat
      BY AtStartNat
    <3> QED
      BY <3>1, DeltasEmpty DEF Fits
  <2>7. InvNeed(h)
    <3> SUFFICES ASSUME NEW n \in Masters(h)
                 PROVE  NeedOf(h, n) = Unit * Desired(n) /\ Unit * Desired(n) \in Nat
      BY DEF InvNeed
    <3> DEFINE d == Desired(n)
               b == BoughtIn(Standing, n)
    <3>1. n \in Node
      BY HostNodes
    <3>2. Weights({e \in remote_edges[h] : e.src = n}) = 0
      <4>1. {e \in remote_edges[h] : e.src = n} = {}
        BY <2>1
      <4> QED
        BY <4>1, SumEmpty DEF Weights
    <3>3. bought[h][n] = Unit * b
      BY <2>1, <3>1 DEF BoughtAtStart, BoughtSeen, Local
    <3>4. NeedOf(h, n) = Unit * b + Unit * (d - b) + 0
      BY <2>1, <3>1, <3>2, <3>3 DEF NeedOf
    <3>5. d \in Nat /\ b \in Nat
      BY <3>1, DesiredNat, StandingBought
    <3> HIDE DEF d, b
    <3>6. Unit * b + Unit * (d - b) + 0 = Unit * d /\ Unit * d \in Nat
      BY <3>5, UnitEven
    <3> QED
      BY <3>4, <3>6 DEF d
  <2>8. InvBalance(h)
    <3>1. \A v \in Masters(h) : Gain(h, v) = Sale(h, v)
      BY <2>1, <2>2, HostNodes, AtStartNat DEF Gain, Sale
    <3>2. [v \in Masters(h) |-> Gain(h, v)] = [v \in Masters(h) |-> Sale(h, v)]
      BY <3>1
    <3> QED
      BY <3>2 DEF InvBalance
  <2> QED
    BY <2>1, <2>3, <2>4, <2>5, <2>6, <2>7, <2>8, FS_EmptySet DEF InvHost, InvBuying
<1> QED
  BY <1>1, <1>2, <1>3 DEF IInv

\* Steps of the threads of a host.
LEMMA RestStep ==
  ASSUME InvRounds, InvWire, wire' = wire, pc' = pc, SameNetwork
  PROVE  InvRounds' /\ InvWire'
BY DEF InvRounds, InvWire, SameNetwork

LEMMA HostStepInv ==
  ASSUME TypeOK, InvRounds, InvWire, NEW h \in Host, InvHost(h), HostStep(h)
  PROVE  TypeOK' /\ InvRounds' /\ InvWire' /\ InvHost(h)'
<1>1. ASSUME NEW n \in Node, NEW t \in left[n], Look(h, n, t)
      PROVE  TypeOK' /\ InvRounds' /\ InvWire' /\ InvHost(h)'
  <2>1. wire' = wire /\ pc' = pc /\ SameNetwork
    BY <1>1 DEF Look, network, SameNetwork
  <2> QED
    BY <1>1, <2>1, LookType, LookHost, RestStep
<1>2. ASSUME NEW d \in deals[h], Reserve(h, d)
      PROVE  TypeOK' /\ InvRounds' /\ InvWire' /\ InvHost(h)'
  <2>1. wire' = wire /\ pc' = pc /\ SameNetwork
    BY <1>2 DEF Reserve, network, SameNetwork
  <2>2. TypeOK' /\ InvHost(h)'
    BY <1>2, ReserveType, ReserveBuying, ReserveDeciding, DealPhase
  <2> QED
    BY <2>1, <2>2, RestStep
<1>3. ASSUME NEW d \in deals[h], TakeBack(h, d)
      PROVE  TypeOK' /\ InvRounds' /\ InvWire' /\ InvHost(h)'
  <2>1. wire' = wire /\ pc' = pc /\ SameNetwork
    BY <1>3 DEF TakeBack, network, SameNetwork
  <2>2. TypeOK' /\ InvHost(h)'
    BY <1>3, TakeBackType, TakeBackBuying, TakeBackDeciding, DealPhase
  <2> QED
    BY <2>1, <2>2, RestStep
<1>4. ASSUME NEW d \in deals[h], Buy(h, d)
      PROVE  TypeOK' /\ InvRounds' /\ InvWire' /\ InvHost(h)'
  <2>1. wire' = wire /\ pc' = pc /\ SameNetwork
    BY <1>4 DEF Buy, network, SameNetwork
  <2>2. TypeOK'
    BY <1>4, BuyType
  <2> QED
    BY <1>4, <2>1, <2>2, BuyHost, RestStep
<1>5. ASSUME NEW d \in deals[h], Propose(h, d)
      PROVE  TypeOK' /\ InvRounds' /\ InvWire' /\ InvHost(h)'
  <2>1. wire' = wire /\ pc' = pc /\ SameNetwork
    BY <1>5 DEF Propose, network, SameNetwork
  <2>2. TypeOK'
    BY <1>5, ProposeType
  <2> QED
    BY <1>5, <2>1, <2>2, ProposeHost, RestStep
<1>6. ASSUME NEW d \in deals[h], Confirm(h, d)
      PROVE  TypeOK' /\ InvRounds' /\ InvWire' /\ InvHost(h)'
  <2>1. wire' = wire /\ pc' = pc /\ SameNetwork
    BY <1>6 DEF Confirm, network, SameNetwork
  <2> QED
    BY <1>6, <2>1, ConfirmType, ConfirmHost, RestStep
<1>7. ASSUME NEW o \in incoming[h], LookOffer(h, o)
      PROVE  TypeOK' /\ InvRounds' /\ InvWire' /\ InvHost(h)'
  <2>1. wire' = wire /\ pc' = pc /\ SameNetwork
    BY <1>7 DEF LookOffer, network, SameNetwork
  <2> QED
    BY <1>7, <2>1, LookOfferType, LookOfferHost, RestStep
<1>8. ASSUME NEW o \in incoming[h], AddPurchaseEdge(h, o)
      PROVE  TypeOK' /\ InvRounds' /\ InvWire' /\ InvHost(h)'
  <2>1. wire' = wire /\ pc' = pc /\ SameNetwork
    BY <1>8 DEF AddPurchaseEdge, network, SameNetwork
  <2> QED
    BY <1>8, <2>1, AddPurchaseEdgeType, AddPurchaseEdgeHost, RestStep
<1>9. CASE SendOffers(h)
  <2>1. /\ pc[h] = "quiesce" /\ X!Post(h) /\ pc' = [pc EXCEPT ![h] = "offers"]
    BY <1>9 DEF SendOffers, Send
  <2>2. /\ taken' = taken
        /\ posted'[h] = posted[h] + 1 /\ \A g \in Host \ {h} : posted'[g] = posted[g]
    BY <2>1, PostType
  <2>3. InvRounds'
    BY <2>1, <2>2 DEF InvRounds, TypeOK
  <2> QED
    BY <1>9, <2>3, SendWire, SendType, SendOffersHost
<1>10. CASE SendAnswers(h)
  <2>1. /\ pc[h] = "decide" /\ X!Post(h) /\ pc' = [pc EXCEPT ![h] = "answers"]
    BY <1>10 DEF SendAnswers, Send
  <2>2. /\ taken' = taken
        /\ posted'[h] = posted[h] + 1 /\ \A g \in Host \ {h} : posted'[g] = posted[g]
    BY <2>1, PostType
  <2>3. InvRounds'
    BY <2>1, <2>2 DEF InvRounds, TypeOK
  <2> QED
    BY <1>10, <2>3, SendWire, SendType, SendAnswersHost
<1>11. CASE RecvOffers(h)
  <2>1. /\ pc[h] = "offers" /\ X!Take(h) /\ pc' = [pc EXCEPT ![h] = "decide"]
        /\ wire' \subseteq wire
    BY <1>11 DEF RecvOffers, Receive
  <2>2. /\ posted' = posted
        /\ taken'[h] = posted[h] /\ \A g \in Host \ {h} : taken'[g] = taken[g]
    BY <2>1, TakeType
  <2>3. InvRounds'
    BY <2>1, <2>2 DEF InvRounds, TypeOK
  <2>4. InvWire'
    BY <2>1 DEF InvWire
  <2> QED
    BY <1>11, <2>3, <2>4, ReceiveType, RecvOffersHost
<1>12. CASE RecvAnswers(h)
  <2>1. /\ pc[h] = "answers" /\ X!Take(h) /\ pc' = [pc EXCEPT ![h] = "add"]
        /\ wire' \subseteq wire
    BY <1>12 DEF RecvAnswers, Receive
  <2>2. /\ posted' = posted
        /\ taken'[h] = posted[h] /\ \A g \in Host \ {h} : taken'[g] = taken[g]
    BY <2>1, TakeType
  <2>3. InvRounds'
    BY <2>1, <2>2 DEF InvRounds, TypeOK
  <2>4. InvWire'
    BY <2>1 DEF InvWire
  <2> QED
    BY <1>12, <2>3, <2>4, ReceiveType, RecvAnswersHost
<1>13. CASE EnterSync(h)
  <2>1. /\ pc[h] = "add" /\ pc' = [pc EXCEPT ![h] = "sync"] /\ wire' = wire
        /\ posted' = posted /\ taken' = taken
    BY <1>13 DEF EnterSync, network
  <2>2. InvRounds'
    BY <2>1 DEF InvRounds, TypeOK
  <2>3. InvWire'
    BY <2>1 DEF InvWire
  <2> QED
    BY <1>13, <2>2, <2>3, EnterSyncType, EnterSyncHost
<1> QED
  BY <1>1, <1>2, <1>3, <1>4, <1>5, <1>6, <1>7, <1>8, <1>9, <1>10, <1>11, <1>12,
     <1>13 DEF HostStep, DealStep

LEMMA NextStep == IInv /\ [Next]_vars => IInv'
<1> SUFFICES ASSUME IInv, [Next]_vars
             PROVE  IInv'
  OBVIOUS
<1>1. TypeOK /\ InvRounds /\ InvWire /\ \A h \in Host : InvHost(h)
  BY DEF IInv
<1>2. ASSUME NEW h \in Host, HostStep(h)
      PROVE  IInv'
  <2>1. TypeOK' /\ InvRounds' /\ InvWire' /\ InvHost(h)'
    BY <1>1, <1>2, HostStepInv
  <2>2. ASSUME NEW g \in Host \ {h}
        PROVE  InvHost(g)'
    <3>1. SameHost(g)
      BY <1>1, <1>2, OtherHosts
    <3> QED
      BY <1>1, <3>1, KeepHost
  <2>3. \A g \in Host : InvHost(g)'
    BY <2>1, <2>2
  <2> QED
    BY <2>1, <2>3 DEF IInv
<1>3. CASE Sync
  <2>1. TypeOK' /\ \A h \in Host : InvHost(h)'
    BY <1>1, <1>3, SyncType, SyncHost
  <2>2. /\ \A h \in Host : pc[h] = "sync" /\ pc'[h] = "done"
        /\ posted' = posted /\ taken' = taken /\ wire' = wire
    BY <1>3 DEF Sync, network
  <2>3. InvRounds'
    BY <1>1, <2>2 DEF InvRounds
  <2>4. InvWire'
    BY <1>1, <2>2 DEF InvWire
  <2> QED
    BY <2>1, <2>3, <2>4 DEF IInv
<1>4. CASE UNCHANGED vars
  <2>1. /\ pc' = pc /\ sold' = sold /\ bought' = bought
        /\ needed' = needed /\ left' = left /\ deals' = deals /\ incoming' = incoming
        /\ remote_edges' = remote_edges /\ marks' = marks /\ wire' = wire
    BY <1>4 DEF vars
  <2>2. SameNetwork
    BY <1>4 DEF vars, network, SameNetwork
  <2>3. TypeOK'
    BY <1>1, <2>1, <2>2, KeepNetwork DEF TypeOK
  <2>4. \A h \in Host : InvHost(h)'
    BY <1>1, <2>1, KeepHost DEF SameHost
  <2>5. InvRounds' /\ InvWire'
    BY <1>1, <2>1, <2>2, RestStep
  <2> QED
    BY <2>3, <2>4, <2>5 DEF IInv
<1> QED
  BY <1>2, <1>3, <1>4 DEF Next, Terminated
-----------------------------------------------------------------------------
(* The theorems.                                                           *)

\* Spec keeps the invariant: exact amounts and fitting reservations on a host
\* that is buying, small ones afterwards (QuiesceGraph, quiesce.cpp:300).
THEOREM InductiveInvariant == Spec => []IInv
<1>1. Init => IInv
  BY InitStep
<1>2. IInv /\ [Next]_vars => IInv'
  BY NextStep
<1> QED
  BY <1>1, <1>2, PTL DEF Spec

\* Every amount stays a natural number, no subtraction goes below zero, and
\* messages go to other hosts.
THEOREM TypeCorrect == Spec => []TypeOK
<1>1. IInv => TypeOK
  BY DEF IInv
<1> QED
  BY <1>1, InductiveInvariant, PTL

LEMMA OversellStep == IInv => NoOversell
<1> SUFFICES ASSUME IInv, NEW h \in Host, NEW v \in Node
             PROVE  LET firm == sold[h][v] - Reserved(h, v)
                    IN \/ firm <= bought[h][v]
                       \/ firm <= SoldAtStart(h, v)
                       \/ v \in Mirrors(h) /\ pc[h] = "done"
  BY DEF NoOversell
<1> DEFINE D == OpenDeals(h, v)
           s == sold[h][v]
           b == bought[h][v]
           x == SoldAtStart(h, v)
<1>1. TypeOK /\ InvHost(h) /\ IsFiniteSet(deals[h])
  BY DEF IInv, InvHost
<1>2. /\ D \in SUBSET Deal /\ IsFiniteSet(D)
      /\ Reserved(h, v) = Deltas(D) /\ Reserved(h, v) \in Nat
      /\ s \in Nat /\ b \in Nat /\ x \in Nat
  BY <1>1, Shape, AtStartNat
<1>3. CASE pc[h] = "quiesce"
  <2>1. Fits(b, s, D, x)
    BY <1>1, <1>3 DEF InvHost, InvBuying, InvRace
  <2> HIDE DEF D, s, b, x
  <2>2. s - Deltas(D) <= b \/ s - Deltas(D) <= x
    BY <1>2, <2>1, FitsFirm
  <2> QED
    BY <1>2, <2>2 DEF s, b, x
<1>4. CASE pc[h] \in {"offers", "decide", "answers", "add", "sync"}
  <2>1. s <= b \/ s <= x
    BY <1>1, <1>4 DEF InvHost, InvSent, Kept
  <2> HIDE DEF s, b, x
  <2>2. s - Reserved(h, v) <= b \/ s - Reserved(h, v) <= x
    BY <1>2, <2>1
  <2> QED
    BY <2>2 DEF s, b, x
<1>5. CASE pc[h] = "done"
  <2>1. v \notin Mirrors(h) => s <= b \/ s <= x
    BY <1>1, <1>5 DEF InvHost, InvDone
  <2> HIDE DEF s, b, x
  <2>2. v \notin Mirrors(h) => s - Reserved(h, v) <= b \/ s - Reserved(h, v) <= x
    BY <1>2, <2>1
  <2> QED
    BY <1>5, <2>2 DEF s, b, x
<1> QED
  BY <1>1, <1>3, <1>4, <1>5 DEF TypeOK

\* However the threads interleave their reservations, and whatever offers
\* arrive, no seller is sold beyond what it bought, or further beyond than
\* the cancellation left it (quiesce.cpp:221-226, 283-288).
THEOREM NoOversellCorrect == Spec => []NoOversell
BY InductiveInvariant, OversellStep, PTL

LEMMA NeedStep == IInv => NeedAccounted
<1> SUFFICES ASSUME IInv, NEW h \in Host, pc[h] = "quiesce", NEW n \in Masters(h)
             PROVE  LET sum == bought[h][n] + needed[n] + Proposed(h, n)
                    IN /\ sum <= Unit * Desired(n)
                       /\ OneTradeEach(n) => sum = Unit * Desired(n)
  BY DEF NeedAccounted
<1>1. InvNeed(h)
  BY DEF IInv, InvHost, InvBuying
<1>2. NeedOf(h, n) = bought[h][n] + needed[n] + Proposed(h, n)
  BY DEF NeedOf, Weights, Proposed
<1> QED
  BY <1>1, <1>2 DEF InvNeed

\* Until the proposals are sent, what a buyer desires is what it has, what it
\* needs and what is proposed for it; only a proposal that lazy_emplace drops,
\* of a second trade with the same seller, is lost (quiesce.cpp:236).
THEOREM NeedAccountedCorrect == Spec => []NeedAccounted
BY InductiveInvariant, NeedStep, PTL

LEMMA DesiredStep == IInv => WithinDesired
<1> SUFFICES ASSUME IInv, NEW v \in Node
             PROVE  bought[Owner[v]][v] <= Unit * Desired(v)
  BY DEF WithinDesired
<1> DEFINE h == Owner[v]
<1>1. h \in Host /\ v \in Masters(h)
  BY NodeAssumption DEF Masters
<1> HIDE DEF h
<1>2. TypeOK /\ InvHost(h)
  BY <1>1 DEF IInv
<1>3. CASE pc[h] = "quiesce"
  <2> DEFINE W == Weights({e \in remote_edges[h] : e.src = v})
  <2>1. W \in Nat
    BY <1>1, <1>2, ProposedShape DEF InvHost
  <2>2. bought[h][v] + needed[v] + W <= Unit * Desired(v)
    BY <1>1, <1>2, <1>3 DEF InvHost, InvBuying, InvNeed, NeedOf
  <2> HIDE DEF W
  <2>3. bought[h][v] \in Nat /\ needed[v] \in Nat
    BY <1>1, <1>2 DEF TypeOK
  <2>4. Unit * Desired(v) \in Nat
    BY DesiredNat, UnitEven
  <2>5. bought[h][v] <= Unit * Desired(v)
    BY <2>1, <2>2, <2>3, <2>4
  <2> QED
    BY <2>5 DEF h
<1>4. CASE pc[h] # "quiesce"
  <2>1. bought[h][v] <= Unit * Desired(v)
    BY <1>1, <1>2, <1>4 DEF TypeOK, InvHost, InvSent, InvDone
  <2> QED
    BY <2>1 DEF h
<1> QED
  BY <1>3, <1>4

\* A buyer never has more than it desires, from trades on its host and from
\* answers together (quiesce.cpp:44, 231, 292).
THEOREM WithinDesiredCorrect == Spec => []WithinDesired
BY InductiveInvariant, DesiredStep, PTL

LEMMA BalanceStep == IInv => LocalTradesBalance
<1> SUFFICES ASSUME IInv, NEW h \in Host, pc[h] = "offers"
             PROVE  SumFunctionOnSet([v \in Masters(h) |-> bought[h][v] - BoughtAtStart(h, v)], Masters(h))
                      = SumFunctionOnSet([v \in Masters(h) |-> sold[h][v] - SoldAtStart(h, v)], Masters(h))
  BY DEF LocalTradesBalance
<1>1. TypeOK /\ InvBalance(h) /\ deals[h] = {}
  BY DEF IInv, InvHost, InvSent
<1>2. \A v \in Masters(h) : Sale(h, v) = sold[h][v] - SoldAtStart(h, v)
  <2> SUFFICES ASSUME NEW v \in Masters(h)
               PROVE  Sale(h, v) = sold[h][v] - SoldAtStart(h, v)
    OBVIOUS
  <2>1. OpenDeals(h, v) = {}
    BY <1>1 DEF OpenDeals
  <2>2. Reserved(h, v) = 0
    BY <2>1, SumEmpty DEF Reserved
  <2>3. v \in Node /\ sold[h][v] \in Nat
    BY <1>1, HostNodes DEF TypeOK
  <2> QED
    BY <2>2, <2>3 DEF Sale
<1>3. /\ [v \in Masters(h) |-> bought[h][v] - BoughtAtStart(h, v)] = [v \in Masters(h) |-> Gain(h, v)]
      /\ [v \in Masters(h) |-> sold[h][v] - SoldAtStart(h, v)] = [v \in Masters(h) |-> Sale(h, v)]
  BY <1>2 DEF Gain
<1> QED
  BY <1>1, <1>3 DEF InvBalance

\* When a host's buyers are through, what its masters bought of each other is
\* what they sold each other: refused reservations leave nothing behind
\* (quiesce.cpp:221-231).
THEOREM LocalTradesBalanceCorrect == Spec => []LocalTradesBalance
BY InductiveInvariant, BalanceStep, PTL
-----------------------------------------------------------------------------
(* The mirrors.  Of whole amounts (Parts = 1) every proposal that is made  *)
(* still says something when it arrives.  If the seller has sold nothing   *)
(* since the start, it has enough left, and the first reservation at it,   *)
(* by whomever, is accepted.  So a seller that somebody proposed to buy    *)
(* from ends with a mark, and the sync gives its mirrors what the master   *)
(* has.  Where nobody proposed nothing has changed.                        *)

\* A node that has more to sell than it has sold.
Sellable(h, v) == BoughtAtStart(h, v) > SoldAtStart(h, v)

\* A reservation that will be accepted.
Promised(h, v) == \E d \in OpenDeals(h, v) : d.total <= bought[h][v]

Untouched(h, v) ==
  /\ OpenDeals(h, v) = {}
  /\ sold[h][v] = SoldAtStart(h, v)
  /\ \A d \in deals[h] : d.dst = v => Plus(sold[h][v], d.delta) <= bought[h][v]

\* A master is as the cancellation left it, or marked, or about to be.
InvSeller(h) ==
  \A v \in Masters(h) : v \in marks[h].sold \/ Promised(h, v) \/ Untouched(h, v)

InvStart(h) ==
  \A v \in Node :
    IF v \in Masters(h) THEN bought[h][v] >= BoughtAtStart(h, v)
    ELSE pc[h] # "done" => bought[h][v] = BoughtAtStart(h, v)

Proposes(h, v) == \E e \in remote_edges[h] : e.dst = v
Attempts(h, v) == \E d \in deals[h] : d.dst = v

\* What a host has added to sold_ of a mirror is an open reservation, or
\* there is a proposal to that seller.
InvAway(h) ==
  /\ \A e \in remote_edges[h] : e.weight >= Unit
  /\ \A v \in Node \ Masters(h) :
       /\ Proposes(h, v) \/ Sale(h, v) = 0
       /\ Proposes(h, v) \/ Attempts(h, v) => Sellable(h, v)

\* A host is only offered trades of its own masters.
InvHome(h) ==
  pc[h] = "decide" =>
    /\ \A d \in deals[h] : d.dst \in Masters(h)
    /\ \A o \in incoming[h] : o.edge.dst \in Masters(h)

\* A proposal to v is on its way, being decided, or has been accepted.
Offered(v) ==
  LET g == Owner[v]
  IN \/ \E m \in wire : m.to = g /\ m.round = 1 /\ m.edge.dst = v /\ m.edge.weight > 0
     \/ pc[g] = "decide" /\ \E o \in incoming[g] : o.edge.dst = v /\ o.edge.weight > 0
     \/ Attempts(g, v)
     \/ v \in marks[g].sold

InvMirror(h) ==
  /\ pc[h] = "quiesce" => InvAway(h)
  /\ pc[h] \in {"offers", "decide", "answers", "add", "sync"} =>
       \A v \in Node \ Masters(h) :
         sold[h][v] = SoldAtStart(h, v) \/ (Sellable(Owner[v], v) /\ Offered(v))

\* No host leaves a round before all have entered it, so no proposal comes late.
InvTime ==
  /\ \A g, h \in Host : taken[g] <= posted[h]
  /\ \A m \in wire : m.round = 1 =>
       pc[m.to] \in {"quiesce", "offers"} /\ m.edge.dst \in Masters(m.to)

MirrorInv ==
  /\ InvTime
  /\ \A h \in Host : InvSeller(h) /\ InvStart(h) /\ InvHome(h) /\ InvMirror(h)
  /\ MirrorsUpdated
-----------------------------------------------------------------------------
(* Facts about amounts.                                                    *)

\* Rounding does not lead over a whole number of units.
LEMMA RoundedBelow ==
  ASSUME NEW x \in Nat, NEW b \in Grid, x <= b
  PROVE  Rounded(x) <= b
<1>1. PICK k \in Nat : b = Unit * k
  BY DEF Grid
<1>2. CASE - Half < x /\ x < Half
  BY <1>2 DEF Rounded, Half
<1>3. CASE ~ (- Half < x /\ x < Half)
  <2> DEFINE q == (x + Half) \div Unit
  <2>1. q \in Int /\ Unit * q <= x + Half
    <3>1. \A y \in Nat : y \div Unit \in Int /\ Unit * (y \div Unit) <= y
      BY UnitEven
    <3> QED
      BY <3>1, UnitEven
  <2>2. Rounded(x) = q * Unit
    BY <1>3 DEF Rounded, Half
  <2> HIDE DEF q
  <2>3. q <= k
    <3> SUFFICES ASSUME q >= k + 1
                 PROVE  FALSE
      BY <2>1
    <3>1. Unit * q >= Unit * (k + 1)
      <4>1. \A a, c \in Int : a >= c => Unit * a >= Unit * c
        BY UnitEven
      <4> QED
        BY <2>1, <4>1
    <3>2. Unit * (k + 1) = Unit * k + Unit /\ Unit * q \in Int /\ Unit * k \in Int
      BY <2>1, UnitEven
    <3> QED
      BY <1>1, <2>1, <3>1, <3>2, UnitEven
  <2>4. Unit * q <= Unit * k
    BY <2>1, <2>3, UnitEven
  <2> QED
    BY <1>1, <2>1, <2>2, <2>4, UnitEven
<1> QED
  BY <1>2, <1>3

LEMMA OnWireUnit ==
  ASSUME Parts = 1, NEW x \in Nat, x >= Unit
  PROVE  OnWire(x) > 0
<1>1. Unit * Parts = Unit
  BY UnitEven
<1>2. Unit \in Nat /\ Unit > 0
  BY UnitEven
<1> DEFINE q == x \div Unit
<1>3. q \in Int /\ x < Unit * (q + 1)
  BY <1>2, Z3
<1> HIDE DEF q
<1>4. q > 0
  <2> SUFFICES ASSUME q + 1 <= 1
               PROVE  FALSE
    BY <1>3
  <2>1. Unit * (q + 1) <= Unit * 1
    <3>1. \A a, c \in Int : a <= c => Unit * a <= Unit * c
      BY <1>2
    <3> QED
      BY <1>3, <3>1
  <2>2. Unit * (q + 1) \in Int
    BY <1>2, <1>3
  <2> QED
    BY <1>2, <1>3, <2>1, <2>2
<1> QED
  BY <1>1, <1>4 DEF OnWire, q

\* A node starts the same on every host, but for bought_ that the host has
\* not been told of.
LEMMA StartsAlike ==
  ASSUME NEW h \in Host, NEW v \in Node
  PROVE  /\ v \in Local(h) => SoldAtStart(h, v) = SoldAtStart(Owner[v], v)
         /\ Sellable(h, v) => Sellable(Owner[v], v)
<1>1. v \in Masters(Owner[v]) /\ v \in Local(Owner[v])
  BY HostNodes DEF Local
<1>2. BoughtAtStart(Owner[v], v) = Unit * BoughtIn(Standing, v)
      /\ SoldAtStart(Owner[v], v) = Unit * SoldIn(Standing, v)
  BY <1>1 DEF BoughtAtStart, BoughtSeen, SoldAtStart
<1>3. ASSUME Sellable(h, v)
      PROVE  v \in Local(h) /\ BoughtSeen(h, v)
  <2>1. SoldAtStart(h, v) \in Nat
    BY AtStartNat
  <2> QED
    BY <1>3, <2>1 DEF Sellable, BoughtAtStart, SoldAtStart
<1>4. Sellable(h, v) => Sellable(Owner[v], v)
  BY <1>2, <1>3 DEF Sellable, BoughtAtStart, SoldAtStart
<1> QED
  BY <1>2, <1>4 DEF SoldAtStart

\* A new attempt is for what the seller has left, at most.
LEMMA NewAttempt ==
  ASSUME TypeOK, NEW h \in Host, NEW n \in Node, NEW v \in Node,
         NEW w \in Nat, NEW g \in Host,
         deals' = [deals EXCEPT ![h] = Attempted(h, n, v, w, g)]
  PROVE  /\ deals[h] \subseteq deals'[h]
         /\ \A c \in deals'[h] \ deals[h] :
              /\ c.dst = v /\ ~ c.reserved
              /\ c.delta \in Nat /\ c.delta > 0 /\ c.delta <= Surplus(h, v)
         /\ w > 0 /\ Surplus(h, v) > 0 => \E c \in deals'[h] : c.dst = v
         /\ \A u \in Node : OpenDeals(h, u)' = OpenDeals(h, u)
<1> DEFINE a == TradeDelta(h, v, w)
           e == [src |-> n, dst |-> v, delta |-> a, from |-> g,
                 reserved |-> FALSE, total |-> 0]
<1>1. deals'[h] = Attempted(h, n, v, w, g)
  BY DEF TypeOK
<1>2. Surplus(h, v) \in Int
  <2>1. bought[h][v] - sold[h][v] \in Int
    BY DEF TypeOK
  <2> QED
    BY <2>1, RoundedSign DEF Surplus, Minus
<1>3. a \in Int /\ a <= Surplus(h, v) /\ (w > 0 /\ Surplus(h, v) > 0 => a > 0)
  <2> HIDE DEF Surplus
  <2> QED
    BY <1>2 DEF TradeDelta, Least
<1>4. deals'[h] = IF a <= 0 THEN deals[h] ELSE deals[h] \cup {e}
  BY <1>1 DEF Attempted
<1>5. e.dst = v /\ ~ e.reserved /\ e.delta = a
  OBVIOUS
<1> HIDE DEF a, e, Surplus
<1>6. \A u \in Node : OpenDeals(h, u)' = OpenDeals(h, u)
  <2>1. \A c \in deals'[h] : c.reserved => c \in deals[h]
    BY <1>4, <1>5
  <2>2. deals[h] \subseteq deals'[h]
    BY <1>4
  <2> QED
    BY <2>1, <2>2 DEF OpenDeals
<1> QED
  BY <1>3, <1>4, <1>5, <1>6
-----------------------------------------------------------------------------
(* What a step of a host does to its sellers.                              *)

LEMMA SellerSame ==
  ASSUME TypeOK, NEW h \in Host, InvSeller(h),
         deals'[h] = deals[h], sold'[h] = sold[h],
         marks[h].sold \subseteq marks'[h].sold, bought'[h] = bought[h]
  PROVE  InvSeller(h)'
<1>1. \A v \in Node : OpenDeals(h, v)' = OpenDeals(h, v)
  BY SameOpen
<1> QED
  BY <1>1, HostNodes DEF InvSeller, Promised, Untouched

LEMMA AttemptSeller ==
  ASSUME TypeOK, NEW h \in Host, InvSeller(h), NEW n \in Node, NEW v \in Node,
         NEW w \in Nat, NEW g \in Host,
         deals' = [deals EXCEPT ![h] = Attempted(h, n, v, w, g)],
         sold' = sold, bought' = bought, marks' = marks, bought[h][v] \in Grid
  PROVE  InvSeller(h)'
<1>1. /\ deals[h] \subseteq deals'[h]
      /\ \A c \in deals'[h] \ deals[h] :
           /\ c.dst = v /\ ~ c.reserved
           /\ c.delta \in Nat /\ c.delta > 0 /\ c.delta <= Surplus(h, v)
      /\ \A u \in Node : OpenDeals(h, u)' = OpenDeals(h, u)
  BY NewAttempt
<1>2. ASSUME NEW u \in Masters(h), Promised(h, u)
      PROVE  Promised(h, u)'
  BY <1>1, <1>2, HostNodes DEF Promised
<1>3. ASSUME NEW u \in Masters(h), Untouched(h, u)
      PROVE  Untouched(h, u)'
  <2>1. u \in Node /\ OpenDeals(h, u) = {} /\ sold[h][u] = SoldAtStart(h, u)
        /\ \A d \in deals[h] : d.dst = u => Plus(sold[h][u], d.delta) <= bought[h][u]
    BY <1>3, HostNodes DEF Untouched
  <2>2. ASSUME NEW c \in deals'[h] \ deals[h], c.dst = u
        PROVE  Plus(sold[h][u], c.delta) <= bought[h][u]
    <3>1. u = v /\ c.delta \in Nat /\ c.delta <= Surplus(h, u)
      BY <1>1, <2>2
    <3>2. sold[h][u] \in Grid /\ bought[h][u] \in Grid
          /\ sold[h][u] \in Nat /\ bought[h][u] \in Nat
      BY <2>1, <3>1, AtStartNat DEF TypeOK
    <3>3. Surplus(h, u) = bought[h][u] - sold[h][u]
      BY <3>2, GridMinus DEF Surplus
    <3>4. sold[h][u] + c.delta <= bought[h][u] /\ sold[h][u] + c.delta \in Nat
      BY <3>1, <3>2, <3>3
    <3> QED
      BY <3>2, <3>4, RoundedBelow DEF Plus
  <2> QED
    BY <1>1, <2>1, <2>2 DEF Untouched
<1> QED
  BY <1>2, <1>3 DEF InvSeller

LEMMA ReserveSeller ==
  ASSUME TypeOK, NEW h \in Host, InvSeller(h), NEW d \in deals[h], Reserve(h, d)
  PROVE  InvSeller(h)'
<1>1. PICK e \in Deal :
           /\ e.src = d.src /\ e.dst = d.dst /\ e.delta = d.delta /\ e.from = d.from
           /\ e.reserved /\ e # d /\ e.total = Plus(sold[h][d.dst], d.delta)
           /\ deals' = [deals EXCEPT ![h] = (deals[h] \ {d}) \cup {e}]
           /\ deals'[h] = (deals[h] \ {d}) \cup {e}
           /\ sold'[h] = [sold[h] EXCEPT ![d.dst] = Plus(sold[h][d.dst], d.delta)]
           /\ sold' \in [Host -> [Node -> Nat]]
           /\ OpenDeals(h, d.dst)' = OpenDeals(h, d.dst) \cup {e}
           /\ \A w \in Node \ {d.dst} : OpenDeals(h, w)' = OpenDeals(h, w)
  BY ReserveEffect
<1>2. bought' = bought /\ marks' = marks
  BY DEF Reserve
<1> SUFFICES ASSUME NEW v \in Masters(h)
             PROVE  (v \in marks[h].sold \/ Promised(h, v) \/ Untouched(h, v))'
  BY DEF InvSeller
<1>3. v \in Node /\ (v \in marks[h].sold \/ Promised(h, v) \/ Untouched(h, v))
  BY HostNodes DEF InvSeller
<1>4. CASE v \in marks[h].sold
  BY <1>2, <1>4
<1>5. CASE Promised(h, v)
  BY <1>1, <1>2, <1>3, <1>5 DEF Promised
<1>6. CASE Untouched(h, v) /\ v = d.dst
  BY <1>1, <1>2, <1>6 DEF Promised, Untouched
<1>7. CASE Untouched(h, v) /\ v # d.dst
  <2>1. sold'[h][v] = sold[h][v]
    BY <1>1, <1>3, <1>7 DEF TypeOK
  <2> QED
    BY <1>1, <1>2, <1>3, <1>7, <2>1 DEF Untouched
<1> QED
  BY <1>3, <1>4, <1>5, <1>6, <1>7

\* A reservation that is taken back is not the only one.
LEMMA TakeBackSeller ==
  ASSUME TypeOK, NEW h \in Host, InvSeller(h), NEW d \in deals[h], TakeBack(h, d)
  PROVE  /\ InvSeller(h)'
         /\ d.dst \in Masters(h) =>
              d.dst \in marks[h].sold \/ \E f \in deals'[h] : f.dst = d.dst
<1>1. /\ deals'[h] = deals[h] \ {d}
      /\ d \in OpenDeals(h, d.dst) /\ d.dst \in Node
      /\ sold'[h] = [sold[h] EXCEPT ![d.dst] = Minus(sold[h][d.dst], d.delta)]
      /\ OpenDeals(h, d.dst)' = OpenDeals(h, d.dst) \ {d}
      /\ \A w \in Node \ {d.dst} : OpenDeals(h, w)' = OpenDeals(h, w)
  BY TakeBackEffect
<1>2. bought' = bought /\ marks' = marks /\ d.total > bought[h][d.dst]
  BY DEF TakeBack, Exceeds
<1>3. d.total \in Nat /\ bought[h][d.dst] \in Nat
  BY <1>1 DEF TypeOK, Deal
<1>4. ASSUME Promised(h, d.dst)
      PROVE  Promised(h, d.dst)' /\ \E f \in deals'[h] : f.dst = d.dst
  <2>1. PICK f \in OpenDeals(h, d.dst) : f.total <= bought[h][d.dst]
    BY <1>4 DEF Promised
  <2>2. f # d
    BY <1>2, <1>3, <2>1
  <2>3. f \in deals'[h] /\ f.dst = d.dst /\ f \in OpenDeals(h, d.dst)'
    BY <1>1, <2>1, <2>2 DEF OpenDeals
  <2> QED
    BY <1>2, <2>1, <2>3 DEF Promised
<1>5. ~ Untouched(h, d.dst)
  BY <1>1 DEF Untouched
<1>6. d.dst \in Masters(h) => d.dst \in marks[h].sold \/ Promised(h, d.dst)
  BY <1>5 DEF InvSeller
<1>7. ASSUME NEW v \in Masters(h), v # d.dst
      PROVE  (v \in marks[h].sold \/ Promised(h, v) \/ Untouched(h, v))'
  <2>1. v \in Node /\ (v \in marks[h].sold \/ Promised(h, v) \/ Untouched(h, v))
    BY HostNodes DEF InvSeller
  <2>2. sold'[h][v] = sold[h][v] /\ OpenDeals(h, v)' = OpenDeals(h, v)
    BY <1>1, <1>7, <2>1 DEF TypeOK
  <2> QED
    BY <1>1, <1>2, <2>1, <2>2 DEF Promised, Untouched
<1>8. InvSeller(h)'
  <2> SUFFICES ASSUME NEW v \in Masters(h)
               PROVE  (v \in marks[h].sold \/ Promised(h, v) \/ Untouched(h, v))'
    BY DEF InvSeller
  <2>1. CASE v = d.dst
    BY <1>2, <1>4, <1>6, <2>1
  <2> QED
    BY <1>7, <2>1
<1> QED
  BY <1>4, <1>6, <1>8

\* An accepted one leaves a mark.
LEMMA AcceptSeller ==
  ASSUME TypeOK, NEW h \in Host, InvSeller(h), NEW d \in deals[h], Accepted(h, d),
         sold' = sold, marks[h].sold \subseteq marks'[h].sold,
         d.dst \in Masters(h) => d.dst \in marks'[h].sold,
         bought' \in [Host -> [Node -> Nat]],
         \A v \in Node : bought[h][v] <= bought'[h][v]
  PROVE  InvSeller(h)'
<1>1. /\ deals'[h] = deals[h] \ {d}
      /\ \A v \in Node \ {d.dst} : OpenDeals(h, v)' = OpenDeals(h, v)
  BY AcceptEffect
<1> SUFFICES ASSUME NEW v \in Masters(h), v \notin marks'[h].sold
             PROVE  Promised(h, v)' \/ Untouched(h, v)'
  BY DEF InvSeller
<1>2. v \in Node /\ v # d.dst /\ (Promised(h, v) \/ Untouched(h, v))
  BY HostNodes DEF InvSeller
<1>3. bought[h][v] \in Nat /\ bought'[h][v] \in Nat /\ bought[h][v] <= bought'[h][v]
      /\ sold[h][v] \in Nat
  BY <1>2 DEF TypeOK
<1>4. CASE Promised(h, v)
  <2>1. PICK f \in OpenDeals(h, v) : f.total <= bought[h][v]
    BY <1>4 DEF Promised
  <2>2. f.total \in Nat
    BY DEF OpenDeals, TypeOK, Deal
  <2>3. f.total <= bought'[h][v]
    BY <1>3, <2>1, <2>2
  <2> QED
    BY <1>1, <1>2, <2>3 DEF Promised
<1>5. CASE Untouched(h, v)
  <2>1. OpenDeals(h, v)' = {} /\ sold'[h][v] = SoldAtStart(h, v)
    BY <1>1, <1>2, <1>5 DEF Untouched
  <2>2. ASSUME NEW c \in deals'[h], c.dst = v
        PROVE  Plus(sold'[h][v], c.delta) <= bought'[h][v]
    <3>1. c \in deals[h] /\ c.delta \in Nat
      BY <1>1 DEF TypeOK, Deal
    <3>2. Plus(sold[h][v], c.delta) <= bought[h][v]
      BY <1>5, <2>2, <3>1 DEF Untouched
    <3>3. Plus(sold[h][v], c.delta) \in Int
      <4>1. sold[h][v] + c.delta \in Int
        BY <1>3, <3>1
      <4> QED
        BY <4>1, RoundedSign DEF Plus
    <3> QED
      BY <1>3, <3>2, <3>3
  <2> QED
    BY <2>1, <2>2 DEF Untouched
<1> QED
  BY <1>2, <1>4, <1>5

\* No thread takes a mark away.
LEMMA MarksGrow ==
  ASSUME TypeOK, NEW h \in Host, HostStep(h), NEW g \in Host
  PROVE  /\ marks[g].sold \subseteq marks'[g].sold
         /\ g # h => marks'[g] = marks[g]
<1>1. CASE marks' = marks
  BY <1>1
<1>2. ASSUME NEW d \in deals[h], Buy(h, d)
      PROVE  /\ marks[g].sold \subseteq marks'[g].sold
             /\ g # h => marks'[g] = marks[g]
  BY <1>2 DEF Buy, SoldMarked, TypeOK
<1>3. ASSUME NEW d \in deals[h], Confirm(h, d)
      PROVE  /\ marks[g].sold \subseteq marks'[g].sold
             /\ g # h => marks'[g] = marks[g]
  BY <1>3 DEF Confirm, SoldMarked, TypeOK
<1>4. ASSUME NEW o \in incoming[h], AddPurchaseEdge(h, o)
      PROVE  /\ marks[g].sold \subseteq marks'[g].sold
             /\ g # h => marks'[g] = marks[g]
  BY <1>4 DEF AddPurchaseEdge, TypeOK
<1> QED
  BY <1>1, <1>2, <1>3, <1>4 DEF HostStep, DealStep, Look, Reserve, TakeBack, Propose, SendOffers,
     RecvOffers, LookOffer, SendAnswers, RecvAnswers, EnterSync, Send, Receive

\* Only buyers of the host have bought more.
LEMMA BuyMore ==
  ASSUME TypeOK, TypeOK', NEW h \in Host, InvHost(h), NEW d \in deals[h], Buy(h, d)
  PROVE  /\ \A v \in Node : bought[h][v] <= bought'[h][v]
         /\ \A v \in Node \ Masters(h) : bought'[h][v] = bought[h][v]
<1>1. /\ pc[h] = "quiesce" /\ d \in Deal /\ d.src \in Masters(h) /\ d.src \in Node
      /\ d.delta \in Grid /\ bought[h][d.src] \in Grid
  BY HostNodes DEF Buy, InvHost, InvBuying, InvDeals, InvExact, TypeOK
<1>2. Plus(bought[h][d.src], d.delta) = bought[h][d.src] + d.delta
      /\ bought[h][d.src] \in Nat /\ d.delta \in Nat
  BY <1>1, GridPlus, GridType
<1>3. /\ bought'[h][d.src] = bought[h][d.src] + d.delta
      /\ \A v \in Node \ {d.src} : bought'[h][v] = bought[h][v]
  BY <1>1, <1>2 DEF Buy, TypeOK
<1>4. \A v \in Node : bought[h][v] \in Nat
  BY DEF TypeOK
<1> QED
  BY <1>1, <1>2, <1>3, <1>4

LEMMA AddNothing ==
  ASSUME TypeOK, NEW h \in Host, InvHost(h), NEW o \in incoming[h], AddPurchaseEdge(h, o)
  PROVE  bought'[h] = bought[h]
<1>1. /\ pc[h] = "add" /\ o.edge.weight = 0 /\ o.edge.src \in Node
      /\ bought[h][o.edge.src] \in Grid
  BY DEF AddPurchaseEdge, InvHost, InvSent, TypeOK, ProposedEdge
<1>2. Plus(bought[h][o.edge.src], o.edge.weight) = bought[h][o.edge.src]
  <2>1. \A x \in Grid : Plus(x, 0) = x
    BY GridPlus, GridType
  <2> QED
    BY <1>1, <2>1
<1> QED
  BY <1>1, <1>2 DEF AddPurchaseEdge, TypeOK

LEMMA SellerStep ==
  ASSUME TypeOK, TypeOK', NEW h \in Host, InvHost(h), InvSeller(h), HostStep(h)
  PROVE  InvSeller(h)'
<1> DEFINE m == marks[h].sold \subseteq marks'[h].sold
<1>0. m
  BY MarksGrow
<1> HIDE DEF m
<1>1. ASSUME NEW n \in Node, NEW t \in left[n], Look(h, n, t)
      PROVE  InvSeller(h)'
  <2>1. /\ pc[h] = "quiesce" /\ n \in Masters(h)
        /\ deals' = [deals EXCEPT ![h] = Attempted(h, n, Seller[t], needed[n], h)]
        /\ sold' = sold /\ bought' = bought /\ marks' = marks
    BY <1>1 DEF Look
  <2>2. t \in Trade /\ Seller[t] \in Node /\ needed[n] \in Nat
    BY TradeAssumption DEF TypeOK
  <2>3. bought[h][Seller[t]] \in Grid
    BY <2>1, <2>2 DEF InvHost, InvBuying, InvExact
  <2> QED
    BY <2>1, <2>2, <2>3, AttemptSeller
<1>2. ASSUME NEW d \in deals[h], Reserve(h, d)
      PROVE  InvSeller(h)'
  BY <1>2, ReserveSeller
<1>3. ASSUME NEW d \in deals[h], TakeBack(h, d)
      PROVE  InvSeller(h)'
  BY <1>3, TakeBackSeller
<1>4. ASSUME NEW d \in deals[h], Buy(h, d)
      PROVE  InvSeller(h)'
  <2>1. /\ Accepted(h, d) /\ sold' = sold /\ d.dst \in marks'[h].sold
        /\ bought' \in [Host -> [Node -> Nat]]
    BY <1>4 DEF Buy, SoldMarked, TypeOK
  <2>2. \A v \in Node : bought[h][v] <= bought'[h][v]
    BY <1>4, BuyMore
  <2> QED
    BY <1>0, <2>1, <2>2, AcceptSeller DEF m
<1>5. ASSUME NEW d \in deals[h], Propose(h, d) \/ Confirm(h, d)
      PROVE  InvSeller(h)'
  <2>1. /\ Accepted(h, d) /\ sold' = sold /\ bought' = bought
        /\ d.dst \in Masters(h) => d.dst \in marks'[h].sold
    BY <1>5 DEF Propose, Confirm, SoldMarked, TypeOK
  <2>2. /\ bought' \in [Host -> [Node -> Nat]]
        /\ \A v \in Node : bought[h][v] <= bought'[h][v]
    BY <2>1 DEF TypeOK
  <2> QED
    BY <1>0, <2>1, <2>2, AcceptSeller DEF m
<1>6. ASSUME NEW o \in incoming[h], LookOffer(h, o)
      PROVE  InvSeller(h)'
  <2>1. /\ pc[h] = "decide" /\ sold' = sold /\ bought' = bought /\ marks' = marks
        /\ deals' = [deals EXCEPT ![h] =
                       Attempted(h, o.edge.src, o.edge.dst, o.edge.weight, o.from)]
    BY <1>6 DEF LookOffer
  <2>2. /\ o.edge.src \in Node /\ o.edge.dst \in Node /\ o.edge.weight \in Nat /\ o.from \in Host
    BY DEF TypeOK, ProposedEdge
  <2>3. bought[h][o.edge.dst] \in Grid
    BY <2>1, <2>2 DEF InvHost, InvSent
  <2> QED
    BY <2>1, <2>2, <2>3, AttemptSeller
<1>7. ASSUME NEW o \in incoming[h], AddPurchaseEdge(h, o)
      PROVE  InvSeller(h)'
  <2>1. deals' = deals /\ sold' = sold
    BY <1>7 DEF AddPurchaseEdge
  <2> QED
    BY <1>0, <1>7, <2>1, AddNothing, SellerSame DEF m
<1>8. CASE SendOffers(h) \/ RecvOffers(h) \/ SendAnswers(h) \/ RecvAnswers(h) \/ EnterSync(h)
  <2>1. deals' = deals /\ sold' = sold /\ bought' = bought
    BY <1>8 DEF SendOffers, RecvOffers, SendAnswers, RecvAnswers, EnterSync, Send, Receive
  <2> QED
    BY <1>0, <2>1, SellerSame DEF m
<1> QED
  BY <1>1, <1>2, <1>3, <1>4, <1>5, <1>6, <1>7, <1>8 DEF HostStep, DealStep

LEMMA StartStep ==
  ASSUME TypeOK, TypeOK', NEW h \in Host, InvHost(h), InvStart(h), HostStep(h)
  PROVE  InvStart(h)'
<1>1. /\ \A v \in Node : bought[h][v] <= bought'[h][v]
      /\ \A v \in Node \ Masters(h) : bought'[h][v] = bought[h][v]
  <2>1. CASE bought'[h] = bought[h]
    BY <2>1 DEF TypeOK
  <2>2. ASSUME NEW d \in deals[h], Buy(h, d)
        PROVE  /\ \A v \in Node : bought[h][v] <= bought'[h][v]
               /\ \A v \in Node \ Masters(h) : bought'[h][v] = bought[h][v]
    BY <2>2, BuyMore
  <2>3. ASSUME NEW o \in incoming[h], AddPurchaseEdge(h, o)
        PROVE  bought'[h] = bought[h]
    BY <2>3, AddNothing
  <2> QED
    BY <2>1, <2>2, <2>3 DEF HostStep, DealStep, Look, Reserve, TakeBack, Propose, Confirm,
       SendOffers, RecvOffers, LookOffer, SendAnswers, RecvAnswers, EnterSync, Send, Receive
<1>2. pc'[h] = "done" => pc[h] = "done"
  BY DEF HostStep, DealStep, Look, Reserve, TakeBack, Buy, Propose, Confirm, SendOffers,
     RecvOffers, LookOffer, SendAnswers, RecvAnswers, AddPurchaseEdge, EnterSync, TypeOK
<1>3. pc[h] # "done"
  BY DealPhase DEF HostStep, DealStep, Look, SendOffers,
     RecvOffers, LookOffer, SendAnswers, RecvAnswers, AddPurchaseEdge, EnterSync
<1> SUFFICES ASSUME NEW v \in Node
             PROVE  IF v \in Masters(h) THEN bought'[h][v] >= BoughtAtStart(h, v)
                    ELSE bought'[h][v] = BoughtAtStart(h, v)
  BY DEF InvStart
<1>4. /\ bought[h][v] \in Nat /\ bought'[h][v] \in Nat /\ BoughtAtStart(h, v) \in Nat
      /\ bought[h][v] <= bought'[h][v]
  BY <1>1, AtStartNat DEF TypeOK
<1> QED
  BY <1>1, <1>3, <1>4 DEF InvStart
-----------------------------------------------------------------------------
(* Proposals arrive and are decided.                                       *)

LEMMA TimeStep ==
  ASSUME TypeOK, InvRounds, InvWire, InvTime, NEW h \in Host, InvHost(h), HostStep(h)
  PROVE  InvTime'
<1> DEFINE Home(m) == m.edge.dst \in Masters(m.to)
<1>1. \A g, k \in Host : taken[g] <= posted[k]
  BY DEF InvTime
<1>2. \A m \in wire : m.round = 1 => pc[m.to] \in {"quiesce", "offers"} /\ Home(m)
  BY DEF InvTime
<1>3. \A m \in wire : m.to \in Host
  BY DEF TypeOK
<1>4. \A g \in Host : posted[g] \in Nat /\ taken[g] \in Nat
  <2>1. posted \in [Host -> 0 .. 2] /\ taken \in [Host -> 0 .. 2]
    BY DEF TypeOK, X!ATypeOK
  <2>2. 0 .. 2 \subseteq Nat
    OBVIOUS
  <2> QED
    BY <2>1, <2>2
<1> SUFFICES /\ \A g, k \in Host : taken'[g] <= posted'[k]
             /\ \A m \in wire' : m.round = 1 => pc'[m.to] \in {"quiesce", "offers"} /\ Home(m)
  BY DEF InvTime
<1> HIDE DEF Home
<1>5. CASE SendOffers(h)
  <2>1. /\ pc[h] = "quiesce" /\ X!Post(h) /\ pc' = [pc EXCEPT ![h] = "offers"]
        /\ wire' = wire \cup Messages(h, "dst")
    BY <1>5 DEF SendOffers, Send
  <2>2. /\ taken' = taken
        /\ posted'[h] = posted[h] + 1 /\ \A g \in Host \ {h} : posted'[g] = posted[g]
    BY <2>1, PostType
  <2>3. posted[h] = 0
    BY <2>1 DEF InvRounds
  <2>4. \A g \in Host : pc[g] \in {"quiesce", "offers"}
    <3> SUFFICES ASSUME NEW g \in Host, pc[g] \notin {"quiesce", "offers"}
                 PROVE  FALSE
      OBVIOUS
    <3>1. taken[g] >= 1
      BY DEF InvRounds
    <3> QED
      BY <1>1, <1>4, <2>3, <3>1
  <2>5. ASSUME NEW m \in Messages(h, "dst")
        PROVE  m.to \in Host /\ Home(m)
    <3>1. PICK e \in remote_edges[h] :
            m = [from |-> h, to |-> Owner[e["dst"]], round |-> posted[h] + 1,
                 edge |-> [e EXCEPT !.weight = OnWire(e.weight)]]
      BY DEF Messages
    <3>2. e \in ProposedEdge /\ e.dst \in Node
      BY DEF TypeOK, ProposedEdge
    <3>3. m.to = Owner[e.dst] /\ m.edge.dst = e.dst
      BY <3>1, <3>2 DEF ProposedEdge
    <3> QED
      BY <3>2, <3>3, HostNodes DEF Home
  <2>6. \A g \in Host : pc'[g] \in {"quiesce", "offers"}
    BY <2>1, <2>4 DEF TypeOK
  <2>7. \A g, k \in Host : taken'[g] <= posted'[k]
    <3>1. \A k \in Host : posted[k] <= posted'[k] /\ posted'[k] \in Nat
      BY <1>4, <2>2
    <3> QED
      BY <1>1, <1>4, <2>2, <3>1
  <2> QED
    BY <1>2, <1>3, <2>1, <2>5, <2>6, <2>7
<1>6. CASE SendAnswers(h)
  <2>1. /\ pc[h] = "decide" /\ X!Post(h) /\ pc' = [pc EXCEPT ![h] = "answers"]
        /\ wire' = wire \cup Messages(h, "src")
    BY <1>6 DEF SendAnswers, Send
  <2>2. /\ taken' = taken
        /\ posted'[h] = posted[h] + 1 /\ \A g \in Host \ {h} : posted'[g] = posted[g]
    BY <2>1, PostType
  <2>3. posted[h] = 1
    BY <2>1 DEF InvRounds
  <2>4. \A m \in Messages(h, "src") : m.round = 2
    BY <2>1, <2>3, AnswerMessages
  <2>5. \A g, k \in Host : taken'[g] <= posted'[k]
    <3>1. \A k \in Host : posted[k] <= posted'[k] /\ posted'[k] \in Nat
      BY <1>4, <2>2
    <3> QED
      BY <1>1, <1>4, <2>2, <3>1
  <2>6. \A m \in wire : m.round = 1 => m.to # h
    BY <1>2, <2>1
  <2>7. \A g \in Host \ {h} : pc'[g] = pc[g]
    BY <2>1 DEF TypeOK
  <2> QED
    BY <1>2, <1>3, <2>1, <2>4, <2>5, <2>6, <2>7
<1>7. CASE RecvOffers(h) \/ RecvAnswers(h)
  <2>1. /\ X!Take(h)
        /\ wire' = wire \ {m \in wire : m.to = h /\ m.round = posted[h]}
    BY <1>7 DEF RecvOffers, RecvAnswers, Receive
  <2>2. /\ posted' = posted
        /\ taken'[h] = posted[h] /\ \A g \in Host \ {h} : taken'[g] = taken[g]
        /\ \A g \in Host : posted[g] >= posted[h]
    BY <2>1, TakeType DEF X!Take
  <2>3. \A g, k \in Host : taken'[g] <= posted'[k]
    BY <1>1, <2>2
  <2>4. \A g \in Host \ {h} : pc'[g] = pc[g]
    BY <1>7 DEF RecvOffers, RecvAnswers, TypeOK
  <2>5. \A m \in wire' : m.round = 1 => m.to # h
    <3>1. CASE pc[h] = "offers"
      <4>1. posted[h] = 1
        BY <3>1 DEF InvRounds
      <4> QED
        BY <2>1, <4>1
    <3>2. CASE pc[h] = "answers"
      BY <1>2, <2>1, <3>2
    <3> QED
      BY <1>7, <3>1, <3>2 DEF RecvOffers, RecvAnswers
  <2> QED
    BY <1>2, <1>3, <2>1, <2>3, <2>4, <2>5
<1>8. CASE EnterSync(h)
  <2>1. /\ pc[h] = "add" /\ wire' = wire /\ posted' = posted /\ taken' = taken
        /\ \A g \in Host \ {h} : pc'[g] = pc[g]
    BY <1>8 DEF EnterSync, network, TypeOK
  <2> QED
    BY <1>1, <1>2, <1>3, <2>1
<1>9. CASE pc' = pc /\ wire' = wire /\ UNCHANGED network
  BY <1>1, <1>2, <1>9 DEF network
<1>10. (\E n \in Node : \E t \in left[n] : Look(h, n, t)) =>
          pc' = pc /\ wire' = wire /\ UNCHANGED network
  BY DEF Look
<1>11. DealStep(h) => pc' = pc /\ wire' = wire /\ UNCHANGED network
  BY DEF DealStep, Reserve, TakeBack, Buy, Propose, Confirm
<1>12. (\E o \in incoming[h] : LookOffer(h, o) \/ AddPurchaseEdge(h, o)) =>
          pc' = pc /\ wire' = wire /\ UNCHANGED network
  BY DEF LookOffer, AddPurchaseEdge
<1> QED
  BY <1>5, <1>6, <1>7, <1>8, <1>9, <1>10, <1>11, <1>12 DEF HostStep

LEMMA HomeStep ==
  ASSUME TypeOK, InvRounds, InvTime, NEW h \in Host, InvHost(h), InvHome(h), HostStep(h)
  PROVE  InvHome(h)'
<1> SUFFICES ASSUME pc'[h] = "decide"
             PROVE  /\ \A d \in deals'[h] : d.dst \in Masters(h)
                    /\ \A o \in incoming'[h] : o.edge.dst \in Masters(h)
  BY DEF InvHome
<1>1. CASE RecvOffers(h)
  <2>1. /\ pc[h] = "offers" /\ deals' = deals
        /\ incoming'[h] = {[from |-> m.from, edge |-> m.edge] :
                             m \in {m \in wire : m.to = h /\ m.round = posted[h]}}
    BY <1>1 DEF RecvOffers, Receive, TypeOK
  <2>2. deals[h] = {} /\ posted[h] = 1
    BY <2>1 DEF InvHost, InvSent, InvRounds
  <2>3. \A m \in wire : m.to = h /\ m.round = 1 => m.edge.dst \in Masters(h)
    BY DEF InvTime
  <2> QED
    BY <2>1, <2>2, <2>3
<1>2. ASSUME NEW o \in incoming[h], LookOffer(h, o)
      PROVE  /\ \A d \in deals'[h] : d.dst \in Masters(h)
             /\ \A p \in incoming'[h] : p.edge.dst \in Masters(h)
  <2> DEFINE n == o.edge.src
             v == o.edge.dst
             w == o.edge.weight
             g == o.from
  <2>1. /\ pc[h] = "decide" /\ incoming'[h] = incoming[h] \ {o}
        /\ deals' = [deals EXCEPT ![h] = Attempted(h, n, v, w, g)]
    BY <1>2 DEF LookOffer, TypeOK
  <2>2. n \in Node /\ v \in Node /\ w \in Nat /\ g \in Host
    BY DEF TypeOK, ProposedEdge
  <2>3. v \in Masters(h)
    BY <2>1 DEF InvHome
  <2> HIDE DEF n, v, w, g
  <2>4. \A c \in deals'[h] \ deals[h] :
          /\ c.dst = v /\ ~ c.reserved
          /\ c.delta \in Nat /\ c.delta > 0 /\ c.delta <= Surplus(h, v)
    BY <2>1, <2>2, NewAttempt
  <2> QED
    BY <2>1, <2>3, <2>4 DEF InvHome
<1>3. ASSUME NEW d \in deals[h], DealStep(h)
      PROVE  /\ pc' = pc /\ incoming' = incoming
             /\ \A c \in deals'[h] : \E f \in deals[h] : c.dst = f.dst
  <2>1. ASSUME NEW f \in deals[h], Reserve(h, f)
        PROVE  \A c \in deals'[h] : \E k \in deals[h] : c.dst = k.dst
    <3>1. \E e \in Deal : e.dst = f.dst /\ deals'[h] = (deals[h] \ {f}) \cup {e}
      BY <2>1, ReserveEffect
    <3> QED
      BY <3>1
  <2>2. ASSUME NEW f \in deals[h], TakeBack(h, f) \/ Accepted(h, f)
        PROVE  deals'[h] \subseteq deals[h]
    BY <2>2 DEF TakeBack, Accepted, TypeOK
  <2>3. pc' = pc /\ incoming' = incoming
    BY <1>3 DEF DealStep, Reserve, TakeBack, Buy, Propose, Confirm
  <2> QED
    BY <1>3, <2>1, <2>2, <2>3 DEF DealStep, Buy, Propose, Confirm
<1>4. CASE DealStep(h)
  BY <1>3, <1>4 DEF DealStep, InvHome
<1>5. ASSUME pc[h] = "decide", ~ DealStep(h), \A o \in incoming[h] : ~ LookOffer(h, o)
      PROVE  FALSE
  BY <1>5 DEF HostStep, Look, SendOffers, RecvOffers, SendAnswers, RecvAnswers,
     AddPurchaseEdge, EnterSync, TypeOK
<1>6. ASSUME pc[h] # "decide", ~ RecvOffers(h), ~ DealStep(h)
      PROVE  FALSE
  BY <1>6 DEF HostStep, Look, SendOffers, LookOffer, SendAnswers, RecvAnswers,
     AddPurchaseEdge, EnterSync, TypeOK
<1> QED
  BY <1>1, <1>2, <1>4, <1>5, <1>6

\* Only the receiver takes a message off the wire.
LEMMA WireStep ==
  ASSUME NEW h \in Host, HostStep(h), NEW m \in wire
  PROVE  \/ m \in wire'
         \/ m.to = h /\ m.round = posted[h] /\ (RecvOffers(h) \/ RecvAnswers(h))
<1>1. CASE wire' = wire
  BY <1>1
<1>2. CASE SendOffers(h) \/ SendAnswers(h)
  BY <1>2 DEF SendOffers, SendAnswers, Send
<1>3. CASE RecvOffers(h) \/ RecvAnswers(h)
  BY <1>3 DEF RecvOffers, RecvAnswers, Receive
<1> QED
  BY <1>1, <1>2, <1>3 DEF HostStep, DealStep, Look, Reserve, TakeBack, Buy, Propose, Confirm,
     LookOffer, AddPurchaseEdge, EnterSync

\* An attempt ends with a mark, or is not the only one.
LEMMA AttemptsStay ==
  ASSUME TypeOK, NEW h \in Host, InvHost(h), InvSeller(h), HostStep(h),
         NEW v \in Masters(h), Attempts(h, v)
  PROVE  Attempts(h, v)' \/ v \in marks'[h].sold
<1>1. PICK f \in deals[h] : f.dst = v
  BY DEF Attempts
<1>2. ASSUME NEW n \in Node, NEW t \in left[n], Look(h, n, t)
      PROVE  f \in deals'[h]
  BY <1>2 DEF Look, Attempted, TypeOK
<1>3. ASSUME NEW o \in incoming[h], LookOffer(h, o)
      PROVE  f \in deals'[h]
  BY <1>3 DEF LookOffer, Attempted, TypeOK
<1>4. ASSUME NEW d \in deals[h], Reserve(h, d)
      PROVE  Attempts(h, v)'
  <2>1. \E e \in Deal : e.dst = d.dst /\ deals'[h] = (deals[h] \ {d}) \cup {e}
    BY <1>4, ReserveEffect
  <2> QED
    BY <1>1, <2>1 DEF Attempts
<1>5. ASSUME NEW d \in deals[h], TakeBack(h, d)
      PROVE  Attempts(h, v)' \/ v \in marks'[h].sold
  <2>1. deals'[h] = deals[h] \ {d} /\ marks' = marks
    BY <1>5, TakeBackEffect DEF TakeBack
  <2>2. CASE d = f
    BY <1>1, <1>5, <2>1, <2>2, TakeBackSeller DEF Attempts
  <2>3. CASE d # f
    BY <1>1, <2>1, <2>3 DEF Attempts
  <2> QED
    BY <2>2, <2>3
<1>6. ASSUME NEW d \in deals[h], Buy(h, d) \/ Propose(h, d) \/ Confirm(h, d)
      PROVE  Attempts(h, v)' \/ v \in marks'[h].sold
  <2>1. deals'[h] = deals[h] \ {d}
    BY <1>6 DEF Buy, Propose, Confirm, Accepted, TypeOK
  <2>2. CASE d = f
    BY <1>1, <1>6, <2>2 DEF Buy, Propose, Confirm, SoldMarked, TypeOK
  <2>3. CASE d # f
    BY <1>1, <2>1, <2>3 DEF Attempts
  <2> QED
    BY <2>2, <2>3
<1>7. CASE deals' = deals
  BY <1>1, <1>7 DEF Attempts
<1> QED
  BY <1>1, <1>2, <1>3, <1>4, <1>5, <1>6, <1>7 DEF HostStep, DealStep, SendOffers, RecvOffers,
     SendAnswers, RecvAnswers, AddPurchaseEdge, EnterSync, Send, Receive, Attempts

\* The first offer finds the seller untouched, and has something to reserve.
LEMMA OfferTried ==
  ASSUME TypeOK, NEW h \in Host, InvHost(h), InvSeller(h), InvStart(h),
         NEW o \in incoming[h], LookOffer(h, o), o.edge.weight > 0,
         o.edge.dst \in Masters(h), Sellable(h, o.edge.dst)
  PROVE  Attempts(h, o.edge.dst)' \/ o.edge.dst \in marks[h].sold
<1> DEFINE n == o.edge.src
           v == o.edge.dst
           w == o.edge.weight
           g == o.from
<1>1. /\ pc[h] = "decide"
      /\ deals' = [deals EXCEPT ![h] = Attempted(h, n, v, w, g)]
  BY DEF LookOffer
<1>2. n \in Node /\ v \in Node /\ w \in Nat /\ g \in Host /\ v \in Masters(h) /\ w > 0
  BY DEF TypeOK, ProposedEdge
<1>3. bought[h][v] >= BoughtAtStart(h, v) /\ BoughtAtStart(h, v) > SoldAtStart(h, v)
      /\ bought[h][v] \in Grid
  BY <1>1, <1>2 DEF InvStart, Sellable, InvHost, InvSent
<1> SUFFICES Attempts(h, v)' \/ v \in marks[h].sold
  OBVIOUS
<1> HIDE DEF n, v, w, g
<1>4. /\ deals[h] \subseteq deals'[h]
      /\ \A c \in deals'[h] \ deals[h] :
           /\ c.dst = v /\ ~ c.reserved
           /\ c.delta \in Nat /\ c.delta > 0 /\ c.delta <= Surplus(h, v)
      /\ w > 0 /\ Surplus(h, v) > 0 => \E c \in deals'[h] : c.dst = v
      /\ \A u \in Node : OpenDeals(h, u)' = OpenDeals(h, u)
  BY <1>1, <1>2, NewAttempt
<1>5. CASE Promised(h, v)
  BY <1>4, <1>5 DEF Promised, OpenDeals, Attempts
<1>6. CASE Untouched(h, v)
  <2>1. sold[h][v] = SoldAtStart(h, v) /\ sold[h][v] \in Grid /\ bought[h][v] \in Nat
        /\ SoldAtStart(h, v) \in Nat /\ BoughtAtStart(h, v) \in Nat
    BY <1>2, <1>6, AtStartNat DEF Untouched, TypeOK
  <2>2. Surplus(h, v) = bought[h][v] - sold[h][v]
    BY <1>3, <2>1, GridMinus DEF Surplus
  <2>3. Surplus(h, v) > 0
    BY <1>3, <2>1, <2>2
  <2> QED
    BY <1>2, <1>4, <2>3 DEF Attempts
<1> QED
  BY <1>2, <1>5, <1>6 DEF InvSeller

\* What has been proposed stays so until the seller has a mark.
LEMMA OfferedStep ==
  ASSUME TypeOK, InvRounds, NEW h \in Host, InvHost(h), InvSeller(h), InvStart(h), HostStep(h),
         NEW v \in Node, Sellable(Owner[v], v), Offered(v)
  PROVE  Offered(v)'
<1> DEFINE g == Owner[v]
<1>1. g \in Host /\ v \in Masters(g)
  BY HostNodes
<1>2. marks[g].sold \subseteq marks'[g].sold
  BY <1>1, MarksGrow
<1>3. ASSUME NEW m \in wire, m.to = g, m.round = 1, m.edge.dst = v, m.edge.weight > 0
      PROVE  Offered(v)'
  <2>1. CASE m \in wire'
    BY <1>3, <2>1 DEF Offered
  <2>2. CASE m \notin wire'
    <3>1. g = h /\ posted[h] = 1 /\ (RecvOffers(h) \/ RecvAnswers(h))
      BY <1>3, <2>2, WireStep
    <3>2. RecvOffers(h)
      <4>1. pc[h] # "answers"
        BY <3>1 DEF InvRounds
      <4> QED
        BY <3>1, <4>1 DEF RecvAnswers
    <3>3. /\ pc'[g] = "decide"
          /\ incoming'[g] = {[from |-> k.from, edge |-> k.edge] :
                               k \in {k \in wire : k.to = h /\ k.round = posted[h]}}
      BY <3>1, <3>2 DEF RecvOffers, Receive, TypeOK
    <3>4. [from |-> m.from, edge |-> m.edge] \in incoming'[g]
      BY <1>3, <3>1, <3>3
    <3> DEFINE o == [from |-> m.from, edge |-> m.edge]
    <3>5. o.edge.dst = v /\ o.edge.weight > 0 /\ o \in incoming'[g]
      BY <1>3, <3>4
    <3> QED
      BY <3>3, <3>5 DEF Offered
  <2> QED
    BY <2>1, <2>2
<1>4. ASSUME g # h,
             \/ pc[g] = "decide" /\ \E o \in incoming[g] : o.edge.dst = v /\ o.edge.weight > 0
             \/ Attempts(g, v)
      PROVE  Offered(v)'
  <2>1. SameHost(g)
    BY <1>1, <1>4, OtherHosts
  <2> QED
    BY <1>4, <2>1 DEF SameHost, Offered, Attempts
<1>5. ASSUME g = h, Attempts(g, v)
      PROVE  Offered(v)'
  BY <1>1, <1>5, AttemptsStay DEF Offered
<1>6. ASSUME g = h, pc[g] = "decide", NEW o \in incoming[g], o.edge.dst = v, o.edge.weight > 0
      PROVE  Offered(v)'
  <2>1. CASE LookOffer(h, o)
    <3>1. Attempts(h, v)' \/ v \in marks[h].sold
      BY <1>1, <1>6, <2>1, OfferTried
    <3> QED
      BY <1>2, <1>6, <3>1 DEF Offered
  <2>2. CASE pc'[h] = pc[h] /\ o \in incoming'[h]
    BY <1>6, <2>2 DEF Offered
  <2>3. ASSUME NEW p \in incoming[h], LookOffer(h, p), p # o
        PROVE  pc'[h] = pc[h] /\ o \in incoming'[h]
    BY <1>6, <2>3 DEF LookOffer, TypeOK
  <2>4. CASE DealStep(h)
    BY <1>6, <2>2, <2>4 DEF DealStep, Reserve, TakeBack, Buy, Propose, Confirm
  <2>5. CASE \E p \in incoming[h] : LookOffer(h, p)
    BY <2>1, <2>2, <2>3, <2>5
  <2> QED
    BY <1>6, <2>4, <2>5 DEF HostStep, Look, SendOffers, RecvOffers, SendAnswers,
       RecvAnswers, AddPurchaseEdge, EnterSync
<1>7. CASE v \in marks[g].sold
  BY <1>2, <1>7 DEF Offered
<1> QED
  BY <1>3, <1>4, <1>5, <1>6, <1>7 DEF Offered
-----------------------------------------------------------------------------
(* What a step of a host does to its mirrors.                              *)

LEMMA ReserveSale ==
  ASSUME TypeOK, NEW h \in Host, InvHost(h), pc[h] = "quiesce",
         NEW d \in deals[h], Reserve(h, d), NEW v \in Node
  PROVE  Sale(h, v)' = Sale(h, v)
<1>1. PICK e \in Deal :
           /\ e.src = d.src /\ e.dst = d.dst /\ e.delta = d.delta /\ e.from = d.from
           /\ e.reserved /\ e # d /\ e.total = Plus(sold[h][d.dst], d.delta)
           /\ deals' = [deals EXCEPT ![h] = (deals[h] \ {d}) \cup {e}]
           /\ deals'[h] = (deals[h] \ {d}) \cup {e}
           /\ sold'[h] = [sold[h] EXCEPT ![d.dst] = Plus(sold[h][d.dst], d.delta)]
           /\ sold' \in [Host -> [Node -> Nat]]
           /\ OpenDeals(h, d.dst)' = OpenDeals(h, d.dst) \cup {e}
           /\ \A w \in Node \ {d.dst} : OpenDeals(h, w)' = OpenDeals(h, w)
  BY ReserveEffect
<1>2. /\ IsFiniteSet(deals[h]) /\ InvDeals(h) /\ InvExact(h)
  BY DEF InvHost, InvBuying
<1>3. CASE v # d.dst
  <2>1. sold'[h][v] = sold[h][v] /\ Reserved(h, v)' = Reserved(h, v)
    BY <1>1, <1>3 DEF Reserved, TypeOK
  <2> QED
    BY <2>1 DEF Sale
<1>4. CASE v = d.dst
  <2> DEFINE D == OpenDeals(h, v)
  <2>1. /\ D \in SUBSET Deal /\ IsFiniteSet(D) /\ e \in Deal \ D
        /\ Reserved(h, v) = Deltas(D) /\ Reserved(h, v) \in Nat
    <3>1. e \notin D
      BY <1>1, <1>2 DEF OpenDeals, InvDeals
    <3> QED
      BY <1>1, <1>2, <3>1, Shape
  <2>2. Reserved(h, v)' = Deltas(D \cup {e})
    <3> DEFINE E == D \cup {e}
    <3>1. OpenDeals(h, v)' = E
      BY <1>1, <1>4
    <3> HIDE DEF E
    <3> QED
      BY <3>1 DEF Reserved, Deltas, E
  <2> HIDE DEF D
  <2>3. Reserved(h, v)' = Reserved(h, v) + e.delta
    BY <2>1, <2>2, DeltasAdd
  <2>4. sold[h][v] \in Grid /\ e.delta \in Grid /\ sold[h][v] \in Nat /\ e.delta \in Nat
    BY <1>1, <1>2, GridType DEF InvDeals, InvExact
  <2>5. sold'[h][v] = sold[h][v] + e.delta
    <3>1. sold'[h][v] = Plus(sold[h][v], e.delta)
      BY <1>1, <1>4 DEF TypeOK
    <3> QED
      BY <2>4, <3>1, GridPlus
  <2>6. sold'[h][v] - Reserved(h, v)' = sold[h][v] - Reserved(h, v)
    BY <2>1, <2>3, <2>4, <2>5
  <2> QED
    BY <2>6 DEF Sale
<1> QED
  BY <1>3, <1>4

LEMMA TakeBackSale ==
  ASSUME TypeOK, NEW h \in Host, InvHost(h), pc[h] = "quiesce",
         NEW d \in deals[h], TakeBack(h, d), NEW v \in Node
  PROVE  Sale(h, v)' = Sale(h, v)
<1>1. /\ deals'[h] = deals[h] \ {d}
      /\ d \in OpenDeals(h, d.dst) /\ d.dst \in Node
      /\ sold'[h] = [sold[h] EXCEPT ![d.dst] = Minus(sold[h][d.dst], d.delta)]
      /\ OpenDeals(h, d.dst)' = OpenDeals(h, d.dst) \ {d}
      /\ \A w \in Node \ {d.dst} : OpenDeals(h, w)' = OpenDeals(h, w)
  BY TakeBackEffect
<1>2. /\ IsFiniteSet(deals[h]) /\ InvDeals(h) /\ InvExact(h) /\ InvRace(h)
  BY DEF InvHost, InvBuying
<1>3. CASE v # d.dst
  <2>1. sold'[h][v] = sold[h][v] /\ Reserved(h, v)' = Reserved(h, v)
    BY <1>1, <1>3 DEF Reserved, TypeOK
  <2> QED
    BY <2>1 DEF Sale
<1>4. CASE v = d.dst
  <2>1. /\ d.delta \in Nat /\ d.delta <= Reserved(h, v)
        /\ Reserved(h, v)' = Reserved(h, v) - d.delta
    BY <1>1, <1>2, <1>4, DealDropped
  <2>2. Reserved(h, v) \in Nat /\ Reserved(h, v) <= sold[h][v]
    BY <1>2, Shape DEF InvRace
  <2>3. sold[h][v] \in Grid /\ d.delta \in Grid /\ sold[h][v] \in Nat
    BY <1>2, GridType DEF InvDeals, InvExact
  <2>4. sold'[h][v] = sold[h][v] - d.delta
    <3>1. sold'[h][v] = Minus(sold[h][v], d.delta)
      BY <1>1, <1>4 DEF TypeOK
    <3> QED
      BY <2>3, <3>1, GridMinus
  <2>5. sold'[h][v] - Reserved(h, v)' = sold[h][v] - Reserved(h, v)
    BY <2>1, <2>2, <2>3, <2>4
  <2> QED
    BY <2>5 DEF Sale
<1> QED
  BY <1>3, <1>4

LEMMA LookAway ==
  ASSUME TypeOK, NEW h \in Host, InvHost(h), InvStart(h), InvAway(h),
         NEW n \in Node, NEW t \in left[n], Look(h, n, t)
  PROVE  InvAway(h)'
<1> DEFINE u == Seller[t]
           w == needed[n]
<1>1. /\ pc[h] = "quiesce" /\ deals' = [deals EXCEPT ![h] = Attempted(h, n, u, w, h)]
      /\ sold' = sold /\ bought' = bought /\ remote_edges' = remote_edges
  BY DEF Look
<1>2. u \in Node /\ w \in Nat /\ IsFiniteSet(deals[h])
  BY <1>1, TradeAssumption DEF TypeOK, InvHost
<1> HIDE DEF u, w
<1>3. /\ deals[h] \subseteq deals'[h]
      /\ \A c \in deals'[h] \ deals[h] :
           /\ c.dst = u /\ ~ c.reserved
           /\ c.delta \in Nat /\ c.delta > 0 /\ c.delta <= Surplus(h, u)
      /\ w > 0 /\ Surplus(h, u) > 0 => \E c \in deals'[h] : c.dst = u
      /\ \A v \in Node : OpenDeals(h, v)' = OpenDeals(h, v)
  BY <1>1, <1>2, NewAttempt
<1>4. \A v \in Node : Sale(h, v)' = Sale(h, v)
  BY <1>1, <1>3 DEF Sale, Reserved
<1>5. \A v : Proposes(h, v)' = Proposes(h, v)
  BY <1>1 DEF Proposes
<1>6. ASSUME NEW c \in deals'[h] \ deals[h], u \notin Masters(h)
      PROVE  Sellable(h, u)
  <2>1. Proposes(h, u) \/ Sale(h, u) = 0
    BY <1>2, <1>6 DEF InvAway
  <2>2. CASE Proposes(h, u)
    BY <1>2, <1>6, <2>2 DEF InvAway
  <2>3. CASE Sale(h, u) = 0
    <3>1. /\ bought[h][u] \in Grid /\ sold[h][u] \in Grid
          /\ bought[h][u] \in Nat /\ sold[h][u] \in Nat
          /\ Reserved(h, u) \in Nat /\ SoldAtStart(h, u) \in Nat
      BY <1>1, <1>2, Shape, AtStartNat DEF InvHost, InvBuying, InvExact
    <3>2. Surplus(h, u) = bought[h][u] - sold[h][u]
      BY <3>1, GridMinus DEF Surplus
    <3>3. Surplus(h, u) > 0
      <4>1. c.delta \in Nat /\ c.delta > 0 /\ c.delta <= Surplus(h, u)
        BY <1>3, <1>6
      <4> QED
        BY <3>1, <3>2, <4>1
    <3>4. sold[h][u] = SoldAtStart(h, u) + Reserved(h, u)
      BY <2>3, <3>1 DEF Sale
    <3>5. bought[h][u] = BoughtAtStart(h, u)
      BY <1>1, <1>2, <1>6 DEF InvStart
    <3>6. bought[h][u] > SoldAtStart(h, u)
      BY <3>1, <3>2, <3>3, <3>4
    <3> QED
      BY <3>5, <3>6 DEF Sellable
  <2> QED
    BY <2>1, <2>2, <2>3
<1>7. ASSUME NEW v \in Node \ Masters(h), Attempts(h, v)', ~ Attempts(h, v)
      PROVE  Sellable(h, v)
  <2>1. PICK c \in deals'[h] \ deals[h] : c.dst = v
    BY <1>7 DEF Attempts
  <2> QED
    BY <1>3, <1>6, <1>7, <2>1
<1> QED
  BY <1>1, <1>4, <1>5, <1>7 DEF InvAway, Sellable

LEMMA FewerAway ==
  ASSUME NEW h \in Host, InvAway(h), remote_edges'[h] = remote_edges[h],
         \A v \in Node \ Masters(h) : Sale(h, v)' = Sale(h, v),
         \A c \in deals'[h] : \E f \in deals[h] : c.dst = f.dst
  PROVE  InvAway(h)'
<1>1. \A v : /\ Proposes(h, v)' = Proposes(h, v)
             /\ Attempts(h, v)' => Attempts(h, v)
  BY DEF Proposes, Attempts
<1> QED
  BY <1>1 DEF InvAway, Sellable

LEMMA ProposeAway ==
  ASSUME TypeOK, NEW h \in Host, InvHost(h), InvAway(h), NEW d \in deals[h], Propose(h, d)
  PROVE  InvAway(h)'
<1> DEFINE p == [src |-> d.src, dst |-> d.dst, weight |-> d.delta]
           R == remote_edges[h]
<1>1. /\ pc[h] = "quiesce" /\ Accepted(h, d) /\ d.dst \notin Masters(h)
      /\ remote_edges'[h] = Emplaced(R, p)
      /\ sold' = sold /\ bought' = bought
  BY DEF Propose, TypeOK
<1>2. IsFiniteSet(deals[h]) /\ InvDeals(h) /\ InvRace(h)
  BY <1>1 DEF InvHost, InvBuying
<1>3. /\ \A v \in Node : bought[h][v] <= bought'[h][v]
      /\ bought' \in [Host -> [Node -> Nat]]
  BY <1>1 DEF TypeOK
<1>4. \A v \in Node \ {d.dst} : Sale(h, v)' = Sale(h, v)
  <2> HIDE DEF p, R
  <2> QED
    BY <1>1, <1>2, <1>3, AcceptRace
<1>5. deals'[h] \subseteq deals[h]
  BY <1>1 DEF Accepted, TypeOK
<1>6. /\ R \subseteq remote_edges'[h] /\ remote_edges'[h] \subseteq R \cup {p}
      /\ \E e \in remote_edges'[h] : e.dst = d.dst
  BY <1>1 DEF Emplaced
<1>7. p.dst = d.dst /\ p.weight >= Unit
  <2>1. d.delta \in Grid /\ d.delta > 0
    BY <1>2 DEF InvDeals, TypeOK
  <2> QED
    BY <2>1, GridType
<1> HIDE DEF p, R
<1>8. \A e \in remote_edges'[h] : e.weight >= Unit
  BY <1>6, <1>7 DEF InvAway, R
<1>9. ASSUME NEW v \in Node \ Masters(h)
      PROVE  /\ Proposes(h, v)' \/ Sale(h, v)' = 0
             /\ Proposes(h, v)' \/ Attempts(h, v)' => Sellable(h, v)
  <2>1. /\ Proposes(h, v) \/ Sale(h, v) = 0
        /\ Proposes(h, v) \/ Attempts(h, v) => Sellable(h, v)
    BY DEF InvAway
  <2>2. Proposes(h, v) => Proposes(h, v)'
    BY <1>6 DEF Proposes, R
  <2>3. Attempts(h, v)' => Attempts(h, v)
    BY <1>5 DEF Attempts
  <2>4. CASE v = d.dst
    BY <1>6, <2>1, <2>4 DEF Proposes, Attempts
  <2>5. CASE v # d.dst
    <3>1. Proposes(h, v)' => Proposes(h, v)
      BY <1>6, <1>7, <2>5 DEF Proposes, R
    <3> QED
      BY <1>4, <2>1, <2>2, <2>3, <2>5, <3>1
  <2> QED
    BY <2>4, <2>5
<1> QED
  BY <1>8, <1>9 DEF InvAway, Sellable

\* Every proposal leaves in a message that says more than nothing.
LEMMA ProposalSent ==
  ASSUME Parts = 1, TypeOK, InvRounds, NEW h \in Host, SendOffers(h), InvAway(h),
         NEW v \in Node, Proposes(h, v)
  PROVE  Offered(v)'
<1>1. pc[h] = "quiesce" /\ wire' = wire \cup Messages(h, "dst") /\ posted[h] = 0
  BY DEF SendOffers, Send, InvRounds
<1>2. PICK e \in remote_edges[h] : e.dst = v
  BY DEF Proposes
<1>3. e \in ProposedEdge /\ e.weight \in Nat /\ e.weight >= Unit
  BY DEF TypeOK, ProposedEdge, InvAway
<1>4. OnWire(e.weight) > 0
  BY <1>3, OnWireUnit
<1> DEFINE w == OnWire(e.weight)
           m == [from |-> h, to |-> Owner[e["dst"]], round |-> posted[h] + 1,
                 edge |-> [e EXCEPT !.weight = OnWire(e.weight)]]
<1>5. m \in wire'
  BY <1>1 DEF Messages
<1>6. m.to = Owner[v] /\ m.round = 1 /\ m.edge.dst = v /\ m.edge.weight = w
  BY <1>1, <1>2, <1>3 DEF ProposedEdge
<1> QED
  BY <1>4, <1>5, <1>6 DEF Offered

LEMMA AwayStep ==
  ASSUME TypeOK, NEW h \in Host, InvHost(h), InvStart(h), InvAway(h), HostStep(h),
         pc[h] = "quiesce", pc'[h] = "quiesce"
  PROVE  InvAway(h)'
<1>1. ASSUME NEW n \in Node, NEW t \in left[n], Look(h, n, t)
      PROVE  InvAway(h)'
  BY <1>1, LookAway
<1>2. ASSUME NEW d \in deals[h], Reserve(h, d)
      PROVE  InvAway(h)'
  <2>1. \E e \in Deal : e.dst = d.dst /\ deals'[h] = (deals[h] \ {d}) \cup {e}
    BY <1>2, ReserveEffect
  <2>2. \A v \in Node \ Masters(h) : Sale(h, v)' = Sale(h, v)
    BY <1>2, ReserveSale
  <2>3. remote_edges' = remote_edges
    BY <1>2 DEF Reserve
  <2>4. \A c \in deals'[h] : \E f \in deals[h] : c.dst = f.dst
    BY <2>1
  <2> QED
    BY <2>2, <2>3, <2>4, FewerAway
<1>3. ASSUME NEW d \in deals[h], TakeBack(h, d)
      PROVE  InvAway(h)'
  <2>1. deals'[h] \subseteq deals[h] /\ remote_edges' = remote_edges
    BY <1>3 DEF TakeBack, TypeOK
  <2>2. \A v \in Node \ Masters(h) : Sale(h, v)' = Sale(h, v)
    BY <1>3, TakeBackSale
  <2> QED
    BY <2>1, <2>2, FewerAway
<1>4. ASSUME NEW d \in deals[h], Buy(h, d)
      PROVE  InvAway(h)'
  <2>1. /\ Accepted(h, d) /\ d.dst \in Masters(h) /\ sold' = sold
        /\ remote_edges' = remote_edges /\ deals'[h] \subseteq deals[h]
    BY <1>4 DEF Buy, Accepted, TypeOK
  <2>2. \A v \in Node \ {d.dst} : OpenDeals(h, v)' = OpenDeals(h, v)
    BY <2>1, AcceptEffect
  <2>3. \A v \in Node \ Masters(h) : Sale(h, v)' = Sale(h, v)
    BY <2>1, <2>2 DEF Sale, Reserved
  <2> QED
    BY <2>1, <2>3, FewerAway
<1>5. ASSUME NEW d \in deals[h], Propose(h, d)
      PROVE  InvAway(h)'
  BY <1>5, ProposeAway
<1> QED
  BY <1>1, <1>2, <1>3, <1>4, <1>5 DEF HostStep, DealStep, Confirm, SendOffers, RecvOffers,
     LookOffer, SendAnswers, RecvAnswers, AddPurchaseEdge, EnterSync, TypeOK

\* After it has sent its proposals a host makes no reservation on a mirror.
LEMMA MirrorsRest ==
  ASSUME TypeOK, NEW h \in Host, InvHost(h), InvHome(h), HostStep(h), pc[h] # "quiesce",
         NEW v \in Node \ Masters(h)
  PROVE  sold'[h][v] = sold[h][v]
<1>1. ASSUME NEW d \in deals[h], Reserve(h, d) \/ TakeBack(h, d)
      PROVE  sold'[h][v] = sold[h][v]
  <2>1. pc[h] = "decide"
    BY <1>1, DealPhase
  <2>2. d.dst # v
    BY <2>1 DEF InvHome
  <2> QED
    BY <1>1, <2>2 DEF Reserve, TakeBack, Returned, TypeOK
<1>2. CASE sold' = sold
  BY <1>2
<1> QED
  BY <1>1, <1>2 DEF HostStep, DealStep, Look, Buy, Propose, Confirm, SendOffers, RecvOffers,
     LookOffer, SendAnswers, RecvAnswers, AddPurchaseEdge, EnterSync, Send, Receive

LEMMA MirrorStep ==
  ASSUME Parts = 1, TypeOK, InvRounds, NEW h \in Host, InvHost(h), InvHome(h),
         InvStart(h), InvMirror(h), HostStep(h),
         \A v \in Node : Sellable(Owner[v], v) /\ Offered(v) => Offered(v)'
  PROVE  InvMirror(h)'
<1> DEFINE After == {"offers", "decide", "answers", "add", "sync"}
<1>1. ASSUME pc'[h] = "quiesce"
      PROVE  InvAway(h)'
  <2>1. pc[h] = "quiesce"
    BY <1>1 DEF HostStep, DealStep, Look, Reserve, TakeBack, Buy, Propose, Confirm, SendOffers,
       RecvOffers, LookOffer, SendAnswers, RecvAnswers, AddPurchaseEdge, EnterSync, TypeOK
  <2> QED
    BY <1>1, <2>1, AwayStep DEF InvMirror
<1>2. ASSUME pc'[h] \in After, NEW v \in Node \ Masters(h)
      PROVE  sold'[h][v] = SoldAtStart(h, v) \/ (Sellable(Owner[v], v) /\ Offered(v)')
  <2>1. CASE pc[h] = "quiesce"
    <3>1. SendOffers(h)
      BY <1>2, <2>1 DEF HostStep, DealStep, Look, Reserve, TakeBack, Buy, Propose, Confirm,
         RecvOffers, LookOffer, SendAnswers, RecvAnswers, AddPurchaseEdge, EnterSync
    <3>2. InvAway(h) /\ deals[h] = {} /\ sold' = sold
      BY <2>1, <3>1 DEF InvMirror, SendOffers, Send
    <3>3. CASE Proposes(h, v)
      BY <3>1, <3>2, <3>3, ProposalSent, StartsAlike DEF InvAway
    <3>4. CASE Sale(h, v) = 0
      <4>1. Reserved(h, v) = 0
        <5>1. OpenDeals(h, v) = {}
          BY <3>2 DEF OpenDeals
        <5> QED
          BY <5>1, SumEmpty DEF Reserved
      <4>2. sold[h][v] \in Nat /\ SoldAtStart(h, v) \in Nat
        BY AtStartNat DEF TypeOK
      <4> QED
        BY <3>2, <3>4, <4>1, <4>2 DEF Sale
    <3> QED
      BY <3>2, <3>3, <3>4 DEF InvAway
  <2>2. CASE pc[h] # "quiesce"
    <3>1. sold'[h][v] = sold[h][v]
      BY <2>2, MirrorsRest
    <3>2. pc[h] \in After
      <4>1. pc[h] # "done"
        BY DealPhase DEF HostStep, DealStep, Look, SendOffers,
           RecvOffers, LookOffer, SendAnswers, RecvAnswers, AddPurchaseEdge, EnterSync
      <4> QED
        BY <2>2, <4>1 DEF TypeOK
    <3>3. sold[h][v] = SoldAtStart(h, v) \/ (Sellable(Owner[v], v) /\ Offered(v))
      BY <3>2 DEF InvMirror
    <3> QED
      BY <3>1, <3>3
  <2> QED
    BY <2>1, <2>2
<1> QED
  BY <1>1, <1>2 DEF InvMirror, Sellable

\* A host that does nothing keeps what the invariant says of it.
LEMMA MirrorKeep ==
  ASSUME TypeOK, NEW g \in Host, SameHost(g), marks'[g].sold = marks[g].sold,
         InvSeller(g), InvStart(g), InvHome(g), InvMirror(g),
         \A v \in Node : Sellable(Owner[v], v) /\ Offered(v) => Offered(v)'
  PROVE  InvSeller(g)' /\ InvStart(g)' /\ InvHome(g)' /\ InvMirror(g)'
<1>1. InvSeller(g)'
  BY SellerSame DEF SameHost
<1>2. InvStart(g)' /\ InvHome(g)'
  BY DEF InvStart, InvHome, SameHost
<1>3. InvAway(g) => InvAway(g)'
  <2>1. \A v \in Node : Sale(g, v)' = Sale(g, v)
    BY SameOpen DEF SameHost, Sale
  <2>2. \A v : Proposes(g, v)' = Proposes(g, v) /\ Attempts(g, v)' = Attempts(g, v)
    BY DEF SameHost, Proposes, Attempts
  <2> QED
    BY <2>1, <2>2 DEF InvAway, Sellable, SameHost
<1>4. InvMirror(g)'
  BY <1>3 DEF InvMirror, SameHost, Sellable
<1> QED
  BY <1>1, <1>2, <1>4

\* The sync reaches every mirror whose seller has sold anything.
LEMMA SyncMirrors ==
  ASSUME TypeOK, InvTime, \A h \in Host : InvHost(h) /\ InvSeller(h) /\ InvMirror(h), Sync,
         NEW h \in Host, NEW v \in Mirrors(h)
  PROVE  sold'[h][v] = sold'[Owner[v]][v]
<1> DEFINE g == Owner[v]
<1>1. /\ g \in Host /\ v \in Node \ Masters(h) /\ v \in Masters(g) /\ v \in Local(h)
      /\ v \notin Mirrors(g)
  BY HostNodes DEF Mirrors, Local
<1>2. sold' = Synced(sold, [k \in Host |-> marks[k].sold]) /\ \A k \in Host : pc[k] = "sync"
  BY DEF Sync
<1>3. /\ sold'[h][v] = IF v \in marks[g].sold THEN sold[g][v] ELSE sold[h][v]
      /\ sold'[g][v] = sold[g][v]
  BY <1>1, <1>2 DEF Synced
<1>4. CASE v \in marks[g].sold
  BY <1>3, <1>4
<1>5. CASE v \notin marks[g].sold
  <2>1. deals[g] = {}
    BY <1>1, <1>2 DEF InvHost, InvSent
  <2>2. ~ Promised(g, v)
    BY <2>1 DEF Promised, OpenDeals
  <2>3. sold[g][v] = SoldAtStart(g, v)
    BY <1>1, <1>5, <2>2 DEF InvSeller, Untouched
  <2>4. ~ Offered(v)
    <3>1. \A m \in wire : m.round = 1 => m.to # g
      BY <1>1, <1>2 DEF InvTime, TypeOK
    <3> QED
      BY <1>1, <1>2, <1>5, <2>1, <3>1 DEF Offered, Attempts
  <2>5. sold[h][v] = SoldAtStart(h, v)
    BY <1>1, <1>2, <2>4 DEF InvMirror
  <2>6. SoldAtStart(h, v) = SoldAtStart(g, v)
    BY <1>1, StartsAlike
  <2> QED
    BY <1>3, <1>5, <2>3, <2>5, <2>6
<1> QED
  BY <1>4, <1>5

LEMMA SyncMirrorInv ==
  ASSUME TypeOK, \A h \in Host : InvHost(h), MirrorInv, Sync
  PROVE  MirrorInv'
<1>1. /\ \A h \in Host : pc[h] = "sync" /\ pc'[h] = "done"
      /\ deals' = deals /\ marks' = marks /\ wire' = wire
      /\ posted' = posted /\ taken' = taken
      /\ sold' = Synced(sold, [h \in Host |-> marks[h].sold])
      /\ bought' = Synced(bought, [h \in Host |-> marks[h].bought])
  BY DEF Sync, network
<1>2. InvTime'
  BY <1>1 DEF MirrorInv, InvTime, TypeOK
<1>3. ASSUME NEW h \in Host
      PROVE  InvSeller(h)' /\ InvStart(h)' /\ InvHome(h)' /\ InvMirror(h)'
  <2>1. \A v \in Masters(h) : sold'[h][v] = sold[h][v] /\ bought'[h][v] = bought[h][v]
    BY <1>1, HostNodes DEF Synced, Mirrors
  <2>2. \A v \in Node : OpenDeals(h, v)' = OpenDeals(h, v)
    BY <1>1 DEF OpenDeals
  <2>3. InvSeller(h)'
    <3>1. \A v \in Masters(h) : Promised(h, v) => Promised(h, v)'
      BY <2>1, <2>2, HostNodes DEF Promised
    <3>2. \A v \in Masters(h) : Untouched(h, v) => Untouched(h, v)'
      BY <1>1, <2>1, <2>2, HostNodes DEF Untouched
    <3> QED
      BY <1>1, <3>1, <3>2 DEF MirrorInv, InvSeller
  <2>4. InvStart(h)'
    BY <1>1, <2>1 DEF MirrorInv, InvStart
  <2> QED
    BY <1>1, <2>3, <2>4 DEF InvHome, InvMirror
<1>4. MirrorsUpdated'
  <2>1. \A h \in Host : InvHost(h) /\ InvSeller(h) /\ InvMirror(h)
    BY DEF MirrorInv
  <2>2. InvTime
    BY DEF MirrorInv
  <2>3. \A h \in Host : \A v \in Mirrors(h) : sold'[h][v] = sold'[Owner[v]][v]
    BY <2>1, <2>2, SyncMirrors
  <2> QED
    BY <2>3 DEF MirrorsUpdated
<1> QED
  BY <1>2, <1>3, <1>4 DEF MirrorInv

LEMMA InitMirrorInv == Init => MirrorInv
<1> SUFFICES ASSUME Init
             PROVE  MirrorInv
  OBVIOUS
<1>1. InvTime
  BY DEF Init, InvTime, X!AInit
<1>2. ASSUME NEW h \in Host
      PROVE  InvSeller(h) /\ InvStart(h) /\ InvHome(h) /\ InvMirror(h)
  <2>1. /\ pc[h] = "quiesce" /\ deals[h] = {} /\ remote_edges[h] = {}
        /\ \A v \in Node : sold[h][v] = SoldAtStart(h, v) /\ bought[h][v] = BoughtAtStart(h, v)
    BY DEF Init
  <2>2. \A v \in Node : OpenDeals(h, v) = {} /\ Reserved(h, v) = 0
    <3>1. \A v \in Node : OpenDeals(h, v) = {}
      BY <2>1 DEF OpenDeals
    <3> QED
      BY <3>1, SumEmpty DEF Reserved
  <2>3. InvSeller(h)
    BY <2>1, <2>2, HostNodes DEF InvSeller, Untouched
  <2>4. InvStart(h)
    <3>1. \A v \in Node : BoughtAtStart(h, v) \in Nat
      BY AtStartNat
    <3> QED
      BY <2>1, <3>1 DEF InvStart
  <2>5. InvAway(h)
    <3>1. \A v \in Node : Sale(h, v) = 0
      <4>1. \A v \in Node : SoldAtStart(h, v) \in Nat
        BY AtStartNat
      <4> QED
        BY <2>1, <2>2, <4>1 DEF Sale
    <3> QED
      BY <2>1, <3>1 DEF InvAway, Proposes, Attempts
  <2> QED
    BY <2>1, <2>3, <2>4, <2>5 DEF InvHome, InvMirror
<1>3. ~ AllDone
  <2>1. 0 \in Host
    BY NumHostsAssumption DEF Host
  <2> QED
    BY <2>1 DEF Init, AllDone
<1> QED
  BY <1>1, <1>2, <1>3 DEF MirrorInv, MirrorsUpdated

LEMMA NextMirrorInv == Parts = 1 /\ IInv /\ MirrorInv /\ [Next]_vars => MirrorInv'
<1> SUFFICES ASSUME Parts = 1, IInv, MirrorInv, [Next]_vars
             PROVE  MirrorInv'
  OBVIOUS
<1>1. TypeOK /\ InvRounds /\ InvWire /\ \A h \in Host : InvHost(h)
  BY DEF IInv
<1>2. TypeOK'
  BY NextStep DEF IInv
<1>3. InvTime /\ \A h \in Host : InvSeller(h) /\ InvStart(h) /\ InvHome(h) /\ InvMirror(h)
  BY DEF MirrorInv
<1>4. ASSUME NEW h \in Host, HostStep(h)
      PROVE  MirrorInv'
  <2>1. \A v \in Node : Sellable(Owner[v], v) /\ Offered(v) => Offered(v)'
    BY <1>1, <1>3, <1>4, OfferedStep
  <2>2. InvSeller(h)' /\ InvStart(h)' /\ InvHome(h)' /\ InvMirror(h)'
    BY <1>1, <1>2, <1>3, <1>4, <2>1, SellerStep, StartStep, HomeStep, MirrorStep
  <2>3. ASSUME NEW g \in Host \ {h}
        PROVE  InvSeller(g)' /\ InvStart(g)' /\ InvHome(g)' /\ InvMirror(g)'
    <3>1. SameHost(g)
      BY <1>1, <1>4, OtherHosts
    <3>2. marks'[g].sold = marks[g].sold
      BY <1>1, <1>4, MarksGrow
    <3> QED
      BY <1>1, <1>3, <2>1, <3>1, <3>2, MirrorKeep
  <2>4. InvTime'
    BY <1>1, <1>3, <1>4, TimeStep
  <2>5. pc'[h] # "done"
    <3>1. pc[h] # "done"
      BY <1>1, <1>4, DealPhase DEF HostStep, DealStep, Look, SendOffers,
         RecvOffers, LookOffer, SendAnswers, RecvAnswers, AddPurchaseEdge, EnterSync
    <3> QED
      BY <1>1, <1>4, <3>1 DEF HostStep, DealStep, Look, Reserve, TakeBack, Buy, Propose, Confirm,
         SendOffers, RecvOffers, LookOffer, SendAnswers, RecvAnswers, AddPurchaseEdge,
         EnterSync, TypeOK
  <2>6. MirrorsUpdated'
    BY <2>5 DEF MirrorsUpdated, AllDone
  <2>7. \A g \in Host : InvSeller(g)' /\ InvStart(g)' /\ InvHome(g)' /\ InvMirror(g)'
    BY <2>2, <2>3
  <2> QED
    BY <2>4, <2>6, <2>7 DEF MirrorInv
<1>5. CASE Sync
  BY <1>1, <1>5, SyncMirrorInv
<1>6. CASE UNCHANGED vars
  <2>1. /\ pc' = pc /\ sold' = sold /\ bought' = bought
        /\ needed' = needed /\ left' = left /\ deals' = deals /\ incoming' = incoming
        /\ remote_edges' = remote_edges /\ marks' = marks /\ wire' = wire
        /\ posted' = posted /\ taken' = taken
    BY <1>6 DEF vars, network
  <2>2. \A v \in Node : Offered(v) => Offered(v)'
    BY <2>1 DEF Offered, Attempts
  <2>3. \A h \in Host : InvSeller(h)' /\ InvStart(h)' /\ InvHome(h)' /\ InvMirror(h)'
    BY <1>1, <1>3, <2>1, <2>2, MirrorKeep DEF SameHost
  <2>4. InvTime'
    BY <1>3, <2>1 DEF InvTime
  <2>5. MirrorsUpdated'
    BY <2>1 DEF MirrorInv, MirrorsUpdated, AllDone
  <2> QED
    BY <2>3, <2>4, <2>5 DEF MirrorInv
<1> QED
  BY <1>4, <1>5, <1>6 DEF Next, Terminated

\* Of whole amounts the mirrors of a seller end with what its master has sold:
\* a reservation on a mirror, for a proposal that was refused or whose answer
\* is too small to show, does not stay (the syncs of sold_, quiesce.cpp:122).
\* Of fractions it may, as the run quiesce_quarters shows.
THEOREM MirrorsUpdatedCorrect == Spec => [](Parts = 1 => MirrorsUpdated)
<1> DEFINE P == Parts = 1 => MirrorInv
<1>1. Init => P
  BY InitMirrorInv
<1>2. IInv /\ P /\ [Next]_vars => P'
  BY NextMirrorInv
<1>3. P => (Parts = 1 => MirrorsUpdated)
  BY DEF MirrorInv
<1> HIDE DEF P
<1> QED
  BY <1>1, <1>2, <1>3, InductiveInvariant, PTL DEF Spec
=============================================================================
