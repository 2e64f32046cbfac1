---------------------------- MODULE SumTheorems ----------------------------
(***************************************************************************)
(* Sums over finite sets: what SumFunctionOnSet(f, S) of the community     *)
(* modules, the sum of f[x] for all x in S, is and how it changes.         *)
(*                                                                         *)
(* The sum is defined by a recursive function that takes one element after *)
(* the other out of the set, in the order of CHOOSE.  The lemmas show that *)
(* there is such a function, and that the order makes no difference.  A    *)
(* proof by induction takes a smallest subset for which a lemma is false.  *)
(***************************************************************************)
EXTENDS Integers, FiniteSetTheorems, TLAPS

\* The element that is taken out next.
OneOf(s) == CHOOSE x \in s : TRUE

\* g is the recursive function for f and the subsets of S.
IsSum(g, f, S) ==
  g = [s \in SUBSET S |-> IF s = {} THEN 0 ELSE f[OneOf(s)] + g[s \ {OneOf(s)}]]

LEMMA OneOfIn == \A s : s # {} => OneOf(s) \in s
BY DEF OneOf

LEMMA SumIsFold ==
  ASSUME NEW f, NEW S
  PROVE  SumFunctionOnSet(f, S) = (CHOOSE g : IsSum(g, f, S))[S]
BY DEF SumFunctionOnSet, FoldFunctionOnSet, MapThenFoldSet, IsSum, OneOf

\* Induction: a set of subsets has a smallest element.
LEMMA Smallest ==
  ASSUME NEW S, IsFiniteSet(S), NEW T, T \subseteq SUBSET S, T # {}
  PROVE  \E s \in T : \A u \in T : u \subseteq s => u = s
<1>1. IsWellFoundedOn(StrictSubsetOrdering(S), SUBSET S)
  BY FS_StrictSubsetOrderingWellFounded, FS_FiniteSubsetsOfFinite
<1>2. PICK s \in T : \A u \in T : ~ (<<u, s>> \in StrictSubsetOrdering(S))
  BY <1>1, WFMin
<1> QED
  BY <1>2 DEF StrictSubsetOrdering

\* Two of these functions agree where both are defined.
LEMMA SumUnique ==
  ASSUME NEW f, NEW S, NEW U, IsFiniteSet(S), U \subseteq S,
         NEW g, IsSum(g, f, S), NEW h, IsSum(h, f, U)
  PROVE  \A s \in SUBSET U : g[s] = h[s]
<1> DEFINE T == {s \in SUBSET U : g[s] # h[s]}
<1> SUFFICES T = {}
  OBVIOUS
<1> SUFFICES ASSUME T # {} PROVE FALSE
  OBVIOUS
<1>1. PICK s \in T : \A u \in T : u \subseteq s => u = s
  <2>1. T \subseteq SUBSET U /\ IsFiniteSet(U)
    BY FS_Subset
  <2> HIDE DEF T
  <2> QED
    BY <2>1, Smallest
<1> DEFINE a == OneOf(s)
<1>2. /\ g[s] = IF s = {} THEN 0 ELSE f[a] + g[s \ {a}]
      /\ h[s] = IF s = {} THEN 0 ELSE f[a] + h[s \ {a}]
  BY DEF IsSum
<1>3. s # {} => a \in s
  BY OneOfIn
<1>4. s # {} => g[s \ {a}] = h[s \ {a}]
  BY <1>1, <1>3
<1> HIDE DEF a
<1> QED
  BY <1>1, <1>2, <1>4

LEMMA SumExists ==
  ASSUME NEW f, NEW S, IsFiniteSet(S)
  PROVE  \E g : IsSum(g, f, S)
<1> DEFINE T == {s \in SUBSET S : ~ \E g : IsSum(g, f, s)}
<1> SUFFICES T = {}
  OBVIOUS
<1> SUFFICES ASSUME T # {} PROVE FALSE
  OBVIOUS
<1>1. PICK s \in T : \A u \in T : u \subseteq s => u = s
  <2>1. T \subseteq SUBSET S
    OBVIOUS
  <2> HIDE DEF T
  <2> QED
    BY <2>1, Smallest
<1> DEFINE G(u) == CHOOSE g : IsSum(g, f, u)
<1>2. \A u \in SUBSET s : u # s => IsSum(G(u), f, u)
  BY <1>1
<1>3. IsFiniteSet(s)
  BY FS_Subset
<1> DEFINE V(u) == IF u = {} THEN 0 ELSE f[OneOf(u)] + G(u \ {OneOf(u)})[u \ {OneOf(u)}]
           h == [u \in SUBSET s |-> V(u)]
<1>4. ASSUME NEW w \in SUBSET s, w # s
      PROVE  V(w) = G(w)[w]
  <2>1. IsSum(G(w), f, w)
    BY <1>2, <1>4
  <2>2. G(w)[w] = IF w = {} THEN 0 ELSE f[OneOf(w)] + G(w)[w \ {OneOf(w)}]
    BY <2>1 DEF IsSum
  <2>3. CASE w = {}
    BY <2>2, <2>3
  <2>4. CASE w # {}
    <3> DEFINE v == w \ {OneOf(w)}
    <3>1. v \in SUBSET s /\ v # s /\ v \subseteq w /\ IsFiniteSet(w)
      BY <1>3, <1>4, <2>4, OneOfIn, FS_Subset
    <3>2. IsSum(G(v), f, v)
      BY <1>2, <3>1
    <3>3. G(w)[v] = G(v)[v]
      <4> HIDE DEF v, G
      <4> QED
        BY <2>1, <3>1, <3>2, SumUnique
    <3> QED
      BY <2>2, <2>4, <3>3
  <2> QED
    BY <2>3, <2>4
<1>5. \A u \in SUBSET s : V(u) = IF u = {} THEN 0 ELSE f[OneOf(u)] + h[u \ {OneOf(u)}]
  <2> SUFFICES ASSUME NEW u \in SUBSET s
               PROVE  V(u) = IF u = {} THEN 0 ELSE f[OneOf(u)] + h[u \ {OneOf(u)}]
    OBVIOUS
  <2>1. CASE u = {}
    BY <2>1
  <2>2. CASE u # {}
    <3> DEFINE w == u \ {OneOf(u)}
    <3>1. w \in SUBSET s /\ w # s
      BY <2>2, OneOfIn
    <3>2. h[w] = V(w)
      BY <3>1
    <3>3. h[w] = G(w)[w]
      <4> HIDE DEF V, h, w, G
      <4> QED
        BY <1>4, <3>1, <3>2
    <3> QED
      BY <2>2, <3>3
  <2> QED
    BY <2>1, <2>2
<1>6. IsSum(h, f, s)
  <2> HIDE DEF G
  <2>1. h = [u \in SUBSET s |-> IF u = {} THEN 0 ELSE f[OneOf(u)] + h[u \ {OneOf(u)}]]
    BY <1>5
  <2> HIDE DEF h
  <2> QED
    BY <2>1 DEF IsSum
<1> QED
  BY <1>1, <1>6
-----------------------------------------------------------------------------
\* The recursion, by which all that follows is proved.
LEMMA SumStep ==
  ASSUME NEW f, NEW S, IsFiniteSet(S)
  PROVE  /\ SumFunctionOnSet(f, {}) = 0
         /\ S # {} => SumFunctionOnSet(f, S)
                        = f[OneOf(S)] + SumFunctionOnSet(f, S \ {OneOf(S)})
<1> DEFINE G(u) == CHOOSE g : IsSum(g, f, u)
<1>1. ASSUME NEW u, IsFiniteSet(u)
      PROVE  IsSum(G(u), f, u) /\ SumFunctionOnSet(f, u) = G(u)[u]
  BY <1>1, SumExists, SumIsFold
<1> HIDE DEF G
<1>2. SumFunctionOnSet(f, {}) = 0
  BY <1>1, FS_EmptySet DEF IsSum
<1>3. ASSUME S # {}
      PROVE  SumFunctionOnSet(f, S) = f[OneOf(S)] + SumFunctionOnSet(f, S \ {OneOf(S)})
  <2> DEFINE u == S \ {OneOf(S)}
  <2>1. u \subseteq S /\ IsFiniteSet(u)
    BY FS_Subset
  <2>2. G(S)[S] = f[OneOf(S)] + G(S)[u]
    BY <1>1, <1>3 DEF IsSum
  <2>3. G(S)[u] = G(u)[u]
    <3> HIDE DEF u
    <3> QED
      BY <1>1, <2>1, SumUnique
  <2> QED
    BY <1>1, <2>1, <2>2, <2>3
<1> QED
  BY <1>2, <1>3

LEMMA SumEmpty ==
  ASSUME NEW f
  PROVE  SumFunctionOnSet(f, {}) = 0
BY SumStep, FS_EmptySet

\* Sums of integers are integers, those of natural numbers natural.
LEMMA SumInt ==
  ASSUME NEW f, NEW S, IsFiniteSet(S), \A x \in S : f[x] \in Int
  PROVE  SumFunctionOnSet(f, S) \in Int
<1> DEFINE T == {s \in SUBSET S : SumFunctionOnSet(f, s) \notin Int}
<1> SUFFICES ASSUME T # {} PROVE FALSE
  OBVIOUS
<1>1. PICK s \in T : \A u \in T : u \subseteq s => u = s
  <2>1. T \subseteq SUBSET S
    OBVIOUS
  <2> HIDE DEF T
  <2> QED
    BY <2>1, Smallest
<1>2. s # {} => SumFunctionOnSet(f, s) = f[OneOf(s)] + SumFunctionOnSet(f, s \ {OneOf(s)})
  BY SumStep, FS_Subset
<1>3. s # {} => OneOf(s) \in s
  BY OneOfIn
<1>4. s # {} => SumFunctionOnSet(f, s \ {OneOf(s)}) \in Int
  BY <1>1, <1>3
<1>5. s = {} => SumFunctionOnSet(f, s) = 0
  BY SumEmpty
<1> QED
  BY <1>2, <1>3, <1>4, <1>5

\* Any element may be taken out first.
LEMMA SumRemove ==
  ASSUME NEW f, NEW S, IsFiniteSet(S), \A x \in S : f[x] \in Int, NEW x \in S
  PROVE  SumFunctionOnSet(f, S) = f[x] + SumFunctionOnSet(f, S \ {x})
<1> DEFINE Ok(s) == \A y \in s : SumFunctionOnSet(f, s)
                                   = f[y] + SumFunctionOnSet(f, s \ {y})
           T == {s \in SUBSET S : ~ Ok(s)}
<1> SUFFICES ASSUME T # {} PROVE FALSE
  OBVIOUS
<1>1. PICK s \in T : \A u \in T : u \subseteq s => u = s
  <2>1. T \subseteq SUBSET S
    OBVIOUS
  <2> HIDE DEF T
  <2> QED
    BY <2>1, Smallest
<1>2. \A u \in SUBSET s : u # s => Ok(u)
  BY <1>1
<1>3. PICK y \in s : SumFunctionOnSet(f, s) # f[y] + SumFunctionOnSet(f, s \ {y})
  BY <1>1
<1> DEFINE a == OneOf(s)
<1>4. a \in s /\ SumFunctionOnSet(f, s) = f[a] + SumFunctionOnSet(f, s \ {a})
  BY SumStep, FS_Subset, OneOfIn
<1> HIDE DEF a
<1>5. y # a
  BY <1>3, <1>4
<1>6. SumFunctionOnSet(f, s \ {a}) = f[y] + SumFunctionOnSet(f, (s \ {a}) \ {y})
  BY <1>2, <1>3, <1>4, <1>5
<1>7. SumFunctionOnSet(f, s \ {y}) = f[a] + SumFunctionOnSet(f, (s \ {y}) \ {a})
  BY <1>2, <1>3, <1>4, <1>5
<1>8. (s \ {a}) \ {y} = (s \ {y}) \ {a}
  OBVIOUS
<1>9. /\ f[a] \in Int /\ f[y] \in Int
      /\ SumFunctionOnSet(f, (s \ {a}) \ {y}) \in Int
  <2>1. IsFiniteSet((s \ {a}) \ {y}) /\ \A z \in (s \ {a}) \ {y} : f[z] \in Int
    BY FS_Subset
  <2> QED
    BY <1>3, <1>4, <2>1, SumInt
<1>10. SumFunctionOnSet(f, s) = f[a] + (f[y] + SumFunctionOnSet(f, (s \ {a}) \ {y}))
  BY <1>4, <1>6
<1>11. f[y] + SumFunctionOnSet(f, s \ {y})
         = f[y] + (f[a] + SumFunctionOnSet(f, (s \ {a}) \ {y}))
  BY <1>7, <1>8
<1> QED
  BY <1>3, <1>9, <1>10, <1>11

LEMMA SumAdd ==
  ASSUME NEW f, NEW S, IsFiniteSet(S), \A y \in S : f[y] \in Int,
         NEW x, x \notin S, f[x] \in Int
  PROVE  SumFunctionOnSet(f, S \cup {x}) = f[x] + SumFunctionOnSet(f, S)
<1>1. IsFiniteSet(S \cup {x}) /\ \A y \in S \cup {x} : f[y] \in Int
  BY FS_AddElement
<1>2. (S \cup {x}) \ {x} = S
  OBVIOUS
<1> QED
  BY <1>1, <1>2, SumRemove
-----------------------------------------------------------------------------
\* Induction: what holds of the empty set, and still does when an element is
\* added, holds of S.
LEMMA SetInduction ==
  ASSUME NEW S, IsFiniteSet(S), NEW T, {} \in T,
         \A s \in SUBSET S : \A x \in S \ s : s \in T => s \cup {x} \in T
  PROVE  S \in T
<1> DEFINE B == (SUBSET S) \ T
<1> SUFFICES ASSUME B # {} PROVE FALSE
  OBVIOUS
<1>1. PICK s \in B : \A u \in B : u \subseteq s => u = s
  <2>1. B \subseteq SUBSET S
    OBVIOUS
  <2> HIDE DEF B
  <2> QED
    BY <2>1, Smallest
<1>2. PICK x \in s : TRUE
  BY <1>1
<1>3. s \ {x} \in SUBSET S /\ s \ {x} \in T /\ x \in S \ (s \ {x})
  BY <1>1, <1>2
<1>4. (s \ {x}) \cup {x} = s
  BY <1>2
<1> QED
  BY <1>1, <1>3, <1>4

LEMMA SumNat ==
  ASSUME NEW f, NEW S, IsFiniteSet(S), \A x \in S : f[x] \in Nat
  PROVE  SumFunctionOnSet(f, S) \in Nat
<1> DEFINE T == {s \in SUBSET S : SumFunctionOnSet(f, s) \in Nat}
<1>1. {} \in T
  BY SumEmpty
<1>2. ASSUME NEW s \in SUBSET S, NEW x \in S \ s, s \in T
      PROVE  s \cup {x} \in T
  BY <1>2, SumAdd, FS_Subset
<1>3. S \in T
  <2> HIDE DEF T
  <2> QED
    BY <1>1, <1>2, SetInduction
<1> QED
  BY <1>3

\* Only the values on the set count.
LEMMA SumSame ==
  ASSUME NEW f, NEW g, NEW S, IsFiniteSet(S), \A x \in S : f[x] \in Int /\ g[x] = f[x]
  PROVE  SumFunctionOnSet(g, S) = SumFunctionOnSet(f, S)
<1> DEFINE T == {s \in SUBSET S : SumFunctionOnSet(g, s) = SumFunctionOnSet(f, s)}
<1>1. {} \in T
  BY SumEmpty
<1>2. ASSUME NEW s \in SUBSET S, NEW x \in S \ s, s \in T
      PROVE  s \cup {x} \in T
  BY <1>2, SumAdd, FS_Subset
<1>3. S \in T
  <2> HIDE DEF T
  <2> QED
    BY <1>1, <1>2, SetInduction
<1> QED
  BY <1>3

LEMMA SumZero ==
  ASSUME NEW f, NEW S, IsFiniteSet(S), \A x \in S : f[x] = 0
  PROVE  SumFunctionOnSet(f, S) = 0
<1> DEFINE T == {s \in SUBSET S : SumFunctionOnSet(f, s) = 0}
<1>1. {} \in T
  BY SumEmpty
<1>2. ASSUME NEW s \in SUBSET S, NEW x \in S \ s, s \in T
      PROVE  s \cup {x} \in T
  BY <1>2, SumAdd, FS_Subset
<1>3. S \in T
  <2> HIDE DEF T
  <2> QED
    BY <1>1, <1>2, SetInduction
<1> QED
  BY <1>3

LEMMA SumMonotone ==
  ASSUME NEW f, NEW g, NEW S, IsFiniteSet(S),
         \A x \in S : f[x] \in Int /\ g[x] \in Int /\ f[x] <= g[x]
  PROVE  SumFunctionOnSet(f, S) <= SumFunctionOnSet(g, S)
<1> DEFINE T == {s \in SUBSET S : SumFunctionOnSet(f, s) <= SumFunctionOnSet(g, s)}
<1>1. {} \in T
  BY SumEmpty
<1>2. ASSUME NEW s \in SUBSET S, NEW x \in S \ s, s \in T
      PROVE  s \cup {x} \in T
  <2>1. IsFiniteSet(s)
    BY FS_Subset
  <2>2. /\ SumFunctionOnSet(f, s \cup {x}) = f[x] + SumFunctionOnSet(f, s)
        /\ SumFunctionOnSet(g, s \cup {x}) = g[x] + SumFunctionOnSet(g, s)
    BY <2>1, SumAdd
  <2>3. SumFunctionOnSet(f, s) \in Int /\ SumFunctionOnSet(g, s) \in Int
    BY <2>1, SumInt
  <2> QED
    BY <1>2, <2>2, <2>3
<1>3. S \in T
  <2> HIDE DEF T
  <2> QED
    BY <1>1, <1>2, SetInduction
<1> QED
  BY <1>3

LEMMA SumPlus ==
  ASSUME NEW f, NEW g, NEW h, NEW S, IsFiniteSet(S),
         \A x \in S : f[x] \in Int /\ g[x] \in Int /\ h[x] = f[x] + g[x]
  PROVE  SumFunctionOnSet(h, S) = SumFunctionOnSet(f, S) + SumFunctionOnSet(g, S)
<1> DEFINE T == {s \in SUBSET S : SumFunctionOnSet(h, s)
                   = SumFunctionOnSet(f, s) + SumFunctionOnSet(g, s)}
<1>1. {} \in T
  BY SumEmpty
<1>2. ASSUME NEW s \in SUBSET S, NEW x \in S \ s, s \in T
      PROVE  s \cup {x} \in T
  <2>1. IsFiniteSet(s)
    BY FS_Subset
  <2>2. /\ SumFunctionOnSet(f, s \cup {x}) = f[x] + SumFunctionOnSet(f, s)
        /\ SumFunctionOnSet(g, s \cup {x}) = g[x] + SumFunctionOnSet(g, s)
        /\ SumFunctionOnSet(h, s \cup {x}) = h[x] + SumFunctionOnSet(h, s)
    BY <2>1, SumAdd
  <2>3. SumFunctionOnSet(f, s) \in Int /\ SumFunctionOnSet(g, s) \in Int
    BY <2>1, SumInt
  <2> QED
    BY <1>2, <2>2, <2>3
<1>3. S \in T
  <2> HIDE DEF T
  <2> QED
    BY <1>1, <1>2, SetInduction
<1> QED
  BY <1>3

\* One value changes.
LEMMA SumUpdate ==
  ASSUME NEW f, NEW g, NEW S, IsFiniteSet(S), NEW x \in S,
         \A y \in S : f[y] \in Int /\ g[y] \in Int,
         \A y \in S \ {x} : g[y] = f[y]
  PROVE  SumFunctionOnSet(g, S) = SumFunctionOnSet(f, S) - f[x] + g[x]
<1>1. IsFiniteSet(S \ {x})
  BY FS_Subset
<1>2. SumFunctionOnSet(g, S \ {x}) = SumFunctionOnSet(f, S \ {x})
  BY <1>1, SumSame
<1>3. SumFunctionOnSet(f, S \ {x}) \in Int
  BY <1>1, SumInt
<1>4. /\ SumFunctionOnSet(f, S) = f[x] + SumFunctionOnSet(f, S \ {x})
      /\ SumFunctionOnSet(g, S) = g[x] + SumFunctionOnSet(g, S \ {x})
  BY SumRemove
<1> QED
  BY <1>2, <1>3, <1>4

\* The sum over two disjoint sets.
LEMMA SumUnion ==
  ASSUME NEW f, NEW S, NEW U, IsFiniteSet(S), IsFiniteSet(U), S \cap U = {},
         \A x \in S \cup U : f[x] \in Int
  PROVE  SumFunctionOnSet(f, S \cup U) = SumFunctionOnSet(f, S) + SumFunctionOnSet(f, U)
<1> DEFINE T == {s \in SUBSET U : SumFunctionOnSet(f, S \cup s)
                   = SumFunctionOnSet(f, S) + SumFunctionOnSet(f, s)}
<1>1. {} \in T
  BY SumEmpty, SumInt
<1>2. ASSUME NEW s \in SUBSET U, NEW x \in U \ s, s \in T
      PROVE  s \cup {x} \in T
  <2>1. IsFiniteSet(s) /\ IsFiniteSet(S \cup s)
    BY FS_Subset, FS_Union
  <2>2. SumFunctionOnSet(f, s \cup {x}) = f[x] + SumFunctionOnSet(f, s)
    BY <2>1, SumAdd
  <2>3. SumFunctionOnSet(f, (S \cup s) \cup {x}) = f[x] + SumFunctionOnSet(f, S \cup s)
    BY <2>1, SumAdd
  <2>4. SumFunctionOnSet(f, s) \in Int /\ SumFunctionOnSet(f, S) \in Int
    BY <2>1, SumInt
  <2>5. (S \cup s) \cup {x} = S \cup (s \cup {x})
    OBVIOUS
  <2>6. SumFunctionOnSet(f, S \cup (s \cup {x}))
          = f[x] + (SumFunctionOnSet(f, S) + SumFunctionOnSet(f, s))
    BY <1>2, <2>3, <2>5
  <2>7. f[x] \in Int
    OBVIOUS
  <2>8. SumFunctionOnSet(f, S \cup (s \cup {x}))
          = SumFunctionOnSet(f, S) + SumFunctionOnSet(f, s \cup {x})
    BY <2>2, <2>4, <2>6, <2>7
  <2> QED
    BY <2>8
<1>3. U \in T
  <2> HIDE DEF T
  <2> QED
    BY <1>1, <1>2, SetInduction
<1> QED
  BY <1>3

\* A subset of natural numbers does not add up to more.
LEMMA SumSubset ==
  ASSUME NEW f, NEW S, NEW U, IsFiniteSet(S), U \subseteq S,
         \A x \in S : f[x] \in Nat
  PROVE  SumFunctionOnSet(f, U) <= SumFunctionOnSet(f, S)
<1>1. IsFiniteSet(U) /\ IsFiniteSet(S \ U)
  BY FS_Subset
<1>2. SumFunctionOnSet(f, U) \in Nat /\ SumFunctionOnSet(f, S \ U) \in Nat
  BY <1>1, SumNat
<1>3. SumFunctionOnSet(f, U \cup (S \ U))
        = SumFunctionOnSet(f, U) + SumFunctionOnSet(f, S \ U)
  BY <1>1, SumUnion
<1>4. U \cup (S \ U) = S
  OBVIOUS
<1>5. SumFunctionOnSet(f, S) = SumFunctionOnSet(f, U) + SumFunctionOnSet(f, S \ U)
  BY <1>3, <1>4
<1> QED
  BY <1>2, <1>5

\* Counting.
LEMMA SumOnes ==
  ASSUME NEW f, NEW S, IsFiniteSet(S), \A x \in S : f[x] \in {0, 1}
  PROVE  SumFunctionOnSet(f, S) = Cardinality({x \in S : f[x] = 1})
<1> DEFINE C(s) == {x \in s : f[x] = 1}
           T == {s \in SUBSET S : SumFunctionOnSet(f, s) = Cardinality(C(s))}
<1>1. {} \in T
  BY SumEmpty, FS_EmptySet
<1>2. ASSUME NEW s \in SUBSET S, NEW x \in S \ s, s \in T
      PROVE  s \cup {x} \in T
  <2>1. IsFiniteSet(s) /\ IsFiniteSet(C(s))
    BY FS_Subset
  <2>2. SumFunctionOnSet(f, s \cup {x}) = f[x] + SumFunctionOnSet(f, s)
    BY <2>1, SumAdd
  <2>3. C(s \cup {x}) = IF f[x] = 1 THEN C(s) \cup {x} ELSE C(s)
    OBVIOUS
  <2>4. Cardinality(C(s) \cup {x}) = Cardinality(C(s)) + 1 /\ Cardinality(C(s)) \in Nat
    BY <2>1, FS_AddElement, FS_CardinalityType
  <2> HIDE DEF C
  <2> QED
    BY <1>2, <2>2, <2>3, <2>4
<1>3. S \in T
  <2> HIDE DEF T
  <2> QED
    BY <1>1, <1>2, SetInduction
<1> QED
  BY <1>3
-----------------------------------------------------------------------------
(* Greatest and finite.                                                    *)

LEMMA HasGreatest ==
  ASSUME NEW f, NEW S, IsFiniteSet(S), S # {}, \A x \in S : f[x] \in Int
  PROVE  \E x \in S : \A y \in S : f[y] <= f[x]
<1> DEFINE T == {s \in SUBSET S : s = {} \/ \E x \in s : \A y \in s : f[y] <= f[x]}
<1>1. {} \in T
  OBVIOUS
<1>2. ASSUME NEW s \in SUBSET S, NEW x \in S \ s, s \in T
      PROVE  s \cup {x} \in T
  <2>1. CASE s = {}
    BY <2>1
  <2>2. CASE s # {}
    <3>1. PICK z \in s : \A y \in s : f[y] <= f[z]
      BY <1>2, <2>2
    <3>2. CASE f[x] <= f[z]
      BY <3>1, <3>2
    <3>3. CASE ~ (f[x] <= f[z])
      <4>1. \A y \in s \cup {x} : f[y] <= f[x]
        BY <3>1, <3>3
      <4> QED
        BY <4>1
    <3> QED
      BY <3>2, <3>3
  <2> QED
    BY <2>1, <2>2
<1>3. S \in T
  <2> HIDE DEF T
  <2> QED
    BY <1>1, <1>2, SetInduction
<1> QED
  BY <1>3

LEMMA HasLeast ==
  ASSUME NEW S, IsFiniteSet(S), S # {}, S \subseteq Int
  PROVE  \E x \in S : \A y \in S : x <= y
<1> DEFINE f == [x \in S |-> - x]
<1>1. PICK x \in S : \A y \in S : f[y] <= f[x]
  <2>1. \A x \in S : f[x] \in Int
    OBVIOUS
  <2> HIDE DEF f
  <2> QED
    BY <2>1, HasGreatest
<1> QED
  BY <1>1

\* The values of a function on a finite set.
LEMMA FiniteImage ==
  ASSUME NEW f, NEW S, IsFiniteSet(S)
  PROVE  IsFiniteSet({f[x] : x \in S})
<1> DEFINE I(s) == {f[x] : x \in s}
           T == {s \in SUBSET S : IsFiniteSet(I(s))}
<1>1. {} \in T
  <2>1. I({}) = {}
    OBVIOUS
  <2> HIDE DEF I
  <2> QED
    BY <2>1, FS_EmptySet
<1>2. ASSUME NEW s \in SUBSET S, NEW x \in S \ s, s \in T
      PROVE  s \cup {x} \in T
  <2>1. I(s \cup {x}) = I(s) \cup {f[x]}
    OBVIOUS
  <2>2. IsFiniteSet(I(s)) /\ s \cup {x} \in SUBSET S
    BY <1>2
  <2>3. IsFiniteSet(I(s \cup {x}))
    <3> HIDE DEF I
    <3>1. IsFiniteSet(I(s) \cup {f[x]})
      BY <2>2, FS_AddElement
    <3> QED
      BY <2>1, <3>1
  <2> HIDE DEF I
  <2> QED
    BY <2>2, <2>3
<1>3. S \in T
  <2> HIDE DEF T
  <2> QED
    BY <1>1, <1>2, SetInduction
<1> QED
  BY <1>3

\* A sum may run over other names of its elements.
LEMMA SumImage ==
  ASSUME NEW f, NEW g, NEW m, NEW S, IsFiniteSet(S),
         \A x \in S : f[x] \in Int /\ g[m[x]] = f[x],
         \A x, y \in S : m[x] = m[y] => x = y
  PROVE  SumFunctionOnSet(g, {m[x] : x \in S}) = SumFunctionOnSet(f, S)
<1> DEFINE I(s) == {m[x] : x \in s}
           T == {s \in SUBSET S : SumFunctionOnSet(g, I(s)) = SumFunctionOnSet(f, s)}
<1>1. {} \in T
  <2>1. I({}) = {}
    OBVIOUS
  <2> HIDE DEF I
  <2> QED
    BY <2>1, SumEmpty
<1>2. ASSUME NEW s \in SUBSET S, NEW x \in S \ s, s \in T
      PROVE  s \cup {x} \in T
  <2>1. I(s \cup {x}) = I(s) \cup {m[x]} /\ m[x] \notin I(s)
    OBVIOUS
  <2>2. IsFiniteSet(s) /\ \A y \in s : f[y] \in Int
    BY FS_Subset
  <2>3. IsFiniteSet(I(s))
    BY <2>2, FiniteImage
  <2>4. (\A y \in I(s) : g[y] \in Int) /\ g[m[x]] = f[x] /\ f[x] \in Int
    OBVIOUS
  <2>5. SumFunctionOnSet(g, I(s)) = SumFunctionOnSet(f, s)
    BY <1>2
  <2> HIDE DEF I
  <2>6. SumFunctionOnSet(g, I(s) \cup {m[x]}) = g[m[x]] + SumFunctionOnSet(g, I(s))
    BY <2>1, <2>3, <2>4, SumAdd
  <2>7. SumFunctionOnSet(f, s \cup {x}) = f[x] + SumFunctionOnSet(f, s)
    BY <2>2, <2>4, SumAdd
  <2> QED
    BY <2>1, <2>4, <2>5, <2>6, <2>7
<1>3. S \in T
  <2> HIDE DEF T
  <2> QED
    BY <1>1, <1>2, SetInduction
<1> QED
  BY <1>3

-----------------------------------------------------------------------------
(* Multiples, sums with terms that are 0, and sums over two sets.          *)

\* A common factor.
LEMMA SumTimes ==
  ASSUME NEW f, NEW g, NEW S, IsFiniteSet(S), NEW c \in Int,
         \A x \in S : f[x] \in Int /\ g[x] = c * f[x]
  PROVE  SumFunctionOnSet(g, S) = c * SumFunctionOnSet(f, S)
<1> DEFINE T == {s \in SUBSET S : SumFunctionOnSet(g, s) = c * SumFunctionOnSet(f, s)}
<1>1. {} \in T
  <2>1. SumFunctionOnSet(g, {}) = 0 /\ SumFunctionOnSet(f, {}) = 0
    BY SumEmpty
  <2> QED
    BY <2>1
<1>2. ASSUME NEW s \in SUBSET S, NEW x \in S \ s, s \in T
      PROVE  s \cup {x} \in T
  <2>1. IsFiniteSet(s)
    BY FS_Subset
  <2>2. \A y \in S : f[y] \in Int /\ g[y] \in Int
    OBVIOUS
  <2>3. SumFunctionOnSet(f, s \cup {x}) = f[x] + SumFunctionOnSet(f, s)
    BY <2>1, <2>2, SumAdd
  <2>4. SumFunctionOnSet(g, s \cup {x}) = g[x] + SumFunctionOnSet(g, s)
    BY <2>1, <2>2, SumAdd
  <2>5. SumFunctionOnSet(f, s) \in Int
    BY <2>1, <2>2, SumInt
  <2>6. g[x] = c * f[x] /\ f[x] \in Int /\ SumFunctionOnSet(g, s) = c * SumFunctionOnSet(f, s)
    BY <1>2
  <2>7. \A a, b \in Int : c * a + c * b = c * (a + b)
    OBVIOUS
  <2>8. SumFunctionOnSet(g, s \cup {x}) = c * SumFunctionOnSet(f, s \cup {x})
    BY <2>3, <2>4, <2>5, <2>6, <2>7
  <2> QED
    BY <2>8
<1>3. S \in T
  <2> HIDE DEF T
  <2> QED
    BY <1>1, <1>2, SetInduction
<1> QED
  BY <1>3

\* The terms outside of U are 0.
LEMMA SumPart ==
  ASSUME NEW f, NEW g, NEW S, NEW U, IsFiniteSet(S), U \subseteq S,
         \A x \in U : f[x] \in Int /\ g[x] = f[x],
         \A x \in S \ U : g[x] = 0
  PROVE  SumFunctionOnSet(g, S) = SumFunctionOnSet(f, U)
<1>1. IsFiniteSet(U) /\ IsFiniteSet(S \ U) /\ U \cap (S \ U) = {} /\ S = U \cup (S \ U)
  BY FS_Subset
<1>2. \A x \in U \cup (S \ U) : g[x] \in Int
  OBVIOUS
<1>3. SumFunctionOnSet(g, U \cup (S \ U)) = SumFunctionOnSet(g, U) + SumFunctionOnSet(g, S \ U)
  BY <1>1, <1>2, SumUnion
<1>4. SumFunctionOnSet(g, S \ U) = 0
  BY <1>1, SumZero
<1>5. SumFunctionOnSet(g, U) = SumFunctionOnSet(f, U)
  BY <1>1, SumSame
<1>6. SumFunctionOnSet(f, U) \in Int
  BY <1>1, SumInt
<1>7. SumFunctionOnSet(g, S) = SumFunctionOnSet(g, U \cup (S \ U))
  <2> DEFINE V == U \cup (S \ U)
  <2>1. S = V
    BY <1>1
  <2> HIDE DEF V
  <2>2. SumFunctionOnSet(g, S) = SumFunctionOnSet(g, V)
    BY <2>1
  <2> QED
    BY <2>2 DEF V
<1> QED
  BY <1>3, <1>4, <1>5, <1>6, <1>7

\* Rows first or columns first.
RowSums(A, S, U) == [x \in S |-> SumFunctionOnSet(A[x], U)]
LEMMA SumSwap ==
  ASSUME NEW S, NEW U, IsFiniteSet(S), IsFiniteSet(U), NEW A, NEW B,
         \A x \in S : \A y \in U : A[x][y] \in Int /\ B[y][x] = A[x][y]
  PROVE  SumFunctionOnSet(RowSums(A, S, U), S) = SumFunctionOnSet(RowSums(B, U, S), U)
<1> DEFINE r == RowSums(A, S, U)
           c == RowSums(B, U, S)
<1>1. /\ \A x \in S : r[x] = SumFunctionOnSet(A[x], U)
      /\ \A y \in U : c[y] = SumFunctionOnSet(B[y], S)
  BY DEF RowSums
<1> HIDE DEF r, c
<1> DEFINE part(s) == [y \in U |-> SumFunctionOnSet(B[y], s)]
           T == {s \in SUBSET S : SumFunctionOnSet(r, s) = SumFunctionOnSet(part(s), U)}
<1>2. \A x \in S : r[x] \in Int
  BY <1>1, SumInt
<1>3. {} \in T
  <2>1. SumFunctionOnSet(r, {}) = 0
    BY SumEmpty
  <2>2. \A y \in U : part({})[y] = 0
    BY SumEmpty
  <2>3. SumFunctionOnSet(part({}), U) = 0
    <3> HIDE DEF part
    <3> QED
      BY <2>2, SumZero
  <2> QED
    BY <2>1, <2>3
<1>4. ASSUME NEW s \in SUBSET S, NEW x \in S \ s, s \in T
      PROVE  s \cup {x} \in T
  <2>1. IsFiniteSet(s)
    BY FS_Subset
  <2>2. SumFunctionOnSet(r, s \cup {x}) = r[x] + SumFunctionOnSet(r, s)
    BY <1>2, <2>1, SumAdd
  <2> DEFINE line == A[x]
             old == part(s)
             new == part(s \cup {x})
  <2>3. ASSUME NEW y \in U
        PROVE  line[y] \in Int /\ old[y] \in Int /\ new[y] = line[y] + old[y]
    <3> DEFINE f == B[y]
    <3>1. \A z \in S : f[z] \in Int
      OBVIOUS
    <3>2. f[x] = line[y] /\ line[y] \in Int
      OBVIOUS
    <3>3. old[y] = SumFunctionOnSet(f, s) /\ new[y] = SumFunctionOnSet(f, s \cup {x})
      OBVIOUS
    <3> HIDE DEF f, part, line, old, new
    <3>4. SumFunctionOnSet(f, s \cup {x}) = f[x] + SumFunctionOnSet(f, s)
      BY <2>1, <3>1, SumAdd
    <3>5. SumFunctionOnSet(f, s) \in Int
      BY <2>1, <3>1, SumInt
    <3> QED
      BY <3>2, <3>3, <3>4, <3>5
  <2>4. SumFunctionOnSet(new, U) = SumFunctionOnSet(line, U) + SumFunctionOnSet(old, U)
    <3> HIDE DEF line, old, new
    <3> QED
      BY <2>3, SumPlus
  <2>5. SumFunctionOnSet(r, s) = SumFunctionOnSet(old, U) /\ r[x] = SumFunctionOnSet(line, U)
    BY <1>1, <1>4
  <2>6. SumFunctionOnSet(r, s \cup {x}) = SumFunctionOnSet(new, U)
    <3> HIDE DEF line, old, new
    <3> QED
      BY <2>2, <2>4, <2>5
  <2> QED
    BY <2>6
<1>5. S \in T
  <2> HIDE DEF T
  <2> QED
    BY <1>3, <1>4, SetInduction
<1>6. SumFunctionOnSet(r, S) = SumFunctionOnSet(part(S), U)
  BY <1>5
<1>7. SumFunctionOnSet(part(S), U) = SumFunctionOnSet(c, U)
  <2> DEFINE f == part(S)
  <2>1. \A y \in U : f[y] = c[y] /\ c[y] \in Int
    BY <1>1, SumInt
  <2> HIDE DEF f
  <2>2. SumFunctionOnSet(f, U) = SumFunctionOnSet(c, U)
    BY <2>1, SumSame
  <2> QED
    BY <2>2 DEF f
<1> QED
  BY <1>6, <1>7 DEF r, c
=============================================================================
