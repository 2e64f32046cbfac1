------------------------- MODULE EditWorkload_proof -------------------------
(***************************************************************************)
(* For every input, command line, format and number of threads: what an    *)
(* algorithm of the edit benchmarks is handed, what it computes from that, *)
(* and that no edge is lost between the batches.                           *)
(*                                                                         *)
(* First come the parts: lists and their sorting, the halving search, the  *)
(* prefix sum and compaction of CSR, the dividing of the file, and bounds  *)
(* of batches.  Then the search alone, on any graph.  Its invariant says   *)
(* of everything that is under way, entries and threads, for which level   *)
(* it is (OnLevel, UnderWay), and of every edge out of a vertex reached    *)
(* that its end has a level or is under way, or that a thread at the       *)
(* vertex has not come to it yet (Followed).                               *)
(*                                                                         *)
(* The invariant of the workload (WInv) follows the edges: each that has   *)
(* been taken is in the batch or in the lists of the format, never in both *)
(* and nowhere twice (Content); the lines still to be read have the rest   *)
(* (Divided); the walk is a copy of the lists except between an ingestion  *)
(* and what follows it (CopyInv); and batches are as many as have ended    *)
(* (Counting).                                                             *)
(***************************************************************************)
EXTENDS EditWorkload, SumTheorems, SequenceTheorems
-----------------------------------------------------------------------------
(* Lists.                                                                  *)

LEMMA LeastIndex ==
  ASSUME NEW n \in Nat, NEW T, T \subseteq 0 .. n, T # {}
  PROVE  \E k \in T : \A l \in T : k <= l
<1>1. T \in SUBSET Nat /\ \A k \in T : k <= n
  OBVIOUS
<1>2. IsFiniteSet(T) /\ T \subseteq Int
  BY <1>1, FS_BoundedSetOfNaturals
<1> QED
  BY <1>2, HasLeast

\* The largest and the smallest of a finite set.
LEMMA MaxIs ==
  ASSUME NEW S, IsFiniteSet(S), S # {}, S \subseteq Int
  PROVE  Max(S) \in S /\ \A x \in S : x <= Max(S)
<1>1. \E x \in S : \A y \in S : x >= y
  <2> DEFINE f == [x \in S |-> x]
  <2>1. \A x \in S : f[x] = x
    OBVIOUS
  <2> HIDE DEF f
  <2>2. \E x \in S : \A y \in S : f[y] <= f[x]
    BY <2>1, HasGreatest
  <2> QED
    BY <2>1, <2>2
<1>2. Max(S) \in S /\ \A y \in S : Max(S) >= y
  BY <1>1 DEF Max
<1> QED
  BY <1>2

LEMMA MinOfTwo ==
  ASSUME NEW a \in Int, NEW b \in Int
  PROVE  Min({a, b}) = IF a <= b THEN a ELSE b
BY DEF Min

\* A total order numbers the elements of a finite set.
LEMMA RankedIs ==
  ASSUME NEW D, IsFiniteSet(D), NEW R,
         \A x \in D : <<x, x>> \notin R,
         \A x, y \in D : x # y => <<x, y>> \in R \/ <<y, x>> \in R,
         \A x, y, z \in D : <<x, y>> \in R /\ <<y, z>> \in R => <<x, z>> \in R
  PROVE  /\ Cardinality(D) \in Nat
         /\ Ranked(D, R) \in [1 .. Cardinality(D) -> D]
         /\ \A x \in D : \E k \in 1 .. Cardinality(D) : Ranked(D, R)[k] = x
         /\ \A k, l \in 1 .. Cardinality(D) :
              k < l => <<Ranked(D, R)[k], Ranked(D, R)[l]>> \in R
<1> DEFINE n == Cardinality(D)
           B(x) == {y \in D : <<y, x>> \in R}
           rank == [x \in D |-> Cardinality(B(x)) + 1]
<1>1. n \in Nat
  BY FS_CardinalityType
<1>2. ASSUME NEW x \in D
      PROVE  Cardinality(B(x)) \in 0 .. n - 1
  <2>1. B(x) \in SUBSET D /\ x \notin B(x)
    OBVIOUS
  <2> HIDE DEF B
  <2>2. IsFiniteSet(B(x)) /\ Cardinality(B(x)) <= n /\ (n = Cardinality(B(x)) => D = B(x))
    BY <2>1, FS_Subset
  <2>3. Cardinality(B(x)) \in Nat
    BY <2>2, FS_CardinalityType
  <2> QED
    BY <1>1, <2>1, <2>2, <2>3
<1>3. ASSUME NEW x \in D, NEW y \in D, <<x, y>> \in R
      PROVE  Cardinality(B(x)) < Cardinality(B(y))
  <2>1. B(x) \in SUBSET B(y) /\ x \in B(y) /\ x \notin B(x) /\ B(y) \in SUBSET D
    BY <1>3
  <2>2. Cardinality(B(x)) \in Int /\ Cardinality(B(y)) \in Int
    BY <1>2
  <2> HIDE DEF B
  <2>3. IsFiniteSet(B(y))
    BY <2>1, FS_Subset
  <2>4. Cardinality(B(x)) <= Cardinality(B(y)) /\ (Cardinality(B(y)) = Cardinality(B(x)) => B(y) = B(x))
    BY <2>1, <2>3, FS_Subset
  <2> QED
    BY <2>1, <2>2, <2>4
<1> HIDE DEF B
<1>4. rank \in [D -> 1 .. n] /\ \A x \in D : rank[x] = Cardinality(B(x)) + 1
  BY <1>1, <1>2
<1>5. \A x, y \in D : <<x, y>> \in R => rank[x] < rank[y]
  <2> SUFFICES ASSUME NEW x \in D, NEW y \in D, <<x, y>> \in R PROVE rank[x] < rank[y]
    OBVIOUS
  <2> QED
    BY <1>2, <1>3, <1>4
<1> HIDE DEF rank
<1>6. \A x, y \in D : rank[x] = rank[y] => x = y
  <2> SUFFICES ASSUME NEW x \in D, NEW y \in D, rank[x] = rank[y], x # y PROVE FALSE
    OBVIOUS
  <2>1. rank[x] \in Int /\ rank[y] \in Int
    BY <1>4
  <2>2. <<x, y>> \in R \/ <<y, x>> \in R
    OBVIOUS
  <2> QED
    BY <1>5, <2>1, <2>2
<1>7. rank \in Surjection(D, 1 .. n)
  <2>1. rank \in Injection(D, 1 .. n)
    BY <1>4, <1>6 DEF Injection, IsInjective
  <2>2. IsFiniteSet(1 .. n) /\ Cardinality(1 .. n) = n
    <3>1. 1 \in Int /\ n \in Int
      BY <1>1
    <3>2. IsFiniteSet(1 .. n) /\ Cardinality(1 .. n) = IF 1 > n THEN 0 ELSE n - 1 + 1
      BY <3>1, FS_Interval
    <3> QED
      BY <1>1, <3>2
  <2> QED
    BY <2>1, <2>2, FS_Injection
<1>8. \A k \in 1 .. n : \E x \in D : rank[x] = k
  BY <1>7 DEF Surjection
<1> DEFINE r == Ranked(D, R)
<1>9. r = [k \in 1 .. n |-> CHOOSE x \in D : Cardinality(B(x)) = k - 1]
  BY DEF Ranked, B
<1>10. \A k \in 1 .. n : r[k] \in D /\ rank[r[k]] = k
  <2> SUFFICES ASSUME NEW k \in 1 .. n PROVE r[k] \in D /\ rank[r[k]] = k
    OBVIOUS
  <2>1. \E x \in D : Cardinality(B(x)) = k - 1
    <3>1. PICK x \in D : rank[x] = k
      BY <1>8
    <3> QED
      BY <3>1, <1>4, <1>2
  <2>2. r[k] \in D /\ Cardinality(B(r[k])) = k - 1
    BY <1>9, <2>1
  <2> QED
    BY <2>2, <1>4
<1>11. r \in [1 .. n -> D]
  BY <1>9, <1>10
<1> HIDE DEF r
<1>12. \A x \in D : \E k \in 1 .. n : r[k] = x
  <2> SUFFICES ASSUME NEW x \in D PROVE \E k \in 1 .. n : r[k] = x
    OBVIOUS
  <2>1. rank[x] \in 1 .. n
    BY <1>4
  <2>2. r[rank[x]] \in D /\ rank[r[rank[x]]] = rank[x]
    BY <2>1, <1>10
  <2> QED
    BY <2>1, <2>2, <1>6
<1>13. \A k, l \in 1 .. n : k < l => <<r[k], r[l]>> \in R
  <2> SUFFICES ASSUME NEW k \in 1 .. n, NEW l \in 1 .. n, k < l PROVE <<r[k], r[l]>> \in R
    OBVIOUS
  <2>1. r[k] \in D /\ r[l] \in D /\ rank[r[k]] = k /\ rank[r[l]] = l
    BY <1>10
  <2>2. r[k] # r[l]
    BY <2>1, <1>1
  <2>3. <<r[l], r[k]>> \in R => l < k
    BY <2>1, <1>5
  <2> QED
    BY <2>1, <2>2, <2>3, <1>1
<1> QED
  BY <1>1, <1>11, <1>12, <1>13 DEF r


\* A map or set of numbers is iterated in ascending order, each element once.
LEMMA AscendingIs ==
  ASSUME NEW S, IsFiniteSet(S), S \subseteq Int
  PROVE  /\ Cardinality(S) \in Nat
         /\ Ascending(S) \in [1 .. Cardinality(S) -> S]
         /\ Ascending(S) \in Seq(S)
         /\ Len(Ascending(S)) = Cardinality(S)
         /\ \A x \in S : \E k \in 1 .. Cardinality(S) : Ascending(S)[k] = x
         /\ \A k, l \in 1 .. Cardinality(S) : k < l => Ascending(S)[k] < Ascending(S)[l]
<1> DEFINE R == {p \in S \X S : p[1] < p[2]}
           n == Cardinality(S)
           s == Ascending(S)
<1>1. \A x, y \in S : <<x, y>> \in R <=> x < y
  OBVIOUS
<1>2. s = Ranked(S, R)
  BY DEF Ascending
<1>3. /\ \A x \in S : <<x, x>> \notin R
      /\ \A x, y \in S : x # y => <<x, y>> \in R \/ <<y, x>> \in R
      /\ \A x, y, z \in S : <<x, y>> \in R /\ <<y, z>> \in R => <<x, z>> \in R
  BY <1>1
<1> HIDE DEF R
<1>4. /\ n \in Nat
      /\ Ranked(S, R) \in [1 .. n -> S]
      /\ \A x \in S : \E k \in 1 .. n : Ranked(S, R)[k] = x
      /\ \A k, l \in 1 .. n : k < l => <<Ranked(S, R)[k], Ranked(S, R)[l]>> \in R
  BY <1>3, RankedIs
<1> HIDE DEF s
<1>5. s \in [1 .. n -> S] /\ s \in Seq(S) /\ Len(s) = n
  BY <1>2, <1>4
<1>6. \A k, l \in 1 .. n : k < l => s[k] < s[l]
  BY <1>1, <1>2, <1>4
<1> QED
  BY <1>2, <1>4, <1>5, <1>6 DEF s

LEMMA AscendingSet ==
  ASSUME NEW S, IsFiniteSet(S), S \subseteq Int
  PROVE  ToSet(Ascending(S)) = S /\ IsInjective(Ascending(S))
<1> DEFINE n == Cardinality(S)
           s == Ascending(S)
<1>1. /\ n \in Nat /\ s \in [1 .. n -> S]
      /\ \A x \in S : \E k \in 1 .. n : s[k] = x
      /\ \A k, l \in 1 .. n : k < l => s[k] < s[l]
  BY AscendingIs
<1> HIDE DEF n, s
<1>2. DOMAIN s = 1 .. n /\ \A k \in 1 .. n : s[k] \in S /\ s[k] \in Int
  BY <1>1
<1>3. ToSet(s) = S
  BY <1>1, <1>2 DEF ToSet
<1>4. IsInjective(s)
  BY <1>1, <1>2 DEF IsInjective
<1> QED
  BY <1>3, <1>4 DEF s

\* Sorting keeps the elements, and those of a list without duplicates then
\* ascend.
LEMMA InOrderIs ==
  ASSUME NEW s \in Seq(Int)
  PROVE  /\ InOrder(s) \in Seq(ToSet(s))
         /\ Len(InOrder(s)) = Len(s)
         /\ ToSet(InOrder(s)) = ToSet(s)
         /\ IsInjective(s) => /\ IsInjective(InOrder(s))
                              /\ \A k, l \in 1 .. Len(s) : k < l => InOrder(s)[k] < InOrder(s)[l]
<1> DEFINE D == DOMAIN s
           n == Len(s)
           R == {p \in D \X D : s[p[1]] < s[p[2]] \/ (s[p[1]] = s[p[2]] /\ p[1] < p[2])}
           r == Ranked(D, R)
           o == InOrder(s)
<1>1. D = 1 .. n /\ n \in Nat /\ \A i \in D : s[i] \in Int
  OBVIOUS
<1>2. IsFiniteSet(D) /\ Cardinality(D) = n
  <2>1. 1 \in Int /\ n \in Int
    BY <1>1
  <2>2. IsFiniteSet(1 .. n) /\ Cardinality(1 .. n) = IF 1 > n THEN 0 ELSE n - 1 + 1
    BY <2>1, FS_Interval
  <2> QED
    BY <1>1, <2>2
<1>3. \A x, y \in D : <<x, y>> \in R <=> s[x] < s[y] \/ (s[x] = s[y] /\ x < y)
  OBVIOUS
<1>4. o = [k \in D |-> s[r[k]]]
  BY DEF InOrder
<1> HIDE DEF R, o, D, n
<1>5. /\ \A x \in D : <<x, x>> \notin R
      /\ \A x, y \in D : x # y => <<x, y>> \in R \/ <<y, x>> \in R
      /\ \A x, y, z \in D : <<x, y>> \in R /\ <<y, z>> \in R => <<x, z>> \in R
  BY <1>1, <1>3
<1>6. /\ r \in [1 .. n -> D]
      /\ \A x \in D : \E k \in 1 .. n : r[k] = x
      /\ \A k, l \in 1 .. n : k < l => <<r[k], r[l]>> \in R
  BY <1>2, <1>5, RankedIs
<1> HIDE DEF r
<1>7. \A k \in 1 .. n : r[k] \in D /\ o[k] = s[r[k]]
  BY <1>1, <1>4, <1>6
<1>8. ToSet(s) = {s[i] : i \in D}
  BY DEF ToSet, D
<1>9. \A k \in 1 .. n : o[k] \in ToSet(s)
  BY <1>7, <1>8
<1>10. o \in Seq(ToSet(s)) /\ Len(o) = n /\ DOMAIN o = 1 .. n
  <2>1. o \in [1 .. n -> ToSet(s)]
    BY <1>1, <1>4, <1>9
  <2> QED
    BY <2>1, <1>1
<1>11. ToSet(o) = ToSet(s)
  <2>1. ToSet(o) = {o[k] : k \in 1 .. n}
    BY <1>10 DEF ToSet
  <2>2. \A i \in D : \E k \in 1 .. n : o[k] = s[i]
    BY <1>6, <1>7
  <2> QED
    BY <1>8, <1>9, <2>1, <2>2
<1>12. ASSUME IsInjective(s)
       PROVE  IsInjective(o) /\ \A k, l \in 1 .. n : k < l => o[k] < o[l]
  <2>1. \A x, y \in D : s[x] = s[y] => x = y
    BY <1>12 DEF IsInjective, D
  <2>2. ASSUME NEW k \in 1 .. n, NEW l \in 1 .. n, k < l
        PROVE  o[k] < o[l]
    <3>1. r[k] \in D /\ r[l] \in D /\ <<r[k], r[l]>> \in R
      BY <1>6, <2>2
    <3>2. r[k] # r[l]
      BY <3>1, <1>5
    <3> QED
      BY <3>1, <3>2, <2>1, <1>3, <1>7
  <2>3. \A k \in 1 .. n : o[k] \in Int
    BY <1>1, <1>7
  <2> QED
    BY <1>1, <1>10, <2>2, <2>3 DEF IsInjective
<1> QED
  BY <1>10, <1>11, <1>12 DEF o, n


LEMMA Interval ==
  ASSUME NEW n \in Nat
  PROVE  IsFiniteSet(1 .. n) /\ Cardinality(1 .. n) = n
<1>1. 1 \in Int /\ n \in Int
  OBVIOUS
<1>2. IsFiniteSet(1 .. n) /\ Cardinality(1 .. n) = IF 1 > n THEN 0 ELSE n - 1 + 1
  BY <1>1, FS_Interval
<1> QED
  BY <1>2

\* What a list has is a finite set.
LEMMA ListSet ==
  ASSUME NEW S, NEW s \in Seq(S)
  PROVE  /\ IsFiniteSet(ToSet(s)) /\ ToSet(s) \subseteq S
         /\ s \in Seq(ToSet(s))
         /\ \A x : x \in ToSet(s) <=> \E i \in 1 .. Len(s) : s[i] = x
<1>1. Len(s) \in Nat /\ DOMAIN s = 1 .. Len(s) /\ \A i \in 1 .. Len(s) : s[i] \in S
  OBVIOUS
<1>2. IsFiniteSet(1 .. Len(s))
  BY <1>1, Interval
<1>3. ToSet(s) = {s[i] : i \in 1 .. Len(s)}
  BY <1>1 DEF ToSet
<1>4. IsFiniteSet({s[i] : i \in 1 .. Len(s)})
  BY <1>2, FiniteImage
<1>5. s \in Seq(ToSet(s))
  <2>1. s = [i \in 1 .. Len(s) |-> s[i]]
    BY <1>1
  <2>2. \A i \in 1 .. Len(s) : s[i] \in ToSet(s)
    BY <1>3
  <2>3. s \in [1 .. Len(s) -> ToSet(s)]
    BY <2>1, <2>2
  <2> QED
    BY <2>3, <1>1
<1> QED
  BY <1>1, <1>3, <1>4, <1>5

\* Appending two lists without duplicates that share nothing.
LEMMA AppendIs ==
  ASSUME NEW S, NEW s \in Seq(S), NEW t \in Seq(S)
  PROVE  /\ s \o t \in Seq(S)
         /\ ToSet(s \o t) = ToSet(s) \cup ToSet(t)
         /\ IsInjective(s) /\ IsInjective(t) /\ ToSet(s) \cap ToSet(t) = {} =>
              IsInjective(s \o t)
<1> DEFINE u == s \o t
           m == Len(s)
           n == Len(t)
<1>1. /\ u \in Seq(S) /\ m \in Nat /\ n \in Nat /\ DOMAIN s = 1 .. m /\ DOMAIN t = 1 .. n
      /\ DOMAIN u = 1 .. m + n /\ Len(u) = m + n
      /\ \A i \in 1 .. m : u[i] = s[i]
      /\ \A i \in 1 .. n : u[m + i] = t[i]
  OBVIOUS
<1> HIDE DEF u, m, n
<1>2. \A k \in 1 .. m + n : k \in 1 .. m \/ (k - m \in 1 .. n /\ k = m + (k - m))
  BY <1>1
<1>3. ToSet(s) = {s[i] : i \in 1 .. m} /\ ToSet(t) = {t[i] : i \in 1 .. n}
      /\ ToSet(u) = {u[i] : i \in 1 .. m + n}
  BY <1>1 DEF ToSet
<1>4. ToSet(u) = ToSet(s) \cup ToSet(t)
  <2>1. ASSUME NEW k \in 1 .. m + n PROVE u[k] \in ToSet(s) \cup ToSet(t)
    BY <1>1, <1>2, <1>3
  <2>2. ASSUME NEW k \in 1 .. m PROVE s[k] \in ToSet(u)
    BY <1>1, <1>3
  <2>3. ASSUME NEW k \in 1 .. n PROVE t[k] \in ToSet(u)
    <3>1. m + k \in 1 .. m + n /\ u[m + k] = t[k]
      BY <1>1
    <3> QED
      BY <1>3, <3>1
  <2> QED
    BY <1>3, <2>1, <2>2, <2>3
<1>5. ASSUME IsInjective(s), IsInjective(t), ToSet(s) \cap ToSet(t) = {}
      PROVE  IsInjective(u)
  <2>1. \A i, j \in 1 .. m : s[i] = s[j] => i = j
    BY <1>1, <1>5 DEF IsInjective
  <2>2. \A i, j \in 1 .. n : t[i] = t[j] => i = j
    BY <1>1, <1>5 DEF IsInjective
  <2>3. \A i \in 1 .. m, j \in 1 .. n : s[i] # t[j]
    BY <1>3, <1>5
  <2>4. ASSUME NEW k \in 1 .. m + n, NEW l \in 1 .. m + n, u[k] = u[l]
        PROVE  k = l
    <3>1. CASE k \in 1 .. m /\ l \in 1 .. m
      BY <1>1, <2>1, <2>4, <3>1
    <3>2. CASE k \in 1 .. m /\ l \notin 1 .. m
      <4>1. l - m \in 1 .. n /\ u[l] = t[l - m] /\ u[k] = s[k]
        BY <1>1, <1>2, <3>2
      <4> QED
        BY <2>3, <2>4, <3>2, <4>1
    <3>3. CASE k \notin 1 .. m /\ l \in 1 .. m
      <4>1. k - m \in 1 .. n /\ u[k] = t[k - m] /\ u[l] = s[l]
        BY <1>1, <1>2, <3>3
      <4> QED
        BY <2>3, <2>4, <3>3, <4>1
    <3>4. CASE k \notin 1 .. m /\ l \notin 1 .. m
      <4>1. k - m \in 1 .. n /\ u[k] = t[k - m] /\ l - m \in 1 .. n /\ u[l] = t[l - m]
        BY <1>1, <1>2, <3>4
      <4>2. k - m = l - m
        BY <2>2, <2>4, <4>1
      <4> QED
        BY <1>1, <4>2
    <3> QED
      BY <3>1, <3>2, <3>3, <3>4
  <2> QED
    BY <1>1, <2>4 DEF IsInjective
<1> QED
  BY <1>1, <1>4, <1>5 DEF u

\* A line adds its valid destinations, in the same order.
LEMMA KeptIs ==
  ASSUME NEW dsts \in Seq(Nat)
  PROVE  /\ Kept(dsts) \in Seq(Nat)
         /\ ToSet(Kept(dsts)) = {x \in ToSet(dsts) : Valid(x)}
         /\ IsInjective(dsts) => IsInjective(Kept(dsts))
<1> DEFINE I == {i \in DOMAIN dsts : Valid(dsts[i])}
           n == Cardinality(I)
           r == Ascending(I)
           k == Kept(dsts)
<1>1. DOMAIN dsts = 1 .. Len(dsts) /\ Len(dsts) \in Nat /\ \A i \in DOMAIN dsts : dsts[i] \in Nat
  OBVIOUS
<1>2. I \in SUBSET (1 .. Len(dsts)) /\ I \subseteq Int /\ IsFiniteSet(I)
  <2>1. I \in SUBSET (1 .. Len(dsts)) /\ I \subseteq Int
    BY <1>1
  <2>2. IsFiniteSet(1 .. Len(dsts))
    BY <1>1, Interval
  <2> HIDE DEF I
  <2> QED
    BY <2>1, <2>2, FS_Subset
<1>3. \A i : i \in I <=> i \in DOMAIN dsts /\ Valid(dsts[i])
  OBVIOUS
<1>4. k = [j \in DOMAIN r |-> dsts[r[j]]]
  BY DEF Kept
<1> HIDE DEF I, k
<1>5. /\ n \in Nat /\ r \in [1 .. n -> I]
      /\ \A x \in I : \E j \in 1 .. n : r[j] = x
      /\ \A j, l \in 1 .. n : j < l => r[j] < r[l]
  BY <1>2, AscendingIs
<1> HIDE DEF r, n
<1>6. DOMAIN k = 1 .. n /\ \A j \in 1 .. n : r[j] \in I /\ k[j] = dsts[r[j]]
  BY <1>4, <1>5
<1>7. k \in Seq(Nat)
  <2>1. \A j \in 1 .. n : k[j] \in Nat
    BY <1>1, <1>3, <1>6
  <2>2. k = [j \in 1 .. n |-> dsts[r[j]]]
    BY <1>4, <1>5
  <2>3. k \in [1 .. n -> Nat]
    BY <1>6, <2>1, <2>2
  <2> QED
    BY <1>5, <2>3
<1>8. ToSet(k) = {x \in ToSet(dsts) : Valid(x)}
  <2>1. ToSet(k) = {k[j] : j \in 1 .. n} /\ ToSet(dsts) = {dsts[i] : i \in DOMAIN dsts}
    BY <1>6 DEF ToSet
  <2>2. \A j \in 1 .. n : k[j] \in ToSet(dsts) /\ Valid(k[j])
    BY <1>3, <1>6, <2>1
  <2>3. ASSUME NEW x \in ToSet(dsts), Valid(x) PROVE x \in ToSet(k)
    <3>1. PICK i \in DOMAIN dsts : dsts[i] = x
      BY <2>1
    <3>2. i \in I
      BY <1>3, <2>3, <3>1
    <3>3. PICK j \in 1 .. n : r[j] = i
      BY <1>5, <3>2
    <3> QED
      BY <1>6, <2>1, <3>1, <3>3
  <2> QED
    BY <2>1, <2>2, <2>3
<1>9. ASSUME IsInjective(dsts) PROVE IsInjective(k)
  <2>1. ASSUME NEW j \in 1 .. n, NEW l \in 1 .. n, k[j] = k[l]
        PROVE  j = l
    <3>1. r[j] = r[l]
      BY <1>3, <1>6, <1>9, <2>1 DEF IsInjective
    <3>2. r[j] \in Int
      BY <1>2, <1>5
    <3> QED
      BY <1>5, <3>1, <3>2
  <2> QED
    BY <1>6, <2>1 DEF IsInjective
<1> QED
  BY <1>7, <1>8, <1>9 DEF k

-----------------------------------------------------------------------------
(* A sequence of lists, one after the other.                               *)

\* f is the recursive function for the first n lists.
IsFlatten(f, ss, n) ==
  f = [i \in 1 .. n |-> IF i = 1 THEN ss[i] ELSE f[i - 1] \o ss[i]]

LEMMA FlattenExists ==
  ASSUME NEW ss, NEW n \in Nat
  PROVE  \E f : IsFlatten(f, ss, n)
<1> DEFINE T == {k \in 0 .. n : ~ \E f : IsFlatten(f, ss, k)}
<1> SUFFICES ASSUME T # {} PROVE FALSE
  <2>1. n \in 0 .. n
    OBVIOUS
  <2> QED
    BY <2>1
<1>1. T \subseteq 0 .. n
  OBVIOUS
<1>2. PICK k \in T : \A l \in T : k <= l
  <2> HIDE DEF T
  <2> QED
    BY <1>1, LeastIndex
<1>3. CASE k = 0
  <2>1. IsFlatten([i \in 1 .. 0 |-> ss[i]], ss, 0)
    BY DEF IsFlatten
  <2> QED
    BY <1>2, <1>3, <2>1
<1>4. CASE k # 0
  <2>1. k - 1 \in 0 .. n /\ k - 1 \notin T
    BY <1>2, <1>4
  <2>2. PICK f : IsFlatten(f, ss, k - 1)
    BY <2>1
  <2> DEFINE V(i) == IF i = 1 THEN ss[i] ELSE f[i - 1] \o ss[i]
             g == [i \in 1 .. k |-> V(i)]
  <2>3. \A i \in 1 .. k - 1 : f[i] = V(i)
    BY <2>2 DEF IsFlatten
  <2>4. \A i \in 1 .. k : g[i] = IF i = 1 THEN ss[i] ELSE g[i - 1] \o ss[i]
    <3> SUFFICES ASSUME NEW i \in 1 .. k
                 PROVE  g[i] = IF i = 1 THEN ss[i] ELSE g[i - 1] \o ss[i]
      OBVIOUS
    <3>1. i # 1 => i - 1 \in 1 .. k - 1 /\ g[i - 1] = V(i - 1)
      BY <1>2
    <3>2. i # 1 => g[i - 1] = f[i - 1]
      <4> HIDE DEF V, g
      <4> QED
        BY <2>3, <3>1
    <3> QED
      BY <3>2
  <2>5. IsFlatten(g, ss, k)
    <3>1. g = [i \in 1 .. k |-> g[i]]
      OBVIOUS
    <3> HIDE DEF g
    <3> QED
      BY <2>4, <3>1 DEF IsFlatten
  <2> QED
    BY <1>2, <2>5
<1> QED
  BY <1>3, <1>4

LEMMA ConcatIs ==
  ASSUME NEW S, NEW s \in Seq(S), NEW t \in Seq(S)
  PROVE  /\ Len(s \o t) = Len(s) + Len(t)
         /\ \A i \in 1 .. Len(s) : i \in 1 .. Len(s \o t) /\ (s \o t)[i] = s[i]
         /\ \A i \in 1 .. Len(t) : Len(s) + i \in 1 .. Len(s \o t) /\ (s \o t)[Len(s) + i] = t[i]
OBVIOUS

\* The i-th of the n lists begins after offset i - 1, and nothing else is there.
IsOffsets(O, ss, n, flat) ==
  /\ O \in [0 .. n -> Nat]
  /\ O[0] = 0 /\ O[n] = Len(flat)
  /\ \A i \in 1 .. n : O[i] = O[i - 1] + Len(ss[i])
  /\ \A i \in 1 .. n : \A j \in 1 .. Len(ss[i]) : flat[O[i - 1] + j] = ss[i][j]

LEMMA FlattenIs ==
  ASSUME NEW S, NEW n \in Nat \ {0}, NEW ss \in [1 .. n -> Seq(S)]
  PROVE  /\ FlattenSeq(ss) \in Seq(S)
         /\ \E O : IsOffsets(O, ss, n, FlattenSeq(ss))
<1> DEFINE f == CHOOSE f : IsFlatten(f, ss, n)
           O == [i \in 0 .. n |-> IF i = 0 THEN 0 ELSE Len(f[i])]
<1>1. Len(ss) = n
  OBVIOUS
<1>2. FlattenSeq(ss) = f[n]
  BY <1>1 DEF FlattenSeq, IsFlatten
<1>3. IsFlatten(f, ss, n)
  BY FlattenExists
<1> HIDE DEF f
<1>4. \A i \in 1 .. n : f[i] = IF i = 1 THEN ss[i] ELSE f[i - 1] \o ss[i]
  BY <1>3 DEF IsFlatten
<1>5. \A i \in 1 .. n : f[i] \in Seq(S)
  <2> DEFINE T == {i \in 1 .. n : f[i] \notin Seq(S)}
  <2> SUFFICES ASSUME T # {} PROVE FALSE
    OBVIOUS
  <2>1. T \subseteq 0 .. n
    OBVIOUS
  <2>2. PICK k \in T : \A l \in T : k <= l
    <3> HIDE DEF T
    <3> QED
      BY <2>1, LeastIndex
  <2>3. k # 1 => f[k - 1] \in Seq(S)
    BY <2>2
  <2>4. ss[k] \in Seq(S)
    OBVIOUS
  <2>5. f[k] = IF k = 1 THEN ss[k] ELSE f[k - 1] \o ss[k]
    BY <1>4
  <2>6. f[k] \in Seq(S)
    BY <2>3, <2>4, <2>5
  <2> QED
    BY <2>6
<1>6. /\ O \in [0 .. n -> Nat] /\ O[0] = 0 /\ O[n] = Len(f[n])
      /\ \A i \in 1 .. n : O[i] = Len(f[i])
  BY <1>5
<1> HIDE DEF O
<1>7. \A i \in 1 .. n : Len(ss[i]) \in Nat /\ ss[i] \in Seq(S)
  OBVIOUS
<1>a. ASSUME NEW i \in 1 .. n, i # 1
      PROVE  /\ i - 1 \in 1 .. n /\ f[i - 1] \in Seq(S) /\ f[i] = f[i - 1] \o ss[i]
             /\ O[i - 1] = Len(f[i - 1])
  <2>1. i - 1 \in 1 .. n
    BY <1>a
  <2>2. f[i] = f[i - 1] \o ss[i]
    BY <1>a, <1>4
  <2> QED
    BY <2>1, <2>2, <1>5, <1>6
<1>8. ASSUME NEW i \in 1 .. n
      PROVE  O[i] = O[i - 1] + Len(ss[i])
  <2>1. CASE i = 1
    BY <2>1, <1>4, <1>6, <1>7
  <2>2. CASE i # 1
    <3>1. Len(f[i]) = Len(f[i - 1]) + Len(ss[i])
      <4>1. f[i - 1] \in Seq(S) /\ f[i] = f[i - 1] \o ss[i] /\ ss[i] \in Seq(S)
        BY <2>2, <1>a, <1>7
      <4> QED
        BY <4>1, ConcatIs
    <3> QED
      BY <2>2, <3>1, <1>a, <1>6
  <2> QED
    BY <2>1, <2>2
<1>9. ASSUME NEW i \in 1 .. n, NEW j \in 1 .. Len(ss[i])
      PROVE  f[n][O[i - 1] + j] = ss[i][j]
  <2> DEFINE p == O[i - 1] + j
             Ok(m) == p \in 1 .. Len(f[m]) /\ f[m][p] = ss[i][j]
             T == {m \in i .. n : ~ Ok(m)}
  <2>0. O[i - 1] \in Nat /\ p \in Nat /\ Len(ss[i]) \in Nat
    BY <1>6, <1>7
  <2>1. Ok(i)
    <3>1. CASE i = 1
      BY <3>1, <1>4, <1>6, <1>7
    <3>2. CASE i # 1
      <4>1. f[i - 1] \in Seq(S) /\ f[i] = f[i - 1] \o ss[i] /\ O[i - 1] = Len(f[i - 1])
        BY <3>2, <1>a
      <4> QED
        BY <4>1, <1>7
    <3> QED
      BY <3>1, <3>2
  <2> SUFFICES ASSUME T # {} PROVE FALSE
    <3>1. n \in i .. n
      OBVIOUS
    <3> QED
      BY <3>1
  <2>2. T \subseteq 0 .. n
    OBVIOUS
  <2>3. PICK k \in T : \A l \in T : k <= l
    <3> HIDE DEF T
    <3> QED
      BY <2>2, LeastIndex
  <2>4. k # i
    BY <2>1, <2>3
  <2>5. k - 1 \in i .. n /\ k - 1 \in 1 .. n /\ k \in 1 .. n /\ k # 1 /\ k - 1 \notin T
    BY <2>3, <2>4
  <2>6. Ok(k - 1)
    BY <2>5
  <2>7. f[k - 1] \in Seq(S) /\ ss[k] \in Seq(S) /\ f[k] = f[k - 1] \o ss[k]
    BY <2>5, <1>a
  <2>8. Ok(k)
    <3>1. p \in 1 .. Len(f[k - 1]) /\ f[k - 1][p] = ss[i][j]
      BY <2>6
    <3> HIDE DEF p
    <3>2. p \in 1 .. Len(f[k - 1] \o ss[k]) /\ (f[k - 1] \o ss[k])[p] = f[k - 1][p]
      <4> DEFINE a == f[k - 1]
                 b == ss[k]
      <4>1. a \in Seq(S) /\ b \in Seq(S) /\ p \in 1 .. Len(a)
        BY <2>7, <3>1
      <4> HIDE DEF a, b
      <4>2. p \in 1 .. Len(a \o b) /\ (a \o b)[p] = a[p]
        BY <4>1, ConcatIs
      <4> QED
        BY <4>2 DEF a, b
    <3>3. p \in 1 .. Len(f[k]) /\ f[k][p] = f[k - 1][p]
      BY <2>7, <3>2, Zenon
    <3> QED
      BY <3>1, <3>3
  <2> QED
    BY <2>3, <2>8
<1>10. f[n] \in Seq(S)
  BY <1>5
<1>11. IsOffsets(O, ss, n, FlattenSeq(ss))
  BY <1>2, <1>6, <1>8, <1>9 DEF IsOffsets
<1>12. FlattenSeq(ss) \in Seq(S)
  BY <1>2, <1>10
<1> QED
  BY <1>11, <1>12

\* Offsets ascend, and each position lies behind one of them.
LEMMA OffsetsIs ==
  ASSUME NEW n \in Nat, NEW O \in [0 .. n -> Nat], NEW L \in [1 .. n -> Nat], O[0] = 0,
         \A i \in 1 .. n : O[i] = O[i - 1] + L[i]
  PROVE  /\ \A i, k \in 0 .. n : i <= k => O[i] <= O[k]
         /\ \A p \in 1 .. O[n] : \E i \in 1 .. n : \E j \in 1 .. L[i] : p = O[i - 1] + j
<1>1. \A i, k \in 0 .. n : i <= k => O[i] <= O[k]
  <2> SUFFICES ASSUME NEW i \in 0 .. n PROVE \A k \in 0 .. n : i <= k => O[i] <= O[k]
    OBVIOUS
  <2> DEFINE T == {k \in 0 .. n : i <= k /\ ~ (O[i] <= O[k])}
  <2> SUFFICES ASSUME T # {} PROVE FALSE
    OBVIOUS
  <2>1. PICK k \in T : \A l \in T : k <= l
    <3>1. T \subseteq 0 .. n
      OBVIOUS
    <3> HIDE DEF T
    <3> QED
      BY <3>1, LeastIndex
  <2>2. k # i /\ k \in 1 .. n /\ k - 1 \in 0 .. n /\ i <= k - 1 /\ k - 1 \notin T
    BY <2>1
  <2>3. O[i] <= O[k - 1] /\ O[k] = O[k - 1] + L[k] /\ L[k] \in Nat
    BY <2>2
  <2> QED
    BY <2>1, <2>2, <2>3
<1>2. ASSUME NEW p \in 1 .. O[n]
      PROVE  \E i \in 1 .. n : \E j \in 1 .. L[i] : p = O[i - 1] + j
  <2> DEFINE T == {i \in 0 .. n : p <= O[i]}
  <2>1. T \subseteq 0 .. n /\ n \in T
    OBVIOUS
  <2>2. PICK i \in T : \A l \in T : i <= l
    <3> HIDE DEF T
    <3> QED
      BY <2>1, LeastIndex
  <2>3. i \in 1 .. n /\ i - 1 \in 0 .. n /\ i - 1 \notin T
    BY <2>2
  <2>4. O[i - 1] \in Nat /\ O[i - 1] < p /\ p <= O[i] /\ O[i] = O[i - 1] + L[i] /\ L[i] \in Nat
    BY <2>2, <2>3
  <2>5. p - O[i - 1] \in 1 .. L[i] /\ p = O[i - 1] + (p - O[i - 1])
    BY <2>4
  <2> QED
    BY <2>3, <2>5
<1> QED
  BY <1>1, <1>2

LEMMA SameList ==
  ASSUME NEW S, NEW s \in Seq(S), NEW t \in Seq(S), Len(s) = Len(t),
         \A i \in 1 .. Len(s) : s[i] = t[i]
  PROVE  s = t
<1>1. s = [i \in 1 .. Len(s) |-> s[i]] /\ t = [i \in 1 .. Len(t) |-> t[i]]
  OBVIOUS
<1> QED
  BY <1>1

\* The sums of m_vertices are the offsets in m_edges_compact.
LEMMA PrefixSumIs ==
  ASSUME NEW N \in Nat, NEW S, NEW lists \in [0 .. N - 1 -> Seq(S)],
         NEW O \in [0 .. N -> Nat], O[0] = 0,
         \A i \in 1 .. N : O[i] = O[i - 1] + Len(lists[i - 1])
  PROVE  \A v \in 0 .. N : SumFunctionOnSet([u \in 0 .. N - 1 |-> Len(lists[u])], 0 .. v - 1) = O[v]
<1> DEFINE f == [u \in 0 .. N - 1 |-> Len(lists[u])]
           T == {v \in 0 .. N : SumFunctionOnSet(f, 0 .. v - 1) # O[v]}
<1> SUFFICES ASSUME T # {} PROVE FALSE
  OBVIOUS
<1>1. PICK k \in T : \A l \in T : k <= l
  <2>1. T \subseteq 0 .. N
    OBVIOUS
  <2> HIDE DEF T
  <2> QED
    BY <2>1, LeastIndex
<1>2. \A u \in 0 .. N - 1 : f[u] = Len(lists[u]) /\ f[u] \in Int
  <2>1. \A u \in 0 .. N - 1 : lists[u] \in Seq(S)
    OBVIOUS
  <2> QED
    BY <2>1
<1>3. k \in 0 .. N /\ SumFunctionOnSet(f, 0 .. k - 1) # O[k]
  BY <1>1
<1> HIDE DEF f
<1>4. CASE k = 0
  <2>1. 0 .. k - 1 = {}
    BY <1>4
  <2> QED
    BY <1>3, <1>4, <2>1, SumEmpty
<1>5. CASE k # 0
  <2>1. k - 1 \in 0 .. N /\ k - 1 \notin T /\ k - 1 \in 0 .. N - 1 /\ k \in 1 .. N
    BY <1>1, <1>5
  <2>2. SumFunctionOnSet(f, 0 .. (k - 1) - 1) = O[k - 1]
    BY <2>1
  <2> DEFINE I == 0 .. (k - 1) - 1
  <2>3. 0 .. k - 1 = I \cup {k - 1} /\ k - 1 \notin I /\ I \subseteq 0 .. N - 1
    <3>1. k \in 1 .. N
      BY <2>1
    <3> DEFINE m == k - 1
    <3>2. m \in Nat /\ m \in 0 .. N - 1
      BY <3>1
    <3> HIDE DEF m
    <3>3. 0 .. m = (0 .. m - 1) \cup {m} /\ m \notin 0 .. m - 1 /\ 0 .. m - 1 \subseteq 0 .. N - 1
      <4>1. \A x \in 0 .. m : x \in 0 .. m - 1 \/ x = m
        BY <3>2
      <4>2. \A x \in 0 .. m - 1 : x \in 0 .. m /\ x \in 0 .. N - 1 /\ x # m
        BY <3>2
      <4>3. m \in 0 .. m
        BY <3>2
      <4> QED
        BY <4>1, <4>2, <4>3
    <3> QED
      BY <3>3 DEF m
  <2>4. IsFiniteSet(I)
    <3>1. I \in SUBSET Nat /\ \A x \in I : x <= N
      BY <2>3
    <3> HIDE DEF I
    <3> QED
      BY <3>1, FS_BoundedSetOfNaturals
  <2>5. \A y \in I : f[y] \in Int
    BY <1>2, <2>3
  <2>6. f[k - 1] \in Int
    BY <1>2, <2>1
  <2>7. SumFunctionOnSet(f, I) = O[k - 1]
    BY <2>2
  <2> HIDE DEF I
  <2>8. SumFunctionOnSet(f, I \cup {k - 1}) = f[k - 1] + SumFunctionOnSet(f, I)
    BY <2>3, <2>4, <2>5, <2>6, SumAdd
  <2>9. O[k] = O[k - 1] + Len(lists[k - 1]) /\ O[k - 1] \in Int
    BY <2>1
  <2>10. f[k - 1] = Len(lists[k - 1])
    BY <1>2, <2>1
  <2>11. SumFunctionOnSet(f, 0 .. k - 1) = f[k - 1] + O[k - 1]
    BY <2>3, <2>7, <2>8
  <2> QED
    BY <1>3, <2>6, <2>9, <2>10, <2>11
<1> QED
  BY <1>4, <1>5

\* for_each_edge finds in the compact copy what m_edges has.
LEMMA CompactWalkIs ==
  ASSUME NEW N \in Nat, NEW S, NEW lists \in [0 .. N - 1 -> Seq(S)]
  PROVE  CompactWalk(lists) = lists
<1>1. CASE N = 0
  <2>1. DOMAIN lists = {}
    BY <1>1
  <2>2. DOMAIN CompactWalk(lists) = {} /\ CompactWalk(lists) = [v \in DOMAIN lists |-> CompactWalk(lists)[v]]
    BY <2>1 DEF CompactWalk
  <2>3. lists = [v \in DOMAIN lists |-> lists[v]]
    OBVIOUS
  <2> QED
    BY <2>1, <2>2, <2>3
<1>2. CASE N # 0
  <2> DEFINE ss == [i \in 1 .. N |-> lists[i - 1]]
             flat == FlattenSeq(ss)
  <2>1. N \in Nat \ {0} /\ ss \in [1 .. N -> Seq(S)]
    BY <1>2
  <2>2. \A i \in 1 .. N : ss[i] = lists[i - 1]
    OBVIOUS
  <2>3. \A v \in 0 .. N - 1 : lists[v] \in Seq(S) /\ Len(lists[v]) \in Nat /\ v + 1 \in 1 .. N
    <3>1. \A v \in 0 .. N - 1 : lists[v] \in Seq(S)
      OBVIOUS
    <3> QED
      BY <3>1
  <2>4. 0 .. N - 1 = DOMAIN lists /\ Cardinality(DOMAIN lists) = N
    <3>1. 0 \in Int /\ N - 1 \in Int
      OBVIOUS
    <3>2. Cardinality(0 .. N - 1) = IF 0 > N - 1 THEN 0 ELSE (N - 1) - 0 + 1
      BY <3>1, FS_Interval
    <3> QED
      BY <1>2, <3>2
  <2>5. CompactWalk(lists) =
          [v \in 0 .. N - 1 |-> SubSeq(flat, PrefixSum(lists)[v] + 1, PrefixSum(lists)[v + 1])]
    BY <2>4 DEF CompactWalk, Compact
  <2> HIDE DEF ss, flat
  <2>5a. PICK O : IsOffsets(O, ss, N, flat)
    BY <2>1, FlattenIs DEF flat
  <2>6. /\ O \in [0 .. N -> Nat]
        /\ O[0] = 0 /\ O[N] = Len(flat)
        /\ \A i \in 1 .. N : O[i] = O[i - 1] + Len(ss[i])
        /\ \A i \in 1 .. N : \A j \in 1 .. Len(ss[i]) : flat[O[i - 1] + j] = ss[i][j]
    BY <2>5a DEF IsOffsets
  <2>f. flat \in Seq(S)
    BY <2>1, FlattenIs DEF flat
  <2>7. \A i \in 1 .. N : O[i] = O[i - 1] + Len(lists[i - 1])
    BY <2>2, <2>6
  <2>8. \A v \in 0 .. N : PrefixSum(lists)[v] = O[v]
    <3>1. \A v \in 0 .. N : SumFunctionOnSet([u \in 0 .. N - 1 |-> Len(lists[u])], 0 .. v - 1) = O[v]
      BY <2>6, <2>7, PrefixSumIs
    <3> QED
      BY <2>4, <3>1 DEF PrefixSum
  <2>10. \A i, k \in 0 .. N : i <= k => O[i] <= O[k]
    <3> DEFINE L == [i \in 1 .. N |-> Len(lists[i - 1])]
    <3>1. L \in [1 .. N -> Nat]
      <4>1. \A i \in 1 .. N : i - 1 \in 0 .. N - 1
        OBVIOUS
      <4> QED
        BY <2>3, <4>1
    <3>2. \A i \in 1 .. N : O[i] = O[i - 1] + L[i]
      BY <2>7
    <3> HIDE DEF L
    <3> QED
      BY <2>6, <3>1, <3>2, OffsetsIs
  <2>9. ASSUME NEW v \in 0 .. N - 1
        PROVE  CompactWalk(lists)[v] = lists[v]
    <3> DEFINE l == lists[v]
    <3>1. v \in 0 .. N /\ v + 1 \in 0 .. N /\ v + 1 \in 1 .. N /\ (v + 1) - 1 = v
      OBVIOUS
    <3>2. CompactWalk(lists)[v] = SubSeq(flat, O[v] + 1, O[v + 1])
      BY <2>5, <2>8, <3>1
    <3>3. O[v + 1] = O[v] + Len(l) /\ O[v] \in Nat /\ l \in Seq(S) /\ Len(l) \in Nat
      <4>1. O[v + 1] = O[(v + 1) - 1] + Len(lists[(v + 1) - 1])
        BY <2>7, <3>1
      <4>2. l \in Seq(S) /\ Len(l) \in Nat
        BY <2>3
      <4>3. O[v] \in Nat
        BY <2>6, <3>1
      <4> QED
        BY <3>1, <4>1, <4>2, <4>3
    <3>4. \A j \in 1 .. Len(l) : flat[O[v] + j] = l[j]
      <4>1. \A j \in 1 .. Len(ss[v + 1]) : flat[O[(v + 1) - 1] + j] = ss[v + 1][j]
        BY <2>6, <3>1
      <4>2. ss[v + 1] = l
        BY <2>2, <3>1
      <4> QED
        BY <3>1, <4>1, <4>2
    <3> HIDE DEF l
    <3>5. O[v] + 1 \in 1 .. Len(flat) + 1 /\ O[v + 1] \in (O[v] + 1) - 1 .. Len(flat)
      <4>1. O[v + 1] <= O[N]
        BY <2>10, <3>1
      <4> QED
        BY <2>6, <3>1, <3>3, <4>1
    <3> DEFINE c == SubSeq(flat, O[v] + 1, O[v + 1])
    <3>6. /\ c \in Seq(S)
          /\ Len(c) = IF O[v] + 1 <= O[v + 1] THEN O[v + 1] - (O[v] + 1) + 1 ELSE 0
          /\ \A j \in 1 .. O[v + 1] - (O[v] + 1) + 1 : c[j] = flat[(O[v] + 1) + j - 1]
      <4>1. \A j \in O[v] + 1 .. O[v + 1] : flat[j] \in S
        BY <2>f, <3>3, <3>5
      <4> DEFINE a == O[v] + 1
                 b == O[v + 1]
      <4>2. a \in Int /\ b \in Int
        BY <3>3
      <4>3. \A j \in a .. b : flat[j] \in S
        BY <4>1
      <4> HIDE DEF a, b
      <4>4. /\ SubSeq(flat, a, b) \in Seq(S)
            /\ Len(SubSeq(flat, a, b)) = IF a <= b THEN b - a + 1 ELSE 0
            /\ \A j \in 1 .. b - a + 1 : SubSeq(flat, a, b)[j] = flat[a + j - 1]
        BY <4>2, <4>3, SubSeqProperties
      <4> QED
        BY <4>4 DEF a, b, c
    <3> HIDE DEF c
    <3>7. Len(c) = Len(l)
      BY <3>3, <3>6
    <3>8. \A j \in 1 .. Len(l) : c[j] = l[j]
      <4>1. \A j \in 1 .. Len(l) : (O[v] + 1) + j - 1 = O[v] + j /\ j \in 1 .. O[v + 1] - (O[v] + 1) + 1
        BY <3>3
      <4> QED
        BY <3>4, <3>6, <4>1
    <3>9. c = l
      BY <3>3, <3>6, <3>7, <3>8, SameList
    <3> QED
      BY <3>2, <3>9 DEF c, l
  <2> QED
    BY <2>5, <2>9
<1> QED
  BY <1>1, <1>2

-----------------------------------------------------------------------------
(* Sorted lists and the binary search.                                     *)

\* The first and the number of the positions that may be the bound.
Ranges(s) == {p \in (1 .. Len(s) + 1) \X (0 .. Len(s)) : p[1] + p[2] <= Len(s) + 1}

\* What the search does with such a range.
Halved(bound, s, x, p) ==
  LET first == p[1]
      len == p[2]
      half == len \div 2
  IN IF len = 0 THEN first
     ELSE IF s[first + half] < x THEN bound[<<first + half + 1, len - half - 1>>]
                                 ELSE bound[<<first, half>>]

\* Halves are shorter ranges.
LEMMA HalvesAre ==
  ASSUME NEW S, NEW s \in Seq(S), NEW p \in Ranges(s), p[2] # 0
  PROVE  LET h == p[2] \div 2
         IN /\ p[1] \in Nat /\ p[2] \in Nat /\ h \in 0 .. p[2] - 1 /\ p[1] + h \in 1 .. Len(s)
            /\ <<p[1] + h + 1, p[2] - h - 1>> \in Ranges(s)
            /\ <<p[1], h>> \in Ranges(s)
<1>1. p[1] \in 1 .. Len(s) + 1 /\ p[2] \in 0 .. Len(s) /\ p[1] + p[2] <= Len(s) + 1
      /\ Len(s) \in Nat
  BY DEF Ranges
<1> DEFINE f == p[1]
           d == p[2]
           n == Len(s)
           h == d \div 2
<1>2. f \in 1 .. n + 1 /\ d \in 0 .. n /\ d # 0 /\ f + d <= n + 1 /\ n \in Nat
  BY <1>1
<1> HIDE DEF f, d, n
<1>3. h \in 0 .. d - 1
  BY <1>2
<1> HIDE DEF h
<1>4. f + h \in 1 .. n /\ f + h + 1 \in 1 .. n + 1 /\ d - h - 1 \in 0 .. n
      /\ (f + h + 1) + (d - h - 1) <= n + 1
  BY <1>2, <1>3
<1>5. <<f + h + 1, d - h - 1>> \in Ranges(s)
  BY <1>4 DEF Ranges, n
<1>6. f \in 1 .. n + 1 /\ h \in 0 .. n /\ f + h <= n + 1
  BY <1>2, <1>3
<1>7. <<f, h>> \in Ranges(s)
  BY <1>6 DEF Ranges, n
<1>8. f \in Nat /\ d \in Nat
  BY <1>2
<1> QED
  BY <1>3, <1>4, <1>5, <1>7, <1>8 DEF f, d, n, h

LEMMA BoundExists ==
  ASSUME NEW S, NEW s \in Seq(S), NEW x, NEW n \in Nat
  PROVE  \E b : \A p \in Ranges(s) : p[2] <= n => b[p] = Halved(b, s, x, p)
<1> DEFINE Is(b, m) == \A p \in Ranges(s) : p[2] <= m => b[p] = Halved(b, s, x, p)
           T == {m \in 0 .. n : ~ \E b : Is(b, m)}
<1> SUFFICES ASSUME T # {} PROVE FALSE
  <2>1. n \in 0 .. n
    OBVIOUS
  <2> QED
    BY <2>1
<1>0. \A p \in Ranges(s) : p[1] \in Nat /\ p[2] \in Nat
  BY DEF Ranges
<1>1. T \subseteq 0 .. n
  OBVIOUS
<1>2. PICK m \in T : \A l \in T : m <= l
  <2> HIDE DEF T
  <2> QED
    BY <1>1, LeastIndex
<1>3. CASE m = 0
  <2> DEFINE b == [p \in Ranges(s) |-> p[1]]
  <2>0. \A p \in Ranges(s) : b[p] = p[1]
    OBVIOUS
  <2>1. \A p \in Ranges(s) : p[2] <= 0 => b[p] = p[1] /\ p[2] = 0
    <3> HIDE DEF b, T
    <3>1. ASSUME NEW p \in Ranges(s), p[2] <= 0 PROVE p[2] = 0
      <4>1. p[2] \in Nat
        BY <1>0
      <4> QED
        BY <3>1, <4>1
    <3> QED
      BY <2>0, <3>1
  <2>2. Is(b, 0)
    <3> HIDE DEF b
    <3> QED
      BY <2>1 DEF Halved
  <2> QED
    BY <1>2, <1>3, <2>2
<1>4. CASE m # 0
  <2>1. m - 1 \in 0 .. n /\ m - 1 \notin T /\ m \in Nat
    <3> HIDE DEF T
    <3> QED
      BY <1>1, <1>2, <1>4
  <2>2. PICK a : Is(a, m - 1)
    BY <2>1
  <2> DEFINE b == [p \in Ranges(s) |-> IF p[2] <= m - 1 THEN a[p] ELSE Halved(a, s, x, p)]
  <2>3. \A p \in Ranges(s) : p[2] <= m - 1 => b[p] = a[p]
    OBVIOUS
  <2>4. \A p \in Ranges(s) : ~(p[2] <= m - 1) => b[p] = Halved(a, s, x, p)
    OBVIOUS
  <2> HIDE DEF b
  <2>5. ASSUME NEW p \in Ranges(s), p[2] <= m
        PROVE  b[p] = Halved(b, s, x, p)
    <3>1. Halved(b, s, x, p) = Halved(a, s, x, p)
      <4>1. CASE p[2] = 0
        BY <4>1 DEF Halved
      <4>2. CASE p[2] # 0
        <5> DEFINE h == p[2] \div 2
                   q == <<p[1] + h + 1, p[2] - h - 1>>
                   r == <<p[1], h>>
        <5>1. h \in 0 .. p[2] - 1 /\ q \in Ranges(s) /\ r \in Ranges(s)
              /\ p[2] \in Nat /\ p[1] \in Nat
          BY <4>2, HalvesAre
        <5>2. q[2] = p[2] - h - 1 /\ r[2] = h
          OBVIOUS
        <5>3. q[2] <= m - 1 /\ r[2] <= m - 1
          <6> DEFINE d == p[2]
          <6>1. h \in 0 .. d - 1 /\ d \in Nat /\ d <= m /\ q[2] = d - h - 1 /\ r[2] = h
            BY <2>5, <5>1, <5>2
          <6> HIDE DEF h, q, r, d, T
          <6>2. m \in Nat
            BY <2>1
          <6> QED
            BY <6>1, <6>2
        <5>4. b[q] = a[q] /\ b[r] = a[r]
          BY <2>3, <5>1, <5>3
        <5> QED
          BY <5>4 DEF Halved
      <4> QED
        BY <4>1, <4>2
    <3>2. p[2] <= m - 1 => a[p] = Halved(a, s, x, p)
      BY <2>2
    <3> QED
      BY <2>3, <2>4, <3>1, <3>2
  <2>6. Is(b, m)
    BY <2>5
  <2> QED
    BY <1>2, <2>6
<1> QED
  BY <1>3, <1>4

\* i is the bound of the positions from lo to before hi.
IsBound(i, s, x, lo, hi) == i \in lo .. hi /\ \A k \in lo .. hi - 1 : s[k] < x <=> k < i

LEMMA UpperHalf ==
  ASSUME NEW n \in Nat, NEW s \in [1 .. n -> Int], NEW x \in Int,
         \A k, l \in 1 .. n : k < l => s[k] < s[l],
         NEW f \in 1 .. n + 1, NEW d \in Nat, f + d <= n + 1, NEW h \in 0 .. d - 1,
         s[f + h] < x, NEW i, IsBound(i, s, x, f + h + 1, f + d)
  PROVE  IsBound(i, s, x, f, f + d)
<1>1. f + h \in 1 .. n /\ i \in f + h + 1 .. f + d
  BY DEF IsBound
<1>2. ASSUME NEW k \in f .. f + d - 1
      PROVE  s[k] < x <=> k < i
  <2>1. CASE k <= f + h
    <3>1. k \in 1 .. n /\ k < i
      BY <1>1, <2>1
    <3>2. s[k] <= s[f + h]
      <4> DEFINE e == f + h
      <4>1. e \in 1 .. n /\ k <= e
        BY <1>1, <2>1
      <4> HIDE DEF e
      <4>2. s[k] \in Int /\ s[e] \in Int
        BY <3>1, <4>1
      <4>3. k < e => s[k] < s[e]
        BY <3>1, <4>1
      <4>4. k = e \/ k < e
        BY <3>1, <4>1
      <4>5. s[k] <= s[e]
        BY <4>2, <4>3, <4>4
      <4> QED
        BY <4>5 DEF e
    <3> QED
      BY <1>1, <3>1, <3>2
  <2>2. CASE ~ (k <= f + h)
    BY <2>2 DEF IsBound
  <2> QED
    BY <2>1, <2>2
<1> QED
  BY <1>1, <1>2 DEF IsBound

LEMMA LowerHalf ==
  ASSUME NEW n \in Nat, NEW s \in [1 .. n -> Int], NEW x \in Int,
         \A k, l \in 1 .. n : k < l => s[k] < s[l],
         NEW f \in 1 .. n + 1, NEW d \in Nat, f + d <= n + 1, NEW h \in 0 .. d - 1,
         ~ (s[f + h] < x), NEW i, IsBound(i, s, x, f, f + h)
  PROVE  IsBound(i, s, x, f, f + d)
<1>1. f + h \in 1 .. n /\ i \in f .. f + h
  BY DEF IsBound
<1>2. ASSUME NEW k \in f .. f + d - 1
      PROVE  s[k] < x <=> k < i
  <2>1. CASE k >= f + h
    <3>1. k \in 1 .. n /\ ~ (k < i)
      BY <1>1, <2>1
    <3>2. s[f + h] <= s[k]
      BY <1>1, <2>1, <3>1
    <3> QED
      BY <1>1, <3>1, <3>2
  <2>2. CASE ~ (k >= f + h)
    BY <2>2 DEF IsBound
  <2> QED
    BY <2>1, <2>2
<1> QED
  BY <1>1, <1>2 DEF IsBound

\* The search finds the first element of a sorted list that is not less.
LEMMA LowerBoundIs ==
  ASSUME NEW s \in Seq(Int), NEW x \in Int,
         \A k, l \in 1 .. Len(s) : k < l => s[k] < s[l]
  PROVE  /\ LowerBound(s, x) \in 1 .. Len(s) + 1
         /\ \A k \in 1 .. Len(s) : s[k] < x <=> k < LowerBound(s, x)
<1> DEFINE n == Len(s)
           b == CHOOSE b : b = [p \in Ranges(s) |-> Halved(b, s, x, p)]
           Ok(p) == IsBound(b[p], s, x, p[1], p[1] + p[2])
<1>1. LowerBound(s, x) = b[<<1, n>>]
  BY DEF LowerBound, Ranges, Halved
<1>2. b = [p \in Ranges(s) |-> Halved(b, s, x, p)]
  <2>1. \E c : c = [p \in Ranges(s) |-> Halved(c, s, x, p)]
    <3>1. n \in Nat /\ \A p \in Ranges(s) : p[2] <= n
      BY DEF Ranges
    <3>2. PICK a : \A p \in Ranges(s) : p[2] <= n => a[p] = Halved(a, s, x, p)
      BY <3>1, BoundExists
    <3> DEFINE c == [p \in Ranges(s) |-> a[p]]
    <3>3. \A p \in Ranges(s) : c[p] = a[p]
      OBVIOUS
    <3>4. ASSUME NEW p \in Ranges(s) PROVE Halved(c, s, x, p) = Halved(a, s, x, p)
      <4> HIDE DEF c
      <4>1. CASE p[2] = 0
        BY <4>1 DEF Halved
      <4>2. CASE p[2] # 0
        <5>1. <<p[1] + p[2] \div 2 + 1, p[2] - p[2] \div 2 - 1>> \in Ranges(s)
              /\ <<p[1], p[2] \div 2>> \in Ranges(s)
          BY <4>2, HalvesAre
        <5> QED
          BY <3>3, <5>1 DEF Halved
      <4> QED
        BY <4>1, <4>2
    <3>5. c = [p \in Ranges(s) |-> Halved(c, s, x, p)]
      <4>1. \A p \in Ranges(s) : c[p] = Halved(c, s, x, p)
        <5> HIDE DEF c
        <5> QED
          BY <3>1, <3>2, <3>3, <3>4
      <4>2. c = [p \in Ranges(s) |-> c[p]]
        OBVIOUS
      <4> HIDE DEF c
      <4> QED
        BY <4>1, <4>2
    <3> QED
      BY <3>5
  <2> QED
    BY <2>1
<1> HIDE DEF b
<1>3. \A p \in Ranges(s) : b[p] = Halved(b, s, x, p)
  <2> DEFINE V(p) == Halved(b, s, x, p)
  <2>1. b = [p \in Ranges(s) |-> V(p)]
    BY <1>2
  <2> HIDE DEF V
  <2>2. \A p \in Ranges(s) : b[p] = V(p)
    BY <2>1
  <2> QED
    BY <2>2 DEF V
<1>4. n \in Nat /\ \A k \in 1 .. n : s[k] \in Int
  OBVIOUS
<1>5. \A k, l \in 1 .. n : k < l => s[k] < s[l]
  OBVIOUS
<1>6. \A p \in Ranges(s) : p[1] \in 1 .. n + 1 /\ p[2] \in 0 .. n /\ p[1] + p[2] <= n + 1
  BY DEF Ranges
<1>7. \A p \in Ranges(s) : Ok(p)
  <2> DEFINE T == {m \in 0 .. n : \E p \in Ranges(s) : p[2] = m /\ ~ Ok(p)}
  <2> SUFFICES ASSUME T # {} PROVE FALSE
    BY <1>6
  <2>1. PICK m \in T : \A l \in T : m <= l
    <3>1. T \subseteq 0 .. n
      OBVIOUS
    <3> HIDE DEF T
    <3> QED
      BY <1>4, <3>1, LeastIndex
  <2>2. PICK p \in Ranges(s) : p[2] = m /\ ~ Ok(p)
    BY <2>1
  <2>3. \A q \in Ranges(s) : q[2] < m => Ok(q)
    BY <2>1, <1>6
  <2>4. CASE p[2] = 0
    <3>1. b[p] = p[1]
      BY <1>3, <2>4 DEF Halved
    <3> QED
      BY <1>6, <2>2, <2>4, <3>1 DEF IsBound
  <2>5. CASE p[2] # 0
    <3> DEFINE f == p[1]
               d == p[2]
               h == d \div 2
               q == <<f + h + 1, d - h - 1>>
               r == <<f, h>>
    <3>1. h \in 0 .. d - 1 /\ q \in Ranges(s) /\ r \in Ranges(s) /\ d \in Nat /\ f \in Nat
          /\ f + h \in 1 .. n
      BY <2>5, HalvesAre
    <3>2. q[1] = f + h + 1 /\ q[2] = d - h - 1 /\ r[1] = f /\ r[2] = h
      OBVIOUS
    <3>3. b[p] = IF s[f + h] < x THEN b[q] ELSE b[r]
      BY <1>3, <2>5 DEF Halved
    <3>4. f \in 1 .. n + 1 /\ f + d <= n + 1 /\ d = m
      BY <1>6, <2>2
    <3>5. ~ IsBound(b[p], s, x, f, f + d)
      BY <2>2
    <3> HIDE DEF h, q, r, f, d
    <3>6. q[2] < m /\ r[2] < m
      BY <3>1, <3>2, <3>4
    <3>7. Ok(q) /\ Ok(r)
      BY <2>3, <3>1, <3>6
    <3> HIDE DEF T
    <3>8. (f + h + 1) + (d - h - 1) = f + d
      <4>1. h \in Int /\ d \in Int /\ f \in Int
        BY <3>1
      <4> QED
        BY <4>1
    <3>9. IsBound(b[q], s, x, f + h + 1, f + d) /\ IsBound(b[r], s, x, f, f + h)
      BY <3>2, <3>7, <3>8
    <3>10. s \in [1 .. n -> Int]
      BY <1>4
    <3> HIDE DEF n
    <3>11. CASE s[f + h] < x
      <4>1. b[p] = b[q]
        BY <3>3, <3>11
      <4>2. IsBound(b[q], s, x, f, f + d)
        BY <1>4, <1>5, <3>1, <3>4, <3>9, <3>10, <3>11, UpperHalf
      <4> QED
        BY <3>5, <4>1, <4>2
    <3>12. CASE ~ (s[f + h] < x)
      <4>1. b[p] = b[r]
        BY <3>3, <3>12
      <4>2. IsBound(b[r], s, x, f, f + d)
        BY <1>4, <1>5, <3>1, <3>4, <3>9, <3>10, <3>12, LowerHalf
      <4> QED
        BY <3>5, <4>1, <4>2
    <3> QED
      BY <3>11, <3>12
  <2> QED
    BY <2>4, <2>5
<1>8. <<1, n>> \in Ranges(s)
  BY <1>4 DEF Ranges
<1>9. b[<<1, n>>] \in 1 .. 1 + n /\ \A k \in 1 .. (1 + n) - 1 : s[k] < x <=> k < b[<<1, n>>]
  <2> DEFINE p == <<1, n>>
  <2>0. p \in Ranges(s) /\ p[1] = 1 /\ p[1] + p[2] = 1 + n
    BY <1>8
  <2> HIDE DEF p
  <2>1. IsBound(b[p], s, x, 1, 1 + n)
    <3>1. Ok(p)
      BY <1>7, <2>0
    <3> QED
      BY <2>0, <3>1
  <2>2. b[p] \in 1 .. 1 + n /\ \A k \in 1 .. (1 + n) - 1 : s[k] < x <=> k < b[p]
    BY <2>1, Zenon DEF IsBound
  <2> QED
    BY <2>2, Zenon DEF p
<1> DEFINE y == LowerBound(s, x)
           y0 == b[<<1, n>>]
<1>10. y = y0
  BY <1>1
<1> HIDE DEF y, y0
<1>11. n \in Nat /\ (1 + n) - 1 = n /\ 1 + n = n + 1
  BY <1>4
<1>12. y0 \in 1 .. n + 1 /\ \A k \in 1 .. n : s[k] < x <=> k < y0
  BY <1>9, <1>11 DEF y0
<1> QED
  BY <1>10, <1>12 DEF y

\* std::binary_search
LEMMA FoundIs ==
  ASSUME NEW s \in Seq(Int), NEW x \in Int,
         \A k, l \in 1 .. Len(s) : k < l => s[k] < s[l]
  PROVE  LET i == LowerBound(s, x)
         IN (i <= Len(s) /\ s[i] = x) <=> \E k \in 1 .. Len(s) : s[k] = x
<1> DEFINE i == LowerBound(s, x)
<1>1. i \in 1 .. Len(s) + 1 /\ \A k \in 1 .. Len(s) : s[k] < x <=> k < i
  BY LowerBoundIs
<1> HIDE DEF i
<1>2. Len(s) \in Nat /\ \A k \in 1 .. Len(s) : s[k] \in Int
  OBVIOUS
<1>3. ASSUME NEW k \in 1 .. Len(s), s[k] = x
      PROVE  i <= Len(s) /\ s[i] = x
  <2>1. i <= k
    BY <1>1, <1>2, <1>3
  <2>2. i \in 1 .. Len(s)
    BY <1>1, <1>2, <2>1
  <2>3. ~ (s[i] < x)
    BY <1>1, <1>2, <2>2
  <2>4. i < k => s[i] < s[k]
    BY <2>2
  <2> QED
    BY <1>2, <1>3, <2>1, <2>2, <2>3, <2>4
<1>4. i <= Len(s) /\ s[i] = x => \E k \in 1 .. Len(s) : s[k] = x
  BY <1>1, <1>2
<1> QED
  BY <1>3, <1>4 DEF i

-----------------------------------------------------------------------------
(* The search alone.                                                       *)

\* The level k is right for n: there is a neighbour one level before.
OnLevel(n, k) ==
  \/ k = 0 /\ n = source
  \/ k > 0 /\ \E v \in Vertices : Leads(v, n) /\ shortest_path[v] = k - 1

\* A thread is at a vertex of the current level, which has no level before
\* the thread writes it, unless another thread has.
ThreadAtLevel(t) ==
  /\ Idle(t) => pos[t] = 0
  /\ ~Idle(t) =>
       /\ phase = "level"
       /\ OnLevel(at[t], level)
       /\ pos[t] = 0 => shortest_path[at[t]] \in {UNVISITED, level}
       /\ pos[t] # 0 => shortest_path[at[t]] = level
AtLevel == \A t \in Thread : ThreadAtLevel(t)

\* n is still to be given the current level.
Coming(n) == currSt[n] > 0 \/ \E t \in Thread : at[t] = n

\* Entries are for the current and the next level.
UnderWay ==
  phase = "level" =>
    /\ source \in Vertices
    /\ shortest_path[source] = 0 \/ (level = 0 /\ Coming(source))
    /\ \A v \in Vertices :
         /\ currSt[v] > 0 => OnLevel(v, level)
         /\ nextSt[v] > 0 => OnLevel(v, level + 1)

\* Levels are right, and none is ahead of the current one.
Reached ==
  phase \in {"level", "computed"} =>
    \A v \in Vertices : shortest_path[v] # UNVISITED =>
      /\ shortest_path[v] <= level
      /\ OnLevel(v, shortest_path[v])

\* The i-th neighbour of v.
Met(v, i) ==
  LET n == walk[v][i]
  IN /\ shortest_path[v] < level =>
          \/ shortest_path[n] \in 0 .. shortest_path[v] + 1
          \/ shortest_path[v] = level - 1 /\ Coming(n)
     /\ shortest_path[v] = level =>
          \/ shortest_path[n] # UNVISITED
          \/ nextSt[n] > 0
          \/ \E t \in Thread : at[t] = v /\ pos[t] <= i

Followed ==
  phase = "level" =>
    \A v \in Vertices : shortest_path[v] # UNVISITED =>
      \A i \in 1 .. Len(walk[v]) : Met(v, i)

IInv ==
  /\ BfsTypeOK
  /\ phase \in {"compute", "level", "computed"}
  /\ phase = "compute" => level = 0
  /\ AtLevel
  /\ UnderWay
  /\ Reached
  /\ Followed
  /\ LevelsExact

-----------------------------------------------------------------------------
\* Vertices are numbers, and neighbours are vertices.
LEMMA GraphType ==
  ASSUME BfsTypeOK
  PROVE  /\ \A v \in Vertices : /\ v \in Nat /\ v # NoVertex
                                /\ Len(walk[v]) \in Nat
                                /\ \A i \in 1 .. Len(walk[v]) : walk[v][i] \in Vertices
<1>1. \A v \in Vertices : v \in Nat /\ walk[v] \in Seq(Vertices)
  BY DEF BfsTypeOK, IsGraph, Vertices
<1> QED
  BY <1>1 DEF NoVertex, Vertices

\* Before a call nothing has been reached.
LEMMA InitIInv == BfsInit => IInv
<1> SUFFICES ASSUME BfsInit PROVE IInv
  OBVIOUS
<1>1. BfsTypeOK
  BY DEF BfsInit, Unused, BfsTypeOK
<1> QED
  BY <1>1 DEF BfsInit, Unused, IInv, AtLevel, ThreadAtLevel, Idle, UnderWay, Reached, Followed, LevelsExact

\* The search starts with the source, if there is one.
LEMMA StartSearchIInv ==
  ASSUME IInv, StartSearch
  PROVE  IInv'
<1> USE DEF StartSearch, IInv, graph
<1>0. Vertices' = Vertices
  BY DEF Vertices
<1>1. \A t \in Thread : Idle(t) /\ Idle(t)'
  BY DEF AtLevel, ThreadAtLevel, Idle
<1>a. level = 0 /\ level' = 0
  OBVIOUS
<1>2. BfsTypeOK'
  BY <1>0 DEF BfsTypeOK, NoEntries
<1>3. AtLevel'
  BY <1>1 DEF AtLevel, ThreadAtLevel, Idle
<1>4. UnderWay'
  BY <1>0, <1>a DEF UnderWay, NoEntries, Coming, OnLevel
<1>5. Reached' /\ Followed'
  BY <1>0 DEF Reached, Followed
<1>6. LevelsExact'
  BY <1>0 DEF LevelsExact, UNVISITED
<1> QED
  BY <1>2, <1>3, <1>4, <1>5, <1>6

\* A thread takes an entry: it is at the vertex, if that has no level.
LEMMA TakeEntryIInv ==
  ASSUME IInv, NEW t \in Thread, NEW v \in Vertices, TakeEntry(t, v)
  PROVE  IInv'
<1> USE DEF TakeEntry, IInv, graph, Vertices
<1>0. \A u \in Vertices : u # NoVertex
  BY GraphType
<1>1. \A n \in Vertices, k \in Int : OnLevel(n, k) <=> OnLevel(n, k)'
  BY DEF OnLevel, Leads
<1>2. BfsTypeOK'
  BY DEF BfsTypeOK
<1>3. OnLevel(v, level) /\ pos[t] = 0 /\ level \in Nat
  BY DEF UnderWay, AtLevel, ThreadAtLevel, Idle, BfsTypeOK
<1>4. AtLevel'
  <2> SUFFICES ASSUME NEW s \in Thread
               PROVE  ThreadAtLevel(s)'
    BY DEF AtLevel
  <2>1. CASE s = t
    BY <2>1, <1>1, <1>3 DEF ThreadAtLevel, OnLevel, Leads, Idle, BfsTypeOK
  <2>2. CASE s # t
    <3>1. at'[s] = at[s] /\ pos'[s] = pos[s]
      BY <2>2 DEF BfsTypeOK
    <3>2. ~Idle(s) => at[s] \in Vertices
      BY DEF BfsTypeOK, Idle
    <3> QED
      BY <3>1, <3>2, <1>1, <1>3 DEF AtLevel, ThreadAtLevel, OnLevel, Leads, Idle
  <2> QED
    BY <2>1, <2>2
<1>5. \A n \in Vertices : Coming(n) => Coming(n)' \/ shortest_path[n] # UNVISITED
  <2> SUFFICES ASSUME NEW n \in Vertices, Coming(n), shortest_path[n] = UNVISITED
               PROVE  Coming(n)'
    OBVIOUS
  <2>1. CASE n = v
    BY <2>1 DEF Coming, BfsTypeOK
  <2>2. CASE n # v
    BY <2>2, <1>0 DEF Coming, BfsTypeOK, Idle
  <2> QED
    BY <2>1, <2>2
<1>6. UnderWay'
  <2>1. source \in Vertices /\ (shortest_path[source] = 0 \/ (level = 0 /\ Coming(source)))
    BY DEF UnderWay
  <2>2. shortest_path[source] # UNVISITED => shortest_path[source] = 0 \/ level # 0
    BY <2>1, <1>3 DEF Reached, UNVISITED, BfsTypeOK
  <2>3. shortest_path'[source] = 0 \/ (level' = 0 /\ Coming(source)')
    BY <2>1, <2>2, <1>5
  <2>4. \A u \in Vertices : currSt'[u] > 0 => currSt[u] > 0
    BY DEF BfsTypeOK
  <2> QED
    BY <2>1, <2>3, <2>4, <1>1, <1>3 DEF UnderWay
<1>7. Reached'
  BY <1>1 DEF Reached, BfsTypeOK, UNVISITED
<1>8. Followed'
  <2> SUFFICES ASSUME NEW u \in Vertices, shortest_path[u] # UNVISITED,
                      NEW i \in 1 .. Len(walk[u])
               PROVE  Met(u, i)'
    BY DEF Followed
  <2> DEFINE n == walk[u][i]
  <2>1. n \in Vertices /\ Met(u, i)
    BY GraphType DEF Followed
  <2>2. shortest_path[n] # UNVISITED => shortest_path[n] \in 0 .. level
    BY <2>1 DEF Reached, BfsTypeOK, UNVISITED
  <2>3. \A s \in Thread : at[s] = u => at'[s] = u
    BY <1>0 DEF Idle, BfsTypeOK
  <2> QED
    BY <2>1, <2>2, <2>3, <1>3, <1>5 DEF Met, UNVISITED
<1>9. LevelsExact'
  BY DEF LevelsExact
<1> QED
  BY <1>2, <1>4, <1>6, <1>7, <1>8, <1>9

\* A thread writes the level of its vertex, or another has written the same.
LEMMA WriteLevelIInv ==
  ASSUME IInv, NEW t \in Thread, WriteLevel(t)
  PROVE  IInv'
<1> USE DEF WriteLevel, IInv, graph, Vertices
<1> DEFINE v == at[t]
<1>1. /\ phase = "level" /\ level \in Nat /\ v \in Vertices
      /\ shortest_path[v] \in {UNVISITED, level} /\ OnLevel(v, level)
  BY DEF AtLevel, ThreadAtLevel, BfsTypeOK, Idle
<1>2. shortest_path' = [shortest_path EXCEPT ![v] = level]
  OBVIOUS
<1>3. shortest_path \in [Vertices -> Nat \cup {UNVISITED}]
  BY <1>1 DEF BfsTypeOK
<1>4. \A u \in Vertices : shortest_path'[u] = IF u = v THEN level ELSE shortest_path[u]
  BY <1>1, <1>3
<1>5. BfsTypeOK'
  BY <1>1 DEF BfsTypeOK
<1>6. \A n \in Vertices, k \in 0 .. level + 1 : OnLevel(n, k) => OnLevel(n, k)'
  <2> SUFFICES ASSUME NEW n \in Vertices, NEW k \in 0 .. level + 1, OnLevel(n, k)
               PROVE  OnLevel(n, k)'
    OBVIOUS
  <2>1. CASE k = 0 /\ n = source
    BY <2>1 DEF OnLevel
  <2>2. CASE k > 0 /\ \E u \in Vertices : Leads(u, n) /\ shortest_path[u] = k - 1
    <3>1. PICK u \in Vertices : Leads(u, n) /\ shortest_path[u] = k - 1
      BY <2>2
    <3>2. u = v => k - 1 = level
      BY <3>1, <1>1, <2>2 DEF UNVISITED
    <3>3. shortest_path'[u] = k - 1 /\ Leads(u, n)'
      BY <3>1, <3>2, <1>4 DEF Leads
    <3> QED
      BY <3>3, <2>2 DEF OnLevel
  <2> QED
    BY <2>1, <2>2 DEF OnLevel
<1>7. AtLevel'
  <2> SUFFICES ASSUME NEW s \in Thread
               PROVE  ThreadAtLevel(s)'
    BY DEF AtLevel
  <2>1. Idle(s)' = Idle(s) /\ (Idle(s) => s # t)
    BY DEF Idle
  <2>2. ~Idle(s) => at[s] \in Vertices /\ OnLevel(at[s], level)'
    BY <1>1, <1>6 DEF OnLevel, BfsTypeOK, Idle, AtLevel, ThreadAtLevel
  <2>3. s # t => pos'[s] = pos[s]
    BY DEF BfsTypeOK
  <2>4. s = t => pos'[s] = 1
    BY DEF BfsTypeOK
  <2> QED
    BY <2>1, <2>2, <2>3, <2>4, <1>1, <1>4 DEF AtLevel, ThreadAtLevel
<1>8. UnderWay'
  <2>1. OnLevel(source, 0)
    BY DEF OnLevel
  <2>2. v = source => level = 0 \/ shortest_path[v] = 0
    BY <1>1 DEF UnderWay
  <2>3. v = source => level = 0
    BY <2>2, <1>1 DEF UNVISITED
  <2>4. Coming(source) => Coming(source)'
    BY DEF Coming
  <2>5. shortest_path'[source] = 0 \/ (level' = 0 /\ Coming(source)')
    BY <2>3, <2>4, <1>1, <1>4 DEF UnderWay
  <2> QED
    BY <2>5, <1>1, <1>6 DEF UnderWay
<1>9. Reached'
  <2> SUFFICES ASSUME NEW u \in Vertices, shortest_path'[u] # UNVISITED
               PROVE  shortest_path'[u] <= level /\ OnLevel(u, shortest_path[u])'
    BY DEF Reached
  <2>1. CASE u = v
    BY <2>1, <1>1, <1>4, <1>6 DEF OnLevel
  <2>2. CASE u # v
    BY <2>2, <1>1, <1>3, <1>4, <1>6 DEF Reached, UNVISITED, OnLevel
  <2> QED
    BY <2>1, <2>2
<1>10. Followed'
  <2> SUFFICES ASSUME NEW u \in Vertices, shortest_path'[u] # UNVISITED,
                      NEW i \in 1 .. Len(walk[u])
               PROVE  Met(u, i)'
    BY DEF Followed
  <2> DEFINE n == walk[u][i]
  <2>1. n \in Vertices
    BY GraphType
  <2>2. Coming(n) => Coming(n)'
    BY DEF Coming
  <2>3. CASE u = v
    BY <2>3, <1>1, <1>4 DEF Met, BfsTypeOK
  <2>4. CASE u # v
    <3>1. Met(u, i) /\ shortest_path'[u] = shortest_path[u]
      BY <2>4, <1>1, <1>4 DEF Followed
    <3>2. \A s \in Thread : at[s] = u => pos'[s] = pos[s] /\ at'[s] = u
      BY <2>4 DEF BfsTypeOK
    <3>3. shortest_path[n] # UNVISITED => shortest_path'[n] # UNVISITED
      BY <2>1, <1>1, <1>4 DEF UNVISITED
    <3>4. CASE n = v
      BY <3>1, <3>2, <3>4, <2>1, <1>1, <1>3, <1>4, <2>2 DEF Met, UNVISITED
    <3>5. CASE n # v
      BY <3>1, <3>2, <3>3, <3>5, <2>1, <2>2, <1>4 DEF Met
    <3> QED
      BY <3>4, <3>5
  <2> QED
    BY <2>3, <2>4
<1>11. LevelsExact'
  BY <1>1 DEF LevelsExact
<1> QED
  BY <1>1, <1>5, <1>7, <1>8, <1>9, <1>10, <1>11

\* A thread comes to the next neighbour, and pushes it if it has no level.
LEMMA VisitNeighborIInv ==
  ASSUME IInv, NEW t \in Thread, VisitNeighbor(t)
  PROVE  IInv'
<1> USE DEF VisitNeighbor, IInv, graph, Vertices
<1> DEFINE v == at[t]
           m == walk[v][pos[t]]
<1>1. /\ phase = "level" /\ level \in Nat /\ v \in Vertices /\ pos[t] \in Nat
      /\ pos[t] # 0 /\ shortest_path[v] = level
  BY DEF AtLevel, ThreadAtLevel, BfsTypeOK, Idle
<1>2. m \in Vertices
  BY <1>1, GraphType
<1>3. Pushed(m) \in Nat /\ (shortest_path[m] = UNVISITED => Pushed(m) = 1)
                        /\ (shortest_path[m] # UNVISITED => Pushed(m) = 0)
  BY DEF Pushed
<1>4. \A n \in Vertices : nextSt[n] \in Nat /\ nextSt'[n] \in Nat
                          /\ nextSt'[n] = IF n = m THEN nextSt[n] + Pushed(m) ELSE nextSt[n]
  BY <1>1, <1>2, <1>3 DEF BfsTypeOK
<1>5. BfsTypeOK'
  BY <1>1, <1>2, <1>3 DEF BfsTypeOK
<1>6. \A n \in Vertices, k \in Int : OnLevel(n, k) <=> OnLevel(n, k)'
  BY DEF OnLevel, Leads
<1>7. AtLevel'
  <2> SUFFICES ASSUME NEW s \in Thread
               PROVE  ThreadAtLevel(s)'
    BY DEF AtLevel
  <2>1. pos'[s] = IF s = t THEN pos[t] + 1 ELSE pos[s]
    BY DEF BfsTypeOK
  <2> QED
    BY <2>1, <1>1 DEF AtLevel, ThreadAtLevel, Idle, OnLevel, Leads
<1>8. OnLevel(m, level + 1)
  BY <1>1 DEF OnLevel, Leads
<1>9. UnderWay'
  <2>1. Coming(source) => Coming(source)'
    BY DEF Coming
  <2>2. \A n \in Vertices : nextSt'[n] > 0 => OnLevel(n, level + 1)
    BY <1>1, <1>4, <1>8 DEF UnderWay
  <2> QED
    BY <2>1, <2>2, <1>1, <1>6 DEF UnderWay
<1>10. Reached'
  BY <1>6 DEF Reached, OnLevel, Leads
<1>11. Followed'
  <2> SUFFICES ASSUME NEW u \in Vertices, shortest_path[u] # UNVISITED,
                      NEW i \in 1 .. Len(walk[u])
               PROVE  Met(u, i)'
    BY DEF Followed
  <2> DEFINE n == walk[u][i]
  <2>1. n \in Vertices /\ Met(u, i)
    BY <1>1, GraphType DEF Followed
  <2>2. Coming(n) => Coming(n)'
    BY DEF Coming
  <2>3. nextSt[n] > 0 => nextSt'[n] > 0
    BY <2>1, <1>3, <1>4
  <2>4. ASSUME NEW s \in Thread, at[s] = u, pos[s] <= i
        PROVE  pos'[s] <= i \/ shortest_path[n] # UNVISITED \/ nextSt'[n] > 0
    <3>1. CASE s = t /\ pos[t] = i
      BY <3>1, <2>4, <1>2, <1>3, <1>4
    <3>2. CASE s = t /\ pos[t] # i
      BY <3>2, <2>4, <1>1 DEF BfsTypeOK
    <3>3. CASE s # t
      BY <3>3, <2>4 DEF BfsTypeOK
    <3> QED
      BY <3>1, <3>2, <3>3
  <2> QED
    BY <2>1, <2>2, <2>3, <2>4 DEF Met
<1>12. LevelsExact'
  BY <1>1 DEF LevelsExact
<1> QED
  BY <1>1, <1>5, <1>7, <1>9, <1>10, <1>11, <1>12

\* A thread that is through with its vertex has followed all its edges.
LEMMA LeaveIInv ==
  ASSUME IInv, NEW t \in Thread, Leave(t)
  PROVE  IInv'
<1> USE DEF Leave, IInv, graph, Vertices
<1> DEFINE v == at[t]
<1>1. /\ phase = "level" /\ level \in Nat /\ v \in Vertices /\ pos[t] \in Nat
      /\ Len(walk[v]) \in Nat /\ pos[t] # 0 /\ shortest_path[v] = level
  <2>1. phase = "level" /\ level \in Nat /\ v \in Vertices /\ pos[t] \in Nat
    BY DEF AtLevel, ThreadAtLevel, BfsTypeOK, Idle
  <2>2. Len(walk[v]) \in Nat
    BY <2>1, GraphType
  <2> QED
    BY <2>1, <2>2 DEF AtLevel, ThreadAtLevel
<1>2. BfsTypeOK'
  BY DEF BfsTypeOK
<1>3. AtLevel'
  <2> SUFFICES ASSUME NEW s \in Thread
               PROVE  ThreadAtLevel(s)'
    BY DEF AtLevel
  <2>1. CASE s = t
    BY <2>1 DEF ThreadAtLevel, Idle, BfsTypeOK
  <2>2. CASE s # t
    <3>1. at'[s] = at[s] /\ pos'[s] = pos[s]
      BY <2>2 DEF BfsTypeOK
    <3> QED
      BY <3>1 DEF AtLevel, ThreadAtLevel, Idle, OnLevel, Leads
  <2> QED
    BY <2>1, <2>2
<1>4. \A n \in Vertices : Coming(n) => Coming(n)' \/ shortest_path[n] = level
  BY <1>1 DEF Coming, BfsTypeOK
<1>5. UnderWay'
  <2>1. shortest_path'[source] = 0 \/ (level' = 0 /\ Coming(source)')
    BY <1>1, <1>4 DEF UnderWay
  <2> QED
    BY <2>1, <1>1 DEF UnderWay, OnLevel, Leads
<1>6. Reached'
  BY DEF Reached, OnLevel, Leads
<1>7. Followed'
  <2> SUFFICES ASSUME NEW u \in Vertices, shortest_path[u] # UNVISITED,
                      NEW i \in 1 .. Len(walk[u])
               PROVE  Met(u, i)'
    BY DEF Followed
  <2> DEFINE n == walk[u][i]
  <2>1. n \in Vertices /\ Met(u, i)
    BY <1>1, GraphType DEF Followed
  <2>2. Coming(n) => Coming(n)' \/ shortest_path[n] = level
    BY <2>1, <1>4
  <2>3. ASSUME NEW s \in Thread, at[s] = u, pos[s] <= i
        PROVE  at'[s] = u /\ pos'[s] <= i
    <3>1. s # t
      BY <2>3, <1>1
    <3> QED
      BY <3>1, <2>3 DEF BfsTypeOK
  <2> QED
    BY <2>1, <2>2, <2>3, <1>1 DEF Met
<1>8. LevelsExact'
  BY <1>1 DEF LevelsExact
<1> QED
  BY <1>1, <1>2, <1>3, <1>5, <1>6, <1>7, <1>8

\* When the do_all is over nothing is coming any more.
LEMMA OverIsClean ==
  ASSUME IInv, LevelOver
  PROVE  \A n \in Vertices : ~Coming(n) /\ \A t \in Thread : at[t] # n
  BY DEF IInv, LevelOver, Entries, Idle, Coming, NoVertex, BfsTypeOK, IsGraph, Vertices

\* The next worklist becomes the current one.
LEMMA NextLevelIInv ==
  ASSUME IInv, NextLevel
  PROVE  IInv'
<1> USE DEF NextLevel, IInv, graph, Vertices
<1>1. level \in Nat /\ \A n \in Vertices : ~Coming(n) /\ \A t \in Thread : at[t] # n
  BY OverIsClean DEF BfsTypeOK
<1>2. BfsTypeOK'
  BY DEF BfsTypeOK, NoEntries
<1>3. AtLevel'
  BY DEF AtLevel, ThreadAtLevel, LevelOver, Idle
<1>4. UnderWay'
  <2>1. shortest_path[source] = 0 /\ source \in Vertices
    BY <1>1 DEF UnderWay
  <2>2. \A n \in Vertices : nextSt[n] > 0 => OnLevel(n, level + 1)
    BY DEF UnderWay
  <2> QED
    BY <2>1, <2>2 DEF UnderWay, NoEntries, OnLevel, Leads
<1>5. Reached'
  BY <1>1 DEF Reached, OnLevel, Leads, BfsTypeOK
<1>6. Followed'
  <2> SUFFICES ASSUME NEW u \in Vertices, shortest_path[u] # UNVISITED,
                      NEW i \in 1 .. Len(walk[u])
               PROVE  Met(u, i)'
    BY DEF Followed
  <2> DEFINE n == walk[u][i]
  <2>1. n \in Vertices /\ Met(u, i)
    BY GraphType DEF Followed
  <2>2. /\ shortest_path[u] \in 0 .. level
        /\ shortest_path[n] # UNVISITED => shortest_path[n] \in 0 .. level
    BY <2>1 DEF Reached, BfsTypeOK, UNVISITED
  <2>3. nextSt[n] > 0 => Coming(n)'
    BY DEF Coming
  <2>4. CASE shortest_path[u] < level
    BY <2>4, <2>1, <2>2, <1>1 DEF Met
  <2>5. CASE shortest_path[u] = level
    BY <2>5, <2>1, <2>2, <2>3, <1>1 DEF Met
  <2> QED
    BY <2>2, <2>4, <2>5, <1>1
<1>7. LevelsExact'
  BY DEF LevelsExact
<1> QED
  BY <1>2, <1>3, <1>4, <1>5, <1>6, <1>7

\* With nothing to come and nothing to follow the levels are exact.
LEMMA EndSearchIInv ==
  ASSUME IInv, EndSearch
  PROVE  IInv'
<1> USE DEF EndSearch, IInv, graph, Vertices
<1>1. level \in Nat /\ \A n \in Vertices : ~Coming(n) /\ \A t \in Thread : at[t] # n
  BY OverIsClean DEF BfsTypeOK
<1>2. BfsTypeOK'
  BY DEF BfsTypeOK
<1>3. AtLevel'
  BY DEF AtLevel, ThreadAtLevel, LevelOver, Idle
<1>4. UnderWay' /\ Followed'
  BY DEF UnderWay, Followed
<1>5. Reached'
  BY DEF Reached, OnLevel, Leads
<1>6. \A v \in Vertices : shortest_path[v] # UNVISITED =>
        shortest_path[v] \in 0 .. level /\ OnLevel(v, shortest_path[v])
  BY DEF Reached, BfsTypeOK, UNVISITED
<1>7. \A v \in Vertices : shortest_path[v] = 0 <=> v = source
  BY <1>1, <1>6 DEF UnderWay, OnLevel, UNVISITED
<1>8. ASSUME NEW v \in Vertices, NEW n \in Vertices,
             shortest_path[v] # UNVISITED, Leads(v, n)
      PROVE  shortest_path[n] \in 0 .. shortest_path[v] + 1
  <2>1. PICK i \in 1 .. Len(walk[v]) : walk[v][i] = n
    BY <1>8 DEF Leads
  <2>2. Met(v, i)
    BY <1>8 DEF Followed
  <2>3. ~(nextSt[n] > 0)
    BY DEF Entries
  <2> QED
    BY <2>1, <2>2, <2>3, <1>1, <1>6, <1>8 DEF Met
<1>9. ASSUME NEW n \in Vertices, shortest_path[n] > 0
      PROVE  \E v \in Vertices : Leads(v, n) /\ shortest_path[v] = shortest_path[n] - 1
  BY <1>6, <1>9 DEF OnLevel, UNVISITED
<1>10. LevelsExact'
  BY <1>7, <1>8, <1>9 DEF LevelsExact, Leads
<1> QED
  BY <1>2, <1>3, <1>4, <1>5, <1>10

LEMMA NextIInv == IInv /\ [BfsNext]_bfsVars => IInv'
<1> SUFFICES ASSUME IInv, [BfsNext]_bfsVars PROVE IInv'
  OBVIOUS
<1>1. CASE BfsMain
  BY <1>1, StartSearchIInv, NextLevelIInv, EndSearchIInv DEF BfsMain
<1>2. CASE \E t \in Thread : BfsThread(t)
  BY <1>2, TakeEntryIInv, WriteLevelIInv, VisitNeighborIInv, LeaveIInv DEF BfsThread
<1>3. CASE UNCHANGED bfsVars
  BY <1>3 DEF bfsVars, graph, bfs, IInv, BfsTypeOK, AtLevel, ThreadAtLevel, Idle,
              UnderWay, Coming, Reached, OnLevel, Leads, Followed, Met, LevelsExact, Vertices
<1> QED
  BY <1>1, <1>2, <1>3 DEF BfsNext

LEMMA Invariant == BfsSpec => []IInv
  BY InitIInv, NextIInv, PTL DEF BfsSpec

\* Types of the search, for every graph and any number of threads.
THEOREM TypeCorrect == BfsSpec => []BfsTypeOK
<1>1. IInv => BfsTypeOK
  BY DEF IInv
<1> QED
  BY <1>1, Invariant, PTL

\* The result is the distance from the source in every graph and under every
\* schedule of the threads, although nothing of shortest_path is
\* synchronised (bfs.hpp:51).
THEOREM LevelsCorrect == BfsSpec => []LevelsExact
<1>1. IInv => LevelsExact
  BY DEF IInv
<1> QED
  BY <1>1, Invariant, PTL
-----------------------------------------------------------------------------
(* The invariant of the workload.                                          *)

\* The search in a run: what holds of it alone, and before and after a call
\* nothing is left.
SearchInv ==
  /\ AtLevel
  /\ UnderWay
  /\ Reached
  /\ Followed
  /\ LevelsExact
  /\ phase \notin {"level", "computed"} => level = 0

\* What may be where between the phases.
Phases ==
  /\ job.tool = "text" => /\ phase # "prepare"
                          /\ todo = {}
                          /\ batch_number \in Nat
  /\ job.tool = "large" => /\ phase \notin {"divide", "read", "ingest", "crashed"}
                           /\ batch_number \in -1 .. job.num_batches
                           /\ phase # "done" => batch_number # job.num_batches
                           /\ phase = "done" => batch_number = job.num_batches
                           /\ todo \subseteq 1 .. EndEdge(batch_number)
  /\ phase # "prepare" => todo = {}
  /\ phase \notin {"prepare", "read", "ingest"} => batch = NoLists
  /\ eof => line = Len(text) + 1 /\ phase \notin {"divide", "read"}
  /\ phase = "done" /\ job.tool = "text" => eof
  /\ phase \in {"divide", "crashed"} => text = <<>>

\* Batches of a text are counted when the algorithm has returned: those whose
\* end has been read are behind, but for the one under way.
Pending == IF phase \in {"divide", "read", "done", "crashed"} THEN 0 ELSE 1
Ends(k) == {i \in 1 .. k : EndsBatch(text[i])}
Counting ==
  job.tool = "text" =>
    batch_number + Pending = Cardinality(Ends(line - 1)) + (IF eof THEN 1 ELSE 0)

\* The line has an edge from v to n.
LineHas(l, v, n) == l.src = v /\ n \in ToSet(l.dsts)

\* The lines have the edges of E, each once.
Presents(lines, E) ==
  /\ lines \in Seq(Line)
  /\ \A i \in 1 .. Len(lines) :
       /\ IsInjective(lines[i].dsts)
       /\ \A v, n \in Nat : LineHas(lines[i], v, n) => <<v, n>> \in E
  /\ \A i, j \in 1 .. Len(lines) : \A v, n \in Nat :
       LineHas(lines[i], v, n) /\ LineHas(lines[j], v, n) => i = j
  /\ \A v, n \in Nat : <<v, n>> \in E => \E i \in 1 .. Len(lines) : LineHas(lines[i], v, n)
Divided ==
  job.tool = "text" /\ phase \notin {"divide", "crashed"} => Presents(text, ToSet(Edges))

\* Lists g have an edge from v to n.
Has(g, v, n) == v \in DOMAIN g /\ n \in ToSet(g[v])
NoneTwice(g) == \A v \in DOMAIN g : IsInjective(g[v])

\* What a batch is: no list in it is empty, and none has an edge twice.
IsBatch(b) ==
  /\ b = [v \in DOMAIN b |-> b[v]]
  /\ IsFiniteSet(DOMAIN b)
  /\ \A v \in DOMAIN b : v \in Nat /\ b[v] \in Seq(Nat) /\ b[v] # <<>>
  /\ NoneTwice(b)

\* m is the largest vertex of g, or 0.
IsTop(m, g) ==
  /\ m \in Nat
  /\ \A v, n \in Nat : Has(g, v, n) => v <= m /\ n <= m
  /\ m = 0 \/ \E v \in Nat : Has(g, v, m) \/ Has(g, m, v)

\* The graph is as large as its edges need.
Sized(g) == DOMAIN g = {} \/ \E m \in Nat : DOMAIN g = 0 .. m /\ IsTop(m, g)

\* Where a format keeps what it has ingested.
Lists == IF Copied THEN m_edges ELSE walk

\* The edges that are in the lists or in the batch.
Got ==
  IF job.tool = "large" THEN {Edges[i] : i \in (1 .. EndEdge(batch_number)) \ todo}
  ELSE EdgesRead

Content ==
  /\ NoneTwice(Lists) /\ NoneTwice(walk)
  /\ IsBatch(batch)
  /\ \A v, n \in Nat : ~ (Has(Lists, v, n) /\ Has(batch, v, n))
  /\ \A v, n \in Nat : Has(Lists, v, n) \/ Has(batch, v, n) <=> <<v, n>> \in Got
  /\ Sized(Lists)
  /\ DOMAIN Lists # {} => job.tool = "large" \/ \E v, n \in Nat : Has(Lists, v, n)
  /\ job.tool = "large" /\ phase # "prepare" => DOMAIN Lists # {}

\* Until m_edges has been copied the walk is that of the batch before.
CopyInv ==
  phase # "post_ingest" =>
    /\ DOMAIN walk = DOMAIN Lists
    /\ \A v, n \in Nat : Has(walk, v, n) <=> Has(Lists, v, n)

IsAscending(s) == \A k, l \in 1 .. Len(s) : k < l => s[k] < s[l]
SortInv ==
  phase = "count" /\ job.format # "csr" => \A v \in Vertices : IsAscending(walk[v])

WInv ==
  /\ TypeOK
  /\ SearchInv
  /\ Phases
  /\ Counting
  /\ Divided
  /\ Content
  /\ CopyInv
  /\ SortInv
  /\ job.format # "csr" => TrianglesExact


LEMMA WholeList ==
  ASSUME NEW S, NEW s \in Seq(S)
  PROVE  /\ SubSeq(s, 1, Len(s)) = s
         /\ SubSeq(s, 1, 0) = <<>>
         /\ SubSeq(s, Len(s) + 1, Len(s)) = <<>>
         /\ s \o <<>> = s /\ <<>> \o s = s
<1>1. Len(s) \in Int /\ Len(s) + 1 \in Int /\ Len(s) < Len(s) + 1
  OBVIOUS
<1>2. SubSeq(s, 1, 0) = <<>> /\ SubSeq(s, Len(s) + 1, Len(s)) = <<>>
  BY <1>1, SubSeqEmpty
<1>3. s \o <<>> = s /\ <<>> \o s = s
  BY ConcatEmptySeq
<1>4. SubSeq(s, 1, Len(s)) = s
  <2> DEFINE c == SubSeq(s, 1, Len(s))
  <2>1. \A i \in 1 .. Len(s) : s[i] \in S
    OBVIOUS
  <2>2. /\ c \in Seq(S)
        /\ Len(c) = IF 1 <= Len(s) THEN Len(s) - 1 + 1 ELSE 0
        /\ \A i \in 1 .. Len(s) - 1 + 1 : c[i] = s[1 + i - 1]
    BY <1>1, <2>1, SubSeqProperties
  <2> HIDE DEF c
  <2>3. Len(s) \in Nat /\ Len(s) - 1 + 1 = Len(s)
    OBVIOUS
  <2>4. Len(c) = Len(s)
    BY <2>2, <2>3
  <2>5. \A i \in 1 .. Len(c) : c[i] = s[i]
    <3>1. \A i \in 1 .. Len(s) : 1 + i - 1 = i
      OBVIOUS
    <3> QED
      BY <2>2, <2>3, <2>4, <3>1
  <2>6. c = s
    BY <2>2, <2>4, <2>5, SameList
  <2> QED
    BY <2>6 DEF c
<1> QED
  BY <1>2, <1>3, <1>4

\* sort_edges keeps the edges; but for CSR the list ascends then.
LEMMA SortedIs ==
  ASSUME NEW v, walk[v] \in Seq(Nat)
  PROVE  /\ Sorted(v) \in Seq(ToSet(walk[v]))
         /\ ToSet(Sorted(v)) = ToSet(walk[v])
         /\ IsInjective(walk[v]) =>
              /\ IsInjective(Sorted(v))
              /\ job.format # "csr" => IsAscending(Sorted(v))
<1> DEFINE w == walk[v]
<1>1. w \in Seq(Nat) /\ w \in Seq(Int) /\ w \in Seq(ToSet(w)) /\ Len(w) \in Nat
  BY ListSet
<1>2. /\ InOrder(w) \in Seq(ToSet(w)) /\ Len(InOrder(w)) = Len(w)
      /\ ToSet(InOrder(w)) = ToSet(w)
      /\ IsInjective(w) => /\ IsInjective(InOrder(w))
                           /\ \A k, l \in 1 .. Len(w) : k < l => InOrder(w)[k] < InOrder(w)[l]
  BY <1>1, InOrderIs
<1>3. CASE job.format = "csr"
  <2>1. InOrder(<<>>) = <<>>
    <3>1. <<>> \in Seq(Int) /\ Len(<<>>) = 0
      OBVIOUS
    <3>2. InOrder(<<>>) \in Seq(ToSet(<<>>)) /\ Len(InOrder(<<>>)) = 0
      BY <3>1, InOrderIs
    <3> QED
      BY <3>2
  <2>2. Sorted(v) = InOrder(SubSeq(w, 1, 0)) \o SubSeq(w, 0 + 1, Len(w))
    BY <1>3 DEF Sorted, SortedEnd
  <2>3. 0 + 1 = 1 /\ SubSeq(w, 1, 0) = <<>> /\ SubSeq(w, 1, Len(w)) = w /\ <<>> \o w = w
    BY <1>1, WholeList
  <2>4. Sorted(v) = w
    BY <2>1, <2>2, <2>3
  <2> QED
    BY <1>1, <1>3, <2>4
<1>4. CASE job.format # "csr"
  <2>1. Sorted(v) = InOrder(SubSeq(w, 1, Len(w))) \o SubSeq(w, Len(w) + 1, Len(w))
    BY <1>4 DEF Sorted, SortedEnd
  <2>2. SubSeq(w, 1, Len(w)) = w /\ SubSeq(w, Len(w) + 1, Len(w)) = <<>>
    BY <1>1, WholeList
  <2>3. InOrder(w) \o <<>> = InOrder(w)
    BY <1>2, WholeList
  <2>4. Sorted(v) = InOrder(w)
    BY <2>1, <2>2, <2>3
  <2> QED
    BY <1>2, <2>4 DEF IsAscending
<1> QED
  BY <1>3, <1>4

-----------------------------------------------------------------------------
(* What divide_into_batches writes.                                        *)

\* The sources of edges, and the destinations of a source.
LEMMA SourcesFinite ==
  ASSUME NEW E, IsFiniteSet(E), E \subseteq Nat \X Nat
  PROVE  IsFiniteSet({e[1] : e \in E}) /\ {e[1] : e \in E} \subseteq Nat
<1> DEFINE first == [e \in E |-> e[1]]
<1>1. \A e \in E : first[e] = e[1] /\ e[1] \in Nat
  OBVIOUS
<1> HIDE DEF first
<1>2. {e[1] : e \in E} = {first[e] : e \in E} /\ IsFiniteSet({first[e] : e \in E})
  BY <1>1, FiniteImage
<1> QED
  BY <1>1, <1>2

LEMMA TargetsFinite ==
  ASSUME NEW E, IsFiniteSet(E), E \subseteq Nat \X Nat, NEW v
  PROVE  /\ IsFiniteSet({e[2] : e \in {f \in E : f[1] = v}})
         /\ {e[2] : e \in {f \in E : f[1] = v}} \subseteq Nat
<1> DEFINE F == {f \in E : f[1] = v}
           second == [e \in F |-> e[2]]
<1>1. F \in SUBSET E /\ \A e \in F : e[2] \in Nat /\ second[e] = e[2]
  OBVIOUS
<1> HIDE DEF F, second
<1>2. IsFiniteSet(F)
  BY <1>1, FS_Subset
<1>3. {e[2] : e \in F} = {second[e] : e \in F} /\ IsFiniteSet({second[e] : e \in F})
  BY <1>1, <1>2, FiniteImage
<1>4. IsFiniteSet({e[2] : e \in F}) /\ {e[2] : e \in F} \subseteq Nat
  BY <1>1, <1>3
<1> QED
  BY <1>4 DEF F

\* A line for each source.
LEMMA LinesOfIs ==
  ASSUME NEW E, IsFiniteSet(E), E \subseteq Nat \X Nat
  PROVE  Presents(LinesOf(E), E)
<1> DEFINE S == {e[1] : e \in E}
           D(v) == {e[2] : e \in {f \in E : f[1] = v}}
           n == Cardinality(S)
           src == Ascending(S)
           lines == LinesOf(E)
<1>1. IsFiniteSet(S) /\ S \subseteq Nat /\ S \subseteq Int
  <2>1. IsFiniteSet(S) /\ S \subseteq Nat
    BY SourcesFinite, Zenon
  <2> HIDE DEF S
  <2> QED
    BY <2>1
<1>2. ASSUME NEW v
      PROVE  IsFiniteSet(D(v)) /\ D(v) \subseteq Nat /\ D(v) \subseteq Int
  <2>1. IsFiniteSet(D(v)) /\ D(v) \subseteq Nat
    BY TargetsFinite, Zenon
  <2> HIDE DEF D
  <2> QED
    BY <2>1
<1>3. \A v, d \in Nat : <<v, d>> \in E <=> d \in D(v)
  <2> SUFFICES ASSUME NEW v \in Nat, NEW d \in Nat PROVE <<v, d>> \in E <=> d \in D(v)
    OBVIOUS
  <2>1. ASSUME <<v, d>> \in E PROVE d \in D(v)
    <3>1. <<v, d>>[1] = v /\ <<v, d>>[2] = d
      OBVIOUS
    <3> QED
      BY <2>1, <3>1
  <2>2. ASSUME d \in D(v) PROVE <<v, d>> \in E
    <3>1. PICK e \in E : e[1] = v /\ e[2] = d
      BY <2>2
    <3>2. e = <<e[1], e[2]>>
      OBVIOUS
    <3> QED
      BY <3>1, <3>2
  <2> QED
    BY <2>1, <2>2
<1>4. \A v, d \in Nat : <<v, d>> \in E => v \in S
  <2> SUFFICES ASSUME NEW v \in Nat, NEW d \in Nat, <<v, d>> \in E PROVE v \in S
    OBVIOUS
  <2>1. <<v, d>>[1] = v
    OBVIOUS
  <2> QED
    BY <2>1
<1>5. lines = [i \in DOMAIN src |-> [src |-> src[i], dsts |-> Ascending(D(src[i]))]]
  BY DEF LinesOf
<1> HIDE DEF S, D, lines
<1>6. /\ n \in Nat /\ src \in [1 .. n -> S]
      /\ \A x \in S : \E k \in 1 .. n : src[k] = x
      /\ \A k, l \in 1 .. n : k < l => src[k] < src[l]
  BY <1>1, AscendingIs
<1> HIDE DEF src, n
<1>7. ASSUME NEW v
      PROVE  /\ Ascending(D(v)) \in Seq(Nat) /\ IsInjective(Ascending(D(v)))
             /\ ToSet(Ascending(D(v))) = D(v)
  <2>1. Ascending(D(v)) \in Seq(D(v)) /\ IsInjective(Ascending(D(v)))
        /\ ToSet(Ascending(D(v))) = D(v)
    BY <1>2, AscendingIs, AscendingSet
  <2> QED
    BY <1>2, <2>1
<1>8. /\ lines = [i \in 1 .. n |-> [src |-> src[i], dsts |-> Ascending(D(src[i]))]]
      /\ \A i \in 1 .. n : lines[i].src = src[i] /\ lines[i].dsts = Ascending(D(src[i]))
  BY <1>5, <1>6
<1>9. lines \in Seq(Line) /\ Len(lines) = n
  <2>1. \A i \in 1 .. n : [src |-> src[i], dsts |-> Ascending(D(src[i]))] \in Line
    BY <1>1, <1>6, <1>7 DEF Line
  <2>2. lines \in [1 .. n -> Line]
    BY <1>8, <2>1
  <2> QED
    BY <1>6, <2>2
<1>10. \A i \in 1 .. n : \A v, d \in Nat :
         LineHas(lines[i], v, d) <=> src[i] = v /\ <<v, d>> \in E
  BY <1>3, <1>7, <1>8 DEF LineHas
<1>11. \A i \in 1 .. n : IsInjective(lines[i].dsts)
  BY <1>7, <1>8
<1>12. \A i, j \in 1 .. n : \A v, d \in Nat :
         LineHas(lines[i], v, d) /\ LineHas(lines[j], v, d) => i = j
  <2> SUFFICES ASSUME NEW i \in 1 .. n, NEW j \in 1 .. n, NEW v \in Nat,
                      src[i] = v, src[j] = v
               PROVE  i = j
    BY <1>10
  <2>1. ~ (src[i] < src[j]) /\ ~ (src[j] < src[i])
    OBVIOUS
  <2> QED
    BY <1>6, <2>1
<1>13. \A v, d \in Nat : <<v, d>> \in E => \E i \in 1 .. n : LineHas(lines[i], v, d)
  BY <1>4, <1>6, <1>10
<1> QED
  BY <1>9, <1>10, <1>11, <1>12, <1>13 DEF Presents, lines

\* A blank line has no edges.
LEMMA BlankIs ==
  /\ Blank \in Line /\ IsInjective(Blank.dsts)
  /\ \A v, n \in Nat : ~ LineHas(Blank, v, n)
<1>1. Blank \in Line
  BY DEF Blank, Line
<1>2. Blank.dsts = <<>> /\ Blank.src = -1
  BY DEF Blank, NoVertex
<1> QED
  BY <1>1, <1>2 DEF IsInjective, LineHas

LEMMA ParagraphIs ==
  ASSUME NEW E, IsFiniteSet(E), E \subseteq Nat \X Nat
  PROVE  Presents(Paragraph(E), E)
<1>1. CASE E = {}
  <2> DEFINE p == <<Blank, Blank>>
  <2>1. p \in Seq(Line) /\ Len(p) = 2 /\ \A i \in 1 .. 2 : p[i] = Blank
    BY BlankIs
  <2>2. Paragraph(E) = p
    BY <1>1 DEF Paragraph
  <2> HIDE DEF p
  <2> QED
    BY <1>1, <2>1, <2>2, BlankIs DEF Presents
<1>2. CASE E # {}
  <2> DEFINE a == LinesOf(E)
             p == a \o <<Blank>>
  <2>1. Paragraph(E) = p
    BY <1>2 DEF Paragraph
  <2>2. Presents(a, E)
    BY LinesOfIs
  <2>3. a \in Seq(Line) /\ <<Blank>> \in Seq(Line)
    BY <2>2, BlankIs DEF Presents
  <2> HIDE DEF a
  <2>4. /\ p \in Seq(Line) /\ Len(a) \in Nat /\ Len(p) = Len(a) + 1
        /\ \A i \in 1 .. Len(a) : p[i] = a[i]
        /\ p[Len(a) + 1] = Blank
    BY <2>3
  <2> HIDE DEF p
  <2>5. \A i \in 1 .. Len(p) : i \in 1 .. Len(a) \/ p[i] = Blank
    BY <2>4
  <2>6. \A i \in 1 .. Len(a) : i \in 1 .. Len(p)
    BY <2>4
  <2> QED
    BY <2>1, <2>2, <2>4, <2>5, <2>6, BlankIs DEF Presents
<1> QED
  BY <1>1, <1>2

\* Every position has a list and a place in it.
LEMMA PositionsAre ==
  ASSUME NEW n \in Nat \ {0}, NEW S, NEW ss \in [1 .. n -> Seq(S)], NEW flat, NEW O,
         IsOffsets(O, ss, n, flat)
  PROVE  /\ \A p \in 1 .. Len(flat) : \E i \in 1 .. n : \E j \in 1 .. Len(ss[i]) :
              p = O[i - 1] + j /\ flat[p] = ss[i][j]
         /\ \A i \in 1 .. n : \A j \in 1 .. Len(ss[i]) : O[i - 1] + j \in 1 .. Len(flat)
<1>3. /\ O \in [0 .. n -> Nat] /\ O[0] = 0 /\ O[n] = Len(flat)
      /\ \A i \in 1 .. n : O[i] = O[i - 1] + Len(ss[i])
      /\ \A i \in 1 .. n : \A j \in 1 .. Len(ss[i]) : flat[O[i - 1] + j] = ss[i][j]
  BY DEF IsOffsets
<1> DEFINE L == [i \in 1 .. n |-> Len(ss[i])]
<1>4. L \in [1 .. n -> Nat] /\ \A i \in 1 .. n : L[i] = Len(ss[i])
  <2>1. \A i \in 1 .. n : ss[i] \in Seq(S)
    OBVIOUS
  <2> QED
    BY <2>1
<1> HIDE DEF L
<1>5. \A i \in 1 .. n : O[i] = O[i - 1] + L[i]
  BY <1>3, <1>4
<1>6. n \in Nat
  OBVIOUS
<1>7. /\ \A i, k \in 0 .. n : i <= k => O[i] <= O[k]
      /\ \A p \in 1 .. O[n] : \E i \in 1 .. n : \E j \in 1 .. L[i] : p = O[i - 1] + j
  <2>1. O \in [0 .. n -> Nat] /\ O[0] = 0 /\ L \in [1 .. n -> Nat]
    BY <1>3, <1>4
  <2> QED
    BY <1>5, <1>6, <2>1, OffsetsIs
<1>8. \A p \in 1 .. Len(flat) : \E i \in 1 .. n : \E j \in 1 .. Len(ss[i]) :
        p = O[i - 1] + j /\ flat[p] = ss[i][j]
  <2> SUFFICES ASSUME NEW p \in 1 .. O[n]
               PROVE  \E i \in 1 .. n : \E j \in 1 .. Len(ss[i]) :
                        p = O[i - 1] + j /\ flat[p] = ss[i][j]
    BY <1>3
  <2>1a. PICK i \in 1 .. n : \E j \in 1 .. L[i] : p = O[i - 1] + j
    BY <1>7
  <2>1. PICK j \in 1 .. L[i] : p = O[i - 1] + j
    BY <2>1a
  <2>2. j \in 1 .. Len(ss[i])
    BY <1>4
  <2>3. flat[O[i - 1] + j] = ss[i][j]
    BY <1>3, <2>2
  <2> QED
    BY <2>1, <2>2, <2>3
<1>9. \A i \in 1 .. n : \A j \in 1 .. Len(ss[i]) : O[i - 1] + j \in 1 .. Len(flat)
  <2> SUFFICES ASSUME NEW i \in 1 .. n, NEW j \in 1 .. Len(ss[i])
               PROVE  O[i - 1] + j \in 1 .. Len(flat)
    OBVIOUS
  <2>1. O[i - 1] \in Nat /\ O[i] = O[i - 1] + L[i] /\ L[i] = Len(ss[i]) /\ L[i] \in Nat
    BY <1>3, <1>4, <1>5
  <2>2. O[i] <= O[n] /\ O[n] \in Nat
    BY <1>3, <1>6, <1>7
  <2>3. j \in 1 .. L[i]
    BY <2>1
  <2> QED
    BY <1>3, <2>1, <2>2, <2>3
<1> QED
  BY <1>8, <1>9

\* Texts that follow each other, with different edges.
LEMMA FlattenPresents ==
  ASSUME NEW n \in Nat \ {0}, NEW ss \in [1 .. n -> Seq(Line)], NEW Es,
         \A k \in 1 .. n : Presents(ss[k], Es[k]),
         \A k, l \in 1 .. n : \A e : e \in Es[k] /\ e \in Es[l] => k = l,
         NEW E, \A k \in 1 .. n : Es[k] \subseteq E,
         \A e \in E : \E k \in 1 .. n : e \in Es[k]
  PROVE  Presents(FlattenSeq(ss), E)
<1> DEFINE flat == FlattenSeq(ss)
<1>1. flat \in Seq(Line)
  BY FlattenIs
<1>2. PICK O : IsOffsets(O, ss, n, flat)
  BY FlattenIs
<1> HIDE DEF flat
<1>3. /\ O \in [0 .. n -> Nat] /\ O[0] = 0 /\ O[n] = Len(flat)
      /\ \A i \in 1 .. n : O[i] = O[i - 1] + Len(ss[i])
      /\ \A i \in 1 .. n : \A j \in 1 .. Len(ss[i]) : flat[O[i - 1] + j] = ss[i][j]
  BY <1>2 DEF IsOffsets
<1>8. /\ \A p \in 1 .. Len(flat) : \E i \in 1 .. n : \E j \in 1 .. Len(ss[i]) :
             p = O[i - 1] + j /\ flat[p] = ss[i][j]
      /\ \A i \in 1 .. n : \A j \in 1 .. Len(ss[i]) : O[i - 1] + j \in 1 .. Len(flat)
  BY <1>2, PositionsAre
<1>10. \A p \in 1 .. Len(flat) :
         /\ IsInjective(flat[p].dsts)
         /\ \A v, d \in Nat : LineHas(flat[p], v, d) => <<v, d>> \in E
  <2> SUFFICES ASSUME NEW p \in 1 .. Len(flat)
               PROVE  /\ IsInjective(flat[p].dsts)
                      /\ \A v, d \in Nat : LineHas(flat[p], v, d) => <<v, d>> \in E
    OBVIOUS
  <2>1a. PICK i \in 1 .. n : \E j \in 1 .. Len(ss[i]) : flat[p] = ss[i][j]
    BY <1>8
  <2>1. PICK j \in 1 .. Len(ss[i]) : flat[p] = ss[i][j]
    BY <2>1a
  <2>2. Presents(ss[i], Es[i]) /\ Es[i] \subseteq E
    OBVIOUS
  <2> QED
    BY <2>1, <2>2 DEF Presents
<1>11. ASSUME NEW p \in 1 .. Len(flat), NEW q \in 1 .. Len(flat), NEW v \in Nat, NEW d \in Nat,
              LineHas(flat[p], v, d), LineHas(flat[q], v, d)
       PROVE  p = q
  <2>1a. PICK i \in 1 .. n : \E j \in 1 .. Len(ss[i]) : p = O[i - 1] + j /\ flat[p] = ss[i][j]
    BY <1>8
  <2>1. PICK j \in 1 .. Len(ss[i]) : p = O[i - 1] + j /\ flat[p] = ss[i][j]
    BY <2>1a
  <2>2a. PICK k \in 1 .. n : \E l \in 1 .. Len(ss[k]) : q = O[k - 1] + l /\ flat[q] = ss[k][l]
    BY <1>8
  <2>2. PICK l \in 1 .. Len(ss[k]) : q = O[k - 1] + l /\ flat[q] = ss[k][l]
    BY <2>2a
  <2>3. <<v, d>> \in Es[i] /\ <<v, d>> \in Es[k]
    <3>1. Presents(ss[i], Es[i]) /\ Presents(ss[k], Es[k])
      OBVIOUS
    <3> QED
      BY <1>11, <2>1, <2>2, <3>1 DEF Presents
  <2>4. i = k
    BY <2>3
  <2>5. j = l
    <3>1. Presents(ss[i], Es[i])
      OBVIOUS
    <3>2. LineHas(ss[i][j], v, d) /\ LineHas(ss[i][l], v, d) /\ l \in 1 .. Len(ss[i])
      BY <1>11, <2>1, <2>2, <2>4
    <3> QED
      BY <3>1, <3>2 DEF Presents
  <2> QED
    BY <2>1, <2>2, <2>4, <2>5
<1>12. ASSUME NEW v \in Nat, NEW d \in Nat, <<v, d>> \in E
       PROVE  \E p \in 1 .. Len(flat) : LineHas(flat[p], v, d)
  <2>1. PICK i \in 1 .. n : <<v, d>> \in Es[i]
    BY <1>12
  <2>2. Presents(ss[i], Es[i])
    OBVIOUS
  <2>3. PICK j \in 1 .. Len(ss[i]) : LineHas(ss[i][j], v, d)
    BY <2>1, <2>2 DEF Presents
  <2>4. flat[O[i - 1] + j] = ss[i][j] /\ O[i - 1] + j \in 1 .. Len(flat)
    BY <1>3, <1>8
  <2> QED
    BY <2>3, <2>4
<1> QED
  BY <1>1, <1>10, <1>11, <1>12 DEF Presents, flat

-----------------------------------------------------------------------------
(* Bounds of batches.                                                      *)

LEMMA JobIs ==
  ASSUME job \in Jobs
  PROVE  /\ job \in Job
         /\ job.tool \in {"large", "text"} /\ job.num_batches \in Nat \ {0}
         /\ NumEdges \in Nat /\ job.pre \in 0 .. NumEdges
         /\ job.num_vertices \in Nat /\ job.bfs_src \in Nat
         /\ job.format \in {"adj", "csr", "lccsr", "lscsr", "morph"}
         /\ job.algo \in {"nop", "bfs", "tc"}
<1>1. job \in Job
  BY JobsAssumption
<1>2. NumEdges \in Nat
  BY EdgesAssumption DEF NumEdges
<1> QED
  BY <1>1, <1>2 DEF Job, NumEdges

LEMMA EdgesAre ==
  /\ NumEdges \in Nat /\ DOMAIN Edges = 1 .. NumEdges
  /\ \A i \in 1 .. NumEdges : /\ Edges[i] \in Nat \X Nat
                              /\ Edges[i] = <<Edges[i][1], Edges[i][2]>>
                              /\ Edges[i][1] \in Nat /\ Edges[i][2] \in Nat
  /\ \A i, j \in 1 .. NumEdges : Edges[i] = Edges[j] => i = j
  /\ ToSet(Edges) = {Edges[i] : i \in 1 .. NumEdges}
  /\ IsFiniteSet(ToSet(Edges)) /\ ToSet(Edges) \subseteq Nat \X Nat
<1>1. Edges \in Seq(Nat \X Nat) /\ IsInjective(Edges)
  BY EdgesAssumption
<1>2. NumEdges \in Nat /\ DOMAIN Edges = 1 .. NumEdges /\ \A i \in 1 .. NumEdges : Edges[i] \in Nat \X Nat
  BY <1>1 DEF NumEdges
<1>3. \A e \in Nat \X Nat : e = <<e[1], e[2]>> /\ e[1] \in Nat /\ e[2] \in Nat
  OBVIOUS
<1>4. ToSet(Edges) = {Edges[i] : i \in 1 .. NumEdges}
  BY <1>2 DEF ToSet
<1>5. IsFiniteSet(ToSet(Edges)) /\ ToSet(Edges) \subseteq Nat \X Nat
  BY <1>1, ListSet
<1> QED
  BY <1>1, <1>2, <1>3, <1>4, <1>5 DEF IsInjective

\* Rounded up, batches hold all edges.
LEMMA PerBatchIs ==
  ASSUME NEW n \in Nat, NEW m \in Nat \ {0}
  PROVE  PerBatch(n, m) \in Nat /\ n <= m * PerBatch(n, m)
<1> DEFINE q == (n + m - 1) \div m
<1>1. q \in Nat /\ n + m - 1 < m * q + m
  OBVIOUS
<1> HIDE DEF q
<1>2. m * q \in Nat
  BY <1>1
<1>3. n <= m * q
  BY <1>1, <1>2
<1> QED
  BY <1>1, <1>3 DEF PerBatch, q

LEMMA Products ==
  ASSUME NEW a \in Nat, NEW b \in Nat, NEW c \in Nat, a <= b
  PROVE  a * c <= b * c /\ a * c \in Nat /\ b * c \in Nat
<1>1. a * c \in Nat /\ b * c \in Nat /\ (b - a) * c \in Nat
  OBVIOUS
<1>2. b * c = a * c + (b - a) * c
  OBVIOUS
<1> QED
  BY <1>1, <1>2

\* The batches of the large benchmark follow each other up to the last edge.
LEMMA EndEdgeIs ==
  ASSUME job \in Jobs
  PROVE  /\ EndEdge(-1) = job.pre
         /\ \A b \in Nat \cup {-1} : EndEdge(b) \in 0 .. NumEdges /\ EndEdge(b) <= EndEdge(b + 1)
         /\ EndEdge(job.num_batches - 1) = NumEdges
         /\ EndEdge(job.num_batches) = NumEdges
<1> DEFINE p == PerBatch(NumEdges - job.pre, job.num_batches)
<1>1. job.num_batches \in Nat \ {0} /\ NumEdges \in Nat /\ job.pre \in 0 .. NumEdges
  BY JobIs
<1>2. p \in Nat /\ NumEdges - job.pre <= job.num_batches * p
  <2>1. NumEdges - job.pre \in Nat
    BY <1>1
  <2> QED
    BY <1>1, <2>1, PerBatchIs
<1> HIDE DEF p
<1>3. ASSUME NEW b \in Nat \cup {-1}
      PROVE  EndEdge(b) = IF NumEdges <= job.pre + (b + 1) * p THEN NumEdges
                                                               ELSE job.pre + (b + 1) * p
  <2>1. (b + 1) * p \in Nat
    BY <1>2
  <2> DEFINE e == job.pre + (b + 1) * p
  <2>2. e \in Int /\ NumEdges \in Int
    BY <1>1, <2>1
  <2>3. EndEdge(b) = Min({NumEdges, e})
    BY DEF EndEdge, p
  <2> HIDE DEF e
  <2>4. EndEdge(b) = IF NumEdges <= e THEN NumEdges ELSE e
    BY <2>2, <2>3, MinOfTwo
  <2> QED
    BY <2>4 DEF e
<1>4. EndEdge(-1) = job.pre
  <2>1. (-1 + 1) * p = 0
    BY <1>2
  <2>2. -1 \in Nat \cup {-1}
    OBVIOUS
  <2>3. EndEdge(-1) = IF NumEdges <= job.pre + (-1 + 1) * p THEN NumEdges
                                                          ELSE job.pre + (-1 + 1) * p
    BY <1>3, <2>2
  <2> QED
    BY <1>1, <2>1, <2>3
<1>5. ASSUME NEW b \in Nat \cup {-1}
      PROVE  EndEdge(b) \in 0 .. NumEdges /\ EndEdge(b) <= EndEdge(b + 1)
  <2> DEFINE x == (b + 1) * p
             y == ((b + 1) + 1) * p
  <2>1. x \in Nat /\ y \in Nat /\ x <= y
    <3>1. b + 1 \in Nat /\ (b + 1) + 1 \in Nat /\ b + 1 <= (b + 1) + 1
      OBVIOUS
    <3> QED
      BY <1>2, <3>1, Products
  <2>2. b + 1 \in Nat \cup {-1}
    OBVIOUS
  <2>3. EndEdge(b) = IF NumEdges <= job.pre + x THEN NumEdges ELSE job.pre + x
    BY <1>3
  <2>4. EndEdge(b + 1) = IF NumEdges <= job.pre + y THEN NumEdges ELSE job.pre + y
    BY <1>3, <2>2
  <2> HIDE DEF x, y
  <2> QED
    BY <1>1, <2>1, <2>3, <2>4
<1>6. EndEdge(job.num_batches - 1) = NumEdges
  <2>1. job.num_batches - 1 \in Nat \cup {-1} /\ (job.num_batches - 1) + 1 = job.num_batches
    BY <1>1
  <2>2. job.num_batches * p \in Nat
    BY <1>1, <1>2
  <2> QED
    BY <1>1, <1>2, <1>3, <2>1, <2>2
<1>7. EndEdge(job.num_batches) = NumEdges
  <2>1. job.num_batches - 1 \in Nat \cup {-1} /\ (job.num_batches - 1) + 1 = job.num_batches
        /\ job.num_batches \in Nat \cup {-1}
    BY <1>1
  <2>2. EndEdge(job.num_batches - 1) <= EndEdge(job.num_batches)
    BY <1>5, <2>1
  <2>3. EndEdge(job.num_batches) \in 0 .. NumEdges
    BY <1>5, <2>1
  <2> QED
    BY <1>1, <1>6, <2>2, <2>3
<1> QED
  BY <1>4, <1>5, <1>6, <1>7

\* The divided file has each edge of the input on one line.
LEMMA DividedTextIs ==
  ASSUME job \in Jobs
  PROVE  Presents(DividedText, ToSet(Edges))
<1> DEFINE n == job.num_batches
           p == PerBatch(NumEdges, n)
           R(k) == DivideBegin(k - 1) + 1 .. DivideEnd(k - 1)
           E(k) == {Edges[i] : i \in R(k)}
           Es == [k \in 1 .. n |-> E(k)]
           ss == [k \in 1 .. n |-> Paragraph(E(k))]
<1>1. n \in Nat \ {0} /\ NumEdges \in Nat
  BY JobIs
<1>2. p \in Nat /\ NumEdges <= n * p
  BY <1>1, PerBatchIs
<1> HIDE DEF p
<1>3. ASSUME NEW k \in 1 .. n
      PROVE  /\ (k - 1) * p \in Nat /\ k * p \in Nat
             /\ \A i \in Int : i \in R(k) <=> (k - 1) * p < i /\ i <= k * p /\ i <= NumEdges
             /\ R(k) \subseteq Int
  <2>1. (k - 1) + 1 = k /\ k \in Nat /\ k - 1 \in Nat
    BY <1>1
  <2>2. (k - 1) * p \in Nat /\ k * p \in Nat
    BY <1>2, <2>1
  <2>3. DivideBegin(k - 1) = (k - 1) * p
    BY DEF DivideBegin, p
  <2>4. DivideEnd(k - 1) = Min({NumEdges, ((k - 1) + 1) * p})
    BY DEF DivideEnd, p
  <2>5. DivideEnd(k - 1) = IF NumEdges <= k * p THEN NumEdges ELSE k * p
    <3> DEFINE z == k * p
    <3>1. z \in Int /\ NumEdges \in Int
      BY <1>1, <2>2
    <3>2. DivideEnd(k - 1) = Min({NumEdges, z})
      BY <2>1, <2>4
    <3> HIDE DEF z
    <3>3. DivideEnd(k - 1) = IF NumEdges <= z THEN NumEdges ELSE z
      BY <3>1, <3>2, MinOfTwo
    <3> QED
      BY <3>3 DEF z
  <2> DEFINE x == (k - 1) * p
             y == k * p
  <2>6. R(k) = x + 1 .. IF NumEdges <= y THEN NumEdges ELSE y
    BY <2>3, <2>5
  <2>7. x \in Nat /\ y \in Nat
    BY <2>2
  <2> HIDE DEF x, y, R
  <2>8. /\ \A i \in Int : i \in R(k) <=> x < i /\ i <= y /\ i <= NumEdges
        /\ R(k) \subseteq Int
    BY <1>1, <2>6, <2>7
  <2> QED
    BY <2>2, <2>8 DEF x, y
<1> HIDE DEF R
<1>4. ASSUME NEW k \in 1 .. n
      PROVE  R(k) \in SUBSET (1 .. NumEdges)
  <2>1. ASSUME NEW i \in R(k) PROVE i \in 1 .. NumEdges
    <3> DEFINE x == (k - 1) * p
    <3>1. i \in Int /\ x \in Nat /\ x < i /\ i <= NumEdges
      BY <1>3
    <3> HIDE DEF x
    <3> QED
      BY <1>1, <3>1
  <2> QED
    BY <2>1
<1>5. ASSUME NEW k \in 1 .. n, NEW l \in 1 .. n, NEW i \in Int, i \in R(k), i \in R(l), k < l
      PROVE  FALSE
  <2> DEFINE x == k * p
             y == (l - 1) * p
  <2>1. k \in Nat /\ l - 1 \in Nat /\ k <= l - 1
    BY <1>1, <1>5
  <2>2. x <= y /\ x \in Nat /\ y \in Nat
    BY <1>2, <2>1, Products
  <2>3. i <= x /\ y < i
    BY <1>3, <1>5
  <2> HIDE DEF x, y
  <2> QED
    BY <2>2, <2>3
<1>6. ASSUME NEW i \in 1 .. NumEdges
      PROVE  \E k \in 1 .. n : i \in R(k)
  <2> DEFINE T == {k \in 0 .. n : i <= k * p}
  <2>1. T \subseteq 0 .. n /\ n \in T
    <3>1. i <= n * p
      <4> DEFINE z == n * p
      <4>1. NumEdges <= z /\ z \in Int
        BY <1>1, <1>2
      <4> HIDE DEF z
      <4>2. i <= z
        BY <1>1, <4>1
      <4> QED
        BY <4>2 DEF z
    <3> QED
      BY <1>1, <3>1
  <2>2. PICK k \in T : \A l \in T : k <= l
    <3> HIDE DEF T
    <3> QED
      BY <1>1, <2>1, LeastIndex
  <2>3. k \in 0 .. n /\ i <= k * p
    BY <2>2
  <2>4. k # 0
    BY <1>2, <2>3
  <2>5. k \in 1 .. n /\ k - 1 \in 0 .. n
    BY <1>1, <2>3, <2>4
  <2>6. k - 1 \notin T
    <3> HIDE DEF T
    <3> QED
      BY <2>2, <2>5
  <2>7. ~ (i <= (k - 1) * p)
    BY <2>5, <2>6
  <2>8. (k - 1) * p < i
    <3> DEFINE x == (k - 1) * p
    <3>1. x \in Nat /\ ~ (i <= x)
      BY <1>3, <2>5, <2>7
    <3> HIDE DEF x
    <3>2. x < i
      BY <1>1, <3>1
    <3> QED
      BY <3>2 DEF x
  <2>9. i \in R(k)
    BY <1>1, <1>3, <2>3, <2>5, <2>8
  <2> QED
    BY <2>5, <2>9
<1>7. ASSUME NEW k \in 1 .. n
      PROVE  IsFiniteSet(E(k)) /\ E(k) \subseteq Nat \X Nat /\ E(k) \subseteq ToSet(Edges)
  <2>1. \A i \in R(k) : i \in 1 .. NumEdges
    BY <1>4
  <2>2. E(k) \in SUBSET ToSet(Edges)
    BY <2>1, EdgesAre
  <2> HIDE DEF E
  <2> QED
    BY <2>2, EdgesAre, FS_Subset
<1>8. \A k \in 1 .. n : Presents(Paragraph(E(k)), E(k))
  <2> HIDE DEF E
  <2> QED
    BY <1>7, ParagraphIs
<1>9. \A k, l \in 1 .. n : \A e : e \in E(k) /\ e \in E(l) => k = l
  <2> SUFFICES ASSUME NEW k \in 1 .. n, NEW l \in 1 .. n, NEW e, e \in E(k), e \in E(l)
               PROVE  k = l
    OBVIOUS
  <2>1. PICK i \in R(k) : e = Edges[i]
    OBVIOUS
  <2>2. PICK j \in R(l) : e = Edges[j]
    OBVIOUS
  <2>3. i \in 1 .. NumEdges /\ j \in 1 .. NumEdges
    BY <1>4
  <2>4. i = j
    BY <2>1, <2>2, <2>3, EdgesAre
  <2>5. i \in Int /\ i \in R(k) /\ i \in R(l)
    BY <2>3, <2>4
  <2>6. ~ (k < l) /\ ~ (l < k)
    BY <1>5, <2>5
  <2> QED
    BY <2>6
<1>10. \A e \in ToSet(Edges) : \E k \in 1 .. n : e \in E(k)
  <2> SUFFICES ASSUME NEW e \in ToSet(Edges) PROVE \E k \in 1 .. n : e \in E(k)
    OBVIOUS
  <2>1. PICK i \in 1 .. NumEdges : e = Edges[i]
    BY EdgesAre
  <2> QED
    BY <1>6, <2>1
<1>11. DividedText = FlattenSeq(ss)
  BY DEF DividedText, R
<1>12. /\ \A k \in 1 .. n : Es[k] = E(k) /\ ss[k] = Paragraph(E(k))
       /\ ss = [k \in 1 .. n |-> Paragraph(E(k))]
  OBVIOUS
<1> HIDE DEF E, Es, ss, n
<1>13. ss \in [1 .. n -> Seq(Line)]
  <2>1. \A k \in 1 .. n : Paragraph(E(k)) \in Seq(Line)
    BY <1>8 DEF Presents
  <2> QED
    BY <1>12, <2>1
<1>14. /\ \A k \in 1 .. n : Presents(ss[k], Es[k])
       /\ \A k, l \in 1 .. n : \A e : e \in Es[k] /\ e \in Es[l] => k = l
       /\ \A k \in 1 .. n : Es[k] \subseteq ToSet(Edges)
       /\ \A e \in ToSet(Edges) : \E k \in 1 .. n : e \in Es[k]
  BY <1>7, <1>8, <1>9, <1>10, <1>12
<1>15. Presents(FlattenSeq(ss), ToSet(Edges))
  BY <1>1, <1>13, <1>14, FlattenPresents
<1> QED
  BY <1>11, <1>15

-----------------------------------------------------------------------------
(* Batches and graphs.                                                     *)

LEMMA MaxEquals ==
  ASSUME NEW S, S \subseteq Int, NEW m \in S, \A x \in S : x <= m
  PROVE  Max(S) = m
<1>1. m \in Int
  OBVIOUS
<1>2. \A y \in S : y \in Int
  OBVIOUS
<1>3. m \in S /\ \A y \in S : m >= y
  BY <1>1, <1>2
<1> DEFINE k == Max(S)
<1>4. k = CHOOSE x \in S : \A y \in S : x >= y
  BY DEF Max
<1> HIDE DEF k
<1>5. k \in S /\ \A y \in S : k >= y
  BY <1>3, <1>4
<1>6. k \in Int /\ k >= m /\ k <= m
  BY <1>2, <1>5
<1> QED
  BY <1>1, <1>6 DEF k

\* Edges are appended, whether the batch has the source or not.
LEMMA ExtendedIs ==
  ASSUME NEW b, IsBatch(b), NEW v \in Nat, NEW dsts \in Seq(Nat), IsInjective(dsts),
         \A n \in ToSet(dsts) : ~ Has(b, v, n)
  PROVE  /\ IsBatch(Extended(b, v, dsts))
         /\ \A u, n : Has(Extended(b, v, dsts), u, n)
                        <=> Has(b, u, n) \/ (u = v /\ n \in ToSet(dsts))
<1> DEFINE e == Extended(b, v, dsts)
           l == Listed(b, v) \o dsts
<1>1. CASE dsts = <<>>
  <2>1. e = b /\ ToSet(dsts) = {}
    BY <1>1 DEF Extended, ToSet
  <2> QED
    BY <2>1
<1>2. CASE dsts # <<>>
  <2>1. e = [u \in DOMAIN b \cup {v} |-> IF u = v THEN l ELSE b[u]]
    BY <1>2 DEF Extended
  <2>2. /\ Listed(b, v) \in Seq(Nat) /\ IsInjective(Listed(b, v))
        /\ \A n : n \in ToSet(Listed(b, v)) <=> Has(b, v, n)
    <3>1. CASE v \in DOMAIN b
      BY <3>1 DEF Listed, Has, IsBatch, NoneTwice
    <3>2. CASE v \notin DOMAIN b
      BY <3>2 DEF Listed, Has, ToSet, IsInjective
    <3> QED
      BY <3>1, <3>2
  <2> DEFINE o == Listed(b, v)
  <2>3. ToSet(o) \cap ToSet(dsts) = {}
    BY <2>2
  <2> HIDE DEF o
  <2>4. o \in Seq(Nat) /\ IsInjective(o)
    BY <2>2 DEF o
  <2>5. /\ o \o dsts \in Seq(Nat) /\ ToSet(o \o dsts) = ToSet(o) \cup ToSet(dsts)
        /\ IsInjective(o \o dsts)
    BY <2>3, <2>4, AppendIs
  <2>6. o \o dsts # <<>>
    BY <1>2, <2>4, ConcatEqualIffEmpty
  <2>7. /\ l \in Seq(Nat) /\ IsInjective(l) /\ l # <<>>
        /\ \A n : n \in ToSet(l) <=> Has(b, v, n) \/ n \in ToSet(dsts)
    BY <2>2, <2>5, <2>6 DEF o
  <2> HIDE DEF l, e
  <2>8. /\ DOMAIN e = DOMAIN b \cup {v} /\ e[v] = l
        /\ \A u \in DOMAIN b : u # v => e[u] = b[u]
    BY <2>1
  <2>9. IsFiniteSet(DOMAIN e)
    <3>1. IsFiniteSet(DOMAIN b)
      BY DEF IsBatch
    <3> QED
      BY <2>8, <3>1, FS_AddElement
  <2>10. IsBatch(e)
    <3>1. e = [u \in DOMAIN e |-> e[u]]
      BY <2>1
    <3>2. ASSUME NEW u \in DOMAIN e
          PROVE  u \in Nat /\ e[u] \in Seq(Nat) /\ e[u] # <<>> /\ IsInjective(e[u])
      <4>1. CASE u = v
        BY <2>7, <2>8, <4>1
      <4>2. CASE u # v
        BY <2>8, <4>2 DEF IsBatch, NoneTwice
      <4> QED
        BY <4>1, <4>2
    <3> QED
      BY <2>9, <3>1, <3>2 DEF IsBatch, NoneTwice
  <2>11. \A u, n : Has(e, u, n) <=> Has(b, u, n) \/ (u = v /\ n \in ToSet(dsts))
    <3> SUFFICES ASSUME NEW u, NEW n
                 PROVE  Has(e, u, n) <=> Has(b, u, n) \/ (u = v /\ n \in ToSet(dsts))
      OBVIOUS
    <3>1. CASE u = v
      BY <2>7, <2>8, <3>1 DEF Has
    <3>2. CASE u # v
      BY <2>8, <3>2 DEF Has
    <3> QED
      BY <3>1, <3>2
  <2> QED
    BY <2>10, <2>11 DEF e
<1> QED
  BY <1>1, <1>2

\* The reduction finds the largest vertex of the batch.
LEMMA MaxVertexIs ==
  ASSUME NEW b, IsBatch(b)
  PROVE  IsTop(MaxVertex(b), b)
<1> DEFINE D == DOMAIN b
           f == [v \in D |-> ToSet(b[v])]
           U == UNION {ToSet(b[v]) : v \in D}
           S == {0} \cup D \cup U
<1>1. IsFiniteSet(D) /\ \A v \in D : v \in Nat /\ b[v] \in Seq(Nat) /\ b[v] # <<>>
  BY DEF IsBatch
<1>2. \A v \in D : IsFiniteSet(ToSet(b[v])) /\ ToSet(b[v]) \subseteq Nat
  BY <1>1, ListSet
<1>3. IsFiniteSet(U)
  <2>1. {ToSet(b[v]) : v \in D} = {f[v] : v \in D} /\ \A v \in D : f[v] = ToSet(b[v])
    OBVIOUS
  <2>2. IsFiniteSet({f[v] : v \in D})
    <3> HIDE DEF f, D
    <3> QED
      BY <1>1, FiniteImage
  <2>3. \A T \in {ToSet(b[v]) : v \in D} : IsFiniteSet(T)
    BY <1>2
  <2> QED
    BY <2>1, <2>2, <2>3, FS_UNION
<1>4. U \subseteq Nat /\ D \subseteq Nat
  BY <1>1, <1>2
<1>5. \A v, n : Has(b, v, n) => v \in D /\ n \in U
  BY DEF Has
<1>6. \A n \in U : \E v \in Nat : Has(b, v, n)
  BY <1>1 DEF Has
<1>7. \A v \in D : \E n \in Nat : Has(b, v, n)
  <2> SUFFICES ASSUME NEW v \in D PROVE \E n \in Nat : Has(b, v, n)
    OBVIOUS
  <2>1. b[v] \in Seq(Nat) /\ b[v] # <<>>
    BY <1>1
  <2>2. 1 \in 1 .. Len(b[v])
    BY <2>1
  <2>3. b[v][1] \in ToSet(b[v]) /\ b[v][1] \in Nat
    BY <2>1, <2>2, ListSet
  <2> QED
    BY <2>3 DEF Has
<1>8. MaxVertex(b) = Max(S)
  BY DEF MaxVertex
<1> HIDE DEF U, D
<1>9. IsFiniteSet(S) /\ S # {} /\ S \subseteq Int
  <2>1. IsFiniteSet({0} \cup D)
    BY <1>1, FS_Singleton, FS_Union
  <2>2. IsFiniteSet(({0} \cup D) \cup U)
    BY <1>3, <2>1, FS_Union
  <2> QED
    BY <1>4, <2>2
<1> DEFINE m == Max(S)
<1>10. m \in S /\ \A x \in S : x <= m
  <2> HIDE DEF S
  <2> QED
    BY <1>9, MaxIs
<1>11. \A x : x \in S <=> x = 0 \/ x \in D \/ x \in U
  OBVIOUS
<1> HIDE DEF m, S
<1>12. m \in Nat /\ (m = 0 \/ m \in D \/ m \in U) /\ \A x : x \in D \/ x \in U => x <= m
  <2>1. m = 0 \/ m \in D \/ m \in U
    BY <1>10, <1>11
  <2>2. m \in Nat
    <3>1. \A x : x \in D => x \in Nat
      BY <1>4
    <3>2. \A x : x \in U => x \in Nat
      BY <1>4
    <3>3. 0 \in Nat
      OBVIOUS
    <3> QED
      BY <2>1, <3>1, <3>2, <3>3
  <2>3. \A x : x \in D \/ x \in U => x \in S
    BY <1>11
  <2>4. \A x : x \in D \/ x \in U => x <= m
    BY <1>10, <2>3
  <2> QED
    BY <2>1, <2>2, <2>4
<1>13. IsTop(m, b)
  BY <1>5, <1>6, <1>7, <1>12 DEF IsTop
<1> QED
  BY <1>8, <1>13 DEF m, S

LEMMA SizeIs ==
  ASSUME NEW m \in Nat
  PROVE  Cardinality(0 .. m) - 1 = m
<1>1. 0 \in Int /\ m \in Int
  OBVIOUS
<1>2. Cardinality(0 .. m) = IF 0 > m THEN 0 ELSE m - 0 + 1
  BY <1>1, FS_Interval
<1> QED
  BY <1>2

LEMMA WiderSeq ==
  ASSUME NEW S, NEW T, S \subseteq T, NEW s \in Seq(S)
  PROVE  s \in Seq(T)
OBVIOUS

\* A batch that has other edges than the graph is ingested.
LEMMA IngestedIs ==
  ASSUME NEW g, IsGraph(g), Sized(g), NoneTwice(g), NEW b, IsBatch(b),
         \A v, n \in Nat : ~ (Has(g, v, n) /\ Has(b, v, n))
  PROVE  /\ IsGraph(Ingested(g, b)) /\ Sized(Ingested(g, b)) /\ NoneTwice(Ingested(g, b))
         /\ DOMAIN Ingested(g, b) # {}
         /\ \A v, n \in Nat : Has(Ingested(g, b), v, n) <=> Has(g, v, n) \/ Has(b, v, n)
<1> DEFINE h == Ingested(g, b)
           c == Cardinality(DOMAIN g) - 1
           mb == MaxVertex(b)
           top == Max({c, mb})
           l(v) == Listed(g, v) \o Listed(b, v)
<1>1. IsTop(mb, b)
  BY MaxVertexIs
<1>2. c \in Int /\ (c = -1 => DOMAIN g = {}) /\ (c # -1 => DOMAIN g = 0 .. c /\ IsTop(c, g))
  <2>1. CASE DOMAIN g = {}
    BY <2>1, FS_EmptySet
  <2>2. CASE DOMAIN g # {}
    <3>1. PICK m \in Nat : DOMAIN g = 0 .. m /\ IsTop(m, g)
      BY <2>2 DEF Sized
    <3>2. c = m
      BY <3>1, SizeIs
    <3> QED
      BY <3>1, <3>2
  <2> QED
    BY <2>1, <2>2
<1>3. h = [v \in 0 .. top |-> l(v)]
  BY DEF Ingested
<1> HIDE DEF c, mb, h, l
<1>4. mb \in Nat
  BY <1>1 DEF IsTop
<1>5. top \in {c, mb} /\ c <= top /\ mb <= top
  <2>1. IsFiniteSet({c, mb})
    <3>1. IsFiniteSet({c}) /\ IsFiniteSet({mb}) /\ {c, mb} = {c} \cup {mb}
      BY FS_Singleton
    <3> QED
      BY <3>1, FS_Union
  <2>2. {c, mb} # {} /\ {c, mb} \subseteq Int
    BY <1>2, <1>4
  <2> QED
    BY <2>1, <2>2, MaxIs
<1> HIDE DEF top
<1>6. top \in Nat
  BY <1>2, <1>4, <1>5
<1>7. ASSUME NEW v \in Nat
      PROVE  /\ l(v) \in Seq(Nat) /\ IsInjective(l(v))
             /\ \A n : n \in ToSet(l(v)) <=> Has(g, v, n) \/ Has(b, v, n)
  <2>1. /\ Listed(g, v) \in Seq(Nat) /\ IsInjective(Listed(g, v))
        /\ \A n : n \in ToSet(Listed(g, v)) <=> Has(g, v, n)
    <3>1. CASE v \in DOMAIN g
      BY <3>1 DEF Listed, Has, IsGraph, NoneTwice
    <3>2. CASE v \notin DOMAIN g
      BY <3>2 DEF Listed, Has, ToSet, IsInjective
    <3> QED
      BY <3>1, <3>2
  <2>2. /\ Listed(b, v) \in Seq(Nat) /\ IsInjective(Listed(b, v))
        /\ \A n : n \in ToSet(Listed(b, v)) <=> Has(b, v, n)
    <3>1. CASE v \in DOMAIN b
      BY <3>1 DEF Listed, Has, IsBatch, NoneTwice
    <3>2. CASE v \notin DOMAIN b
      BY <3>2 DEF Listed, Has, ToSet, IsInjective
    <3> QED
      BY <3>1, <3>2
  <2>3. ToSet(Listed(g, v)) \cap ToSet(Listed(b, v)) = {}
    <3>1. ToSet(Listed(g, v)) \subseteq Nat
      BY <2>1, ListSet
    <3> QED
      BY <2>1, <2>2, <3>1
  <2>4. /\ l(v) \in Seq(Nat) /\ ToSet(l(v)) = ToSet(Listed(g, v)) \cup ToSet(Listed(b, v))
        /\ IsInjective(l(v))
    BY <2>1, <2>2, <2>3, AppendIs DEF l
  <2> QED
    BY <2>1, <2>2, <2>4
<1>8. DOMAIN h = 0 .. top /\ \A v \in 0 .. top : v \in Nat /\ h[v] = l(v)
  BY <1>3
<1>9. \A v, n \in Nat : Has(g, v, n) \/ Has(b, v, n) => v <= top /\ n <= top
  <2> SUFFICES ASSUME NEW v \in Nat, NEW n \in Nat, Has(g, v, n) \/ Has(b, v, n)
               PROVE  v <= top /\ n <= top
    OBVIOUS
  <2>1. CASE Has(g, v, n)
    <3>1. c # -1
      BY <1>2, <2>1 DEF Has
    <3>2. v <= c /\ n <= c
      BY <1>2, <2>1, <3>1 DEF IsTop
    <3> QED
      BY <1>2, <1>5, <1>6, <3>2
  <2>2. CASE Has(b, v, n)
    <3>1. v <= mb /\ n <= mb
      BY <1>1, <2>2 DEF IsTop
    <3> QED
      BY <1>4, <1>5, <1>6, <3>1
  <2> QED
    BY <2>1, <2>2
<1>10. \A v, n \in Nat : Has(h, v, n) <=> Has(g, v, n) \/ Has(b, v, n)
  <2> SUFFICES ASSUME NEW v \in Nat, NEW n \in Nat
               PROVE  Has(h, v, n) <=> Has(g, v, n) \/ Has(b, v, n)
    OBVIOUS
  <2>1. Has(h, v, n) <=> v \in 0 .. top /\ n \in ToSet(l(v))
    BY <1>8 DEF Has
  <2>2. Has(g, v, n) \/ Has(b, v, n) => v \in 0 .. top
    BY <1>6, <1>9
  <2> QED
    BY <1>7, <2>1, <2>2
<1>11. IsGraph(h)
  <2>1. ASSUME NEW v \in 0 .. top PROVE l(v) \in Seq(0 .. top)
    <3>1. l(v) \in Seq(Nat) /\ l(v) \in Seq(ToSet(l(v))) /\ ToSet(l(v)) \subseteq Nat
      BY <1>7, <1>8, ListSet
    <3>2. \A n \in ToSet(l(v)) : n <= top
      BY <1>7, <1>8, <1>9, <3>1
    <3>3. ToSet(l(v)) \subseteq 0 .. top
      BY <1>6, <3>1, <3>2
    <3> HIDE DEF l
    <3> QED
      BY <3>1, <3>3, WiderSeq
  <2>2. h \in [0 .. top -> Seq(0 .. top)]
    BY <1>3, <2>1
  <2> QED
    BY <1>8, <2>2 DEF IsGraph
<1>12. NoneTwice(h)
  BY <1>7, <1>8 DEF NoneTwice
<1>13. IsTop(top, h)
  <2>1. \A v, n \in Nat : Has(h, v, n) => v <= top /\ n <= top
    BY <1>9, <1>10
  <2>2. top = 0 \/ \E v \in Nat : Has(h, v, top) \/ Has(h, top, v)
    <3>1. CASE top = mb
      BY <1>1, <1>6, <1>10, <3>1 DEF IsTop
    <3>2. CASE top = c
      <4>1. IsTop(c, g)
        BY <1>2, <1>6, <3>2
      <4> QED
        BY <1>6, <1>10, <3>2, <4>1 DEF IsTop
    <3> QED
      BY <1>5, <3>1, <3>2
  <2> QED
    BY <1>6, <2>1, <2>2 DEF IsTop
<1>14. Sized(h) /\ DOMAIN h # {}
  <2>1. \E m \in Nat : DOMAIN h = 0 .. m /\ IsTop(m, h)
    BY <1>6, <1>8, <1>13
  <2>2. 0 \in DOMAIN h
    BY <1>6, <1>8
  <2> QED
    BY <2>1, <2>2 DEF Sized
<1> QED
  BY <1>10, <1>11, <1>12, <1>14 DEF h

\* m_edges is copied as it is.
LEMMA CopyIs ==
  ASSUME NEW g, IsGraph(g), Sized(g)
  PROVE  CompactWalk(g) = g
<1> DEFINE S == DOMAIN g
<1>1. g \in [S -> Seq(S)]
  BY DEF IsGraph
<1>2. PICK N \in Nat : S = 0 .. N - 1
  <2>1. CASE S = {}
    <3>1. 0 \in Nat /\ S = 0 .. 0 - 1
      BY <2>1
    <3> QED
      BY <3>1
  <2>2. CASE S # {}
    <3>1. PICK m \in Nat : S = 0 .. m
      BY <2>2 DEF Sized
    <3>2. m + 1 \in Nat /\ S = 0 .. (m + 1) - 1
      BY <3>1
    <3> QED
      BY <3>2
  <2> QED
    BY <2>1, <2>2
<1> HIDE DEF S
<1>3. g \in [0 .. N - 1 -> Seq(S)]
  BY <1>1, <1>2
<1> QED
  BY <1>3, CompactWalkIs

-----------------------------------------------------------------------------
(* What the walk of a format presents.                                     *)

LEMMA NeighborsAre ==
  ASSUME IsGraph(walk), NEW v \in Vertices
  PROVE  /\ walk[v] \in Seq(Nat) /\ walk[v] \in Seq(Vertices) /\ v \in Nat
         /\ ToSet(walk[v]) \subseteq Vertices
         /\ \A n : n \in ToSet(walk[v]) <=> Leads(v, n)
<1>1. walk[v] \in Seq(Vertices) /\ Vertices \subseteq Nat /\ v \in Nat
  BY DEF IsGraph, Vertices
<1>2. walk[v] \in Seq(Nat)
  BY <1>1, WiderSeq
<1>3. ToSet(walk[v]) \subseteq Vertices
  BY <1>1, ListSet
<1>4. \A n : n \in ToSet(walk[v]) <=> \E i \in 1 .. Len(walk[v]) : walk[v][i] = n
  BY <1>1, ListSet
<1> QED
  BY <1>1, <1>2, <1>3, <1>4 DEF Leads

\* A graph that has the edges of E, each once, is as large as it needs to be.
LEMMA HoldsIs ==
  ASSUME job \in Jobs, IsGraph(walk), NoneTwice(walk), Sized(walk),
         NEW E, E \subseteq Nat \X Nat,
         \A v, n \in Nat : Has(walk, v, n) <=> <<v, n>> \in E,
         Vertices # {} => job.tool = "large" \/ \E v, n \in Nat : Has(walk, v, n),
         job.tool = "large" => Vertices # {}
  PROVE  Holds(E)
<1> DEFINE base == IF job.tool = "large" THEN 0 ELSE -1
           U == UNION {{e[1], e[2]} : e \in E}
           S == {base} \cup U
           L == {e \in Vertices \X Vertices : Leads(e[1], e[2])}
<1>1. \A v \in Vertices : IsInjective(walk[v])
  BY DEF NoneTwice, Vertices
<1>2. \A v, n : v \in Vertices /\ n \in Vertices /\ Leads(v, n) <=> <<v, n>> \in E
  <2> SUFFICES ASSUME NEW v, NEW n
               PROVE  v \in Vertices /\ n \in Vertices /\ Leads(v, n) <=> <<v, n>> \in E
    OBVIOUS
  <2>1. ASSUME v \in Vertices, n \in Vertices, Leads(v, n) PROVE <<v, n>> \in E
    <3>1. v \in Nat /\ n \in Nat /\ n \in ToSet(walk[v])
      BY <2>1, NeighborsAre
    <3>2. Has(walk, v, n)
      BY <2>1, <3>1 DEF Has, Vertices
    <3> QED
      BY <3>1, <3>2
  <2>2. ASSUME <<v, n>> \in E PROVE v \in Vertices /\ n \in Vertices /\ Leads(v, n)
    <3>1. v \in Nat /\ n \in Nat
      BY <2>2
    <3>2. Has(walk, v, n)
      BY <2>2, <3>1
    <3>3. v \in Vertices /\ n \in ToSet(walk[v])
      BY <3>2 DEF Has, Vertices
    <3> QED
      BY <3>3, NeighborsAre
  <2> QED
    BY <2>1, <2>2
<1>3. \A e \in E : e = <<e[1], e[2]>> /\ e[1] \in Nat /\ e[2] \in Nat
  OBVIOUS
<1>4. \A e \in Vertices \X Vertices : e = <<e[1], e[2]>> /\ e[1] \in Vertices /\ e[2] \in Vertices
  OBVIOUS
<1>5. E = L
  <2>1. \A e \in E : e \in L
    BY <1>2, <1>3
  <2>2. \A e \in L : e \in E
    BY <1>2, <1>4
  <2> QED
    BY <2>1, <2>2
<1>6. \A x : x \in U <=> \E v, n \in Nat : <<v, n>> \in E /\ x \in {v, n}
  <2>1. ASSUME NEW x \in U PROVE \E v, n \in Nat : <<v, n>> \in E /\ x \in {v, n}
    <3>1. PICK e \in E : x \in {e[1], e[2]}
      OBVIOUS
    <3> QED
      BY <1>3, <3>1
  <2>2. ASSUME NEW x, NEW v \in Nat, NEW n \in Nat, <<v, n>> \in E, x \in {v, n} PROVE x \in U
    <3>1. {<<v, n>>[1], <<v, n>>[2]} \in {{e[1], e[2]} : e \in E}
      BY <2>2
    <3> QED
      BY <2>2, <3>1
  <2> QED
    BY <2>1, <2>2
<1>7. base \in {0, -1} /\ (base = 0 <=> job.tool = "large")
  OBVIOUS
<1> HIDE DEF U, base
<1>8. S \subseteq Int
  <2>1. ASSUME NEW x \in U PROVE x \in Int
    <3>1. PICK v \in Nat, n \in Nat : <<v, n>> \in E /\ x \in {v, n}
      BY <1>6
    <3>2. x = v \/ x = n
      BY <3>1
    <3> QED
      BY <3>2
  <2>2. base \in Int
    BY <1>7
  <2> QED
    BY <2>1, <2>2
<1>9. Vertices = 0 .. Max(S)
  <2>1. CASE Vertices = {}
    <3>1. base = -1
      BY <1>7, <2>1
    <3>2. U = {}
      BY <1>2, <1>6, <2>1
    <3>3. -1 \in S /\ \A x \in S : x <= -1
      BY <3>1, <3>2
    <3>4. Max(S) = -1
      <4> HIDE DEF S
      <4> QED
        BY <1>8, <3>3, MaxEquals
    <3> QED
      BY <2>1, <3>4
  <2>2. CASE Vertices # {}
    <3>1. PICK m \in Nat : DOMAIN walk = 0 .. m /\ IsTop(m, walk)
      BY <2>2 DEF Sized, Vertices
    <3>2. ASSUME NEW x \in S PROVE x <= m
      <4>1. CASE x \in U
        <5>1. PICK v \in Nat, n \in Nat : <<v, n>> \in E /\ x \in {v, n}
          BY <1>6, <4>1
        <5>2. Has(walk, v, n)
          BY <5>1
        <5> QED
          BY <3>1, <5>1, <5>2 DEF IsTop
      <4>2. CASE x \in {0, -1}
        BY <4>2
      <4> QED
        BY <1>7, <4>1, <4>2
    <3>3. m \in S
      <4>1. CASE \E v \in Nat : Has(walk, v, m) \/ Has(walk, m, v)
        <5>1. PICK v \in Nat : Has(walk, v, m) \/ Has(walk, m, v)
          BY <4>1
        <5>2. <<v, m>> \in E \/ <<m, v>> \in E
          BY <5>1
        <5> QED
          BY <1>6, <5>2
      <4>2. CASE m = 0 /\ job.tool = "large"
        BY <1>7, <4>2
      <4>3. CASE m = 0 /\ job.tool # "large"
        <5>1. PICK v \in Nat, n \in Nat : Has(walk, v, n)
          BY <2>2, <4>3
        <5>2. v <= m
          BY <3>1, <5>1 DEF IsTop
        <5>3. v = m
          BY <4>3, <5>2
        <5>4. <<v, n>> \in E
          BY <5>1
        <5> QED
          BY <1>6, <5>3, <5>4
      <4> QED
        BY <3>1, <4>1, <4>2, <4>3 DEF IsTop
    <3>4. Max(S) = m
      <4> HIDE DEF S
      <4> QED
        BY <1>8, <3>2, <3>3, MaxEquals
    <3> QED
      BY <3>1, <3>4 DEF Vertices
  <2> QED
    BY <2>1, <2>2
<1> QED
  BY <1>1, <1>5, <1>9 DEF Holds, base, U

\* A copy is as large as what it was made from.
LEMMA SameSize ==
  ASSUME NEW g, NEW h, Sized(g), DOMAIN h = DOMAIN g,
         \A v, n \in Nat : Has(h, v, n) <=> Has(g, v, n)
  PROVE  Sized(h)
<1>1. CASE DOMAIN g = {}
  BY <1>1 DEF Sized
<1>2. CASE DOMAIN g # {}
  <2>1. PICK m \in Nat : DOMAIN g = 0 .. m /\ IsTop(m, g)
    BY <1>2 DEF Sized
  <2>2. IsTop(m, h)
    BY <2>1 DEF IsTop
  <2> QED
    BY <2>1, <2>2 DEF Sized
<1> QED
  BY <1>1, <1>2

LEMMA NoListsHas ==
  /\ DOMAIN NoLists = {} /\ IsBatch(NoLists) /\ IsGraph(NoLists) /\ NoneTwice(NoLists)
  /\ Sized(NoLists) /\ \A v, n : ~ Has(NoLists, v, n)
<1>1. DOMAIN NoLists = {}
  BY DEF NoLists
<1>2. IsFiniteSet(DOMAIN NoLists)
  BY <1>1, FS_EmptySet
<1>3. IsGraph(NoLists)
  BY <1>1 DEF IsGraph, NoLists
<1> QED
  BY <1>1, <1>2, <1>3 DEF IsBatch, NoneTwice, Sized, Has

\* When a batch is in the graph and the copy has been made.
LEMMA EverythingHeld ==
  ASSUME TypeOK, Content, CopyInv, batch = NoLists, phase \notin {"prepare", "post_ingest"},
         Got \subseteq Nat \X Nat
  PROVE  Holds(Got)
<1>1. /\ job \in Jobs /\ IsGraph(walk) /\ NoneTwice(walk)
  BY DEF TypeOK, BfsTypeOK, Content
<1>2. /\ Sized(Lists) /\ DOMAIN walk = DOMAIN Lists
      /\ \A v, n \in Nat : Has(walk, v, n) <=> Has(Lists, v, n)
  BY DEF Content, CopyInv
<1>3. Sized(walk)
  BY <1>2, SameSize
<1>4. \A v, n \in Nat : Has(walk, v, n) <=> <<v, n>> \in Got
  <2>1. \A v, n \in Nat : Has(Lists, v, n) \/ Has(batch, v, n) <=> <<v, n>> \in Got
    BY DEF Content
  <2>2. \A v, n \in Nat : ~ Has(batch, v, n)
    BY NoListsHas
  <2> QED
    BY <1>2, <2>1, <2>2
<1>5. Vertices # {} => job.tool = "large" \/ \E v, n \in Nat : Has(walk, v, n)
  <2>1. DOMAIN Lists # {} => job.tool = "large" \/ \E v, n \in Nat : Has(Lists, v, n)
    BY DEF Content
  <2> QED
    BY <1>2, <2>1 DEF Vertices
<1>6. job.tool = "large" => Vertices # {}
  BY <1>2 DEF Content, Vertices
<1> QED
  BY <1>1, <1>3, <1>4, <1>5, <1>6, HoldsIs
-----------------------------------------------------------------------------
(* What the steps leave alone.                                             *)

\* Nothing of a search is left before and after.
LEMMA SearchIdle ==
  ASSUME TypeOK, AtLevel, phase # "level", IsGraph(walk)', source' = source, level' = 0,
         at' = at, pos' = pos, phase' \notin {"level", "computed"}
  PROVE  BfsTypeOK' /\ SearchInv'
<1>1. \A t \in Thread : at[t] = NoVertex /\ pos[t] = 0
  BY DEF AtLevel, ThreadAtLevel, Idle
<1>2. at \in [Thread -> Vertices \cup {NoVertex}] /\ pos \in [Thread -> Nat] /\ source \in Nat
  BY DEF TypeOK, BfsTypeOK
<1>3. at' \in [Thread -> Vertices' \cup {NoVertex}]
  BY <1>1, <1>2
<1>4. BfsTypeOK'
  BY <1>2, <1>3 DEF BfsTypeOK
<1>5. AtLevel'
  BY <1>1 DEF AtLevel, ThreadAtLevel, Idle
<1> QED
  BY <1>4, <1>5 DEF SearchInv, UnderWay, Reached, Followed, LevelsExact

LEMMA CountingStays ==
  ASSUME Counting, UNCHANGED <<job, text, line, eof>>,
         (batch_number + Pending)' = batch_number + Pending
  PROVE  Counting'
BY DEF Counting, Ends, EndsBatch, Valid

LEMMA GotStays ==
  ASSUME UNCHANGED <<job, text, line, batch_number, todo>>
  PROVE  Got' = Got
BY DEF Got, EdgesRead, LinesRead, Valid, EndEdge

LEMMA ContentStays ==
  ASSUME Content, UNCHANGED <<job, text, line, batch_number, todo, batch, m_edges, walk>>,
         phase = "prepare" => phase' = "prepare"
  PROVE  Content'
<1>1. Got' = Got
  BY GotStays
<1>2. Lists' = Lists
  BY DEF Lists, Copied
<1> QED
  BY <1>1, <1>2 DEF Content

\* The main thread or a thread of an algorithm goes on, and the graph stays.
LEMMA QuietStep ==
  ASSUME WInv, UNCHANGED <<job, text, line, eof, batch_number, todo, batch, m_edges, walk>>,
         phase \in {"compute", "level", "count"},
         phase' \in {"level", "computed", "counted"},
         BfsTypeOK', SearchInv', numTriangles' \in Nat,
         (job.format # "csr" => TrianglesExact)'
  PROVE  WInv'
<1>1. TypeOK'
  BY DEF WInv, TypeOK
<1>2. Phases'
  BY DEF WInv, Phases, EndEdge
<1>3. Counting'
  BY CountingStays DEF WInv, Pending
<1>4. Divided'
  BY DEF WInv, Divided
<1>5. Content'
  BY ContentStays DEF WInv
<1>6. CopyInv'
  BY DEF WInv, CopyInv, Lists, Copied
<1>7. SortInv'
  BY DEF SortInv
<1> QED
  BY <1>1, <1>2, <1>3, <1>4, <1>5, <1>6, <1>7 DEF WInv

-----------------------------------------------------------------------------
(* The steps of the algorithms.                                            *)

LEMMA NopInv ==
  ASSUME WInv, Nop
  PROVE  WInv'
<1>1. /\ phase = "compute" /\ phase' = "counted" /\ job.algo = "nop"
      /\ UNCHANGED <<walk, source, level, at, pos, numTriangles>>
      /\ UNCHANGED <<job, text, line, eof, batch_number, todo, batch, m_edges>>
  BY DEF Nop, graph, others, input
<1>2. /\ TypeOK /\ AtLevel /\ level = 0 /\ IsGraph(walk) /\ numTriangles \in Nat
  BY <1>1 DEF WInv, SearchInv, TypeOK, BfsTypeOK
<1>3. IsGraph(walk)' /\ level' = 0
  BY <1>1, <1>2
<1>4. BfsTypeOK' /\ SearchInv'
  BY <1>1, <1>2, <1>3, SearchIdle
<1>5. TrianglesExact'
  BY <1>1 DEF TrianglesExact
<1> QED
  BY <1>1, <1>2, <1>4, <1>5, QuietStep

\* What is known of the search alone applies to a search in a run.
LEMMA SearchStep ==
  ASSUME WInv, NEW A, A => BfsNext, Search(A)
  PROVE  WInv'
<1>1. /\ job.algo = "bfs" /\ BfsNext
      /\ UNCHANGED <<job, text, line, eof, batch_number, todo, batch, m_edges, numTriangles>>
  BY DEF Search, others, input
<1>2. TypeOK /\ SearchInv /\ BfsTypeOK /\ numTriangles \in Nat
  BY DEF WInv, TypeOK
<1>3. /\ phase \in {"compute", "level"} /\ phase' \in {"level", "computed"} /\ walk' = walk
  <2>1. CASE BfsMain
    BY <2>1 DEF BfsMain, StartSearch, NextLevel, EndSearch, graph
  <2>2. ASSUME NEW t \in Thread, BfsThread(t)
        PROVE  phase = "level" /\ phase' = phase /\ walk' = walk
    <3>1. ThreadAtLevel(t)
      BY <1>2 DEF SearchInv, AtLevel
    <3>2. phase = "level"
      BY <2>2, <3>1 DEF BfsThread, TakeEntry, WriteLevel, VisitNeighbor, Leave, ThreadAtLevel
    <3> QED
      BY <2>2, <3>2 DEF BfsThread, TakeEntry, WriteLevel, VisitNeighbor, Leave, graph
  <2> QED
    BY <1>1, <2>1, <2>2 DEF BfsNext
<1>4. IInv
  BY <1>2, <1>3 DEF IInv, SearchInv
<1>5. IInv'
  BY <1>1, <1>4, NextIInv
<1>6. BfsTypeOK' /\ SearchInv'
  BY <1>3, <1>5 DEF IInv, SearchInv
<1>7. TrianglesExact'
  BY <1>1 DEF TrianglesExact
<1>8. numTriangles' \in Nat
  BY <1>1, <1>2
<1> QED
  BY <1>1, <1>3, <1>6, <1>7, <1>8, QuietStep

\* Before anything has been read.
LEMMA WInit == Init => WInv
<1> SUFFICES ASSUME Init PROVE WInv
  OBVIOUS
<1>1. /\ job \in Jobs /\ text = <<>> /\ line = 1 /\ eof = FALSE /\ batch = NoLists
      /\ m_edges = NoLists /\ walk = NoLists /\ numTriangles = 0 /\ source = job.bfs_src
      /\ level = 0 /\ at = [t \in Thread |-> NoVertex] /\ pos = [t \in Thread |-> 0]
      /\ batch_number = IF job.tool = "large" /\ job.pre > 0 THEN -1 ELSE 0
      /\ phase = IF job.tool = "large" THEN "prepare" ELSE "divide"
      /\ todo = IF job.tool = "large" THEN PrepareTodo(batch_number) ELSE {}
  BY DEF Init, Unused
<1>2. /\ job.tool \in {"large", "text"} /\ job.num_batches \in Nat \ {0} /\ job.pre \in Nat
      /\ NumEdges \in Nat /\ job.bfs_src \in Nat
  BY <1>1, JobIs
<1>3. batch_number \in {-1, 0} /\ (job.tool = "text" => batch_number = 0)
  BY <1>1
<1>4. todo \subseteq 1 .. EndEdge(batch_number) /\ todo \subseteq 1 .. NumEdges
  <2>1. EndEdge(batch_number) \in 0 .. NumEdges
    BY <1>1, <1>3, EndEdgeIs
  <2>2. StartEdge(batch_number) \in Nat
    <3>1. EndEdge(-1) \in Nat
      BY <1>1, <1>2, EndEdgeIs
    <3>2. 0 - 1 = -1
      OBVIOUS
    <3> QED
      BY <1>3, <3>1, <3>2 DEF StartEdge
  <2> QED
    BY <1>1, <1>2, <2>1, <2>2 DEF PrepareTodo
<1>5. IsGraph(walk) /\ IsGraph(m_edges) /\ DOMAIN batch = {}
  BY <1>1, NoListsHas
<1>6. BfsTypeOK
  BY <1>1, <1>2, <1>5 DEF BfsTypeOK
<1>7. TypeOK
  <2>1. text \in Seq(Line) /\ Len(text) = 0
    BY <1>1
  <2>2. line \in 1 .. Len(text) + 1 /\ batch_number \in -1 .. Len(text) + job.num_batches
    BY <1>1, <1>2, <1>3, <2>1
  <2> QED
    BY <1>1, <1>2, <1>4, <1>5, <1>6, <2>1, <2>2 DEF TypeOK
<1>8. SearchInv
  <2>1. AtLevel
    BY <1>1 DEF AtLevel, ThreadAtLevel, Idle
  <2> QED
    BY <1>1, <2>1 DEF SearchInv, UnderWay, Reached, Followed, LevelsExact
<1>9. Phases
  BY <1>1, <1>2, <1>3, <1>4 DEF Phases
<1>10. Counting
  <2>1. Ends(line - 1) = {}
    BY <1>1 DEF Ends
  <2>2. Cardinality(Ends(line - 1)) = 0
    BY <2>1, FS_EmptySet
  <2> QED
    BY <1>1, <1>3, <2>2 DEF Counting, Pending
<1>11. Divided
  BY <1>1 DEF Divided
<1>12. Content
  <2>1. Lists = NoLists /\ batch = NoLists /\ walk = NoLists
    BY <1>1 DEF Lists
  <2>2. Got = {}
    <3>1. CASE job.tool = "large"
      <4>1. (1 .. EndEdge(batch_number)) \ todo = {}
        <5>1. CASE batch_number = -1
          BY <1>1, <3>1, <5>1 DEF PrepareTodo, StartEdge
        <5>2. CASE batch_number = 0
          <6>1. job.pre = 0
            BY <1>1, <1>2, <3>1, <5>2
          <6>2. EndEdge(-1) = 0
            BY <1>1, <6>1, EndEdgeIs
          <6>3. StartEdge(0) = 0
            <7>1. 0 - 1 = -1
              OBVIOUS
            <7> QED
              BY <6>2, <7>1 DEF StartEdge
          <6> QED
            BY <1>1, <3>1, <5>2, <6>3 DEF PrepareTodo
        <5> QED
          BY <1>3, <5>1, <5>2
      <4> QED
        BY <3>1, <4>1 DEF Got
    <3>2. CASE job.tool = "text"
      <4>1. LinesRead = {}
        BY <1>1 DEF LinesRead
      <4> QED
        BY <3>2, <4>1 DEF Got, EdgesRead
    <3> QED
      BY <1>2, <3>1, <3>2
  <2> QED
    BY <1>1, <2>1, <2>2, NoListsHas DEF Content
<1>13. CopyInv
  BY <1>1 DEF CopyInv, Lists
<1>14. SortInv /\ TrianglesExact
  BY <1>1 DEF SortInv, TrianglesExact
<1> QED
  BY <1>7, <1>8, <1>9, <1>10, <1>11, <1>12, <1>13, <1>14 DEF WInv
-----------------------------------------------------------------------------
(* Between the batches.                                                    *)

LEMMA EndsAre ==
  ASSUME NEW k \in Nat
  PROVE  /\ IsFiniteSet(Ends(k)) /\ Cardinality(Ends(k)) \in Nat /\ Cardinality(Ends(k)) <= k
<1>1. Ends(k) \subseteq 1 .. k
  BY DEF Ends
<1>2. IsFiniteSet(1 .. k) /\ Cardinality(1 .. k) = k
  BY Interval
<1> DEFINE S == Ends(k)
           T == 1 .. k
<1> HIDE DEF S, T
<1>3. S \subseteq T /\ IsFiniteSet(T)
  BY <1>1, <1>2 DEF S, T
<1>4. IsFiniteSet(S) /\ Cardinality(S) <= Cardinality(T)
  BY <1>3, FS_Subset
<1>5. Cardinality(S) \in Nat
  BY <1>4, FS_CardinalityType
<1> QED
  BY <1>2, <1>4, <1>5 DEF S, T

\* The edges of a batch are those that the batches before have left.
LEMMA NextTodo ==
  ASSUME job \in Jobs, NEW b \in Nat \cup {-1}
  PROVE  /\ (1 .. EndEdge(b + 1)) \ PrepareTodo(b + 1) = 1 .. EndEdge(b)
         /\ PrepareTodo(b + 1) \subseteq 1 .. EndEdge(b + 1)
         /\ PrepareTodo(b + 1) \subseteq 1 .. NumEdges
<1>1. b + 1 # -1 /\ (b + 1) - 1 = b /\ b + 1 \in Nat
  OBVIOUS
<1>2. StartEdge(b + 1) = EndEdge(b)
  BY <1>1 DEF StartEdge
<1>3. EndEdge(b) \in 0 .. NumEdges /\ EndEdge(b) <= EndEdge(b + 1)
  BY EndEdgeIs
<1>4. EndEdge(b + 1) \in 0 .. NumEdges
  BY <1>1, EndEdgeIs
<1>5. NumEdges \in Nat
  BY EdgesAre
<1> DEFINE x == EndEdge(b)
           y == EndEdge(b + 1)
<1> HIDE DEF x, y
<1>6. x \in Nat /\ y \in Nat /\ x <= y /\ y <= NumEdges
  BY <1>3, <1>4, <1>5 DEF x, y
<1>7. PrepareTodo(b + 1) = x + 1 .. y
  BY <1>2 DEF PrepareTodo, x, y
<1>8. /\ (1 .. y) \ (x + 1 .. y) = 1 .. x /\ x + 1 .. y \subseteq 1 .. y
      /\ x + 1 .. y \subseteq 1 .. NumEdges
  BY <1>5, <1>6
<1> QED
  BY <1>7, <1>8 DEF x, y

LEMMA DivideInv ==
  ASSUME WInv, Divide
  PROVE  WInv'
<1>1. /\ phase = "divide" /\ phase' \in {"read", "crashed"}
      /\ text' = IF Overrun THEN <<>> ELSE DividedText
      /\ phase' = IF Overrun THEN "crashed" ELSE "read"
      /\ UNCHANGED <<walk, source, level, at, pos, numTriangles>>
      /\ UNCHANGED <<job, line, eof, batch_number, todo, batch, m_edges>>
  BY DEF Divide, graph
<1>2. /\ TypeOK /\ AtLevel /\ level = 0 /\ IsGraph(walk) /\ numTriangles \in Nat
      /\ job \in Jobs /\ SearchInv /\ Phases /\ Counting /\ Content /\ CopyInv
  BY <1>1 DEF WInv, SearchInv, TypeOK, BfsTypeOK
<1>3. job.tool = "text" /\ job.num_batches \in Nat \ {0}
  BY <1>1, <1>2, JobIs DEF Phases
<1>4. text = <<>> /\ line = 1 /\ ~ eof /\ todo = {} /\ batch_number \in Nat /\ batch = NoLists
  <2>1. text = <<>> /\ ~ eof /\ todo = {} /\ batch_number \in Nat /\ batch = NoLists
    BY <1>1, <1>2, <1>3 DEF Phases
  <2>2. Len(text) = 0 /\ line \in 1 .. Len(text) + 1
    BY <1>2, <2>1 DEF TypeOK
  <2> QED
    BY <2>1, <2>2
<1>5. batch_number = 0
  <2>1. Ends(line - 1) = {}
    BY <1>4 DEF Ends
  <2>2. Cardinality(Ends(line - 1)) = 0
    BY <2>1, FS_EmptySet
  <2> QED
    BY <1>1, <1>2, <1>3, <1>4, <2>2 DEF Counting, Pending
<1>6. Presents(DividedText, ToSet(Edges))
  BY <1>2, DividedTextIs
<1>7. text' \in Seq(Line)
  <2>1. DividedText \in Seq(Line)
    BY <1>6 DEF Presents
  <2> QED
    BY <1>1, <2>1
<1>8. BfsTypeOK' /\ SearchInv'
  <2>1. IsGraph(walk)' /\ level' = 0
    BY <1>1, <1>2
  <2> QED
    BY <1>1, <1>2, <2>1, SearchIdle
<1>9. TypeOK'
  <2>1. line' \in 1 .. Len(text') + 1 /\ batch_number' \in -1 .. Len(text') + job'.num_batches
    <3>1. Len(text') \in Nat
      BY <1>7
    <3> QED
      BY <1>1, <1>3, <1>4, <1>5, <3>1
  <2> QED
    BY <1>1, <1>2, <1>7, <1>8, <2>1 DEF TypeOK
<1>10. Phases'
  BY <1>1, <1>3, <1>4 DEF Phases
<1>11. Counting'
  <2>1. Ends(line - 1)' = {}
    BY <1>1, <1>4 DEF Ends
  <2>2. Cardinality(Ends(line - 1))' = 0
    BY <2>1, FS_EmptySet
  <2> QED
    BY <1>1, <1>4, <1>5, <2>2 DEF Counting, Pending
<1>12. Divided'
  BY <1>1, <1>6 DEF Divided
<1>13. Content'
  <2>1. LinesRead = {} /\ LinesRead' = {}
    BY <1>1, <1>4 DEF LinesRead
  <2>2. Got' = Got
    BY <1>1, <1>3, <2>1 DEF Got, EdgesRead, Valid
  <2>3. Lists' = Lists
    BY <1>1 DEF Lists, Copied
  <2> QED
    BY <1>1, <1>2, <1>3, <2>2, <2>3 DEF Content
<1>14. CopyInv'
  BY <1>1, <1>2 DEF CopyInv, Lists, Copied
<1>15. SortInv' /\ TrianglesExact'
  BY <1>1 DEF SortInv, TrianglesExact
<1> QED
  BY <1>8, <1>9, <1>10, <1>11, <1>12, <1>13, <1>14, <1>15 DEF WInv

\* Lists are reordered.
LEMMA SortEdgesInv ==
  ASSUME WInv, SortEdges
  PROVE  WInv'
<1>1. /\ phase = "compute" /\ phase' = "count" /\ job.algo = "tc"
      /\ walk' = [v \in Vertices |-> Sorted(v)]
      /\ UNCHANGED <<source, level, at, pos, numTriangles>>
      /\ UNCHANGED <<job, text, line, eof, batch_number, todo, batch, m_edges>>
  BY DEF SortEdges, others, input
<1>2. /\ TypeOK /\ AtLevel /\ level = 0 /\ IsGraph(walk) /\ numTriangles \in Nat
      /\ job \in Jobs /\ Phases /\ Counting /\ Content /\ CopyInv /\ Divided
  BY <1>1 DEF WInv, SearchInv, TypeOK, BfsTypeOK
<1>3. \A v \in Vertices : walk[v] \in Seq(Nat) /\ IsInjective(walk[v]) /\ ToSet(walk[v]) \subseteq Vertices
  BY <1>2, NeighborsAre DEF Content, NoneTwice, Vertices
<1>4. DOMAIN walk' = Vertices /\ \A v \in Vertices :
        /\ walk'[v] \in Seq(ToSet(walk[v])) /\ ToSet(walk'[v]) = ToSet(walk[v])
        /\ IsInjective(walk'[v]) /\ (job.format # "csr" => IsAscending(walk'[v]))
  BY <1>1, <1>3, SortedIs
<1>5. IsGraph(walk')
  <2>1. \A v \in Vertices : walk'[v] \in Seq(Vertices)
    BY <1>3, <1>4, WiderSeq
  <2>2. walk' \in [Vertices -> Seq(Vertices)]
    BY <1>1, <1>4, <2>1
  <2>3. Vertices \subseteq Nat
    BY <1>2 DEF IsGraph, Vertices
  <2> QED
    BY <1>4, <2>2, <2>3 DEF IsGraph
<1>6. NoneTwice(walk')
  BY <1>4 DEF NoneTwice
<1>7. \A v, n : Has(walk', v, n) <=> Has(walk, v, n)
  BY <1>4 DEF Has, Vertices
<1>8. BfsTypeOK' /\ SearchInv'
  <2>1. IsGraph(walk)' /\ level' = 0
    BY <1>1, <1>2, <1>5
  <2> QED
    BY <1>1, <1>2, <2>1, SearchIdle
<1>9. TypeOK'
  BY <1>1, <1>2, <1>8 DEF TypeOK
<1>10. Phases'
  BY <1>1, <1>2 DEF Phases, EndEdge
<1>11. Counting'
  BY <1>1, <1>2, CountingStays DEF Pending
<1>12. Divided'
  BY <1>1, <1>2 DEF Divided
<1>13. /\ DOMAIN Lists' = DOMAIN Lists /\ \A v, n : Has(Lists', v, n) <=> Has(Lists, v, n)
       /\ NoneTwice(Lists') /\ Sized(Lists')
  <2>1. CASE Copied
    <3>1. Lists = m_edges /\ Lists' = m_edges
      BY <1>1, <2>1 DEF Lists, Copied
    <3> QED
      BY <1>2, <3>1 DEF Content
  <2>2. CASE ~ Copied
    <3>1. Lists = walk /\ Lists' = walk'
      BY <1>1, <2>2 DEF Lists, Copied
    <3>2. Sized(walk)
      BY <1>2, <3>1 DEF Content
    <3>3. DOMAIN walk' = DOMAIN walk
      BY <1>4 DEF Vertices
    <3>4. Sized(walk')
      BY <1>7, <3>2, <3>3, SameSize
    <3> QED
      BY <1>6, <1>7, <3>1, <3>3, <3>4
  <2> QED
    BY <2>1, <2>2
<1>14. Content'
  <2>1. Got' = Got
    BY <1>1, GotStays
  <2>2. IsBatch(batch')
    BY <1>1, <1>2 DEF Content
  <2> QED
    BY <1>1, <1>2, <1>6, <1>13, <2>1, <2>2 DEF Content
<1>15. CopyInv'
  <2>1. DOMAIN walk' = DOMAIN walk
    BY <1>4 DEF Vertices
  <2> QED
    BY <1>1, <1>2, <1>7, <1>13, <2>1 DEF CopyInv
<1>16. SortInv'
  BY <1>1, <1>4 DEF SortInv, Vertices
<1>17. TrianglesExact'
  BY <1>1 DEF TrianglesExact
<1> QED
  BY <1>8, <1>9, <1>10, <1>11, <1>12, <1>14, <1>15, <1>16, <1>17 DEF WInv
LEMMA NextBatchInv ==
  ASSUME WInv, NextBatch
  PROVE  WInv'
<1>1. /\ phase \in {"computed", "counted"} /\ batch_number' = batch_number + 1
      /\ IF job.tool = "text"
           THEN phase' = (IF eof THEN "done" ELSE "read") /\ UNCHANGED todo
           ELSE IF LastBatch
             THEN phase' = "done" /\ UNCHANGED todo
             ELSE phase' = "prepare" /\ todo' = PrepareTodo(batch_number + 1)
      /\ numTriangles' = 0 /\ level' = 0
      /\ UNCHANGED <<walk, source, at, pos, job, text, line, eof, batch, m_edges>>
  BY DEF NextBatch, graph
<1>2. /\ TypeOK /\ AtLevel /\ IsGraph(walk) /\ job \in Jobs /\ Phases /\ Counting
      /\ Content /\ CopyInv /\ Divided
  BY DEF WInv, SearchInv, TypeOK, BfsTypeOK
<1>3. job.num_batches \in Nat \ {0} /\ job.tool \in {"large", "text"} /\ NumEdges \in Nat
  BY <1>2, JobIs
<1>4. phase' \in {"done", "read", "prepare"}
  BY <1>1
<1>5. BfsTypeOK' /\ SearchInv'
  <2>1. IsGraph(walk)' /\ level' = 0 /\ phase # "level"
    BY <1>1, <1>2
  <2> QED
    BY <1>1, <1>2, <1>4, <2>1, SearchIdle
<1>6. CASE job.tool = "text"
  <2>1. /\ phase' = (IF eof THEN "done" ELSE "read") /\ todo' = todo /\ todo = {}
        /\ batch_number \in Nat /\ job'.tool = "text" /\ batch = NoLists
    BY <1>1, <1>2, <1>6 DEF Phases
  <2>2. text \in Seq(Line) /\ line \in 1 .. Len(text) + 1 /\ Len(text) \in Nat /\ eof \in BOOLEAN
    BY <1>2 DEF TypeOK
  <2>3. batch_number + 1 = Cardinality(Ends(line - 1)) + (IF eof THEN 1 ELSE 0)
    BY <1>1, <1>2, <1>6 DEF Counting, Pending
  <2>4. Cardinality(Ends(line - 1)) \in Nat /\ Cardinality(Ends(line - 1)) <= line - 1
    <3>1. line - 1 \in Nat
      BY <2>2
    <3> QED
      BY <3>1, EndsAre
  <2>5. batch_number + 1 \in -1 .. Len(text) + job.num_batches
    <3> DEFINE c == Cardinality(Ends(line - 1))
               k == Len(text)
               m == job.num_batches
    <3> HIDE DEF c, k, m
    <3>1. /\ c \in Nat /\ c <= line - 1 /\ line \in 1 .. k + 1 /\ k \in Nat /\ m \in Nat \ {0}
          /\ batch_number + 1 = c + (IF eof THEN 1 ELSE 0)
      BY <1>3, <2>2, <2>3, <2>4 DEF c, k, m
    <3>2. c <= k /\ c + 1 <= k + m
      BY <3>1
    <3>3. batch_number + 1 \in -1 .. k + m
      BY <2>1, <3>1, <3>2
    <3> QED
      BY <3>3 DEF k, m
  <2>6. TypeOK'
    BY <1>1, <1>2, <1>4, <1>5, <2>1, <2>5 DEF TypeOK
  <2>7. Phases'
    BY <1>1, <1>2, <2>1 DEF Phases
  <2>8. Counting'
    <3>1. Pending = 1 /\ Pending' = 0
      BY <1>1, <1>4, <2>1 DEF Pending
    <3>2. (batch_number + Pending)' = batch_number + Pending
      BY <1>1, <2>1, <3>1
    <3> QED
      BY <1>1, <1>2, <3>2, CountingStays
  <2>9. Divided'
    BY <1>1, <1>2 DEF Divided
  <2>10. Content'
    <3>1. Got' = Got
      BY <1>1, <1>6, <2>1 DEF Got, EdgesRead, LinesRead, Valid
    <3>2. Lists' = Lists
      BY <1>1 DEF Lists, Copied
    <3> QED
      BY <1>1, <1>2, <2>1, <3>1, <3>2 DEF Content
  <2>11. CopyInv'
    BY <1>1, <1>2 DEF CopyInv, Lists, Copied
  <2>12. SortInv' /\ TrianglesExact'
    BY <1>4 DEF SortInv, TrianglesExact
  <2> QED
    BY <1>5, <2>6, <2>7, <2>8, <2>9, <2>10, <2>11, <2>12 DEF WInv
<1>7. CASE job.tool = "large"
  <2>1. /\ IF LastBatch THEN phase' = "done" /\ UNCHANGED todo
                        ELSE phase' = "prepare" /\ todo' = PrepareTodo(batch_number + 1)
        /\ todo = {} /\ batch = NoLists /\ batch_number \in -1 .. job.num_batches
        /\ batch_number # job.num_batches /\ job'.tool = "large"
    BY <1>1, <1>2, <1>7 DEF Phases
  <2>2. /\ batch_number \in Nat \cup {-1} /\ batch_number + 1 \in -1 .. job.num_batches
        /\ batch_number + 1 \in Int
    BY <1>3, <2>1
  <2>3. \A b : EndEdge(b)' = EndEdge(b)
    BY <1>1 DEF EndEdge
  <2>4. EndEdge(batch_number)' = EndEdge(batch_number + 1)
    BY <1>1 DEF EndEdge
  <2>5. todo' \subseteq 1 .. EndEdge(batch_number)' /\ todo' \subseteq 1 .. NumEdges
    <3>1. CASE LastBatch
      BY <2>1, <3>1
    <3>2. CASE ~ LastBatch
      BY <1>2, <2>1, <2>2, <2>4, <3>2, NextTodo
    <3> QED
      BY <3>1, <3>2
  <2>6. (1 .. EndEdge(batch_number)') \ todo' = (1 .. EndEdge(batch_number)) \ todo
    <3>1. CASE LastBatch
      <4>1. batch_number + 1 = job.num_batches /\ batch_number = job.num_batches - 1
        BY <1>3, <2>1, <3>1 DEF LastBatch
      <4>2. EndEdge(batch_number + 1) = NumEdges /\ EndEdge(batch_number) = NumEdges
        BY <1>2, <4>1, EndEdgeIs
      <4>3. EndEdge(batch_number)' = EndEdge(batch_number)
        BY <2>4, <4>2
      <4> QED
        BY <2>1, <3>1, <4>3
    <3>2. CASE ~ LastBatch
      BY <1>2, <2>1, <2>2, <2>4, <3>2, NextTodo
    <3> QED
      BY <3>1, <3>2
  <2>7. TypeOK'
    <3>1. batch_number' \in -1 .. Len(text) + job.num_batches
      <4>1. Len(text) \in Nat
        BY <1>2 DEF TypeOK
      <4> QED
        BY <1>1, <1>3, <2>2, <4>1
    <3> QED
      BY <1>1, <1>2, <1>4, <1>5, <2>5, <3>1 DEF TypeOK
  <2>8. Phases'
    <3>1. phase' = "done" <=> batch_number' = job'.num_batches
      BY <1>1, <2>1 DEF LastBatch
    <3>2. ~ eof => ~ eof'
      BY <1>1
    <3>3. phase' # "prepare" => todo' = {}
      BY <2>1
    <3> QED
      BY <1>1, <1>2, <2>1, <2>2, <2>5, <3>1, <3>2, <3>3 DEF Phases
  <2>9. Counting' /\ Divided'
    BY <2>1 DEF Counting, Divided
  <2>10. Content'
    <3>1. Got' = {Edges[i] : i \in (1 .. EndEdge(batch_number)') \ todo'}
      BY <2>1 DEF Got
    <3>2. Got = {Edges[i] : i \in (1 .. EndEdge(batch_number)) \ todo}
      BY <1>7 DEF Got
    <3>3. Got' = Got
      BY <2>6, <3>1, <3>2
    <3>4. Lists' = Lists
      BY <1>1 DEF Lists, Copied
    <3> QED
      BY <1>1, <1>2, <2>1, <3>3, <3>4 DEF Content
  <2>11. CopyInv'
    BY <1>1, <1>2 DEF CopyInv, Lists, Copied
  <2>12. SortInv' /\ TrianglesExact'
    BY <1>4 DEF SortInv, TrianglesExact
  <2> QED
    BY <1>5, <2>7, <2>8, <2>9, <2>10, <2>11, <2>12 DEF WInv
<1> QED
  BY <1>3, <1>6, <1>7

LEMMA ReadEofInv ==
  ASSUME WInv, ReadEof
  PROVE  WInv'
<1>1. /\ phase = "read" /\ line > Len(text) /\ eof' = TRUE /\ phase' = "ingest"
      /\ UNCHANGED <<walk, source, level, at, pos, numTriangles>>
      /\ UNCHANGED <<job, text, line, batch_number, todo, batch, m_edges>>
  BY DEF ReadEof, graph
<1>2. /\ TypeOK /\ AtLevel /\ level = 0 /\ IsGraph(walk) /\ numTriangles \in Nat
      /\ job \in Jobs /\ Phases /\ Counting /\ Content /\ CopyInv /\ Divided
  BY <1>1 DEF WInv, SearchInv, TypeOK, BfsTypeOK
<1>3. job.tool = "text" /\ ~ eof /\ eof \in BOOLEAN /\ batch_number \in Nat
  <2>1. job.tool \in {"large", "text"}
    BY <1>2, JobIs
  <2> QED
    BY <1>1, <1>2, <2>1 DEF Phases, TypeOK
<1>4. line = Len(text) + 1
  <2>1. Len(text) \in Nat /\ line \in 1 .. Len(text) + 1
    BY <1>2 DEF TypeOK
  <2> QED
    BY <1>1, <2>1
<1>5. BfsTypeOK' /\ SearchInv'
  <2>1. IsGraph(walk)' /\ level' = 0
    BY <1>1, <1>2
  <2> QED
    BY <1>1, <1>2, <2>1, SearchIdle
<1>6. TypeOK'
  BY <1>1, <1>2, <1>5 DEF TypeOK
<1>7. Phases'
  BY <1>1, <1>2, <1>3, <1>4 DEF Phases
<1>8. Counting'
  <2>1. batch_number + 0 = Cardinality(Ends(line - 1)) + 0
    BY <1>1, <1>2, <1>3 DEF Counting, Pending
  <2>2. Ends(line - 1)' = Ends(line - 1)
    BY <1>1 DEF Ends, EndsBatch, Valid
  <2>3. Pending' = 1
    BY <1>1 DEF Pending
  <2>4. Cardinality(Ends(line - 1)) \in Nat
    <3>1. line - 1 \in Nat
      BY <1>2 DEF TypeOK
    <3> QED
      BY <3>1, EndsAre
  <2>5. batch_number + 1 = Cardinality(Ends(line - 1)) + 1
    BY <1>3, <2>1, <2>4
  <2> QED
    BY <1>1, <2>2, <2>3, <2>5 DEF Counting
<1>9. Divided'
  BY <1>1, <1>2 DEF Divided
<1>10. Content'
  BY <1>1, <1>2, ContentStays
<1>11. CopyInv'
  BY <1>1, <1>2 DEF CopyInv, Lists, Copied
<1>12. SortInv' /\ TrianglesExact'
  BY <1>1 DEF SortInv, TrianglesExact
<1> QED
  BY <1>5, <1>6, <1>7, <1>8, <1>9, <1>10, <1>11, <1>12 DEF WInv
-----------------------------------------------------------------------------
(* A batch.                                                                *)

LEMMA EmplaceInv ==
  ASSUME WInv, NEW i \in 1 .. NumEdges, Emplace(i)
  PROVE  WInv'
<1> DEFINE v == Edges[i][1]
           n == Edges[i][2]
<1>1. /\ phase = "prepare" /\ i \in todo /\ todo' = todo \ {i}
      /\ batch' = Extended(batch, v, <<n>>)
      /\ UNCHANGED <<walk, source, level, at, pos, phase, numTriangles>>
      /\ UNCHANGED <<job, text, line, eof, batch_number, m_edges>>
  BY DEF Emplace, bfsVars, bfs, graph
<1>2. /\ TypeOK /\ AtLevel /\ level = 0 /\ IsGraph(walk) /\ numTriangles \in Nat
      /\ job \in Jobs /\ Phases /\ Counting /\ Content /\ CopyInv /\ Divided
  BY <1>1 DEF WInv, SearchInv, TypeOK, BfsTypeOK
<1>3. job.tool = "large" /\ i \in 1 .. EndEdge(batch_number)
  <2>1. job.tool \in {"large", "text"}
    BY <1>2, JobIs
  <2> QED
    BY <1>1, <1>2, <2>1 DEF Phases
<1>4. Edges[i] = <<v, n>> /\ v \in Nat /\ n \in Nat
  BY EdgesAre
<1> HIDE DEF v, n
<1>5. Got = {Edges[j] : j \in (1 .. EndEdge(batch_number)) \ todo}
  BY <1>3 DEF Got
<1>6. Got' = {Edges[j] : j \in (1 .. EndEdge(batch_number)) \ (todo \ {i})}
  BY <1>1, <1>3 DEF Got, EndEdge
<1>7. \A e : e \in Got' <=> e \in Got \/ e = <<v, n>>
  BY <1>1, <1>3, <1>4, <1>5, <1>6
<1>8. <<v, n>> \notin Got
  <2>1. \A j \in 1 .. EndEdge(batch_number) : j \in 1 .. NumEdges
    <3>1. EndEdge(batch_number) \in 0 .. NumEdges
      <4>1. batch_number \in Nat \cup {-1}
        BY <1>2 DEF TypeOK
      <4> QED
        BY <1>2, <4>1, EndEdgeIs
    <3>2. NumEdges \in Nat
      BY EdgesAre
    <3> QED
      BY <3>1, <3>2
  <2>2. ASSUME NEW j \in (1 .. EndEdge(batch_number)) \ todo, Edges[j] = <<v, n>> PROVE FALSE
    <3>1. j \in 1 .. NumEdges /\ Edges[j] = Edges[i]
      BY <1>4, <2>1, <2>2
    <3>2. j = i
      BY <3>1, EdgesAre
    <3> QED
      BY <1>1, <3>2
  <2> QED
    BY <1>5, <2>2
<1>9. ~ Has(batch, v, n) /\ ~ Has(Lists, v, n)
  BY <1>2, <1>4, <1>8 DEF Content
<1>10. /\ IsBatch(batch')
       /\ \A u, k : Has(batch', u, k) <=> Has(batch, u, k) \/ (u = v /\ k = n)
  <2>1. <<n>> \in Seq(Nat) /\ IsInjective(<<n>>) /\ ToSet(<<n>>) = {n}
    <3>1. <<n>> \in Seq(Nat) /\ Len(<<n>>) = 1 /\ <<n>>[1] = n /\ DOMAIN <<n>> = 1 .. 1
      BY <1>4
    <3>2. \A x : x \in ToSet(<<n>>) <=> \E k \in 1 .. 1 : <<n>>[k] = x
      BY <3>1, ListSet
    <3>3. ToSet(<<n>>) = {n}
      BY <3>1, <3>2
    <3> QED
      BY <3>1, <3>3 DEF IsInjective
  <2>2. IsBatch(batch) /\ \A k \in ToSet(<<n>>) : ~ Has(batch, v, k)
    BY <1>2, <1>9, <2>1 DEF Content
  <2> DEFINE dsts == <<n>>
  <2>3. dsts \in Seq(Nat) /\ IsInjective(dsts) /\ \A k : k \in ToSet(dsts) <=> k = n
    BY <2>1
  <2>4. \A k \in ToSet(dsts) : ~ Has(batch, v, k)
    BY <2>2
  <2>5. batch' = Extended(batch, v, dsts)
    BY <1>1
  <2> HIDE DEF dsts
  <2>6. /\ IsBatch(Extended(batch, v, dsts))
        /\ \A u, k : Has(Extended(batch, v, dsts), u, k)
                       <=> Has(batch, u, k) \/ (u = v /\ k \in ToSet(dsts))
    BY <1>4, <2>2, <2>3, <2>4, ExtendedIs
  <2> QED
    BY <2>3, <2>5, <2>6
<1>11. BfsTypeOK' /\ SearchInv'
  <2>1. IsGraph(walk)' /\ level' = 0
    BY <1>1, <1>2
  <2> QED
    BY <1>1, <1>2, <2>1, SearchIdle
<1>12. TypeOK'
  <2>1. \A u \in DOMAIN batch' : u \in Nat /\ batch'[u] \in Seq(Nat)
    BY <1>10 DEF IsBatch
  <2>2. todo' \subseteq 1 .. NumEdges
    BY <1>1, <1>2 DEF TypeOK
  <2> QED
    BY <1>1, <1>2, <1>11, <2>1, <2>2 DEF TypeOK
<1>13. Phases'
  BY <1>1, <1>2, <1>3 DEF Phases, EndEdge
<1>14. Counting' /\ Divided'
  <2>1. job'.tool = "large"
    BY <1>1, <1>3
  <2> QED
    BY <2>1 DEF Counting, Divided
<1>15. Lists' = Lists
  BY <1>1 DEF Lists, Copied
<1>16. Content'
  <2>1. \A u, k \in Nat : ~ (Has(Lists, u, k) /\ Has(batch', u, k))
    BY <1>2, <1>9, <1>10 DEF Content
  <2>2. \A u, k \in Nat : Has(Lists, u, k) \/ Has(batch', u, k) <=> <<u, k>> \in Got'
    <3> SUFFICES ASSUME NEW u \in Nat, NEW k \in Nat
                 PROVE  Has(Lists, u, k) \/ Has(batch', u, k) <=> <<u, k>> \in Got'
      OBVIOUS
    <3>1. Has(Lists, u, k) \/ Has(batch, u, k) <=> <<u, k>> \in Got
      BY <1>2 DEF Content
    <3> QED
      BY <1>7, <1>10, <3>1
  <2>3. NoneTwice(Lists) /\ NoneTwice(walk) /\ Sized(Lists)
        /\ (DOMAIN Lists # {} => job.tool = "large" \/ \E u, k \in Nat : Has(Lists, u, k))
    BY <1>2 DEF Content
  <2> QED
    BY <1>1, <1>3, <1>10, <1>15, <2>1, <2>2, <2>3 DEF Content
<1>17. CopyInv'
  BY <1>1, <1>2, <1>15 DEF CopyInv
<1>18. SortInv' /\ TrianglesExact'
  BY <1>1 DEF SortInv, TrianglesExact
<1> QED
  BY <1>11, <1>12, <1>13, <1>14, <1>16, <1>17, <1>18 DEF WInv

LEMMA PostIngestInv ==
  ASSUME WInv, PostIngest
  PROVE  WInv'
<1>1. /\ phase = "post_ingest"
      /\ walk' = IF Copied THEN CompactWalk(m_edges) ELSE walk
      /\ IF batch_number = -1
           THEN phase' = "prepare" /\ batch_number' = 0 /\ todo' = PrepareTodo(0)
           ELSE phase' = "compute" /\ UNCHANGED <<batch_number, todo>>
      /\ UNCHANGED <<source, level, at, pos, numTriangles>>
      /\ UNCHANGED <<job, text, line, eof, batch, m_edges>>
  BY DEF PostIngest
<1>2. /\ TypeOK /\ AtLevel /\ level = 0 /\ IsGraph(walk) /\ IsGraph(m_edges) /\ numTriangles \in Nat
      /\ job \in Jobs /\ Phases /\ Counting /\ Content /\ CopyInv /\ Divided
  BY <1>1 DEF WInv, SearchInv, TypeOK, BfsTypeOK
<1>3. job.num_batches \in Nat \ {0} /\ job.tool \in {"large", "text"} /\ NumEdges \in Nat
  BY <1>2, JobIs
<1>4. walk' = Lists /\ Lists' = Lists /\ IsGraph(walk')
  <2>1. CASE Copied
    <3>1. Lists = m_edges /\ Lists' = m_edges
      BY <1>1, <2>1 DEF Lists, Copied
    <3>2. Sized(m_edges)
      BY <1>2, <3>1 DEF Content
    <3>3. CompactWalk(m_edges) = m_edges
      BY <1>2, <3>2, CopyIs
    <3> QED
      BY <1>1, <1>2, <2>1, <3>1, <3>3
  <2>2. CASE ~ Copied
    BY <1>1, <1>2, <2>2 DEF Lists, Copied
  <2> QED
    BY <2>1, <2>2
<1>5. phase' \in {"prepare", "compute"} /\ todo = {} /\ batch = NoLists
  BY <1>1, <1>2 DEF Phases
<1>6. BfsTypeOK' /\ SearchInv'
  <2>1. IsGraph(walk)' /\ level' = 0
    BY <1>1, <1>2, <1>4
  <2> QED
    BY <1>1, <1>2, <1>5, <2>1, SearchIdle
<1>7. CopyInv'
  BY <1>4 DEF CopyInv
<1>8. Divided'
  BY <1>1, <1>2, <1>5 DEF Divided
<1>9. SortInv' /\ TrianglesExact'
  BY <1>5 DEF SortInv, TrianglesExact
<1>10. Got' = Got => Content'
  BY <1>1, <1>2, <1>4 DEF Content
<1>11. CASE batch_number = -1
  <2>1. job.tool = "large"
    BY <1>2, <1>3, <1>11 DEF Phases
  <2>2. phase' = "prepare" /\ batch_number' = 0 /\ todo' = PrepareTodo(0) /\ job'.tool = "large"
    BY <1>1, <1>11, <2>1
  <2>3. /\ (1 .. EndEdge(0)) \ todo' = 1 .. EndEdge(-1)
        /\ todo' \subseteq 1 .. EndEdge(0) /\ todo' \subseteq 1 .. NumEdges
    <3>1. -1 \in Nat \cup {-1} /\ -1 + 1 = 0
      OBVIOUS
    <3> QED
      BY <1>2, <2>2, <3>1, NextTodo
  <2>4. EndEdge(batch_number)' = EndEdge(0)
    BY <1>1, <2>2 DEF EndEdge
  <2>5. TypeOK'
    <3>1. 0 \in -1 .. Len(text) + job.num_batches
      <4>1. Len(text) \in Nat
        BY <1>2 DEF TypeOK
      <4> QED
        BY <1>3, <4>1
    <3> QED
      BY <1>1, <1>2, <1>6, <2>2, <2>3, <3>1 DEF TypeOK
  <2>6. Phases'
    BY <1>1, <1>2, <1>3, <1>5, <2>2, <2>3, <2>4 DEF Phases
  <2>7. Counting'
    BY <2>2 DEF Counting
  <2>8. Got' = Got
    <3>1. Got' = {Edges[i] : i \in (1 .. EndEdge(batch_number)') \ todo'}
      BY <2>2 DEF Got
    <3>2. Got = {Edges[i] : i \in (1 .. EndEdge(batch_number)) \ todo}
      BY <2>1 DEF Got
    <3>3. (1 .. EndEdge(batch_number)') \ todo' = (1 .. EndEdge(batch_number)) \ todo
      BY <1>5, <1>11, <2>3, <2>4
    <3> QED
      BY <3>1, <3>2, <3>3
  <2> QED
    BY <1>6, <1>7, <1>8, <1>9, <1>10, <2>5, <2>6, <2>7, <2>8 DEF WInv
<1>12. CASE batch_number # -1
  <2>1. phase' = "compute" /\ UNCHANGED <<batch_number, todo>>
    BY <1>1, <1>12
  <2>2. TypeOK'
    BY <1>1, <1>2, <1>6, <2>1 DEF TypeOK
  <2>3. Phases'
    BY <1>1, <1>2, <2>1 DEF Phases, EndEdge
  <2>4. Counting'
    BY <1>1, <1>2, <2>1, CountingStays DEF Pending
  <2>5. Got' = Got
    BY <1>1, <2>1, GotStays
  <2> QED
    BY <1>6, <1>7, <1>8, <1>9, <1>10, <2>2, <2>3, <2>4, <2>5 DEF WInv
<1> QED
  BY <1>11, <1>12
LEMMA IngestInv ==
  ASSUME WInv, Ingest
  PROVE  WInv'
<1>1. /\ phase = "ingest" \/ (phase = "prepare" /\ todo = {})
      /\ IF job.tool = "text" /\ batch = NoLists
           THEN phase' = "compute" /\ UNCHANGED <<m_edges, walk>>
           ELSE /\ phase' = "post_ingest"
                /\ IF Copied
                     THEN m_edges' = Ingested(m_edges, batch) /\ UNCHANGED walk
                     ELSE walk' = Ingested(walk, batch) /\ UNCHANGED m_edges
      /\ batch' = NoLists
      /\ UNCHANGED <<source, level, at, pos, numTriangles>>
      /\ UNCHANGED <<job, text, line, eof, batch_number, todo>>
  BY DEF Ingest
<1>2. /\ TypeOK /\ AtLevel /\ level = 0 /\ IsGraph(walk) /\ IsGraph(m_edges) /\ numTriangles \in Nat
      /\ job \in Jobs /\ Phases /\ Counting /\ Content /\ CopyInv /\ Divided
  BY <1>1 DEF WInv, SearchInv, TypeOK, BfsTypeOK
<1>3. job.tool \in {"large", "text"}
  BY <1>2, JobIs
<1>4. phase' \in {"compute", "post_ingest"} /\ todo = {} /\ phase \notin {"post_ingest", "level"}
  BY <1>1, <1>2 DEF Phases
<1>5. Phases'
  BY <1>1, <1>2, <1>3, <1>4 DEF Phases, EndEdge
<1>6. Counting'
  <2>1. CASE job.tool = "text"
    <3>1. Pending' = 1 /\ Pending = 1
      BY <1>1, <1>4 DEF Pending
    <3> QED
      BY <1>1, <1>2, <3>1, CountingStays
  <2>2. CASE job.tool # "text"
    BY <1>1, <2>2 DEF Counting
  <2> QED
    BY <2>1, <2>2
<1>7. Divided'
  BY <1>1, <1>2 DEF Divided
<1>8. SortInv' /\ TrianglesExact'
  BY <1>4 DEF SortInv, TrianglesExact
<1>9. Got' = Got
  BY <1>1, GotStays
<1>10. DOMAIN batch' = {}
  BY <1>1, NoListsHas
<1>11. CASE job.tool = "text" /\ batch = NoLists
  <2>1. phase' = "compute" /\ m_edges' = m_edges /\ walk' = walk /\ batch' = batch
    BY <1>1, <1>11
  <2>2. BfsTypeOK' /\ SearchInv'
    <3>1. IsGraph(walk)' /\ level' = 0
      BY <1>1, <1>2, <2>1
    <3> QED
      BY <1>1, <1>2, <1>4, <2>1, <3>1, SearchIdle
  <2>3. TypeOK'
    BY <1>1, <1>2, <2>1, <2>2 DEF TypeOK
  <2>4. Lists' = Lists
    BY <1>1, <2>1 DEF Lists, Copied
  <2>5. Content'
    BY <1>1, <1>2, <1>9, <1>11, <2>1, <2>4 DEF Content
  <2>6. CopyInv'
    BY <1>2, <1>4, <2>1, <2>4 DEF CopyInv
  <2> QED
    BY <1>5, <1>6, <1>7, <1>8, <2>2, <2>3, <2>5, <2>6 DEF WInv
<1>12. CASE ~ (job.tool = "text" /\ batch = NoLists)
  <2>1. /\ phase' = "post_ingest"
        /\ IF Copied
             THEN m_edges' = Ingested(m_edges, batch) /\ UNCHANGED walk
             ELSE walk' = Ingested(walk, batch) /\ UNCHANGED m_edges
    BY <1>1, <1>12
  <2>2. Lists' = Ingested(Lists, batch) /\ IsGraph(Lists)
    BY <1>1, <1>2, <2>1 DEF Lists, Copied
  <2>3. /\ Sized(Lists) /\ NoneTwice(Lists) /\ IsBatch(batch) /\ NoneTwice(walk)
        /\ \A v, n \in Nat : ~ (Has(Lists, v, n) /\ Has(batch, v, n))
    BY <1>2 DEF Content
  <2>4. /\ IsGraph(Lists') /\ Sized(Lists') /\ NoneTwice(Lists') /\ DOMAIN Lists' # {}
        /\ \A v, n \in Nat : Has(Lists', v, n) <=> Has(Lists, v, n) \/ Has(batch, v, n)
    <3> DEFINE g == Lists
    <3>1. /\ IsGraph(g) /\ Sized(g) /\ NoneTwice(g) /\ IsBatch(batch)
          /\ \A v, n \in Nat : ~ (Has(g, v, n) /\ Has(batch, v, n))
      BY <2>2, <2>3
    <3> HIDE DEF g
    <3>2. /\ IsGraph(Ingested(g, batch)) /\ Sized(Ingested(g, batch))
          /\ NoneTwice(Ingested(g, batch)) /\ DOMAIN Ingested(g, batch) # {}
          /\ \A v, n \in Nat : Has(Ingested(g, batch), v, n) <=> Has(g, v, n) \/ Has(batch, v, n)
      BY <3>1, IngestedIs
    <3> QED
      BY <2>2, <3>2 DEF g
  <2>5. IsGraph(walk') /\ IsGraph(m_edges') /\ NoneTwice(walk')
    <3>1. CASE Copied
      <4>1. Lists' = m_edges' /\ walk' = walk
        BY <1>1, <2>1, <3>1 DEF Lists, Copied
      <4> QED
        BY <1>2, <2>3, <2>4, <4>1
    <3>2. CASE ~ Copied
      <4>1. Lists' = walk' /\ m_edges' = m_edges
        BY <1>1, <2>1, <3>2 DEF Lists, Copied
      <4> QED
        BY <1>2, <2>4, <4>1
    <3> QED
      BY <3>1, <3>2
  <2>6. BfsTypeOK' /\ SearchInv'
    <3>1. IsGraph(walk)' /\ level' = 0
      BY <1>1, <1>2, <2>5
    <3> QED
      BY <1>1, <1>2, <1>4, <3>1, SearchIdle
  <2>7. TypeOK'
    BY <1>1, <1>2, <1>4, <1>10, <2>5, <2>6 DEF TypeOK
  <2>8. \A v, n : ~ Has(batch', v, n)
    BY <1>1, NoListsHas
  <2>9. \A v, n \in Nat : Has(Lists', v, n) \/ Has(batch', v, n) <=> <<v, n>> \in Got'
    <3>1. \A v, n \in Nat : Has(Lists, v, n) \/ Has(batch, v, n) <=> <<v, n>> \in Got
      BY <1>2 DEF Content
    <3> QED
      BY <1>9, <2>4, <2>8, <3>1
  <2>10. job.tool = "large" \/ \E v, n \in Nat : Has(Lists', v, n)
    <3>1. CASE job.tool = "text"
      <4>1. batch # NoLists
        BY <1>12, <3>1
      <4>2. DOMAIN batch # {}
        <5>1. batch = [v \in DOMAIN batch |-> batch[v]]
          BY <2>3 DEF IsBatch
        <5>2. ASSUME DOMAIN batch = {} PROVE batch = NoLists
          BY <5>1, <5>2 DEF NoLists
        <5> QED
          BY <4>1, <5>2
      <4>3. PICK v \in DOMAIN batch : TRUE
        BY <4>2
      <4>4. v \in Nat /\ batch[v] \in Seq(Nat) /\ batch[v] # <<>>
        BY <2>3, <4>3 DEF IsBatch
      <4>5. 1 \in 1 .. Len(batch[v])
        BY <4>4
      <4>6. batch[v][1] \in ToSet(batch[v]) /\ batch[v][1] \in Nat
        BY <4>4, <4>5, ListSet
      <4>7. Has(batch, v, batch[v][1])
        BY <4>3, <4>6 DEF Has
      <4> QED
        BY <2>4, <4>4, <4>6, <4>7
    <3> QED
      BY <1>3, <3>1
  <2>11. Content'
    <3>1. IsBatch(batch')
      BY <1>1, NoListsHas
    <3>2. \A v, n \in Nat : ~ (Has(Lists', v, n) /\ Has(batch', v, n))
      BY <2>8
    <3> QED
      BY <1>1, <2>4, <2>5, <2>9, <2>10, <3>1, <3>2 DEF Content
  <2>12. CopyInv'
    BY <2>1 DEF CopyInv
  <2> QED
    BY <1>5, <1>6, <1>7, <1>8, <2>6, <2>7, <2>11, <2>12 DEF WInv
<1> QED
  BY <1>11, <1>12

\* The lines before the one that is read have other edges.
LEMMA ReadIs ==
  ASSUME job \in Jobs, job.tool = "text", Presents(text, ToSet(Edges)), line \in 1 .. Len(text)
  PROVE  /\ \A v, n \in Nat : <<v, n>> \in EdgesRead
              <=> Valid(v) /\ Valid(n) /\ \E i \in 1 .. line - 1 : LineHas(text[i], v, n)
         /\ \A v, n \in Nat : LineHas(text[line], v, n) => <<v, n>> \notin EdgesRead
         /\ IsInjective(text[line].dsts) /\ text[line] \in Line
<1>1. text \in Seq(Line) /\ Len(text) \in Nat
  BY DEF Presents
<1>2. \A i \in 1 .. line - 1 : i \in 1 .. Len(text) /\ i # line
  BY <1>1
<1>3. ASSUME NEW v \in Nat, NEW n \in Nat
      PROVE  <<v, n>> \in EdgesRead
               <=> Valid(v) /\ Valid(n) /\ \E i \in 1 .. line - 1 : LineHas(text[i], v, n)
  <2>1. <<v, n>> \in EdgesRead <=> /\ <<v, n>> \in ToSet(Edges) /\ Valid(v) /\ Valid(n)
                                   /\ \E l \in LinesRead : l.src = v /\ n \in ToSet(l.dsts)
    BY DEF EdgesRead
  <2>2. (\E l \in LinesRead : l.src = v /\ n \in ToSet(l.dsts))
          <=> \E i \in 1 .. line - 1 : LineHas(text[i], v, n)
    BY DEF LinesRead, LineHas
  <2>3. \A i \in 1 .. line - 1 : LineHas(text[i], v, n) => <<v, n>> \in ToSet(Edges)
    BY <1>2 DEF Presents
  <2> QED
    BY <2>1, <2>2, <2>3
<1>4. \A v, n \in Nat : LineHas(text[line], v, n) => <<v, n>> \notin EdgesRead
  BY <1>2, <1>3 DEF Presents
<1>5. IsInjective(text[line].dsts) /\ text[line] \in Line
  BY <1>1 DEF Presents
<1> QED
  BY <1>3, <1>4, <1>5

LEMMA ReadLineInv ==
  ASSUME WInv, ReadLine
  PROVE  WInv'
<1> DEFINE l == text[line]
           new == Extended(batch, l.src, Kept(l.dsts))
<1>1. /\ phase = "read" /\ line <= Len(text) /\ line' = line + 1
      /\ IF EndsBatch(l) THEN phase' = "ingest" /\ batch' = batch
                         ELSE batch' = new /\ phase' = phase
      /\ UNCHANGED <<walk, source, level, at, pos, numTriangles>>
      /\ UNCHANGED <<job, text, eof, batch_number, todo, m_edges>>
  BY DEF ReadLine, graph
<1>2. /\ TypeOK /\ AtLevel /\ level = 0 /\ IsGraph(walk) /\ numTriangles \in Nat
      /\ job \in Jobs /\ Phases /\ Counting /\ Content /\ CopyInv /\ Divided
  BY <1>1 DEF WInv, SearchInv, TypeOK, BfsTypeOK
<1>3. job.tool = "text" /\ ~ eof /\ eof \in BOOLEAN /\ batch_number \in Nat /\ todo = {}
  <2>1. job.tool \in {"large", "text"}
    BY <1>2, JobIs
  <2> QED
    BY <1>1, <1>2, <2>1 DEF Phases, TypeOK
<1>4. text \in Seq(Line) /\ line \in 1 .. Len(text) /\ Len(text) \in Nat
  BY <1>1, <1>2 DEF TypeOK
<1>5. Presents(text, ToSet(Edges))
  BY <1>1, <1>2, <1>3 DEF Divided
<1>6. /\ \A v, n \in Nat : LineHas(l, v, n) => <<v, n>> \notin EdgesRead
      /\ IsInjective(l.dsts) /\ l \in Line
  BY <1>2, <1>3, <1>4, <1>5, ReadIs
<1>7. (l.src \in Nat \/ l.src = NoVertex) /\ l.dsts \in Seq(Nat)
  BY <1>6 DEF Line
<1> HIDE DEF l, new
<1>8. \A v : Valid(v)' = Valid(v)
  BY <1>1 DEF Valid
<1>9. \A v, n \in Nat : <<v, n>> \in EdgesRead'
        <=> <<v, n>> \in EdgesRead \/ (Valid(v) /\ Valid(n) /\ LineHas(l, v, n))
  <2> SUFFICES ASSUME NEW v \in Nat, NEW n \in Nat
               PROVE  <<v, n>> \in EdgesRead'
                        <=> <<v, n>> \in EdgesRead \/ (Valid(v) /\ Valid(n) /\ LineHas(l, v, n))
    OBVIOUS
  <2>1. LinesRead' = LinesRead \cup {l}
    <3>1. 1 .. line' - 1 = (1 .. line - 1) \cup {line}
      BY <1>1, <1>4
    <3>2. LinesRead' = {text[i] : i \in 1 .. line' - 1}
      BY <1>1 DEF LinesRead
    <3> QED
      BY <3>1, <3>2 DEF LinesRead, l
  <2>2. <<v, n>> \in EdgesRead <=> /\ <<v, n>> \in ToSet(Edges) /\ Valid(v) /\ Valid(n)
                                   /\ \E k \in LinesRead : k.src = v /\ n \in ToSet(k.dsts)
    BY <1>3 DEF EdgesRead
  <2>3. <<v, n>> \in EdgesRead' <=> /\ <<v, n>> \in ToSet(Edges) /\ Valid(v) /\ Valid(n)
                                    /\ \E k \in LinesRead' : k.src = v /\ n \in ToSet(k.dsts)
    BY <1>1, <1>3, <1>8 DEF EdgesRead
  <2>4. LineHas(l, v, n) => <<v, n>> \in ToSet(Edges)
    BY <1>4, <1>5 DEF Presents, l
  <2> QED
    BY <2>1, <2>2, <2>3, <2>4 DEF LineHas
<1>10. Got = EdgesRead /\ Got' = EdgesRead'
  BY <1>1, <1>3 DEF Got
<1>11. Lists' = Lists
  BY <1>1 DEF Lists, Copied
<1>12. phase' \in {"read", "ingest"}
  BY <1>1
<1>13. BfsTypeOK' /\ SearchInv'
  <2>1. IsGraph(walk)' /\ level' = 0
    BY <1>1, <1>2
  <2> QED
    BY <1>1, <1>2, <1>12, <2>1, SearchIdle
<1>14. line' \in 1 .. Len(text) + 1
  BY <1>1, <1>4
<1>15. Phases'
  BY <1>1, <1>2, <1>3, <1>12 DEF Phases
<1>16. Divided'
  BY <1>1, <1>2 DEF Divided
<1>17. CopyInv'
  BY <1>1, <1>2, <1>11 DEF CopyInv
<1>18. SortInv' /\ TrianglesExact'
  BY <1>12 DEF SortInv, TrianglesExact
<1>19. /\ Ends(line' - 1) = IF EndsBatch(l) THEN Ends(line - 1) \cup {line} ELSE Ends(line - 1)
       /\ line \notin Ends(line - 1)
       /\ Ends(line - 1)' = Ends(line' - 1)
       /\ IsFiniteSet(Ends(line - 1)) /\ Cardinality(Ends(line - 1)) \in Nat
  <2>1. line' - 1 = line /\ line - 1 \in Nat
    BY <1>1, <1>4
  <2>2. 1 .. line = (1 .. line - 1) \cup {line} /\ line \notin 1 .. line - 1
    BY <1>4
  <2>3. Ends(line - 1)' = Ends(line' - 1)
    BY <1>1 DEF Ends, EndsBatch, Valid
  <2>4. IsFiniteSet(Ends(line - 1)) /\ Cardinality(Ends(line - 1)) \in Nat
    BY <2>1, EndsAre
  <2> QED
    BY <2>1, <2>2, <2>3, <2>4 DEF Ends, l
<1>20. batch_number = Cardinality(Ends(line - 1))
  BY <1>1, <1>2, <1>3, <1>19 DEF Counting, Pending
<1>21. CASE EndsBatch(l)
  <2>1. phase' = "ingest" /\ batch' = batch
    BY <1>1, <1>21
  <2>2. TypeOK'
    BY <1>1, <1>2, <1>13, <1>14, <2>1 DEF TypeOK
  <2>3. Counting'
    <3>1. Cardinality(Ends(line' - 1)) = Cardinality(Ends(line - 1)) + 1
      <4> DEFINE S == Ends(line - 1)
      <4>1. Ends(line' - 1) = S \cup {line} /\ line \notin S /\ IsFiniteSet(S)
        BY <1>19, <1>21
      <4> HIDE DEF S
      <4>2. Cardinality(S \cup {line}) = Cardinality(S) + 1
        BY <4>1, FS_AddElement
      <4> QED
        BY <4>1, <4>2 DEF S
    <3>2. Pending' = 1
      BY <2>1 DEF Pending
    <3>3. batch_number + 1 = Cardinality(Ends(line - 1))' + 0
      BY <1>3, <1>19, <1>20, <3>1
    <3> QED
      BY <1>1, <1>3, <3>2, <3>3 DEF Counting
  <2>4. Content'
    <3>1. \A v \in Nat : Valid(v) => \A n \in Nat : ~ LineHas(l, v, n)
      BY <1>21 DEF EndsBatch, LineHas, NoVertex
    <3>2. \A v, n \in Nat : <<v, n>> \in Got' <=> <<v, n>> \in Got
      BY <1>9, <1>10, <3>1
    <3> QED
      BY <1>1, <1>2, <1>3, <1>11, <2>1, <3>2 DEF Content
  <2> QED
    BY <1>13, <1>15, <1>16, <1>17, <1>18, <2>2, <2>3, <2>4 DEF WInv
<1>22. CASE ~ EndsBatch(l)
  <2> DEFINE v0 == l.src
             k == Kept(l.dsts)
  <2>1. v0 \in Nat /\ Valid(v0)
    BY <1>7, <1>22 DEF EndsBatch
  <2>2. /\ k \in Seq(Nat) /\ ToSet(k) = {x \in ToSet(l.dsts) : Valid(x)}
        /\ IsInjective(k) /\ ToSet(l.dsts) \subseteq Nat
    BY <1>6, <1>7, KeptIs, ListSet
  <2>3. \A n : n \in ToSet(k) <=> n \in Nat /\ Valid(n) /\ LineHas(l, v0, n)
    BY <2>2 DEF LineHas
  <2>4. \A v \in Nat : v # v0 => \A n \in Nat : ~ LineHas(l, v, n)
    BY DEF LineHas
  <2>5. phase' = "read" /\ batch' = Extended(batch, v0, k)
    BY <1>1, <1>22 DEF new
  <2> HIDE DEF v0, k
  <2>6. \A v, n \in Nat : Has(batch, v, n) \/ Has(Lists, v, n) <=> <<v, n>> \in EdgesRead
    BY <1>2, <1>10 DEF Content
  <2>7. \A n \in ToSet(k) : ~ Has(batch, v0, n) /\ ~ Has(Lists, v0, n)
    BY <1>6, <2>1, <2>3, <2>6
  <2>8. /\ IsBatch(batch')
        /\ \A v, n : Has(batch', v, n) <=> Has(batch, v, n) \/ (v = v0 /\ n \in ToSet(k))
    <3>1. IsBatch(batch)
      BY <1>2 DEF Content
    <3>2. \A n \in ToSet(k) : ~ Has(batch, v0, n)
      BY <2>7
    <3>3. k \in Seq(Nat) /\ IsInjective(k)
      BY <2>2
    <3> QED
      BY <2>1, <2>5, <3>1, <3>2, <3>3, ExtendedIs
  <2>9. TypeOK'
    <3>1. \A u \in DOMAIN batch' : u \in Nat /\ batch'[u] \in Seq(Nat)
      BY <2>8 DEF IsBatch
    <3> QED
      BY <1>1, <1>2, <1>13, <1>14, <2>5, <3>1 DEF TypeOK
  <2>10. Counting'
    <3>1. Pending' = 0
      BY <2>5 DEF Pending
    <3>2. batch_number + 0 = Cardinality(Ends(line - 1))' + 0
      BY <1>3, <1>19, <1>20, <1>22
    <3> QED
      BY <1>1, <1>3, <3>1, <3>2 DEF Counting
  <2>11. Content'
    <3>1. \A v, n \in Nat : ~ (Has(Lists, v, n) /\ Has(batch', v, n))
      BY <1>2, <2>7, <2>8 DEF Content
    <3>2. \A v, n \in Nat : Has(Lists, v, n) \/ Has(batch', v, n) <=> <<v, n>> \in EdgesRead'
      <4> SUFFICES ASSUME NEW v \in Nat, NEW n \in Nat
                   PROVE  Has(Lists, v, n) \/ Has(batch', v, n) <=> <<v, n>> \in EdgesRead'
        OBVIOUS
      <4>1. v = v0 /\ n \in ToSet(k) <=> Valid(v) /\ Valid(n) /\ LineHas(l, v, n)
        BY <2>1, <2>3, <2>4
      <4> QED
        BY <1>9, <2>6, <2>8, <4>1
    <3> QED
      BY <1>1, <1>2, <1>3, <1>10, <1>11, <2>8, <3>1, <3>2 DEF Content
  <2> QED
    BY <1>13, <1>15, <1>16, <1>17, <1>18, <2>9, <2>10, <2>11 DEF WInv
<1> QED
  BY <1>21, <1>22
-----------------------------------------------------------------------------
(* Triangles.                                                              *)

LEMMA TriplesFinite ==
  ASSUME NEW V, IsFiniteSet(V), NEW N \in Nat, NEW S, S \subseteq V \X (1 .. N) \X (1 .. N)
  PROVE  IsFiniteSet(S) /\ Cardinality(S) \in Nat
<1> DEFINE I == 1 .. N
           T == (V \X I) \X I
           f == [p \in S |-> <<<<p[1], p[2]>>, p[3]>>]
<1>1. IsFiniteSet(I)
  BY Interval
<1> HIDE DEF I
<1>2. IsFiniteSet(V \X I)
  BY <1>1, FS_Product
<1>3. IsFiniteSet(T)
  BY <1>1, <1>2, FS_Product
<1>4. \A p \in S : p = <<p[1], p[2], p[3]>> /\ p[1] \in V /\ p[2] \in I /\ p[3] \in I
  BY DEF I
<1>5. f \in Injection(S, T)
  <2>1. f \in [S -> T]
    BY <1>4
  <2>2. ASSUME NEW p \in S, NEW q \in S, f[p] = f[q] PROVE p = q
    BY <1>4, <2>2
  <2> QED
    BY <2>1, <2>2 DEF Injection, IsInjective
<1> HIDE DEF f, T
<1>6. IsFiniteSet(S)
  BY <1>3, <1>5, FS_Injection
<1> QED
  BY <1>6, FS_CardinalityType

\* The elements of S and of T are paired.
Paired(S, T) ==
  \E f \in [S -> T] : /\ \A p, q \in S : f[p] = f[q] => p = q
                      /\ \A q \in T : \E p \in S : f[p] = q

LEMMA SameCount ==
  ASSUME NEW S, NEW T, IsFiniteSet(T), Paired(S, T)
  PROVE  Cardinality(S) = Cardinality(T)
<1>1. PICK f \in [S -> T] : /\ \A p, q \in S : f[p] = f[q] => p = q
                            /\ \A q \in T : \E p \in S : f[p] = q
  BY DEF Paired
<1>2. f \in Injection(S, T) /\ f \in Surjection(S, T)
  BY <1>1 DEF Injection, Surjection, IsInjective
<1> QED
  BY <1>2, FS_Injection

\* Where the loops of the count find a triangle: a vertex, the place of the
\* second one in its list, and the place of the third in the list of that.
Places(V, w, N, E) ==
  {p \in V \X (1 .. N) \X (1 .. N) :
     LET v1 == w[p[1]][p[2]]
         v2 == w[v1][p[3]]
     IN /\ p[2] <= Len(w[p[1]]) /\ p[3] <= Len(w[v1])
        /\ p[1] < v1 /\ v1 < v2 /\ <<p[1], v2>> \in E}

\* The triangles of E, as pairs of edges.
Triangles(E) ==
  {p \in E \X E :
     LET e == p[1]
         f == p[2]
     IN e[1] < e[2] /\ e[2] = f[1] /\ f[1] < f[2] /\ <<e[1], f[2]>> \in E}

\* Places in lists are edges.
LEMMA TrianglesAre ==
  ASSUME NEW V, V \subseteq Nat, NEW w \in [V -> Seq(V)], NEW N \in Nat, NEW E, IsFiniteSet(E),
         E \subseteq Nat \X Nat, \A v \in V : IsInjective(w[v]) /\ Len(w[v]) <= N,
         \A v, n : <<v, n>> \in E <=> v \in V /\ n \in ToSet(w[v])
  PROVE  Cardinality(Places(V, w, N, E)) = Cardinality(Triangles(E))
<1> DEFINE v1(p) == w[p[1]][p[2]]
           v2(p) == w[v1(p)][p[3]]
           T == Places(V, w, N, E)
           Q == {p \in E \X E : /\ p[1][1] < p[1][2] /\ p[1][2] = p[2][1] /\ p[2][1] < p[2][2]
                                /\ <<p[1][1], p[2][2]>> \in E}
           f == [p \in T |-> <<<<p[1], v1(p)>>, <<v1(p), v2(p)>>>>]
<1>1. \A v \in V : /\ w[v] \in Seq(V) /\ Len(w[v]) \in Nat /\ DOMAIN w[v] = 1 .. Len(w[v])
                   /\ \A n : n \in ToSet(w[v]) <=> \E i \in 1 .. Len(w[v]) : w[v][i] = n
  BY ListSet
<1>2. ASSUME NEW p \in T
      PROVE  /\ p = <<p[1], p[2], p[3]>> /\ p[1] \in V /\ v1(p) \in V
             /\ p[2] \in 1 .. Len(w[p[1]]) /\ p[3] \in 1 .. Len(w[v1(p)])
             /\ p[1] < v1(p) /\ v1(p) < v2(p) /\ <<p[1], v2(p)>> \in E
  <2>1. p \in V \X (1 .. N) \X (1 .. N)
    BY DEF Places
  <2>2. p = <<p[1], p[2], p[3]>> /\ p[1] \in V /\ p[2] \in 1 .. N /\ p[3] \in 1 .. N
    BY <2>1
  <2>3. /\ p[2] <= Len(w[p[1]]) /\ p[3] <= Len(w[v1(p)])
        /\ p[1] < v1(p) /\ v1(p) < v2(p) /\ <<p[1], v2(p)>> \in E
    BY DEF Places
  <2>4. p[2] \in 1 .. Len(w[p[1]])
    BY <1>1, <2>2, <2>3
  <2>5. v1(p) \in V
    BY <1>1, <2>2, <2>4
  <2>6. p[3] \in 1 .. Len(w[v1(p)])
    BY <1>1, <2>2, <2>3, <2>5
  <2> QED
    BY <2>2, <2>3, <2>4, <2>5, <2>6
<1>3. ASSUME NEW p \in T
      PROVE  /\ <<p[1], v1(p)>> \in E /\ <<v1(p), v2(p)>> \in E
             /\ <<<<p[1], v1(p)>>, <<v1(p), v2(p)>>>> \in Q
  <2>1. v1(p) \in ToSet(w[p[1]])
    BY <1>1, <1>2
  <2>2. v2(p) \in ToSet(w[v1(p)])
    BY <1>1, <1>2
  <2> DEFINE a == p[1]
             b == v1(p)
             c == v2(p)
  <2>3. a \in V /\ b \in V /\ b \in ToSet(w[a]) /\ c \in ToSet(w[b]) /\ a < b /\ b < c /\ <<a, c>> \in E
    BY <1>2, <2>1, <2>2
  <2> HIDE DEF a, b, c
  <2>4. <<a, b>> \in E /\ <<b, c>> \in E
    BY <2>3
  <2>5. <<<<a, b>>, <<b, c>>>> \in Q
    BY <2>3, <2>4
  <2> QED
    BY <2>4, <2>5 DEF a, b, c
<1>4. f \in [T -> Q]
  <2> HIDE DEF Q, v1, v2
  <2> QED
    BY <1>3
<1>5. ASSUME NEW p \in T, NEW q \in T, f[p] = f[q] PROVE p = q
  <2>1. p[1] = q[1] /\ v1(p) = v1(q) /\ v2(p) = v2(q)
    <3> HIDE DEF v1, v2
    <3> QED
      BY <1>5
  <2>2. p[2] = q[2]
    <3>1. p[2] \in DOMAIN w[p[1]] /\ q[2] \in DOMAIN w[p[1]]
      BY <1>1, <1>2, <2>1
    <3>2. w[p[1]][p[2]] = w[p[1]][q[2]]
      BY <2>1
    <3>3. IsInjective(w[p[1]])
      BY <1>2
    <3> QED
      BY <3>1, <3>2, <3>3 DEF IsInjective
  <2>3. p[3] = q[3]
    <3>1. p[3] \in DOMAIN w[v1(p)] /\ q[3] \in DOMAIN w[v1(p)]
      BY <1>1, <1>2, <2>1
    <3>2. w[v1(p)][p[3]] = w[v1(p)][q[3]]
      BY <2>1
    <3>3. IsInjective(w[v1(p)])
      BY <1>2
    <3> QED
      BY <3>1, <3>2, <3>3 DEF IsInjective
  <2> QED
    BY <1>2, <2>1, <2>2, <2>3
<1>6. ASSUME NEW q \in Q PROVE \E p \in T : f[p] = q
  <2> DEFINE a == q[1][1]
             b == q[1][2]
             c == q[2][2]
  <2>1. q[1] \in E /\ q[2] \in E /\ q = <<q[1], q[2]>>
    OBVIOUS
  <2>2. q[1] = <<q[1][1], q[1][2]>> /\ q[2] = <<q[2][1], q[2][2]>>
    BY <2>1
  <2>3. q[2][1] = b /\ a < b /\ b < c /\ <<a, c>> \in E
    OBVIOUS
  <2>4. q = <<<<a, b>>, <<b, c>>>> /\ <<a, b>> \in E /\ <<b, c>> \in E
    BY <2>1, <2>2, <2>3
  <2> HIDE DEF a, b, c
  <2>5. a \in V /\ b \in V /\ b \in ToSet(w[a]) /\ c \in ToSet(w[b])
    BY <2>4
  <2>6. PICK i \in 1 .. Len(w[a]) : w[a][i] = b
    BY <1>1, <2>5
  <2>7. PICK j \in 1 .. Len(w[b]) : w[b][j] = c
    BY <1>1, <2>5
  <2>8. i \in 1 .. N /\ j \in 1 .. N /\ i <= Len(w[a]) /\ j <= Len(w[b])
    BY <1>1, <2>5
  <2> DEFINE p == <<a, i, j>>
  <2>9. p[1] = a /\ p[2] = i /\ p[3] = j /\ p \in V \X (1 .. N) \X (1 .. N)
    BY <2>5, <2>8
  <2> HIDE DEF p
  <2>10. v1(p) = b /\ v2(p) = c
    BY <2>6, <2>7, <2>9
  <2>11. p \in T
    BY <2>3, <2>8, <2>9, <2>10 DEF Places
  <2>12. f[p] = q
    <3> HIDE DEF v1, v2
    <3> QED
      BY <2>4, <2>9, <2>10, <2>11
  <2> QED
    BY <2>11, <2>12
<1>7. IsFiniteSet(Q)
  <2>1. IsFiniteSet(E \X E)
    BY FS_Product
  <2>2. Q \in SUBSET (E \X E)
    OBVIOUS
  <2> HIDE DEF Q
  <2> QED
    BY <2>1, <2>2, FS_Subset
<1>8. Cardinality(T) = Cardinality(Q)
  <2> HIDE DEF f, Q
  <2>1. f \in [T -> Q]
    BY <1>4
  <2>2. \A p, q \in T : f[p] = f[q] => p = q
    BY <1>5
  <2>3. \A q \in Q : \E p \in T : f[p] = q
    BY <1>6
  <2>4. Paired(T, Q)
    BY <2>1, <2>2, <2>3 DEF Paired
  <2> QED
    BY <1>7, <2>4, SameCount
<1>9. Q = Triangles(E)
  BY DEF Triangles
<1> QED
  BY <1>8, <1>9
\* The edges that have been read, when none is to be visited.
LEMMA ReadAre ==
  ASSUME TypeOK, todo = {}
  PROVE  /\ Got = EdgesRead /\ EdgesRead \subseteq ToSet(Edges)
         /\ EdgesRead \subseteq Nat \X Nat /\ IsFiniteSet(EdgesRead)
<1>1. job \in Jobs /\ batch_number \in Int /\ batch_number \in Nat \cup {-1}
  BY DEF TypeOK
<1>2. ToSet(Edges) \subseteq Nat \X Nat /\ IsFiniteSet(ToSet(Edges))
  BY EdgesAre
<1>3. Got = EdgesRead
  <2>1. (1 .. EndEdge(batch_number)) \ todo = 1 .. EndEdge(batch_number)
    OBVIOUS
  <2> QED
    BY <2>1 DEF Got, EdgesRead
<1>4. EdgesRead \subseteq ToSet(Edges)
  <2>1. CASE job.tool = "large"
    <3>1. EndEdge(batch_number) \in 0 .. NumEdges /\ NumEdges \in Nat
      BY <1>1, EndEdgeIs, EdgesAre
    <3>2. \A i \in 1 .. EndEdge(batch_number) : i \in 1 .. NumEdges
      BY <3>1
    <3>3. EdgesRead = {Edges[i] : i \in 1 .. EndEdge(batch_number)}
      BY <2>1 DEF EdgesRead
    <3> QED
      BY <3>2, <3>3, EdgesAre
  <2>2. CASE job.tool # "large"
    BY <2>2 DEF EdgesRead
  <2> QED
    BY <2>1, <2>2
<1>5. IsFiniteSet(EdgesRead)
  BY <1>2, <1>4, FS_Subset
<1> QED
  BY <1>2, <1>3, <1>4, <1>5

\* A vertex has no more neighbours than there are edges.
LEMMA FewNeighbors ==
  ASSUME NEW v \in Nat, NEW s \in Seq(Nat), IsInjective(s),
         \A n \in ToSet(s) : <<v, n>> \in ToSet(Edges)
  PROVE  Len(s) <= NumEdges
<1> DEFINE I == 1 .. Len(s)
           f == [i \in I |-> CHOOSE j \in 1 .. NumEdges : Edges[j] = <<v, s[i]>>]
<1>1. ASSUME NEW i \in I
      PROVE  f[i] \in 1 .. NumEdges /\ Edges[f[i]] = <<v, s[i]>>
  <2>1. s[i] \in ToSet(s)
    BY ListSet
  <2>2. <<v, s[i]>> \in ToSet(Edges)
    BY <2>1
  <2>3. ToSet(Edges) = {Edges[j] : j \in 1 .. NumEdges}
    BY EdgesAre
  <2>4. \E j \in 1 .. NumEdges : Edges[j] = <<v, s[i]>>
    BY <2>2, <2>3
  <2> QED
    BY <2>4
<1>2. DOMAIN f = I /\ f = [i \in I |-> f[i]]
  OBVIOUS
<1> HIDE DEF f
<1>3. f \in [I -> 1 .. NumEdges]
  BY <1>1, <1>2
<1>4. ASSUME NEW i \in I, NEW j \in I, f[i] = f[j] PROVE i = j
  <2>1. s[i] = s[j]
    BY <1>1, <1>4
  <2> QED
    BY <2>1 DEF IsInjective
<1>5. f \in Injection(I, 1 .. NumEdges)
  BY <1>2, <1>3, <1>4 DEF Injection, IsInjective
<1>6. IsFiniteSet(1 .. NumEdges) /\ Cardinality(1 .. NumEdges) = NumEdges
  BY EdgesAre, Interval
<1>7. Cardinality(I) = Len(s)
  BY Interval
<1> DEFINE T == 1 .. NumEdges
<1> HIDE DEF I, T
<1>8. Cardinality(I) <= Cardinality(T)
  <2>1. f \in Injection(I, T) /\ IsFiniteSet(T)
    BY <1>5, <1>6 DEF T
  <2> QED
    BY <2>1, FS_Injection
<1> QED
  BY <1>6, <1>7, <1>8 DEF T

LEMMA CountTrianglesInv ==
  ASSUME WInv, CountTriangles
  PROVE  WInv'
<1> DEFINE T == {p \in Vertices \X (1 .. NumEdges) \X (1 .. NumEdges) :
                   LET v1 == walk[p[1]][p[2]]
                   IN /\ p[2] <= Len(walk[p[1]])
                      /\ p[3] <= Len(walk[v1])
                      /\ Closes(p[1], v1, walk[v1][p[3]])}
           C == Places(Vertices, walk, NumEdges, EdgesRead)
<1>1. /\ phase = "count" /\ phase' = "counted" /\ numTriangles' = Cardinality(T)
      /\ UNCHANGED <<walk, source, level, at, pos>>
      /\ UNCHANGED <<job, text, line, eof, batch_number, todo, batch, m_edges>>
  BY DEF CountTriangles, graph, input
<1>2. /\ TypeOK /\ AtLevel /\ level = 0 /\ IsGraph(walk) /\ job \in Jobs /\ Phases
      /\ Content /\ CopyInv /\ SortInv /\ NoneTwice(walk) /\ Sized(Lists)
  BY <1>1 DEF WInv, SearchInv, TypeOK, BfsTypeOK, Content
<1>3. NumEdges \in Nat
  BY EdgesAre
<1>4. todo = {} /\ batch = NoLists
  BY <1>1, <1>2 DEF Phases
<1>5. /\ Got = EdgesRead /\ EdgesRead \subseteq ToSet(Edges)
      /\ EdgesRead \subseteq Nat \X Nat /\ IsFiniteSet(EdgesRead)
  BY <1>2, <1>4, ReadAre
<1>6. /\ DOMAIN walk = DOMAIN Lists /\ \A v, n \in Nat : Has(walk, v, n) <=> <<v, n>> \in EdgesRead
  <2>1. \A v, n \in Nat : Has(Lists, v, n) \/ Has(batch, v, n) <=> <<v, n>> \in Got
    BY <1>2 DEF Content
  <2>2. \A v, n : ~ Has(batch, v, n)
    BY <1>4, NoListsHas
  <2>3. DOMAIN walk = DOMAIN Lists /\ \A v, n \in Nat : Has(walk, v, n) <=> Has(Lists, v, n)
    BY <1>1, <1>2 DEF CopyInv
  <2> QED
    BY <1>5, <2>1, <2>2, <2>3
<1>7. Vertices \subseteq Nat /\ IsFiniteSet(Vertices)
  <2>1. CASE DOMAIN Lists = {}
    BY <1>6, <2>1, FS_EmptySet DEF Vertices
  <2>2. CASE DOMAIN Lists # {}
    <3>1. PICK m \in Nat : DOMAIN Lists = 0 .. m
      BY <1>2, <2>2 DEF Sized
    <3>2. 0 \in Int /\ m \in Int
      OBVIOUS
    <3>3. IsFiniteSet(0 .. m)
      BY <3>2, FS_Interval
    <3> QED
      BY <1>6, <3>1, <3>3 DEF Vertices
  <2> QED
    BY <2>1, <2>2
<1>8. T \subseteq Vertices \X (1 .. NumEdges) \X (1 .. NumEdges)
  OBVIOUS
<1>9. numTriangles' \in Nat
  <2> HIDE DEF T
  <2> QED
    BY <1>1, <1>3, <1>7, <1>8, TriplesFinite
<1>10. BfsTypeOK' /\ SearchInv'
  <2>1. IsGraph(walk)' /\ level' = 0
    BY <1>1, <1>2
  <2> QED
    BY <1>1, <1>2, <2>1, SearchIdle
<1>11. \A v \in Vertices : /\ walk[v] \in Seq(Nat) /\ walk[v] \in Seq(Vertices) /\ IsInjective(walk[v])
                           /\ Len(walk[v]) <= NumEdges /\ v \in Nat /\ Len(walk[v]) \in Nat
                           /\ \A n \in ToSet(walk[v]) : n \in Nat
  <2> SUFFICES ASSUME NEW v \in Vertices
               PROVE  /\ walk[v] \in Seq(Nat) /\ walk[v] \in Seq(Vertices) /\ IsInjective(walk[v])
                      /\ Len(walk[v]) <= NumEdges /\ v \in Nat /\ Len(walk[v]) \in Nat
                      /\ \A n \in ToSet(walk[v]) : n \in Nat
    OBVIOUS
  <2>1. /\ walk[v] \in Seq(Nat) /\ walk[v] \in Seq(Vertices) /\ v \in Nat
        /\ ToSet(walk[v]) \subseteq Vertices /\ IsInjective(walk[v])
    BY <1>2, NeighborsAre DEF NoneTwice, Vertices
  <2>2. \A n \in ToSet(walk[v]) : n \in Nat /\ <<v, n>> \in ToSet(Edges)
    <3> SUFFICES ASSUME NEW n \in ToSet(walk[v]) PROVE n \in Nat /\ <<v, n>> \in ToSet(Edges)
      OBVIOUS
    <3>1. n \in Nat
      BY <1>7, <2>1
    <3>2. Has(walk, v, n)
      BY DEF Has, Vertices
    <3> QED
      BY <1>5, <1>6, <2>1, <3>1, <3>2
  <2>3. Len(walk[v]) <= NumEdges /\ Len(walk[v]) \in Nat
    BY <2>1, <2>2, FewNeighbors
  <2> QED
    BY <2>1, <2>2, <2>3
<1>12. \A v, n : <<v, n>> \in EdgesRead <=> v \in Vertices /\ n \in ToSet(walk[v])
  <2> SUFFICES ASSUME NEW v, NEW n
               PROVE  <<v, n>> \in EdgesRead <=> v \in Vertices /\ n \in ToSet(walk[v])
    OBVIOUS
  <2>1. <<v, n>> \in EdgesRead => v \in Nat /\ n \in Nat
    BY <1>5
  <2>2. v \in Vertices /\ n \in ToSet(walk[v]) => v \in Nat /\ n \in Nat
    BY <1>11
  <2>3. Has(walk, v, n) <=> v \in Vertices /\ n \in ToSet(walk[v])
    BY DEF Has, Vertices
  <2> QED
    BY <1>6, <2>1, <2>2, <2>3
<1>13. ASSUME job.format # "csr" PROVE T = C
  <2>1. ASSUME NEW v \in Vertices, NEW x \in Nat
        PROVE  FindSorted(v, x) <=> <<v, x>> \in EdgesRead
    <3>1. \A k, l \in 1 .. Len(walk[v]) : k < l => walk[v][k] < walk[v][l]
      BY <1>1, <1>2, <1>13 DEF SortInv, IsAscending
    <3>2. walk[v] \in Seq(Int) /\ x \in Int
      <4>1. walk[v] \in Seq(Nat) /\ Nat \subseteq Int
        BY <1>11
      <4> QED
        BY <4>1, WiderSeq
    <3>3. FindSorted(v, x) <=> \E k \in 1 .. Len(walk[v]) : walk[v][k] = x
      BY <3>1, <3>2, FoundIs DEF FindSorted
    <3>4. x \in ToSet(walk[v]) <=> \E k \in 1 .. Len(walk[v]) : walk[v][k] = x
      BY <1>11, ListSet
    <3> QED
      BY <1>12, <3>3, <3>4
  <2>2. ASSUME NEW p \in Vertices \X (1 .. NumEdges) \X (1 .. NumEdges),
               p[2] <= Len(walk[p[1]]), p[3] <= Len(walk[walk[p[1]][p[2]]])
        PROVE  p[1] \in Vertices /\ walk[walk[p[1]][p[2]]][p[3]] \in Nat
    <3>1. p[1] \in Vertices /\ p[2] \in 1 .. NumEdges /\ p[3] \in 1 .. NumEdges
      BY <2>2
    <3> DEFINE s == walk[p[1]]
               v1 == s[p[2]]
               t == walk[v1]
    <3>2. s \in Seq(Vertices) /\ Len(s) \in Nat
      BY <1>11, <3>1
    <3>3. p[2] \in 1 .. Len(s)
      BY <1>3, <2>2, <3>1, <3>2
    <3>4. v1 \in Vertices
      BY <3>2, <3>3
    <3>5. t \in Seq(Nat) /\ Len(t) \in Nat
      BY <1>11, <3>4
    <3>6. p[3] \in 1 .. Len(t)
      BY <1>3, <2>2, <3>1, <3>5
    <3>7. t[p[3]] \in Nat
      BY <3>5, <3>6
    <3> QED
      BY <3>1, <3>7
  <2>3. \A p \in Vertices \X (1 .. NumEdges) \X (1 .. NumEdges) : p \in T <=> p \in C
    <3> SUFFICES ASSUME NEW p \in Vertices \X (1 .. NumEdges) \X (1 .. NumEdges)
                 PROVE  p \in T <=> p \in C
      OBVIOUS
    <3> DEFINE v1 == walk[p[1]][p[2]]
               v2 == walk[v1][p[3]]
               bounds == p[2] <= Len(walk[p[1]]) /\ p[3] <= Len(walk[v1])
    <3>1. p \in T <=> bounds /\ p[1] < v1 /\ v1 < v2 /\ FindSorted(p[1], v2)
      BY DEF Closes
    <3>2. p \in C <=> bounds /\ p[1] < v1 /\ v1 < v2 /\ <<p[1], v2>> \in EdgesRead
      BY DEF Places
    <3>3. bounds => p[1] \in Vertices /\ v2 \in Nat
      BY <2>2
    <3> HIDE DEF v1, v2, bounds, T, C
    <3> QED
      BY <2>1, <3>1, <3>2, <3>3
  <2>4. C \subseteq Vertices \X (1 .. NumEdges) \X (1 .. NumEdges)
    BY DEF Places
  <2> HIDE DEF T, C
  <2> QED
    BY <1>8, <2>3, <2>4
<1>14. (job.format # "csr" => TrianglesExact)'
  <2> SUFFICES ASSUME job.format # "csr" PROVE TrianglesExact'
    BY <1>1
  <2>1. walk \in [Vertices -> Seq(Vertices)]
    BY <1>2 DEF IsGraph, Vertices
  <2>2. \A v \in Vertices : IsInjective(walk[v]) /\ Len(walk[v]) <= NumEdges
    BY <1>11
  <2>3. T = C
    BY <1>13
  <2>4. Cardinality(T) = Cardinality(Triangles(EdgesRead))
    <3> DEFINE V == Vertices
               N == NumEdges
               E == EdgesRead
    <3>1. /\ V \subseteq Nat /\ walk \in [V -> Seq(V)] /\ N \in Nat /\ IsFiniteSet(E)
          /\ E \subseteq Nat \X Nat
      BY <1>3, <1>5, <1>7, <2>1
    <3>2. \A v \in V : IsInjective(walk[v]) /\ Len(walk[v]) <= N
      BY <2>2
    <3>3. \A v, n : <<v, n>> \in E <=> v \in V /\ n \in ToSet(walk[v])
      BY <1>12
    <3> HIDE DEF T, V, N, E
    <3>4. Cardinality(Places(V, walk, N, E)) = Cardinality(Triangles(E))
      BY <3>1, <3>2, <3>3, TrianglesAre
    <3> QED
      BY <2>3, <3>4 DEF V, N, E
  <2>5. EdgesRead' = EdgesRead
    BY <1>1 DEF EdgesRead, LinesRead, Valid, EndEdge
  <2> QED
    BY <1>1, <2>4, <2>5 DEF TrianglesExact, Triangles
<1> QED
  BY <1>1, <1>9, <1>10, <1>14, QuietStep
-----------------------------------------------------------------------------
(* Every step.                                                             *)

LEMMA WStutter ==
  ASSUME WInv, UNCHANGED vars
  PROVE  WInv'
<1>1. /\ UNCHANGED <<walk, source, phase, level, shortest_path, currSt, nextSt, at, pos>>
      /\ UNCHANGED <<job, text, line, eof, batch_number, todo, batch, m_edges, numTriangles>>
  BY DEF vars, bfsVars, graph, bfs, input
<1>2. TypeOK' /\ SearchInv'
  BY <1>1 DEF WInv, TypeOK, BfsTypeOK, SearchInv, AtLevel, ThreadAtLevel, UnderWay, Reached,
              Followed, LevelsExact, Met, Coming, OnLevel, Leads, Idle, Vertices
<1>3. Phases' /\ Divided' /\ SortInv'
  BY <1>1 DEF WInv, Phases, Divided, SortInv, EndEdge, Vertices
<1>4. Counting'
  BY <1>1, CountingStays DEF WInv, Pending
<1>5. Content'
  BY <1>1, ContentStays DEF WInv
<1>6. CopyInv'
  BY <1>1 DEF WInv, CopyInv, Lists, Copied
<1>7. (job.format # "csr" => TrianglesExact)'
  <2>1. EdgesRead' = EdgesRead
    BY <1>1 DEF EdgesRead, LinesRead, Valid, EndEdge
  <2> QED
    BY <1>1, <2>1 DEF WInv, TrianglesExact
<1> QED
  BY <1>2, <1>3, <1>4, <1>5, <1>6, <1>7 DEF WInv

LEMMA WNext == WInv /\ [Next]_vars => WInv'
<1> SUFFICES ASSUME WInv, [Next]_vars PROVE WInv'
  OBVIOUS
<1>1. CASE Main
  <2>1. ASSUME Search(BfsMain) PROVE WInv'
    <3>1. BfsMain => BfsNext
      BY DEF BfsNext
    <3> QED
      BY <2>1, <3>1, SearchStep
  <2> QED
    BY <1>1, <2>1, DivideInv, ReadLineInv, ReadEofInv, IngestInv, PostIngestInv, SortEdgesInv,
       CountTrianglesInv, NopInv, NextBatchInv DEF Main
<1>2. ASSUME NEW i \in 1 .. NumEdges, Emplace(i) PROVE WInv'
  BY <1>2, EmplaceInv
<1>3. ASSUME NEW t \in Thread, ThreadStep(t) PROVE WInv'
  <2>1. BfsThread(t) => BfsNext
    BY DEF BfsNext
  <2>2. Search(BfsThread(t))
    BY <1>3 DEF ThreadStep
  <2> QED
    BY <2>1, <2>2, SearchStep
<1>4. CASE UNCHANGED vars
  BY <1>4, WStutter
<1> QED
  BY <1>1, <1>2, <1>3, <1>4 DEF Next, Terminated

\* What the invariant says of the graph, the algorithms and the end.
LEMMA WInvIngested == WInv => BatchesIngested
<1> SUFFICES ASSUME WInv, phase = "compute" PROVE Holds(EdgesRead)
  BY DEF BatchesIngested
<1>1. TypeOK /\ Content /\ CopyInv /\ batch = NoLists /\ todo = {}
  BY DEF WInv, Phases
<1>2. Got = EdgesRead /\ EdgesRead \subseteq Nat \X Nat
  BY <1>1, ReadAre
<1>3. Holds(Got)
  BY <1>1, <1>2, EverythingHeld
<1> QED
  BY <1>2, <1>3

LEMMA WInvDone == WInv => AllBatchesRun
<1> DEFINE All == {e \in ToSet(Edges) : job.tool = "text" => Valid(e[1]) /\ Valid(e[2])}
<1> SUFFICES ASSUME WInv, phase = "done"
             PROVE  /\ Holds(All)
                    /\ IF job.tool = "large" THEN batch_number = job.num_batches
                                             ELSE batch_number >= Cardinality(BlankLines)
  BY DEF AllBatchesRun
<1>1. /\ TypeOK /\ Content /\ CopyInv /\ Phases /\ Counting /\ Divided
      /\ batch = NoLists /\ todo = {} /\ job \in Jobs
  BY DEF WInv, Phases, TypeOK
<1>2. job.tool \in {"large", "text"} /\ NumEdges \in Nat
  BY <1>1, JobIs
<1>3. Got = EdgesRead /\ EdgesRead \subseteq Nat \X Nat
  BY <1>1, ReadAre
<1>4. Holds(EdgesRead)
  <2>1. Holds(Got)
    BY <1>1, <1>3, EverythingHeld
  <2> QED
    BY <1>3, <2>1
<1>5. CASE job.tool = "large"
  <2>1. batch_number = job.num_batches
    BY <1>1, <1>5 DEF Phases
  <2>2. EndEdge(batch_number) = NumEdges
    BY <1>1, <2>1, EndEdgeIs
  <2>3. EdgesRead = {Edges[i] : i \in 1 .. NumEdges}
    BY <1>5, <2>2 DEF EdgesRead
  <2>4. EdgesRead = All
    BY <1>5, <2>3, EdgesAre
  <2> QED
    BY <1>4, <1>5, <2>1, <2>4
<1>6. CASE job.tool = "text"
  <2>1. eof /\ line = Len(text) + 1 /\ Len(text) \in Nat
    BY <1>1, <1>6 DEF Phases, TypeOK
  <2>2. line - 1 = Len(text)
    BY <2>1
  <2>3. EdgesRead = All
    <3>1. ASSUME NEW e \in All PROVE \E l \in LinesRead : l.src = e[1] /\ e[2] \in ToSet(l.dsts)
      <4>1. e = <<e[1], e[2]>> /\ e[1] \in Nat /\ e[2] \in Nat /\ e \in ToSet(Edges)
        BY EdgesAre
      <4>2. PICK i \in 1 .. Len(text) : LineHas(text[i], e[1], e[2])
        <5>1. \A v, n \in Nat : <<v, n>> \in ToSet(Edges)
                 => \E i \in 1 .. Len(text) : LineHas(text[i], v, n)
          BY <1>1, <1>6 DEF Divided, Presents
        <5> QED
          BY <4>1, <5>1
      <4>3. text[i] \in LinesRead
        BY <2>2 DEF LinesRead
      <4> QED
        BY <4>2, <4>3 DEF LineHas
    <3> QED
      BY <1>6, <3>1 DEF EdgesRead
  <2>4. batch_number >= Cardinality(BlankLines)
    <3> DEFINE b == Cardinality(BlankLines)
               e == Cardinality(Ends(Len(text)))
    <3>1. batch_number + 0 = e + 1
      BY <1>1, <1>6, <2>1, <2>2 DEF Counting, Pending
    <3>2. IsFiniteSet(Ends(Len(text))) /\ e \in Nat
      BY <2>1, EndsAre
    <3>3. BlankLines \subseteq Ends(Len(text))
      BY DEF BlankLines, Blank, Ends, EndsBatch
    <3>4. IsFiniteSet(BlankLines) /\ b <= e
      BY <3>2, <3>3, FS_Subset
    <3>5. b \in Nat
      BY <3>4, FS_CardinalityType
    <3>6. batch_number \in Int
      BY <1>1 DEF TypeOK
    <3> HIDE DEF b, e
    <3>7. batch_number >= b
      BY <3>1, <3>2, <3>4, <3>5, <3>6
    <3> QED
      BY <3>7 DEF b
  <2> QED
    BY <1>4, <1>6, <2>3, <2>4
<1> QED
  BY <1>2, <1>5, <1>6

\* The invariant of a run of the workload.
LEMMA WorkloadInvariant == Spec => []WInv
<1> QED
  BY WInit, WNext, PTL DEF Spec

\* Types of a run, of the search in it as well: vertices of a batch are
\* numbers, neighbours are vertices, and the counters stay in their range.
THEOREM WorkloadTypeCorrect == Spec => []TypeOK
<1>1. WInv => TypeOK
  BY DEF WInv
<1> QED
  BY <1>1, WorkloadInvariant, PTL

\* Each search in a run finds the distances in the graph of that batch,
\* although nothing of it is synchronised (bfs.hpp:51).
THEOREM WorkloadLevelsCorrect == Spec => []LevelsExact
<1>1. WInv => LevelsExact
  BY DEF WInv, SearchInv
<1> QED
  BY <1>1, WorkloadInvariant, PTL

\* An algorithm always meets the edges of all batches so far, each once:
\* for any input, number of batches and format.
THEOREM BatchesIngestedCorrect == Spec => []BatchesIngested
<1> QED
  BY WInvIngested, WorkloadInvariant, PTL

\* No edge is lost between batches, and no execution point is passed by: for
\* any input, cut in any way, with any sources out of range.
THEOREM AllBatchesRunCorrect == Spec => []AllBatchesRun
<1> QED
  BY WInvDone, WorkloadInvariant, PTL

\* Triangles are counted correctly in all formats that sort: CSR does not,
\* and is the one that may count too few (csr.hpp:63-66).
THEOREM TrianglesCorrect == Spec => [](job.format # "csr" => TrianglesExact)
<1>1. WInv => (job.format # "csr" => TrianglesExact)
  BY DEF WInv
<1> QED
  BY <1>1, WorkloadInvariant, PTL
=============================================================================
