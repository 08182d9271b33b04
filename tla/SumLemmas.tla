----------------------------- MODULE SumLemmas -----------------------------
(***************************************************************************)
(* What the proofs about the monitors and the frame metrics need to know   *)
(* of finite sets: least and greatest elements, and sums.  Each is by      *)
(* induction, in the form of a smallest counterexample.                    *)
(***************************************************************************)
EXTENDS Sums, FiniteSetTheorems, TLAPS

\* A set of natural numbers that is not empty has a least element.
LEMMA LeastElement ==
    ASSUME NEW S \in SUBSET Nat, S # {}
    PROVE  \E m \in S : \A n \in S : m <= n
  <1> DEFINE T == {0..n : n \in S}
  <1>1. T \subseteq FiniteSubsetsOf(Nat)
    <2>1. \A n \in Nat : 0..n \in SUBSET Nat /\ IsFiniteSet(0..n)
      BY FS_Interval
    <2> QED BY <2>1 DEF FiniteSubsetsOf
  <1>2. T # {}
    OBVIOUS
  <1>3. IsWellFoundedOn(StrictSubsetOrdering(Nat), FiniteSubsetsOf(Nat))
    BY FS_StrictSubsetOrderingWellFounded
  <1> HIDE DEF T
  <1>4. PICK least \in T : \A other \in T : ~(<<other, least>> \in StrictSubsetOrdering(Nat))
    BY <1>1, <1>2, <1>3, WFMin
  <1> USE DEF T
  <1>5. PICK m \in S : least = 0..m
    OBVIOUS
  <1>6. SUFFICES ASSUME NEW n \in S, n < m PROVE FALSE
    OBVIOUS
  <1>7. 0..n \subseteq 0..m /\ 0..n # 0..m
    <2>1. m \in 0..m /\ ~(m \in 0..n)
      BY <1>6
    <2> QED BY <1>6, <2>1
  <1>8. <<0..n, 0..m>> \in StrictSubsetOrdering(Nat)
    BY <1>7 DEF StrictSubsetOrdering
  <1> QED BY <1>4, <1>5, <1>8

\* A finite set of integers that is not empty has a greatest element: one with
\* the fewest elements above it.
LEMMA GreatestElement ==
    ASSUME NEW S \in SUBSET Int, IsFiniteSet(S), S # {}
    PROVE  \E x \in S : \A y \in S : x >= y
  <1> DEFINE above(x) == {y \in S : y > x}
             sizes    == {Cardinality(above(x)) : x \in S}
  <1>1. \A x \in S : above(x) \in SUBSET S
    OBVIOUS
  <1>2. \A x \in S : IsFiniteSet(above(x)) /\ Cardinality(above(x)) \in Nat
    BY <1>1, FS_Subset, FS_CardinalityType
  <1>3. sizes \in SUBSET Nat /\ sizes # {}
    BY <1>2
  <1>4. PICK m \in sizes : \A n \in sizes : m <= n
    <2> HIDE DEF sizes
    <2> QED BY <1>3, LeastElement
  <1>5. PICK x \in S : m = Cardinality(above(x))
    OBVIOUS
  <1>6. SUFFICES ASSUME NEW y \in S, y > x PROVE FALSE
    OBVIOUS
  <1>7. above(y) \in SUBSET above(x) /\ y \in above(x) /\ y \notin above(y)
    <2>1. \A z \in above(y) : z \in above(x)
      BY <1>6
    <2>2. y \in above(x) /\ y \notin above(y)
      BY <1>6
    <2> HIDE DEF above
    <2> QED BY <2>1, <2>2
  <1>8. Cardinality(above(y)) <= Cardinality(above(x)) /\ Cardinality(above(y)) # Cardinality(above(x))
    <2> HIDE DEF above
    <2>1. IsFiniteSet(above(x))
      BY <1>2
    <2> QED BY <1>7, <2>1, FS_Subset
  <1>9. Cardinality(above(x)) <= Cardinality(above(y))
    BY <1>4, <1>5
  <1> QED BY <1>2, <1>8, <1>9

\* Min is that element,
LEMMA MinIn ==
    ASSUME NEW S \in SUBSET Nat, S # {}
    PROVE  Min(S) \in S /\ \A n \in S : Min(S) <= n
  <1>1. \E m \in S : \A n \in S : m <= n
    BY LeastElement
  <1> QED BY <1>1 DEF Min

\* and Max this one.
LEMMA MaxIn ==
    ASSUME NEW S \in SUBSET Int, IsFiniteSet(S), S # {}
    PROVE  Max(S) \in S /\ \A y \in S : Max(S) >= y
  <1>1. \E x \in S : \A y \in S : x >= y
    BY GreatestElement
  <1> QED BY <1>1 DEF Max

\* Among the subsets of a finite set there is one without any smaller.
LEMMA LeastSubset ==
    ASSUME NEW U, IsFiniteSet(U), NEW bad \in SUBSET SUBSET U, bad # {}
    PROVE  \E s \in bad : \A t \in SUBSET s : t # s => t \notin bad
  <1>1. bad \subseteq FiniteSubsetsOf(U)
    BY FS_FiniteSubsetsOfFinite
  <1>2. IsWellFoundedOn(StrictSubsetOrdering(U), FiniteSubsetsOf(U))
    BY FS_StrictSubsetOrderingWellFounded
  <1>3. PICK s \in bad : \A t \in bad : ~(<<t, s>> \in StrictSubsetOrdering(U))
    BY <1>1, <1>2, WFMin
  <1>4. ASSUME NEW t \in SUBSET s, t # s, t \in bad PROVE FALSE
    <2>1. <<t, s>> \in StrictSubsetOrdering(U)
      BY <1>4 DEF StrictSubsetOrdering
    <2> QED BY <1>3, <1>4, <2>1
  <1> QED BY <1>4

\* The element that is taken out first; the recursion of the fold, as a
\* function of all subsets and at each subset of D.
Pick(s) == CHOOSE c \in s : TRUE
Rest(s) == s \ {Pick(s)}
IsSum(g, f, S) == g = [s \in SUBSET S |-> IF s = {} THEN 0 ELSE f[Pick(s)] + g[Rest(s)]]
Sums(g, f, D) == \A s \in SUBSET D : g[s] = IF s = {} THEN 0 ELSE f[Pick(s)] + g[Rest(s)]

\* SumOf is the community modules' fold, which is a function chosen for its recursion.
LEMMA SumUnfold ==
    ASSUME NEW f, NEW S
    PROVE  SumOf(f, S) = (CHOOSE g : IsSum(g, f, S))[S]
  BY DEF SumOf, MapThenSumSet, MapThenFoldSet, IsSum, Pick, Rest

\* A function chosen for S has the recursion on every subset of S.
LEMMA IsSumSums ==
    ASSUME NEW g, NEW f, NEW S, IsSum(g, f, S), NEW D \in SUBSET S
    PROVE  Sums(g, f, D)
  <1> SUFFICES ASSUME NEW s \in SUBSET D PROVE g[s] = IF s = {} THEN 0 ELSE f[Pick(s)] + g[Rest(s)]
    BY DEF Sums
  <1> DEFINE h == [t \in SUBSET S |-> IF t = {} THEN 0 ELSE f[Pick(t)] + g[Rest(t)]]
  <1>1. g = h /\ s \in SUBSET S
    BY DEF IsSum
  <1>2. h[s] = IF s = {} THEN 0 ELSE f[Pick(s)] + g[Rest(s)]
    BY <1>1
  <1> HIDE DEF h
  <1> QED BY <1>1, <1>2

\* What is left after a pick is a smaller set.
LEMMA RestSmaller ==
    ASSUME NEW s, s # {}
    PROVE  Pick(s) \in s /\ Rest(s) \in SUBSET s /\ Rest(s) # s
  BY DEF Pick, Rest

\* The recursion has one solution,
LEMMA SumsUnique ==
    ASSUME NEW D, IsFiniteSet(D), NEW f, NEW g, NEW h, Sums(g, f, D), Sums(h, f, D)
    PROVE  g[D] = h[D]
  <1> DEFINE bad == {s \in SUBSET D : g[s] # h[s]}
  <1> SUFFICES ASSUME bad # {} PROVE FALSE
    OBVIOUS
  <1>1. PICK s \in bad : \A t \in SUBSET s : t # s => t \notin bad
    <2>1. bad \in SUBSET SUBSET D
      OBVIOUS
    <2> HIDE DEF bad
    <2> QED BY <2>1, LeastSubset
  <1>2. /\ g[s] = IF s = {} THEN 0 ELSE f[Pick(s)] + g[Rest(s)]
        /\ h[s] = IF s = {} THEN 0 ELSE f[Pick(s)] + h[Rest(s)]
    BY DEF Sums
  <1>3. s # {}
    BY <1>2
  <1>4. Rest(s) \in SUBSET D /\ Rest(s) \notin bad
    BY <1>1, <1>3, RestSmaller
  <1>5. g[Rest(s)] = h[Rest(s)]
    BY <1>4
  <1> QED BY <1>2, <1>3, <1>5

\* and it has one.
LEMMA SumExists ==
    ASSUME NEW D, IsFiniteSet(D), NEW f
    PROVE  \E g : IsSum(g, f, D)
  <1> DEFINE bad == {s \in SUBSET D : ~\E g : IsSum(g, f, s)}
             G(t) == CHOOSE g : IsSum(g, f, t)
  <1> SUFFICES ASSUME bad # {} PROVE FALSE
    OBVIOUS
  <1>1. PICK s \in bad : \A t \in SUBSET s : t # s => t \notin bad
    <2>1. bad \in SUBSET SUBSET D
      OBVIOUS
    <2> HIDE DEF bad
    <2> QED BY <2>1, LeastSubset
  <1>2. s \in SUBSET D /\ ~\E g : IsSum(g, f, s)
    OBVIOUS
  <1>3. ASSUME NEW t \in SUBSET s, t # s PROVE IsSum(G(t), f, t)
    BY <1>1, <1>2, <1>3
  <1> HIDE DEF bad, G
  <1> DEFINE g == [t \in SUBSET s |-> IF t = {} THEN 0 ELSE f[Pick(t)] + G(Rest(t))[Rest(t)]]
  <1>4. ASSUME NEW t \in SUBSET s, t # s PROVE g[t] = G(t)[t]
    <2>1. Sums(G(t), f, t)
      BY <1>3, <1>4, IsSumSums
    <2>2. G(t)[t] = IF t = {} THEN 0 ELSE f[Pick(t)] + G(t)[Rest(t)]
      BY <2>1 DEF Sums
    <2>3. g[t] = IF t = {} THEN 0 ELSE f[Pick(t)] + G(Rest(t))[Rest(t)]
      OBVIOUS
    <2>4. CASE t = {}
      BY <2>2, <2>3, <2>4
    <2>5. CASE t # {}
      <3>1. Rest(t) \in SUBSET t /\ Rest(t) \in SUBSET s /\ Rest(t) # s
        BY <1>4, <2>5, RestSmaller
      <3>2. IsSum(G(t), f, t) /\ IsSum(G(Rest(t)), f, Rest(t))
        BY <1>3, <1>4, <3>1
      <3>3. Sums(G(t), f, Rest(t)) /\ Sums(G(Rest(t)), f, Rest(t))
        BY <3>1, <3>2, IsSumSums
      <3>4. IsFiniteSet(Rest(t))
        BY <1>2, <3>1, FS_Subset
      <3>5. G(t)[Rest(t)] = G(Rest(t))[Rest(t)]
        BY <3>3, <3>4, SumsUnique
      <3> HIDE DEF g
      <3> QED BY <2>2, <2>3, <2>5, <3>5
    <2> QED BY <2>4, <2>5
  <1>5. IsSum(g, f, s)
    <2> DEFINE h == [t \in SUBSET s |-> IF t = {} THEN 0 ELSE f[Pick(t)] + g[Rest(t)]]
    <2>1. ASSUME NEW t \in SUBSET s PROVE g[t] = h[t]
      <3>1. CASE t = {}
        BY <3>1
      <3>2. CASE t # {}
        <4>1. Rest(t) \in SUBSET s /\ Rest(t) # s
          BY <3>2, RestSmaller
        <4>2. g[Rest(t)] = G(Rest(t))[Rest(t)]
          BY <1>4, <4>1
        <4>3. g[t] = f[Pick(t)] + G(Rest(t))[Rest(t)]
          BY <3>2
        <4>4. h[t] = f[Pick(t)] + g[Rest(t)]
          BY <3>2
        <4> HIDE DEF g, h
        <4> QED BY <4>2, <4>3, <4>4
      <3> QED BY <3>1, <3>2
    <2>2. g = h
      BY <2>1
    <2> HIDE DEF g
    <2> QED BY <2>2 DEF IsSum
  <1> QED BY <1>2, <1>5

\* So SumOf has the recursion its fold stands for.
LEMMA SumRecursion ==
    ASSUME NEW S, IsFiniteSet(S), NEW f
    PROVE  SumOf(f, S) = IF S = {} THEN 0 ELSE f[Pick(S)] + SumOf(f, Rest(S))
  <1> DEFINE G(t) == CHOOSE g : IsSum(g, f, t)
  <1>1. \A t \in SUBSET S : SumOf(f, t) = G(t)[t] /\ IsSum(G(t), f, t)
    <2> SUFFICES ASSUME NEW t \in SUBSET S PROVE SumOf(f, t) = G(t)[t] /\ IsSum(G(t), f, t)
      OBVIOUS
    <2>1. \E g : IsSum(g, f, t)
      BY SumExists, FS_Subset
    <2> QED BY <2>1, SumUnfold
  <1> HIDE DEF G
  <1>2. G(S)[S] = IF S = {} THEN 0 ELSE f[Pick(S)] + G(S)[Rest(S)]
    <2>1. Sums(G(S), f, S)
      BY <1>1, IsSumSums
    <2> QED BY <2>1 DEF Sums
  <1>3. CASE S = {}
    BY <1>1, <1>2, <1>3
  <1>4. CASE S # {}
    <2>1. Rest(S) \in SUBSET S
      BY <1>4, RestSmaller
    <2>2. Sums(G(S), f, Rest(S)) /\ Sums(G(Rest(S)), f, Rest(S))
      BY <1>1, <2>1, IsSumSums
    <2>3. G(S)[Rest(S)] = G(Rest(S))[Rest(S)]
      BY <2>1, <2>2, FS_Subset, SumsUnique
    <2> QED BY <1>1, <1>2, <1>4, <2>1, <2>3
  <1> QED BY <1>3, <1>4

\* A sum of natural numbers is one.
LEMMA SumType ==
    ASSUME NEW S, IsFiniteSet(S), NEW f, \A c \in S : f[c] \in Nat
    PROVE  SumOf(f, S) \in Nat
  <1> DEFINE bad == {s \in SUBSET S : SumOf(f, s) \notin Nat}
  <1> SUFFICES ASSUME bad # {} PROVE FALSE
    OBVIOUS
  <1>1. PICK s \in bad : \A t \in SUBSET s : t # s => t \notin bad
    <2>1. bad \in SUBSET SUBSET S
      OBVIOUS
    <2> HIDE DEF bad
    <2> QED BY <2>1, LeastSubset
  <1>2. SumOf(f, s) = IF s = {} THEN 0 ELSE f[Pick(s)] + SumOf(f, Rest(s))
    BY SumRecursion, FS_Subset
  <1>3. s # {}
    BY <1>2
  <1>4. SumOf(f, Rest(s)) \in Nat /\ Pick(s) \in S
    BY <1>1, <1>3, RestSmaller
  <1> QED BY <1>2, <1>3, <1>4

\* Any element may be taken out first.
LEMMA SumTakeOut ==
    ASSUME NEW S, IsFiniteSet(S), NEW f, \A c \in S : f[c] \in Nat, NEW x \in S
    PROVE  SumOf(f, S) = f[x] + SumOf(f, S \ {x})
  <1> DEFINE bad == {s \in SUBSET S : \E y \in s : SumOf(f, s) # f[y] + SumOf(f, s \ {y})}
  <1> SUFFICES ASSUME bad # {} PROVE FALSE
    OBVIOUS
  <1>1. PICK s \in bad : \A t \in SUBSET s : t # s => t \notin bad
    <2>1. bad \in SUBSET SUBSET S
      OBVIOUS
    <2> HIDE DEF bad
    <2> QED BY <2>1, LeastSubset
  <1>2. PICK y \in s : SumOf(f, s) # f[y] + SumOf(f, s \ {y})
    OBVIOUS
  <1> DEFINE p == Pick(s)
             r == Rest(s)
             q == s \ {y}
             b == (s \ {y}) \ {p}
  <1>3. s \in SUBSET S /\ p \in s /\ r = s \ {p} /\ r # s /\ q # s
    BY RestSmaller DEF Rest
  <1>4. SumOf(f, s) = f[p] + SumOf(f, r)
    BY SumRecursion, FS_Subset, <1>3
  <1>5. p # y
    BY <1>2, <1>3, <1>4
  <1>6. r \notin bad /\ q \notin bad /\ r \in SUBSET S /\ q \in SUBSET S
    BY <1>1, <1>3
  <1>7. SumOf(f, r) = f[y] + SumOf(f, r \ {y})
    BY <1>3, <1>5, <1>6
  <1>8. SumOf(f, q) = f[p] + SumOf(f, q \ {p})
    BY <1>3, <1>5, <1>6
  <1>9. r \ {y} = b /\ q \ {p} = b
    BY <1>3
  <1>10. f[p] \in Nat /\ f[y] \in Nat /\ SumOf(f, b) \in Nat
    BY <1>3, SumType, FS_Subset
  <1> HIDE DEF bad, p, r, q, b
  <1>11. SumOf(f, s) # f[y] + SumOf(f, q)
    BY <1>2 DEF q
  <1> QED BY <1>4, <1>7, <1>8, <1>9, <1>10, <1>11

\* Sums grow with their terms,
LEMMA SumMonotone ==
    ASSUME NEW S, IsFiniteSet(S), NEW f, NEW g, \A c \in S : f[c] \in Nat /\ g[c] \in Nat /\ f[c] <= g[c]
    PROVE  SumOf(f, S) <= SumOf(g, S)
  <1> DEFINE bad == {s \in SUBSET S : ~(SumOf(f, s) <= SumOf(g, s))}
  <1> SUFFICES ASSUME bad # {} PROVE FALSE
    OBVIOUS
  <1>1. PICK s \in bad : \A t \in SUBSET s : t # s => t \notin bad
    <2>1. bad \in SUBSET SUBSET S
      OBVIOUS
    <2> HIDE DEF bad
    <2> QED BY <2>1, LeastSubset
  <1>2. /\ SumOf(f, s) = IF s = {} THEN 0 ELSE f[Pick(s)] + SumOf(f, Rest(s))
        /\ SumOf(g, s) = IF s = {} THEN 0 ELSE g[Pick(s)] + SumOf(g, Rest(s))
    BY SumRecursion, FS_Subset
  <1>3. s # {}
    BY <1>2
  <1>4. SumOf(f, Rest(s)) <= SumOf(g, Rest(s)) /\ Pick(s) \in S /\ Rest(s) \in SUBSET S
    BY <1>1, <1>3, RestSmaller
  <1>5. SumOf(f, Rest(s)) \in Nat /\ SumOf(g, Rest(s)) \in Nat
    BY <1>4, SumType, FS_Subset
  <1>6. ~(SumOf(f, s) <= SumOf(g, s))
    OBVIOUS
  <1> HIDE DEF bad
  <1> QED BY <1>2, <1>3, <1>4, <1>5, <1>6

\* Sums of equal terms are equal;
LEMMA SumSame ==
    ASSUME NEW S, IsFiniteSet(S), NEW f, NEW g, \A c \in S : f[c] \in Nat /\ f[c] = g[c]
    PROVE  SumOf(f, S) = SumOf(g, S)
  <1>1. SumOf(f, S) <= SumOf(g, S) /\ SumOf(g, S) <= SumOf(f, S)
    BY SumMonotone
  <1>2. SumOf(f, S) \in Nat /\ SumOf(g, S) \in Nat
    BY SumType
  <1> QED BY <1>1, <1>2

\* and with their set,
LEMMA SumSubset ==
    ASSUME NEW S, IsFiniteSet(S), NEW f, \A c \in S : f[c] \in Nat, NEW T \in SUBSET S
    PROVE  SumOf(f, T) <= SumOf(f, S)
  <1> DEFINE bad == {s \in SUBSET S : T \subseteq s /\ ~(SumOf(f, T) <= SumOf(f, s))}
  <1> SUFFICES ASSUME bad # {} PROVE FALSE
    OBVIOUS
  <1>1. PICK s \in bad : \A t \in SUBSET s : t # s => t \notin bad
    <2>1. bad \in SUBSET SUBSET S
      OBVIOUS
    <2> HIDE DEF bad
    <2> QED BY <2>1, LeastSubset
  <1>2. s \in SUBSET S /\ T \subseteq s /\ ~(SumOf(f, T) <= SumOf(f, s))
    OBVIOUS
  <1>3. SumOf(f, T) \in Nat
    BY SumType, FS_Subset
  <1>4. PICK y \in s : y \notin T
    BY <1>2, <1>3
  <1>5. SumOf(f, s) = f[y] + SumOf(f, s \ {y})
    BY <1>2, SumTakeOut, FS_Subset
  <1>6. s \ {y} \notin bad /\ T \subseteq s \ {y}
    BY <1>1, <1>2, <1>4
  <1>7. SumOf(f, T) <= SumOf(f, s \ {y})
    BY <1>2, <1>6
  <1>8. SumOf(f, s \ {y}) \in Nat /\ f[y] \in Nat
    BY <1>2, SumType, FS_Subset
  <1> HIDE DEF bad
  <1> QED BY <1>2, <1>3, <1>5, <1>7, <1>8

\* by no more than one for one term that grew by one.
LEMMA SumOneMore ==
    ASSUME NEW S, IsFiniteSet(S), NEW f, NEW g, NEW w,
           \A c \in S : f[c] \in Nat /\ g[c] \in Nat /\ (c # w => g[c] = f[c]) /\ g[c] <= f[c] + 1
    PROVE  SumOf(g, S) <= SumOf(f, S) + 1
  <1>1. CASE w \in S
    <2>1. SumOf(g, S) = g[w] + SumOf(g, S \ {w}) /\ SumOf(f, S) = f[w] + SumOf(f, S \ {w})
      BY <1>1, SumTakeOut
    <2>2. IsFiniteSet(S \ {w})
      BY FS_Subset
    <2>3. SumOf(f, S \ {w}) = SumOf(g, S \ {w}) /\ SumOf(f, S \ {w}) \in Nat
      BY <2>2, SumSame, SumType
    <2> QED BY <1>1, <2>1, <2>3
  <1>2. CASE w \notin S
    <2>1. SumOf(f, S) = SumOf(g, S) /\ SumOf(f, S) \in Nat
      BY <1>2, SumSame, SumType
    <2> QED BY <2>1
  <1> QED BY <1>1, <1>2

\* A pick takes one element.
LEMMA RestCardinality ==
    ASSUME NEW s, IsFiniteSet(s), s # {}
    PROVE  Cardinality(s) = Cardinality(Rest(s)) + 1 /\ Cardinality(Rest(s)) \in Nat
  <1>1. Pick(s) \in s
    BY RestSmaller
  <1>2. IsFiniteSet(s \ {Pick(s)}) /\ Cardinality(s \ {Pick(s)}) = Cardinality(s) - 1
    BY <1>1, FS_RemoveElement
  <1>3. Cardinality(s) \in Nat /\ Cardinality(s \ {Pick(s)}) \in Nat
    BY <1>2, FS_CardinalityType
  <1> QED BY <1>2, <1>3 DEF Rest

\* A sum of terms that are all at least b, or all at most b, once each is taken
\* n times.
LEMMA SumAtLeast ==
    ASSUME NEW S, IsFiniteSet(S), NEW f, NEW n \in Nat, NEW b \in Nat,
           \A c \in S : f[c] \in Nat /\ n * f[c] >= b
    PROVE  n * SumOf(f, S) >= b * Cardinality(S)
  <1> DEFINE bad == {s \in SUBSET S : ~(n * SumOf(f, s) >= b * Cardinality(s))}
  <1> SUFFICES ASSUME bad # {} PROVE FALSE
    OBVIOUS
  <1>1. PICK s \in bad : \A t \in SUBSET s : t # s => t \notin bad
    <2>1. bad \in SUBSET SUBSET S
      OBVIOUS
    <2> HIDE DEF bad
    <2> QED BY <2>1, LeastSubset
  <1>2. s \in SUBSET S /\ ~(n * SumOf(f, s) >= b * Cardinality(s)) /\ IsFiniteSet(s)
    BY FS_Subset
  <1>3. SumOf(f, s) = IF s = {} THEN 0 ELSE f[Pick(s)] + SumOf(f, Rest(s))
    BY <1>2, SumRecursion
  <1>4. s # {}
    BY <1>2, <1>3, FS_EmptySet
  <1>5. Rest(s) \notin bad /\ Pick(s) \in s /\ Rest(s) \in SUBSET S /\ IsFiniteSet(Rest(s))
    BY <1>1, <1>2, <1>4, RestSmaller, FS_Subset
  <1>6. Cardinality(s) = Cardinality(Rest(s)) + 1 /\ Cardinality(Rest(s)) \in Nat
    BY <1>2, <1>4, RestCardinality
  <1>7. SumOf(f, Rest(s)) \in Nat /\ n * SumOf(f, Rest(s)) >= b * Cardinality(Rest(s))
    BY <1>5, SumType
  <1> HIDE DEF bad
  <1>8. ASSUME NEW x \in Nat, NEW r \in Nat, NEW k \in Nat, n * x >= b, n * r >= b * k
        PROVE  n * (x + r) >= b * (k + 1)
    <2>1. n * (x + r) = n * x + n * r /\ b * (k + 1) = b * k + b
      OBVIOUS
    <2>2. n * x \in Nat /\ n * r \in Nat /\ b * k \in Nat
      OBVIOUS
    <2> QED BY <1>8, <2>1, <2>2
  <1>9. f[Pick(s)] \in Nat /\ n * f[Pick(s)] >= b
    BY <1>2, <1>5
  <1>10. n * (f[Pick(s)] + SumOf(f, Rest(s))) >= b * (Cardinality(Rest(s)) + 1)
    BY <1>6, <1>7, <1>8, <1>9
  <1> QED BY <1>2, <1>3, <1>4, <1>6, <1>10

\* The other bound.
LEMMA SumAtMost ==
    ASSUME NEW S, IsFiniteSet(S), NEW f, NEW b \in Nat, \A c \in S : f[c] \in Nat /\ f[c] <= b
    PROVE  SumOf(f, S) <= b * Cardinality(S)
  <1> DEFINE bad == {s \in SUBSET S : ~(SumOf(f, s) <= b * Cardinality(s))}
  <1> SUFFICES ASSUME bad # {} PROVE FALSE
    OBVIOUS
  <1>1. PICK s \in bad : \A t \in SUBSET s : t # s => t \notin bad
    <2>1. bad \in SUBSET SUBSET S
      OBVIOUS
    <2> HIDE DEF bad
    <2> QED BY <2>1, LeastSubset
  <1>2. s \in SUBSET S /\ ~(SumOf(f, s) <= b * Cardinality(s)) /\ IsFiniteSet(s)
    BY FS_Subset
  <1>3. SumOf(f, s) = IF s = {} THEN 0 ELSE f[Pick(s)] + SumOf(f, Rest(s))
    BY <1>2, SumRecursion
  <1>4. s # {}
    BY <1>2, <1>3, FS_EmptySet
  <1>5. Rest(s) \notin bad /\ Pick(s) \in s /\ Rest(s) \in SUBSET S /\ IsFiniteSet(Rest(s))
    BY <1>1, <1>2, <1>4, RestSmaller, FS_Subset
  <1>6. Cardinality(s) = Cardinality(Rest(s)) + 1 /\ Cardinality(Rest(s)) \in Nat
    BY <1>2, <1>4, RestCardinality
  <1>7. SumOf(f, Rest(s)) \in Nat /\ SumOf(f, Rest(s)) <= b * Cardinality(Rest(s))
    BY <1>5, SumType
  <1> HIDE DEF bad
  <1>8. ASSUME NEW x \in Nat, NEW r \in Nat, NEW k \in Nat, x <= b, r <= b * k
        PROVE  x + r <= b * (k + 1)
    <2>1. b * (k + 1) = b * k + b /\ b * k \in Nat
      OBVIOUS
    <2> QED BY <1>8, <2>1
  <1>9. f[Pick(s)] \in Nat /\ f[Pick(s)] <= b
    BY <1>2, <1>5
  <1> QED BY <1>2, <1>3, <1>4, <1>6, <1>7, <1>8, <1>9
============================================================================
