------------------------------ MODULE SumTheorems ------------------------------
(***************************************************************************)
(* Facts about finite sums, SumFunctionOnSet of the community modules, that*)
(* the proofs about counts, plans and averages share.                      *)
(*                                                                         *)
(* The library's induction theorems take a predicate as a parameter, which *)
(* the provers cannot instantiate.  Both principles are stated here of the *)
(* set of the numbers, or the sets, that have the property: such a set is  *)
(* an ordinary value, and a proof by induction names it.                   *)
(***************************************************************************)
EXTENDS Integers, FiniteSets, FiniteSetsExt, FiniteSetTheorems, NaturalsInduction, TLAPS

\* What holds of 0, and of the successor of each number of which it holds, holds of every number.
LEMMA NumberInduction ==
    ASSUME NEW G, 0 \in G, \A n \in Nat : n \in G => n + 1 \in G
    PROVE  Nat \subseteq G
<1> SUFFICES ASSUME Nat \ G # {} PROVE FALSE
  OBVIOUS
<1>1. PICK m \in Nat \ G : \A n \in Nat \ G : ~ (<<n, m>> \in OpToRel(<, Nat))
  BY NatLessThanWellFounded, WFMin, Nat \ G \subseteq Nat
<1>2. m \in Nat /\ m \notin G /\ m # 0
  OBVIOUS
<1>3. m - 1 \in Nat /\ m - 1 < m /\ (m - 1) + 1 = m
  BY <1>2
<1>4. m - 1 \in G
  BY <1>1, <1>2, <1>3 DEF OpToRel
<1> QED
  BY <1>2, <1>3, <1>4

\* What holds of the empty set, and with a subset of S also when one element more is added, holds
\* of every subset of a finite S.
LEMMA SubsetInduction ==
    ASSUME NEW S, IsFiniteSet(S), NEW G, {} \in G,
           \A T \in SUBSET S : \A x \in S \ T : T \in G => T \union {x} \in G
    PROVE  SUBSET S \subseteq G
<1> DEFINE Sizes == {n \in Nat : \A T \in SUBSET S : Cardinality(T) = n => T \in G}
<1>1. 0 \in Sizes
  BY FS_EmptySet, FS_Subset
<1>2. ASSUME NEW n \in Nat, n \in Sizes PROVE n + 1 \in Sizes
  <2> SUFFICES ASSUME NEW T \in SUBSET S, Cardinality(T) = n + 1 PROVE T \in G
    OBVIOUS
  <2>1. IsFiniteSet(T)
    BY FS_Subset
  <2>2. T # {}
    BY <2>1, FS_EmptySet
  <2>3. PICK x \in T : TRUE
    BY <2>2
  <2>4. Cardinality(T \ {x}) = n
    <3>1. Cardinality(T \ {x}) = Cardinality(T) - 1
      BY <2>1, <2>3, FS_RemoveElement
    <3> QED
      BY <3>1
  <2>5. T \ {x} \in G
    BY <1>2, <2>4
  <2>6. T = (T \ {x}) \union {x} /\ x \in S \ (T \ {x}) /\ T \ {x} \in SUBSET S
    BY <2>3
  <2> QED
    BY <2>5, <2>6
<1> HIDE DEF Sizes
<1>3. Nat \subseteq Sizes
  BY <1>1, <1>2, NumberInduction
<1> USE DEF Sizes
<1> SUFFICES ASSUME NEW T \in SUBSET S PROVE T \in G
  OBVIOUS
<1>4. Cardinality(T) \in Nat
  BY FS_Subset, FS_CardinalityType
<1> QED
  BY <1>3, <1>4

-------------------------------------------------------------------------------
(* The recursive function by which a sum is computed. *)

\* The element that is added next.
Picked(T) == CHOOSE x \in T : TRUE

\* One step of the recursion.
SumStep(f, h, T) == IF T = {} THEN 0 ELSE f[Picked(T)] + h[T \ {Picked(T)}]

IsTable(h, f, S) == \A T \in SUBSET S : h[T] = SumStep(f, h, T)

\* The recursion has a solution over the subsets of a finite set.
LEMMA TableExists ==
    ASSUME NEW S, IsFiniteSet(S), NEW f
    PROVE  \E h : h = [T \in SUBSET S |-> SumStep(f, h, T)]
<1> DEFINE Good(h, n) == h = [T \in SUBSET S |-> h[T]]
                         /\ \A T \in SUBSET S : Cardinality(T) <= n => h[T] = SumStep(f, h, T)
           Sizes == {n \in Nat : \E h : Good(h, n)}
<1>0. \A T \in SUBSET S : IsFiniteSet(T) /\ Cardinality(T) \in Nat
  BY FS_Subset, FS_CardinalityType
<1>1. 0 \in Sizes
  <2> DEFINE h == [T \in SUBSET S |-> 0]
  <2>1. ASSUME NEW T \in SUBSET S, Cardinality(T) <= 0 PROVE h[T] = SumStep(f, h, T)
    <3>1. T = {}
      BY <1>0, <2>1, FS_EmptySet
    <3> QED
      BY <3>1 DEF SumStep
  <2>2. h = [T \in SUBSET S |-> h[T]]
    OBVIOUS
  <2> HIDE DEF h
  <2>3. Good(h, 0)
    BY <2>1, <2>2
  <2> QED
    BY <2>3
<1>2. ASSUME NEW n \in Nat, n \in Sizes PROVE n + 1 \in Sizes
  <2>1. PICK h : Good(h, n)
    BY <1>2
  <2> DEFINE g == [T \in SUBSET S |-> SumStep(f, h, T)]
  <2>2. ASSUME NEW T \in SUBSET S, Cardinality(T) <= n + 1, T # {}
        PROVE  g[T] = SumStep(f, g, T)
    <3> DEFINE U == T \ {Picked(T)}
    <3>1. Picked(T) \in T /\ U \in SUBSET S
      BY <2>2 DEF Picked
    <3>2. Cardinality(U) <= n
      BY <1>0, <2>2, <3>1, FS_RemoveElement
    <3>3. h[U] = g[U]
      BY <2>1, <3>1, <3>2
    <3> QED
      BY <2>2, <3>1, <3>3 DEF SumStep
  <2>3. ASSUME NEW T \in SUBSET S, T = {} PROVE g[T] = SumStep(f, g, T)
    BY <2>3 DEF SumStep
  <2>4. g = [T \in SUBSET S |-> g[T]]
    OBVIOUS
  <2>5. \A T \in SUBSET S : Cardinality(T) <= n + 1 => g[T] = SumStep(f, g, T)
    BY <2>2, <2>3
  <2> HIDE DEF g
  <2>6. Good(g, n + 1)
    BY <2>4, <2>5
  <2>7. \E k : Good(k, n + 1)
    BY <2>6, Zenon
  <2> HIDE DEF Good
  <2> QED
    BY <2>7
<1> HIDE DEF Sizes
<1>3. Nat \subseteq Sizes
  BY <1>1, <1>2, NumberInduction
<1> USE DEF Sizes
<1>4. PICK h : Good(h, Cardinality(S))
  BY <1>0, <1>3
<1>5. \A T \in SUBSET S : Cardinality(T) <= Cardinality(S)
  BY FS_Subset
<1>6. \A T \in SUBSET S : h[T] = SumStep(f, h, T)
  BY <1>4, <1>5
<1>7. h = [T \in SUBSET S |-> SumStep(f, h, T)]
  BY <1>4, <1>6
<1> QED
  BY <1>7

\* A sum is an entry of its table.
LEMMA TableOfSum ==
    ASSUME NEW S, IsFiniteSet(S), NEW f
    PROVE  \E h : /\ h = [T \in SUBSET S |-> SumStep(f, h, T)]
                 /\ SumFunctionOnSet(f, S) = h[S]
<1> DEFINE table == CHOOSE h : h = [T \in SUBSET S |-> SumStep(f, h, T)]
<1>1. table = [T \in SUBSET S |-> SumStep(f, table, T)]
  BY TableExists
<1>2. SumFunctionOnSet(f, S) = table[S]
  BY DEF SumFunctionOnSet, FoldFunctionOnSet, MapThenFoldSet, SumStep, Picked
<1> HIDE DEF table
<1> QED
  BY <1>1, <1>2

\* The tables of a set and of a subset agree.
LEMMA TablesAgree ==
    ASSUME NEW S, IsFiniteSet(S), NEW R \in SUBSET S, NEW f, NEW h, NEW k,
           IsTable(h, f, S), IsTable(k, f, R)
    PROVE  h[R] = k[R]
<1> DEFINE Sizes == {n \in Nat : \A T \in SUBSET R : Cardinality(T) = n => h[T] = k[T]}
<1>0. \A T \in SUBSET R : IsFiniteSet(T) /\ Cardinality(T) \in Nat
  BY FS_Subset, FS_CardinalityType
<1>1. ASSUME NEW T \in SUBSET R, T = {} PROVE h[T] = k[T]
  BY <1>1 DEF SumStep, IsTable
<1>2. 0 \in Sizes
  BY <1>0, <1>1, FS_EmptySet
<1>3. ASSUME NEW n \in Nat, n \in Sizes PROVE n + 1 \in Sizes
  <2> SUFFICES ASSUME NEW T \in SUBSET R, Cardinality(T) = n + 1, T # {} PROVE h[T] = k[T]
    BY <1>1
  <2> DEFINE U == T \ {Picked(T)}
  <2>1. Picked(T) \in T /\ U \in SUBSET R
    BY DEF Picked
  <2>2. Cardinality(U) = Cardinality(T) - 1
    BY <1>0, <2>1, FS_RemoveElement
  <2>3. Cardinality(U) = n
    BY <2>2
  <2>4. h[U] = k[U]
    BY <1>3, <2>1, <2>3
  <2>5. h[T] = f[Picked(T)] + h[U] /\ k[T] = f[Picked(T)] + k[U]
    BY DEF SumStep, IsTable
  <2> QED
    BY <2>4, <2>5
<1> HIDE DEF Sizes
<1>4. Nat \subseteq Sizes
  BY <1>2, <1>3, NumberInduction
<1> USE DEF Sizes
<1> QED
  BY <1>0, <1>4

\* The sum over nothing.
LEMMA SumEmpty ==
    ASSUME NEW f
    PROVE  SumFunctionOnSet(f, {}) = 0
<1>1. IsFiniteSet({})
  BY FS_EmptySet
<1>2. PICK h : /\ h = [T \in SUBSET {} |-> SumStep(f, h, T)]
               /\ SumFunctionOnSet(f, {}) = h[{}]
  BY <1>1, TableOfSum
<1> QED
  BY <1>2 DEF SumStep

\* The recursion, of sums.
LEMMA SumPicked ==
    ASSUME NEW S, IsFiniteSet(S), NEW f, S # {}
    PROVE  SumFunctionOnSet(f, S) = f[Picked(S)] + SumFunctionOnSet(f, S \ {Picked(S)})
<1> DEFINE R == S \ {Picked(S)}
<1>1. PICK h : /\ h = [T \in SUBSET S |-> SumStep(f, h, T)]
               /\ SumFunctionOnSet(f, S) = h[S]
  BY TableOfSum
<1>2. IsFiniteSet(R)
  BY FS_RemoveElement
<1>3. PICK k : /\ k = [T \in SUBSET R |-> SumStep(f, k, T)]
               /\ SumFunctionOnSet(f, R) = k[R]
  BY <1>2, TableOfSum
<1>4. IsTable(h, f, S)
  BY <1>1 DEF IsTable
<1>5. IsTable(k, f, R)
  BY <1>3 DEF IsTable
<1>6. h[R] = k[R]
  <2>1. R \in SUBSET S
    OBVIOUS
  <2> HIDE DEF R
  <2> QED
    BY <1>4, <1>5, <2>1, TablesAgree
<1>7. h[S] = f[Picked(S)] + h[R]
  BY <1>4 DEF SumStep, IsTable
<1> QED
  BY <1>1, <1>3, <1>6, <1>7

-------------------------------------------------------------------------------
(* Sums of integers, in whatever order. *)

\* Any summand may be the one that is added last.
LEMMA SumRemove ==
    ASSUME NEW S, IsFiniteSet(S), NEW f, \A x \in S : f[x] \in Int
    PROVE  /\ SumFunctionOnSet(f, S) \in Int
           /\ \A x \in S : SumFunctionOnSet(f, S) = f[x] + SumFunctionOnSet(f, S \ {x})
<1> DEFINE Sum(T) == SumFunctionOnSet(f, T)
           Right(T) == Sum(T) \in Int /\ \A x \in T : Sum(T) = f[x] + Sum(T \ {x})
           Sizes == {n \in Nat : \A T \in SUBSET S : Cardinality(T) <= n => Right(T)}
<1> HIDE DEF Sum
<1>0. \A T \in SUBSET S : IsFiniteSet(T) /\ Cardinality(T) \in Nat
  BY FS_Subset, FS_CardinalityType
<1>1. Right({})
  BY SumEmpty DEF Sum
<1>2. 0 \in Sizes
  BY <1>0, <1>1, FS_EmptySet
<1>3. ASSUME NEW n \in Nat, n \in Sizes PROVE n + 1 \in Sizes
  <2> SUFFICES ASSUME NEW T \in SUBSET S, Cardinality(T) <= n + 1 PROVE Right(T)
    OBVIOUS
  <2>1. CASE T = {}
    BY <1>1, <2>1
  <2>2. CASE T # {}
    <3> DEFINE y == Picked(T)
    <3>1. y \in T
      BY <2>2 DEF Picked
    <3>2. Sum(T) = f[y] + Sum(T \ {y})
      BY <1>0, <2>2, SumPicked DEF Sum
    <3> HIDE DEF y
    <3>3. ASSUME NEW x \in T PROVE Right(T \ {x})
      <4>1. Cardinality(T \ {x}) = Cardinality(T) - 1 /\ T \ {x} \in SUBSET S
        BY <1>0, FS_RemoveElement
      <4>2. Cardinality(T \ {x}) <= n
        BY <1>0, <4>1
      <4> QED
        BY <1>3, <4>1, <4>2
    <3>4. Sum(T) \in Int
      BY <3>1, <3>2, <3>3
    <3>5. ASSUME NEW x \in T, x # y PROVE Sum(T) = f[x] + Sum(T \ {x})
      <4> DEFINE R == T \ {x, y}
      <4>1. R = (T \ {x}) \ {y} /\ R = (T \ {y}) \ {x}
        OBVIOUS
      <4>2. Right(T \ {x}) /\ Right(T \ {y}) /\ x \in T \ {y} /\ y \in T \ {x}
        BY <3>1, <3>3, <3>5
      <4>3. Sum(T \ {y}) = f[x] + Sum(R) /\ Sum(T \ {x}) = f[y] + Sum(R)
        BY <4>1, <4>2
      <4>4. Right(R)
        <5>1. Cardinality(T \ {x}) = Cardinality(T) - 1
          BY <1>0, FS_RemoveElement
        <5>2. Cardinality(R) = Cardinality(T \ {x}) - 1
          <6>1. T \ {x} \in SUBSET S
            OBVIOUS
          <6>2. IsFiniteSet(T \ {x}) /\ Cardinality(T \ {x}) \in Nat
            BY <1>0, <6>1
          <6> DEFINE Q == T \ {x}
          <6>3. IsFiniteSet(Q) /\ y \in Q /\ R = Q \ {y}
            BY <4>1, <4>2, <6>2
          <6> HIDE DEF Q, R
          <6>4. Cardinality(R) = Cardinality(Q) - 1
            BY <6>3, FS_RemoveElement
          <6> QED
            BY <6>4 DEF Q
        <5>3. Cardinality(R) <= n /\ R \in SUBSET S
          BY <1>0, <5>1, <5>2
        <5> QED
          BY <1>3, <5>3
      <4> QED
        BY <3>1, <3>2, <4>3, <4>4
    <3> QED
      BY <3>2, <3>4, <3>5
  <2> QED
    BY <2>1, <2>2
<1> HIDE DEF Sizes
<1>4. Nat \subseteq Sizes
  BY <1>2, <1>3, NumberInduction
<1> USE DEF Sizes, Sum
<1> QED
  BY <1>0, <1>4

\* A summand more.
LEMMA SumAdd ==
    ASSUME NEW S, IsFiniteSet(S), NEW x, x \notin S, NEW f, \A y \in S \union {x} : f[y] \in Int
    PROVE  /\ SumFunctionOnSet(f, S) \in Int
           /\ SumFunctionOnSet(f, S \union {x}) = SumFunctionOnSet(f, S) + f[x]
<1> DEFINE R == S \union {x}
<1>1. IsFiniteSet(R) /\ x \in R /\ R \ {x} = S /\ f[x] \in Int
  BY FS_AddElement
<1>2. SumFunctionOnSet(f, S) \in Int
  BY SumRemove
<1>3. SumFunctionOnSet(f, R) = f[x] + SumFunctionOnSet(f, R \ {x})
  <2> HIDE DEF R
  <2>1. \A y \in R : f[y] \in Int
    BY DEF R
  <2> QED
    BY <1>1, <2>1, SumRemove
<1> HIDE DEF R
<1>4. SumFunctionOnSet(f, R) = f[x] + SumFunctionOnSet(f, S)
  BY <1>1, <1>3
<1>5. SumFunctionOnSet(f, R) = SumFunctionOnSet(f, S) + f[x]
  BY <1>1, <1>2, <1>4
<1> QED
  BY <1>2, <1>5 DEF R

\* A sum of integers is one.
LEMMA SumInt ==
    ASSUME NEW S, IsFiniteSet(S), NEW f, \A x \in S : f[x] \in Int
    PROVE  SumFunctionOnSet(f, S) \in Int
BY SumRemove

\* Sums of summands that are as large, or no larger, are so.
LEMMA SumMonotone ==
    ASSUME NEW S, IsFiniteSet(S), NEW f, NEW g,
           \A x \in S : f[x] \in Int /\ g[x] \in Int /\ f[x] <= g[x]
    PROVE  SumFunctionOnSet(f, S) <= SumFunctionOnSet(g, S)
<1> DEFINE F(T) == SumFunctionOnSet(f, T)
           G(T) == SumFunctionOnSet(g, T)
           Less == {T \in SUBSET S : F(T) <= G(T)}
<1>1. {} \in Less
  BY SumEmpty
<1>2. ASSUME NEW T \in SUBSET S, NEW x \in S \ T, T \in Less PROVE T \union {x} \in Less
  <2>1. IsFiniteSet(T)
    BY FS_Subset
  <2>2. F(T) \in Int /\ F(T \union {x}) = F(T) + f[x]
    BY <2>1, SumAdd
  <2>3. G(T) \in Int /\ G(T \union {x}) = G(T) + g[x]
    BY <2>1, SumAdd
  <2>4. F(T) <= G(T) /\ f[x] \in Int /\ g[x] \in Int /\ f[x] <= g[x]
    BY <1>2
  <2> HIDE DEF F, G
  <2> QED
    BY <2>2, <2>3, <2>4
<1> HIDE DEF Less
<1>3. SUBSET S \subseteq Less
  BY <1>1, <1>2, SubsetInduction
<1> USE DEF Less
<1> QED
  BY <1>3

\* Sums of equal summands are equal.
LEMMA SumSame ==
    ASSUME NEW S, IsFiniteSet(S), NEW f, NEW g, \A x \in S : f[x] \in Int /\ f[x] = g[x]
    PROVE  SumFunctionOnSet(f, S) = SumFunctionOnSet(g, S)
<1>1. SumFunctionOnSet(f, S) <= SumFunctionOnSet(g, S)
  BY SumMonotone
<1>2. SumFunctionOnSet(g, S) <= SumFunctionOnSet(f, S)
  BY SumMonotone
<1>3. SumFunctionOnSet(f, S) \in Int /\ SumFunctionOnSet(g, S) \in Int
  BY SumInt
<1> QED
  BY <1>1, <1>2, <1>3

\* A sum whose summands are all the same.
LEMMA SumConstant ==
    ASSUME NEW S, IsFiniteSet(S), NEW f, NEW c \in Int, \A x \in S : f[x] = c
    PROVE  SumFunctionOnSet(f, S) = c * Cardinality(S)
<1> DEFINE F(T) == SumFunctionOnSet(f, T)
           Right == {T \in SUBSET S : F(T) = c * Cardinality(T)}
<1>1. {} \in Right
  BY SumEmpty, FS_EmptySet
<1>2. ASSUME NEW T \in SUBSET S, NEW x \in S \ T, T \in Right PROVE T \union {x} \in Right
  <2>1. IsFiniteSet(T)
    BY FS_Subset
  <2>2. F(T \union {x}) = F(T) + f[x]
    BY <2>1, SumAdd
  <2>3. Cardinality(T) \in Nat /\ Cardinality(T \union {x}) = Cardinality(T) + 1
    BY <2>1, FS_CardinalityType, FS_AddElement
  <2>4. F(T) = c * Cardinality(T) /\ f[x] = c
    BY <1>2
  <2> HIDE DEF F
  <2> QED
    BY <2>2, <2>3, <2>4
<1> HIDE DEF Right
<1>3. SUBSET S \subseteq Right
  BY <1>1, <1>2, SubsetInduction
<1> USE DEF Right
<1> QED
  BY <1>3

\* Sums are added summand by summand.
LEMMA SumPlus ==
    ASSUME NEW S, IsFiniteSet(S), NEW f, NEW g, NEW h,
           \A x \in S : f[x] \in Int /\ g[x] \in Int /\ h[x] = f[x] + g[x]
    PROVE  SumFunctionOnSet(h, S) = SumFunctionOnSet(f, S) + SumFunctionOnSet(g, S)
<1> DEFINE F(T) == SumFunctionOnSet(f, T)
           G(T) == SumFunctionOnSet(g, T)
           H(T) == SumFunctionOnSet(h, T)
           Right == {T \in SUBSET S : H(T) = F(T) + G(T)}
<1>1. {} \in Right
  BY SumEmpty
<1>2. ASSUME NEW T \in SUBSET S, NEW x \in S \ T, T \in Right PROVE T \union {x} \in Right
  <2>1. IsFiniteSet(T)
    BY FS_Subset
  <2>2. F(T) \in Int /\ F(T \union {x}) = F(T) + f[x]
    BY <2>1, SumAdd
  <2>3. G(T) \in Int /\ G(T \union {x}) = G(T) + g[x]
    BY <2>1, SumAdd
  <2>4. H(T) \in Int /\ H(T \union {x}) = H(T) + h[x]
    <3>1. \A y \in T \union {x} : h[y] \in Int
      OBVIOUS
    <3> QED
      BY <2>1, <3>1, SumAdd
  <2>5. H(T) = F(T) + G(T) /\ f[x] \in Int /\ g[x] \in Int /\ h[x] = f[x] + g[x]
    BY <1>2
  <2> HIDE DEF F, G, H
  <2> QED
    BY <2>2, <2>3, <2>4, <2>5
<1> HIDE DEF Right
<1>3. SUBSET S \subseteq Right
  BY <1>1, <1>2, SubsetInduction
<1> USE DEF Right
<1> QED
  BY <1>3

\* A common factor is taken out of a sum.
LEMMA SumTimes ==
    ASSUME NEW S, IsFiniteSet(S), NEW c \in Int, NEW f, NEW h,
           \A x \in S : f[x] \in Int /\ h[x] = f[x] * c
    PROVE  SumFunctionOnSet(h, S) = SumFunctionOnSet(f, S) * c
<1> DEFINE F(T) == SumFunctionOnSet(f, T)
           H(T) == SumFunctionOnSet(h, T)
           Right == {T \in SUBSET S : H(T) = F(T) * c}
<1>1. {} \in Right
  BY SumEmpty
<1>2. ASSUME NEW T \in SUBSET S, NEW x \in S \ T, T \in Right PROVE T \union {x} \in Right
  <2>1. IsFiniteSet(T)
    BY FS_Subset
  <2>2. F(T) \in Int /\ F(T \union {x}) = F(T) + f[x]
    BY <2>1, SumAdd
  <2>3. H(T) \in Int /\ H(T \union {x}) = H(T) + h[x]
    <3>1. \A y \in T \union {x} : h[y] \in Int
      <4>1. ASSUME NEW y \in T \union {x} PROVE f[y] * c \in Int
        <5>1. f[y] \in Int
          OBVIOUS
        <5> QED
          BY <5>1
      <4> QED
        BY <4>1
    <3> QED
      BY <2>1, <3>1, SumAdd
  <2>4. H(T) = F(T) * c /\ f[x] \in Int /\ h[x] = f[x] * c
    BY <1>2
  <2> HIDE DEF F, H
  <2>5. (F(T) + f[x]) * c = F(T) * c + f[x] * c
    BY <2>2, <2>4
  <2>6. H(T \union {x}) = F(T \union {x}) * c
    BY <2>2, <2>3, <2>4, <2>5
  <2> QED
    BY <2>6
<1> HIDE DEF Right
<1>3. SUBSET S \subseteq Right
  BY <1>1, <1>2, SubsetInduction
<1> USE DEF Right
<1> QED
  BY <1>3

\* A sum over two sets that share nothing.
LEMMA SumUnion ==
    ASSUME NEW S, IsFiniteSet(S), NEW R, IsFiniteSet(R), S \intersect R = {},
           NEW f, \A x \in S \union R : f[x] \in Int
    PROVE  SumFunctionOnSet(f, S \union R) = SumFunctionOnSet(f, S) + SumFunctionOnSet(f, R)
<1> DEFINE F(T) == SumFunctionOnSet(f, T)
           Right == {T \in SUBSET R : F(S \union T) = F(S) + F(T)}
<1>0. F(S) \in Int
  BY SumInt
<1>1. {} \in Right
  BY <1>0, SumEmpty, S \union {} = S
<1>2. ASSUME NEW T \in SUBSET R, NEW x \in R \ T, T \in Right PROVE T \union {x} \in Right
  <2>1. IsFiniteSet(T) /\ IsFiniteSet(S \union T)
    BY FS_Subset, FS_Union
  <2>2. F(T) \in Int /\ F(T \union {x}) = F(T) + f[x]
    BY <2>1, SumAdd
  <2>3. F(S \union T) \in Int /\ F((S \union T) \union {x}) = F(S \union T) + f[x]
    BY <2>1, SumAdd
  <2>4. (S \union T) \union {x} = S \union (T \union {x})
    OBVIOUS
  <2>5. F(S \union T) = F(S) + F(T) /\ f[x] \in Int
    BY <1>2
  <2>6. F(S \union (T \union {x})) = F(S \union T) + f[x]
    BY <2>3, <2>4
  <2> HIDE DEF F
  <2>7. F(S \union (T \union {x})) = F(S) + F(T \union {x})
    BY <1>0, <2>2, <2>5, <2>6
  <2> QED
    BY <2>7
<1> HIDE DEF Right
<1>3. SUBSET R \subseteq Right
  BY <1>1, <1>2, SubsetInduction
<1> USE DEF Right
<1> QED
  BY <1>3

\* Summands that are 0 may be left out.
LEMMA SumOfRest ==
    ASSUME NEW S, IsFiniteSet(S), NEW R \in SUBSET S, NEW f,
           \A x \in R : f[x] \in Int, \A x \in S \ R : f[x] = 0
    PROVE  SumFunctionOnSet(f, S) = SumFunctionOnSet(f, R)
<1> DEFINE Q == S \ R
<1>1. IsFiniteSet(R) /\ IsFiniteSet(Q) /\ R \intersect Q = {} /\ R \union Q = S
  BY FS_Subset, Q \in SUBSET S
<1>2. \A x \in R \union Q : f[x] \in Int
  OBVIOUS
<1>3. Cardinality(Q) \in Nat /\ \A x \in Q : f[x] = 0
  BY <1>1, FS_CardinalityType
<1> HIDE DEF Q
<1>4. SumFunctionOnSet(f, Q) = 0 * Cardinality(Q)
  BY <1>1, <1>3, SumConstant
<1>5. SumFunctionOnSet(f, R \union Q) = SumFunctionOnSet(f, R) + SumFunctionOnSet(f, Q)
  BY <1>1, <1>2, SumUnion
<1>6. SumFunctionOnSet(f, R) \in Int
  BY <1>1, <1>2, SumInt
<1>7. SumFunctionOnSet(f, R \union Q) = SumFunctionOnSet(f, R)
  BY <1>3, <1>4, <1>5, <1>6
<1> QED
  BY <1>1, <1>7

\* One summand changes.
LEMMA SumChange ==
    ASSUME NEW S, IsFiniteSet(S), NEW x \in S, NEW f, NEW g,
           \A y \in S : f[y] \in Int, g[x] \in Int, \A y \in S \ {x} : g[y] = f[y]
    PROVE  SumFunctionOnSet(g, S) = SumFunctionOnSet(f, S) + g[x] - f[x]
<1> DEFINE R == S \ {x}
<1>1. IsFiniteSet(R) /\ \A y \in R : f[y] \in Int /\ f[y] = g[y]
  BY FS_RemoveElement
<1>2. \A y \in S : g[y] \in Int
  OBVIOUS
<1>3. SumFunctionOnSet(f, S) = f[x] + SumFunctionOnSet(f, R)
  BY SumRemove
<1>4. SumFunctionOnSet(g, S) = g[x] + SumFunctionOnSet(g, R)
  BY <1>2, SumRemove
<1> HIDE DEF R
<1>5. SumFunctionOnSet(f, R) = SumFunctionOnSet(g, R) /\ SumFunctionOnSet(f, R) \in Int
  BY <1>1, SumSame, SumInt
<1> QED
  BY <1>3, <1>4, <1>5

\* Summands of two values.
LEMMA SumOfTwoValues ==
    ASSUME NEW S, IsFiniteSet(S), NEW R \in SUBSET S, NEW f, NEW c \in Int, NEW d \in Int,
           \A x \in R : f[x] = c, \A x \in S \ R : f[x] = d
    PROVE  SumFunctionOnSet(f, S) = c * Cardinality(R) + d * (Cardinality(S) - Cardinality(R))
<1> DEFINE Q == S \ R
<1>1. IsFiniteSet(R) /\ IsFiniteSet(Q) /\ R \intersect Q = {} /\ R \union Q = S
  BY FS_Subset, Q \in SUBSET S
<1>2. Cardinality(Q) = Cardinality(S) - Cardinality(R)
  BY FS_Difference, S \intersect R = R
<1>3. (\A x \in R \union Q : f[x] \in Int) /\ \A x \in Q : f[x] = d
  OBVIOUS
<1> HIDE DEF Q
<1>4. SumFunctionOnSet(f, R) = c * Cardinality(R)
  BY <1>1, SumConstant
<1>5. SumFunctionOnSet(f, Q) = d * Cardinality(Q)
  BY <1>1, <1>3, SumConstant
<1>6. SumFunctionOnSet(f, R \union Q) = SumFunctionOnSet(f, R) + SumFunctionOnSet(f, Q)
  BY <1>1, <1>3, SumUnion
<1> QED
  BY <1>1, <1>2, <1>4, <1>5, <1>6

\* A function that tells the elements of a set apart has as many values.
LEMMA ImageSize ==
    ASSUME NEW S, IsFiniteSet(S), NEW f, f = [x \in S |-> f[x]],
           \A x, y \in S : f[x] = f[y] => x = y
    PROVE  /\ IsFiniteSet({f[x] : x \in S})
           /\ Cardinality({f[x] : x \in S}) = Cardinality(S)
<1> DEFINE T == {f[x] : x \in S}
<1>1. f \in Bijection(S, T)
  BY DEF Bijection, Injection, Surjection, IsInjective
<1>2. ExistsBijection(S, T)
  BY <1>1 DEF ExistsBijection
<1> QED
  BY <1>2, FS_Bijection
-------------------------------------------------------------------------------
(* Sums over the elements of an order. *)

\* A set of numbers up to n has a greatest one.
LEMMA GreatestExists ==
    ASSUME NEW n \in Nat, NEW S \in SUBSET (1 .. n), S # {}
    PROVE  Max(S) \in S /\ \A x \in S : x <= Max(S)
<1> DEFINE G == {m \in Nat : \A T \in SUBSET (1 .. m) : T # {} => \E x \in T : \A y \in T : x >= y}
<1>1. 0 \in G
  <2>1. \A T \in SUBSET (1 .. 0) : T = {}
    <3>1. 1 .. 0 = {}
      OBVIOUS
    <3> QED
      BY <3>1
  <2> QED
    BY <2>1
<1>2. ASSUME NEW m \in Nat, m \in G PROVE m + 1 \in G
  <2> SUFFICES ASSUME NEW T \in SUBSET (1 .. m + 1), T # {}
               PROVE  \E x \in T : \A y \in T : x >= y
    OBVIOUS
  <2>1. CASE m + 1 \in T
    <3>1. \A y \in T : m + 1 >= y
      OBVIOUS
    <3> QED
      BY <2>1, <3>1
  <2>2. CASE m + 1 \notin T
    <3>1. T \in SUBSET (1 .. m)
      BY <2>2
    <3> QED
      BY <1>2, <3>1
  <2> QED
    BY <2>1, <2>2
<1> HIDE DEF G
<1>3. n \in G
  BY <1>1, <1>2, NumberInduction
<1> USE DEF G
<1>4. \E x \in S : \A y \in S : x >= y
  BY <1>3
<1>5. Max(S) \in S /\ \A y \in S : Max(S) >= y
  BY <1>4 DEF Max
<1> QED
  BY <1>5

\* The greatest number of a set that is below another: the one before it.
LEMMA OneBefore ==
    ASSUME NEW n \in Nat, NEW G \in SUBSET (1 .. n), NEW i \in G, NEW j \in G, j < i,
           \A k \in G : k < i => k <= j
    PROVE  Max({k \in G : k < i}) = j
<1>1. {k \in G : k < i} \in SUBSET (1 .. n) /\ j \in {k \in G : k < i}
  OBVIOUS
<1>2. /\ Max({k \in G : k < i}) \in {k \in G : k < i}
      /\ \A x \in {k \in G : k < i} : x <= Max({k \in G : k < i})
  BY <1>1, GreatestExists
<1> QED
  BY <1>1, <1>2

\* Differences from one element of a set of numbers to the next add up to the one between the
\* ends.
LEMMA SumTelescopes ==
    ASSUME NEW n \in Nat, NEW G \in SUBSET (1 .. n), 1 \in G, n \in G,
           NEW g, \A i \in G : g[i] \in Int,
           NEW f, \A i \in G \ {1} : f[i] = g[i] - g[Max({j \in G : j < i})]
    PROVE  SumFunctionOnSet(f, G \ {1}) = g[n] - g[1]
<1> DEFINE Below(m) == {j \in G : j <= m}
           Right(m) == SumFunctionOnSet(f, Below(m) \ {1}) = g[Max(Below(m))] - g[1]
           R == {m \in Nat : m + 1 <= n => Right(m + 1)}
<1>8. \A y \in G : y \in Nat /\ 1 <= y /\ y <= n
  OBVIOUS
<1>0. \A m \in Nat : Below(m) \in SUBSET (1 .. n) /\ IsFiniteSet(Below(m))
  <2>1. IsFiniteSet(1 .. n)
    BY FS_Interval
  <2> QED
    BY <2>1, FS_Subset
<1>1. 0 \in R
  <2> HIDE DEF R
  <2>1. Below(1) = {1} /\ Below(1) \ {1} = {}
    <3>1. \A y \in G : y <= 1 <=> y = 1
      BY <1>8
    <3> QED
      BY <3>1, Zenon
  <2>2. Max({1}) = 1
    BY <1>0, <2>1, GreatestExists
  <2>3. SumFunctionOnSet(f, Below(1) \ {1}) = 0
    BY <2>1, SumEmpty
  <2>4. g[1] \in Int
    OBVIOUS
  <2> QED
    BY <2>1, <2>2, <2>3, <2>4 DEF R
<1>2. ASSUME NEW m \in Nat, m \in R PROVE m + 1 \in R
  <2> SUFFICES ASSUME m + 2 <= n PROVE Right(m + 2)
    OBVIOUS
  <2>1. Right(m + 1)
    BY <1>2
  <2> HIDE DEF R
  <2>2. m + 1 \in Nat /\ m + 2 \in Nat /\ 1 \in Below(m + 1)
    OBVIOUS
  <2>3. CASE m + 2 \notin G
    <3>0. \A y \in G : y <= m + 2 <=> y <= m + 1
      BY <1>8, <2>3
    <3>1. Below(m + 2) = Below(m + 1)
      BY <3>0, Zenon
    <3> QED
      BY <2>1, <3>1
  <2>4. CASE m + 2 \in G
    <3> DEFINE k == Max(Below(m + 1))
               B == Below(m + 1) \ {1}
    <3>0. /\ \A y \in G : y <= m + 2 <=> y <= m + 1 \/ y = m + 2
          /\ \A y \in G : y < m + 2 <=> y <= m + 1
          /\ m + 2 # 1
      BY <1>8
    <3>1. Below(m + 2) = Below(m + 1) \union {m + 2} /\ Below(m + 2) \ {1} = B \union {m + 2}
      <4>1. Below(m + 2) = Below(m + 1) \union {m + 2}
        BY <2>4, <3>0, Zenon
      <4> HIDE DEF Below
      <4> QED
        BY <3>0, <4>1, Zenon
    <3>2. {j \in G : j < m + 2} = Below(m + 1)
      BY <3>0, Zenon
    <3>3. f[m + 2] = g[m + 2] - g[k]
      BY <2>4, <3>2
    <3>4. k \in Below(m + 1)
      BY <1>0, <2>2, GreatestExists
    <3>5. g[k] \in Int /\ g[1] \in Int /\ g[m + 2] \in Int
      BY <2>4, <3>4
    <3>6. IsFiniteSet(B) /\ m + 2 \notin B
      <4>1. IsFiniteSet(Below(m + 1)) /\ m + 2 \notin Below(m + 1)
        BY <1>0, <1>8, <2>2
      <4> HIDE DEF Below
      <4> QED
        BY <4>1, FS_RemoveElement
    <3>7. \A y \in B \union {m + 2} : f[y] \in Int
      <4> SUFFICES ASSUME NEW y \in G \ {1} PROVE f[y] \in Int
        BY <2>4
      <4>1. {j \in G : j < y} \in SUBSET (1 .. n) /\ 1 \in {j \in G : j < y}
        <5>1. y \in Nat /\ 1 <= y /\ y # 1 /\ 1 \in G
          BY <1>8
        <5>2. 1 < y
          BY <5>1
        <5> QED
          BY <5>1, <5>2
      <4>2. Max({j \in G : j < y}) \in {j \in G : j < y}
        BY <4>1, GreatestExists
      <4>3. g[y] \in Int /\ g[Max({j \in G : j < y})] \in Int
        BY <4>2
      <4>4. f[y] = g[y] - g[Max({j \in G : j < y})]
        OBVIOUS
      <4> QED
        BY <4>3, <4>4
    <3>8. SumFunctionOnSet(f, B \union {m + 2}) = SumFunctionOnSet(f, B) + f[m + 2]
      <4> HIDE DEF B, Below
      <4> QED
        BY <3>6, <3>7, SumAdd
    <3>9. Max(Below(m + 2)) = m + 2
      <4>1. m + 2 \in Below(m + 2) /\ \A y \in Below(m + 2) : y <= m + 2 /\ y \in Nat
        BY <1>8, <2>4
      <4>2. /\ Max(Below(m + 2)) \in Below(m + 2)
            /\ \A y \in Below(m + 2) : y <= Max(Below(m + 2))
        BY <1>0, <2>2, <4>1, GreatestExists
      <4>3. Max(Below(m + 2)) \in Nat
        BY <1>8, <4>2
      <4> QED
        BY <4>1, <4>2, <4>3
    <3>10. SumFunctionOnSet(f, B) = g[k] - g[1]
      BY <2>1
    <3>11. SumFunctionOnSet(f, Below(m + 2) \ {1}) = SumFunctionOnSet(f, B \union {m + 2})
      BY <3>1
    <3> HIDE DEF B, k, Below
    <3> QED
      BY <3>3, <3>5, <3>8, <3>9, <3>10, <3>11
  <2> QED
    BY <2>3, <2>4
<1> HIDE DEF R
<1>3. n - 1 \in Nat /\ (n - 1) + 1 = n
  OBVIOUS
<1>4. n - 1 \in R
  BY <1>1, <1>2, <1>3, NumberInduction
<1> USE DEF R
<1>5. Below(n) = G
  BY <1>8
<1>6. Max(G) = n
  <2>1. Max(G) \in G /\ \A x \in G : x <= Max(G)
    BY GreatestExists
  <2>2. Max(G) \in Nat /\ n <= Max(G) /\ Max(G) <= n
    BY <1>8, <2>1
  <2> QED
    BY <2>2
<1>7. Right(n)
  BY <1>3, <1>4
<1> QED
  BY <1>5, <1>6, <1>7
===============================================================================
