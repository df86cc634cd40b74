-------------------------------- MODULE Sums --------------------------------
(***************************************************************************)
(* What the books of the gates rest on: laws of SumFunctionOnSet, the sum  *)
(* of a function's values over a finite set.  The community modules define *)
(* it by a recursive function that takes the elements in the order CHOOSE  *)
(* picks them; the lemmas show that this function exists, that the order   *)
(* does not matter, and how a sum changes with its set and its function.   *)
(***************************************************************************)
EXTENDS Integers, FiniteSets, Functions, FiniteSetTheorems, WellFoundedInduction, TLAPS

-----------------------------------------------------------------------------
(* Induction over numbers and over finite sets, for properties given as sets *)

LEMMA CountingUp ==
  ASSUME NEW N, 0 \in N, \A n \in Nat : n \in N => n + 1 \in N
  PROVE  Nat \subseteq N
<1> SUFFICES ASSUME Nat \ N # {} PROVE FALSE
  OBVIOUS
<1>1. PICK m \in Nat \ N : \A i \in Nat \ N : ~ (<<i, m>> \in OpToRel(<, Nat))
  BY NatLessThanWellFounded, WFMin
<1>2. \A i \in Nat \ N : ~ (i < m)
  BY <1>1 DEF OpToRel
<1>3. m # 0 /\ m - 1 \in Nat
  OBVIOUS
<1>4. m - 1 \in N
  BY <1>2, <1>3
<1>5. QED
  BY <1>3, <1>4

\* Elements are added to the empty set one by one.
LEMMA FillingUp ==
  ASSUME NEW S, IsFiniteSet(S), NEW G, {} \in G,
         \A T \in SUBSET S : \A x \in S \ T : T \in G => T \cup {x} \in G
  PROVE  S \in G
<1> DEFINE N == {n \in Nat : \A T \in SUBSET S : Cardinality(T) = n => T \in G}
<1>1. 0 \in N
  <2>1. ASSUME NEW T \in SUBSET S, Cardinality(T) = 0 PROVE T \in G
    <3>1. IsFiniteSet(T)
      BY FS_Subset
    <3>2. T = {}
      BY <2>1, <3>1, FS_EmptySet
    <3>3. QED
      BY <3>2
  <2>2. QED
    BY <2>1
<1>2. ASSUME NEW n \in Nat, n \in N PROVE n + 1 \in N
  <2>1. ASSUME NEW T \in SUBSET S, Cardinality(T) = n + 1 PROVE T \in G
    <3>1. IsFiniteSet(T) /\ T # {}
      BY <2>1, FS_Subset, FS_EmptySet
    <3>2. PICK x \in T : TRUE
      BY <3>1
    <3>3. Cardinality(T \ {x}) = n
      <4>1. Cardinality(T \ {x}) = Cardinality(T) - 1
        BY <3>1, FS_RemoveElement
      <4>2. QED
        BY <2>1, <4>1
    <3>4. T \ {x} \in G
      BY <1>2, <3>3
    <3>5. T = (T \ {x}) \cup {x} /\ x \in S \ (T \ {x}) /\ T \ {x} \in SUBSET S
      OBVIOUS
    <3>6. QED
      BY <3>4, <3>5
  <2>2. QED
    BY <2>1
<1> HIDE DEF N
<1>3. Nat \subseteq N
  BY <1>1, <1>2, CountingUp
<1>4. Cardinality(S) \in N
  BY <1>3, FS_CardinalityType
<1>5. QED
  BY <1>4 DEF N

-----------------------------------------------------------------------------
(* The recursive function behind a sum *)

Pick(s) == CHOOSE x \in s : TRUE

ArePartialSums(f, S, g) ==
  g = [s \in SUBSET S |-> IF s = {} THEN 0 ELSE f[Pick(s)] + g[s \ {Pick(s)}]]

PartialSums(f, S) == CHOOSE g : ArePartialSums(f, S, g)

LEMMA SumIsPartialSum ==
  ASSUME NEW f, NEW S
  PROVE  SumFunctionOnSet(f, S) = PartialSums(f, S)[S]
BY DEF SumFunctionOnSet, FoldFunctionOnSet, MapThenFoldSet, PartialSums, ArePartialSums, Pick

\* g is right on the subsets of S with at most n elements.
RightUpTo(f, S, g, n) ==
  \A s \in SUBSET S : Cardinality(s) <= n =>
    g[s] = IF s = {} THEN 0 ELSE f[Pick(s)] + g[s \ {Pick(s)}]

LEMMA PartialSumsExist ==
  ASSUME NEW f, NEW S, IsFiniteSet(S)
  PROVE  \E g : ArePartialSums(f, S, g)
<1> DEFINE Next(g) == [s \in SUBSET S |-> IF s = {} THEN 0 ELSE f[Pick(s)] + g[s \ {Pick(s)}]]
<1> DEFINE N == {n \in Nat : \E g : g = [s \in SUBSET S |-> g[s]] /\ RightUpTo(f, S, g, n)}
<1>0. \A s \in SUBSET S : IsFiniteSet(s) /\ Cardinality(s) \in Nat
  BY FS_Subset, FS_CardinalityType
<1>1. 0 \in N
  <2> DEFINE g == [s \in SUBSET S |-> 0]
  <2>1. g = [s \in SUBSET S |-> g[s]]
    OBVIOUS
  <2>2. ASSUME NEW s \in SUBSET S, Cardinality(s) <= 0 PROVE s = {} /\ g[s] = 0
    BY <2>2, <1>0, FS_EmptySet
  <2> HIDE DEF g
  <2>3. RightUpTo(f, S, g, 0)
    BY <2>2 DEF RightUpTo
  <2>4. QED
    BY <2>1, <2>3
<1>2. ASSUME NEW n \in Nat, n \in N PROVE n + 1 \in N
  <2>1. PICK g : g = [s \in SUBSET S |-> g[s]] /\ RightUpTo(f, S, g, n)
    BY <1>2
  <2> DEFINE h == Next(g)
  <2>2. h = [s \in SUBSET S |-> h[s]]
    OBVIOUS
  <2>3. ASSUME NEW s \in SUBSET S, Cardinality(s) <= n + 1
        PROVE  h[s] = IF s = {} THEN 0 ELSE f[Pick(s)] + h[s \ {Pick(s)}]
    <3>1. CASE s = {}
      BY <3>1
    <3>2. CASE s # {}
      <4> DEFINE r == s \ {Pick(s)}
      <4>1. Pick(s) \in s
        BY <3>2 DEF Pick
      <4>2. r \in SUBSET S /\ Cardinality(r) <= n
        BY <4>1, <2>3, <1>0, FS_RemoveElement
      <4>3. g[r] = IF r = {} THEN 0 ELSE f[Pick(r)] + g[r \ {Pick(r)}]
        BY <4>2, <2>1 DEF RightUpTo
      <4>4. h[r] = IF r = {} THEN 0 ELSE f[Pick(r)] + g[r \ {Pick(r)}]
        BY <4>2
      <4>5. h[s] = f[Pick(s)] + g[r]
        BY <3>2
      <4>6. QED
        BY <3>2, <4>3, <4>4, <4>5
    <3>3. QED
      BY <3>1, <3>2
  <2> HIDE DEF h
  <2>4. RightUpTo(f, S, h, n + 1)
    BY <2>3 DEF RightUpTo
  <2>5. QED
    BY <2>2, <2>4
<1> HIDE DEF N
<1>3. Cardinality(S) \in N
  BY <1>0, <1>1, <1>2, CountingUp
<1>4. PICK g : g = [s \in SUBSET S |-> g[s]] /\ RightUpTo(f, S, g, Cardinality(S))
  BY <1>3 DEF N
<1>5. ASSUME NEW s \in SUBSET S
      PROVE  g[s] = IF s = {} THEN 0 ELSE f[Pick(s)] + g[s \ {Pick(s)}]
  <2>1. Cardinality(s) <= Cardinality(S)
    BY FS_Subset
  <2>2. QED
    BY <1>4, <2>1 DEF RightUpTo
<1>6. QED
  BY <1>4, <1>5 DEF ArePartialSums

LEMMA PartialSum ==
  ASSUME NEW f, NEW S, IsFiniteSet(S), NEW s \in SUBSET S
  PROVE  PartialSums(f, S)[s] =
           IF s = {} THEN 0 ELSE f[Pick(s)] + PartialSums(f, S)[s \ {Pick(s)}]
<1> DEFINE g == PartialSums(f, S)
<1>1. g = [t \in SUBSET S |-> IF t = {} THEN 0 ELSE f[Pick(t)] + g[t \ {Pick(t)}]]
  <2>1. \E h : ArePartialSums(f, S, h)
    BY PartialSumsExist
  <2>2. ArePartialSums(f, S, g)
    BY <2>1 DEF PartialSums
  <2>3. QED
    BY <2>2 DEF ArePartialSums
<1> HIDE DEF g
<1>2. g[s] = IF s = {} THEN 0 ELSE f[Pick(s)] + g[s \ {Pick(s)}]
  BY <1>1
<1>3. QED
  BY <1>2 DEF g

\* A partial sum does not depend on what it is part of, nor on the values elsewhere.
LEMMA PartialSumIsLocal ==
  ASSUME NEW f, NEW g, NEW S, NEW T, IsFiniteSet(S), IsFiniteSet(T)
  PROVE  \A s \in (SUBSET S) \cap (SUBSET T) :
           (\A x \in s : f[x] = g[x]) => PartialSums(f, S)[s] = PartialSums(g, T)[s]
<1> DEFINE F == PartialSums(f, S)
           G == PartialSums(g, T)
           B == (SUBSET S) \cap (SUBSET T)
           N == {n \in Nat : \A s \in B :
                   Cardinality(s) = n /\ (\A x \in s : f[x] = g[x]) => F[s] = G[s]}
<1>0. \A s \in B : IsFiniteSet(s) /\ Cardinality(s) \in Nat
  BY FS_Subset, FS_CardinalityType
<1>f. \A s \in B : F[s] = IF s = {} THEN 0 ELSE f[Pick(s)] + F[s \ {Pick(s)}]
  BY PartialSum
<1>g. \A s \in B : G[s] = IF s = {} THEN 0 ELSE g[Pick(s)] + G[s \ {Pick(s)}]
  BY PartialSum
<1> HIDE DEF F, G
<1>1. 0 \in N
  <2>1. ASSUME NEW s \in B, Cardinality(s) = 0 PROVE F[s] = G[s]
    <3>1. s = {}
      BY <1>0, <2>1, FS_EmptySet
    <3>2. QED
      BY <1>f, <1>g, <3>1
  <2>2. QED
    BY <2>1
<1>2. ASSUME NEW n \in Nat, n \in N PROVE n + 1 \in N
  <2>1. ASSUME NEW s \in B, Cardinality(s) = n + 1, \A x \in s : f[x] = g[x] PROVE F[s] = G[s]
    <3> DEFINE r == s \ {Pick(s)}
    <3>1. s # {}
      BY <2>1, <1>0, FS_EmptySet
    <3>2. Pick(s) \in s
      BY <3>1 DEF Pick
    <3>3. r \in B /\ Cardinality(r) = n /\ \A x \in r : f[x] = g[x]
      <4>1. Cardinality(r) = Cardinality(s) - 1
        BY <1>0, <3>2, FS_RemoveElement
      <4>2. QED
        BY <2>1, <4>1
    <3>4. F[r] = G[r]
      BY <1>2, <3>3
    <3>5. QED
      BY <1>f, <1>g, <2>1, <3>1, <3>2, <3>4
  <2>2. QED
    BY <2>1
<1> HIDE DEF N
<1>3. Nat \subseteq N
  BY <1>1, <1>2, CountingUp
<1>4. QED
  BY <1>0, <1>3 DEF N, F, G

-----------------------------------------------------------------------------
(* The laws of sums *)

LEMMA SumOfNothing ==
  ASSUME NEW f
  PROVE  SumFunctionOnSet(f, {}) = 0
BY SumIsPartialSum, PartialSum, FS_EmptySet

\* A sum depends on the values of its elements only.
LEMMA SumOfEquals ==
  ASSUME NEW f, NEW g, NEW S, IsFiniteSet(S), \A x \in S : f[x] = g[x]
  PROVE  SumFunctionOnSet(f, S) = SumFunctionOnSet(g, S)
<1>1. S \in (SUBSET S) \cap (SUBSET S)
  OBVIOUS
<1>2. PartialSums(f, S)[S] = PartialSums(g, S)[S]
  BY <1>1, PartialSumIsLocal
<1>3. QED
  BY <1>2, SumIsPartialSum

LEMMA SumUnfolds ==
  ASSUME NEW f, NEW S, IsFiniteSet(S), S # {}
  PROVE  /\ Pick(S) \in S
         /\ SumFunctionOnSet(f, S) = f[Pick(S)] + SumFunctionOnSet(f, S \ {Pick(S)})
<1> DEFINE r == S \ {Pick(S)}
<1>1. Pick(S) \in S
  BY DEF Pick
<1>2. IsFiniteSet(r) /\ r \in (SUBSET S) \cap (SUBSET r)
  BY FS_Subset
<1>3. PartialSums(f, S)[r] = PartialSums(f, r)[r]
  BY <1>2, PartialSumIsLocal
<1>4. PartialSums(f, S)[S] = f[Pick(S)] + PartialSums(f, S)[r]
  BY PartialSum
<1>5. QED
  BY <1>1, <1>3, <1>4, SumIsPartialSum

\* The elements may be taken in any order.
LEMMA SumInAnyOrder ==
  ASSUME NEW f, NEW S, IsFiniteSet(S), \A x \in S : f[x] \in Int
  PROVE  /\ SumFunctionOnSet(f, S) \in Int
         /\ \A x \in S : SumFunctionOnSet(f, S) = f[x] + SumFunctionOnSet(f, S \ {x})
<1> DEFINE Sum(T) == SumFunctionOnSet(f, T)
           P(T) == Sum(T) \in Int /\ \A x \in T : Sum(T) = f[x] + Sum(T \ {x})
           N == {n \in Nat : \A T \in SUBSET S : Cardinality(T) <= n => P(T)}
<1>0. \A T \in SUBSET S : IsFiniteSet(T) /\ Cardinality(T) \in Nat
  BY FS_Subset, FS_CardinalityType
<1>u. ASSUME NEW T \in SUBSET S, T # {}
      PROVE  Pick(T) \in T /\ Sum(T) = f[Pick(T)] + Sum(T \ {Pick(T)})
  BY <1>0, <1>u, SumUnfolds
<1>e. Sum({}) = 0
  BY SumOfNothing
<1> HIDE DEF Sum
<1>1. 0 \in N
  <2>1. ASSUME NEW T \in SUBSET S, Cardinality(T) <= 0 PROVE P(T)
    <3>1. T = {}
      BY <1>0, <2>1, FS_EmptySet
    <3>2. QED
      BY <1>e, <3>1
  <2>2. QED
    BY <2>1
<1>2. ASSUME NEW n \in Nat, n \in N PROVE n + 1 \in N
  <2>1. ASSUME NEW T \in SUBSET S, Cardinality(T) <= n + 1, T # {} PROVE P(T)
    <3> DEFINE p == Pick(T)
    <3>1. p \in T /\ Sum(T) = f[p] + Sum(T \ {p})
      BY <1>u, <2>1
    <3> HIDE DEF p
    <3>2. ASSUME NEW x \in T PROVE T \ {x} \in SUBSET S /\ P(T \ {x})
      <4>1. Cardinality(T \ {x}) = Cardinality(T) - 1
        BY <1>0, FS_RemoveElement
      <4>2. T \ {x} \in SUBSET S /\ Cardinality(T \ {x}) <= n
        BY <1>0, <2>1, <4>1
      <4>3. QED
        BY <1>2, <4>2
    <3>3. Sum(T) \in Int
      BY <3>1, <3>2
    <3>4. ASSUME NEW x \in T, x # p PROVE Sum(T) = f[x] + Sum(T \ {x})
      <4>1. Sum(T \ {p}) = f[x] + Sum((T \ {p}) \ {x})
        BY <3>1, <3>2, <3>4
      <4>2. Sum(T \ {x}) = f[p] + Sum((T \ {x}) \ {p})
        BY <3>1, <3>2, <3>4
      <4>3. (T \ {p}) \ {x} = (T \ {x}) \ {p}
        OBVIOUS
      <4>4. Sum((T \ {x}) \ {p}) \in Int
        <5>1. Cardinality((T \ {x}) \ {p}) <= n /\ (T \ {x}) \ {p} \in SUBSET S
          <6>1. (T \ {x}) \ {p} \in SUBSET (T \ {x})
            OBVIOUS
          <6>2. Cardinality((T \ {x}) \ {p}) <= Cardinality(T \ {x})
            BY <6>1, <3>2, <1>0, FS_Subset
          <6>3. Cardinality(T \ {x}) = Cardinality(T) - 1
            BY <1>0, FS_RemoveElement
          <6>4. QED
            BY <6>2, <6>3, <1>0, <2>1
        <5>2. P((T \ {x}) \ {p})
          BY <5>1, <1>2
        <5>3. QED
          BY <5>2
      <4>5. f[x] \in Int /\ f[p] \in Int
        BY <3>1
      <4>6. PICK a \in Int : a = Sum((T \ {x}) \ {p})
        BY <4>4
      <4>7. Sum(T \ {p}) = f[x] + a /\ Sum(T \ {x}) = f[p] + a
        BY <4>1, <4>2, <4>3, <4>6
      <4>8. f[p] + (f[x] + a) = f[x] + (f[p] + a)
        BY <4>5
      <4>9. QED
        BY <3>1, <4>7, <4>8
    <3>5. QED
      BY <3>1, <3>3, <3>4
  <2>2. P({})
    BY <1>e
  <2>3. QED
    BY <2>1, <2>2
<1> HIDE DEF N
<1>3. Nat \subseteq N
  BY <1>1, <1>2, CountingUp
<1>4. P(S)
  BY <1>0, <1>3 DEF N
<1>5. QED
  BY <1>4 DEF Sum

LEMMA SumType ==
  ASSUME NEW f, NEW S, IsFiniteSet(S), \A x \in S : f[x] \in Int
  PROVE  SumFunctionOnSet(f, S) \in Int
BY SumInAnyOrder

LEMMA SumWithout ==
  ASSUME NEW f, NEW S, IsFiniteSet(S), \A x \in S : f[x] \in Int, NEW x \in S
  PROVE  SumFunctionOnSet(f, S \ {x}) = SumFunctionOnSet(f, S) - f[x]
<1>1. SumFunctionOnSet(f, S) = f[x] + SumFunctionOnSet(f, S \ {x})
  BY SumInAnyOrder
<1>2. IsFiniteSet(S \ {x}) /\ \A y \in S \ {x} : f[y] \in Int
  BY FS_Subset
<1>3. SumFunctionOnSet(f, S \ {x}) \in Int /\ f[x] \in Int
  BY <1>2, SumType
<1>4. QED
  BY <1>1, <1>3

LEMMA SumWith ==
  ASSUME NEW f, NEW S, IsFiniteSet(S), NEW x, x \notin S, \A y \in S \cup {x} : f[y] \in Int
  PROVE  SumFunctionOnSet(f, S \cup {x}) = SumFunctionOnSet(f, S) + f[x]
<1> DEFINE T == S \cup {x}
<1>1. IsFiniteSet(T) /\ x \in T /\ T \ {x} = S
  BY FS_AddElement
<1> HIDE DEF T
<1>2. \A y \in T : f[y] \in Int
  BY DEF T
<1>3. SumFunctionOnSet(f, T) = f[x] + SumFunctionOnSet(f, T \ {x})
  BY <1>1, <1>2, SumInAnyOrder
<1>4. SumFunctionOnSet(f, S) \in Int /\ f[x] \in Int
  BY <1>1, <1>2, SumType DEF T
<1>5. SumFunctionOnSet(f, T) = f[x] + SumFunctionOnSet(f, S)
  BY <1>1, <1>3
<1>6. SumFunctionOnSet(f, T) = SumFunctionOnSet(f, S) + f[x]
  BY <1>4, <1>5
<1>7. QED
  BY <1>6 DEF T

LEMMA SumScaled ==
  ASSUME NEW f, NEW g, NEW S, IsFiniteSet(S), NEW u \in Int,
         \A x \in S : f[x] \in Int /\ g[x] = f[x] * u
  PROVE  SumFunctionOnSet(g, S) = SumFunctionOnSet(f, S) * u
<1> DEFINE F(T) == SumFunctionOnSet(f, T)
           H(T) == SumFunctionOnSet(g, T)
           G == {T \in SUBSET S : F(T) \in Int /\ H(T) = F(T) * u}
<1>1. {} \in G
  BY SumOfNothing
<1>2. ASSUME NEW T \in SUBSET S, NEW x \in S \ T, T \in G PROVE T \cup {x} \in G
  <2>1. IsFiniteSet(T) /\ x \notin T /\ \A y \in T \cup {x} : f[y] \in Int /\ g[y] \in Int
    BY FS_Subset
  <2>2. F(T \cup {x}) = F(T) + f[x] /\ H(T \cup {x}) = H(T) + g[x]
    BY <2>1, SumWith
  <2>3. F(T) \in Int /\ f[x] \in Int /\ H(T) = F(T) * u /\ g[x] = f[x] * u
    BY <1>2
  <2> HIDE DEF F, H
  <2>4. \A a, b \in Int : a * u + b * u = (a + b) * u
    OBVIOUS
  <2>5. H(T) + g[x] = (F(T) + f[x]) * u
    BY <2>3, <2>4
  <2>6. QED
    BY <2>2, <2>3, <2>5
<1> HIDE DEF G
<1>3. S \in G
  BY <1>1, <1>2, FillingUp
<1>4. QED
  BY <1>3 DEF G

LEMMA SumJoined ==
  ASSUME NEW f, NEW S, NEW T, IsFiniteSet(S), IsFiniteSet(T), S \cap T = {},
         \A x \in S \cup T : f[x] \in Int
  PROVE  SumFunctionOnSet(f, S \cup T) = SumFunctionOnSet(f, S) + SumFunctionOnSet(f, T)
<1> DEFINE F(R) == SumFunctionOnSet(f, R)
           G == {R \in SUBSET T : F(R) \in Int /\ F(S \cup R) = F(S) + F(R)}
<1>0. F(S) \in Int
  BY SumType
<1>1. {} \in G
  <2>1. F({}) = 0 /\ S \cup {} = S
    BY SumOfNothing
  <2> HIDE DEF F
  <2>2. QED
    BY <1>0, <2>1
<1>2. ASSUME NEW R \in SUBSET T, NEW x \in T \ R, R \in G PROVE R \cup {x} \in G
  <2>1. /\ IsFiniteSet(R) /\ x \notin R /\ \A y \in R \cup {x} : f[y] \in Int
        /\ IsFiniteSet(S \cup R) /\ x \notin S \cup R /\ \A y \in (S \cup R) \cup {x} : f[y] \in Int
    BY FS_Subset, FS_Union
  <2>2. F(R \cup {x}) = F(R) + f[x] /\ F((S \cup R) \cup {x}) = F(S \cup R) + f[x]
    BY <2>1, SumWith
  <2>3. (S \cup R) \cup {x} = S \cup (R \cup {x})
    OBVIOUS
  <2>4. F(R) \in Int /\ f[x] \in Int /\ F(S \cup R) = F(S) + F(R)
    BY <1>2
  <2> HIDE DEF F
  <2>5. (F(S) + F(R)) + f[x] = F(S) + (F(R) + f[x]) /\ F(R) + f[x] \in Int
    BY <1>0, <2>4
  <2>6. F(S \cup (R \cup {x})) = F(S) + F(R \cup {x}) /\ F(R \cup {x}) \in Int
    BY <2>2, <2>3, <2>4, <2>5
  <2>7. QED
    BY <2>6
<1> HIDE DEF G
<1>3. T \in G
  BY <1>1, <1>2, FillingUp
<1>4. QED
  BY <1>3 DEF G

LEMMA SumSubtracted ==
  ASSUME NEW f, NEW g, NEW h, NEW S, IsFiniteSet(S),
         \A x \in S : f[x] \in Int /\ g[x] \in Int /\ h[x] = f[x] - g[x]
  PROVE  SumFunctionOnSet(h, S) = SumFunctionOnSet(f, S) - SumFunctionOnSet(g, S)
<1> DEFINE F(T) == SumFunctionOnSet(f, T)
           K(T) == SumFunctionOnSet(g, T)
           H(T) == SumFunctionOnSet(h, T)
           G == {T \in SUBSET S : F(T) \in Int /\ K(T) \in Int /\ H(T) = F(T) - K(T)}
<1>1. {} \in G
  BY SumOfNothing
<1>2. ASSUME NEW T \in SUBSET S, NEW x \in S \ T, T \in G PROVE T \cup {x} \in G
  <2>1. IsFiniteSet(T) /\ x \notin T
        /\ \A y \in T \cup {x} : f[y] \in Int /\ g[y] \in Int /\ h[y] \in Int
    BY FS_Subset
  <2>2. /\ F(T \cup {x}) = F(T) + f[x] /\ K(T \cup {x}) = K(T) + g[x]
        /\ H(T \cup {x}) = H(T) + h[x]
    BY <2>1, SumWith
  <2>3. /\ F(T) \in Int /\ K(T) \in Int /\ f[x] \in Int /\ g[x] \in Int
        /\ H(T) = F(T) - K(T) /\ h[x] = f[x] - g[x]
    BY <1>2
  <2> HIDE DEF F, K, H
  <2>4. H(T) + h[x] = (F(T) + f[x]) - (K(T) + g[x])
    BY <2>3
  <2>5. QED
    BY <2>2, <2>3, <2>4
<1> HIDE DEF G
<1>3. S \in G
  BY <1>1, <1>2, FillingUp
<1>4. QED
  BY <1>3 DEF G

\* Everything the members of a family hold.
Joined(A, C) == UNION {A[c] : c \in C}

\* The sum over a disjoint family is the sum of its members' sums.
LEMMA SumOfFamily ==
  ASSUME NEW f, NEW C, IsFiniteSet(C), NEW A, NEW k,
         \A c \in C : IsFiniteSet(A[c]) /\ k[c] = SumFunctionOnSet(f, A[c]),
         \A c, d \in C : c # d => A[c] \cap A[d] = {},
         \A c \in C : \A x \in A[c] : f[x] \in Int
  PROVE  /\ IsFiniteSet(Joined(A, C))
         /\ SumFunctionOnSet(k, C) = SumFunctionOnSet(f, Joined(A, C))
<1> DEFINE U(D) == UNION {A[c] : c \in D}
           F(T) == SumFunctionOnSet(f, T)
           K(D) == SumFunctionOnSet(k, D)
           G == {D \in SUBSET C : IsFiniteSet(U(D)) /\ K(D) = F(U(D))}
<1>0. \A c \in C : k[c] \in Int
  BY SumType
<1>1. {} \in G
  <2>1. U({}) = {}
    OBVIOUS
  <2>2. K({}) = 0 /\ F({}) = 0 /\ IsFiniteSet({})
    BY SumOfNothing, FS_EmptySet
  <2> HIDE DEF U, F, K
  <2>3. QED
    BY <2>1, <2>2
<1>2. ASSUME NEW D \in SUBSET C, NEW c \in C \ D, D \in G PROVE D \cup {c} \in G
  <2>1. U(D \cup {c}) = U(D) \cup A[c] /\ U(D) \cap A[c] = {}
    OBVIOUS
  <2>2. IsFiniteSet(U(D)) /\ IsFiniteSet(A[c]) /\ \A x \in U(D) \cup A[c] : f[x] \in Int
    BY <1>2
  <2>3. F(U(D) \cup A[c]) = F(U(D)) + F(A[c]) /\ IsFiniteSet(U(D) \cup A[c])
    <3> HIDE DEF U
    <3>1. U(D) \cap A[c] = {} /\ IsFiniteSet(U(D)) /\ IsFiniteSet(A[c])
          /\ \A x \in U(D) \cup A[c] : f[x] \in Int
      BY <2>1, <2>2
    <3>2. F(U(D) \cup A[c]) = F(U(D)) + F(A[c])
      BY <3>1, SumJoined
    <3>3. IsFiniteSet(U(D) \cup A[c])
      BY <3>1, FS_Union
    <3>4. QED
      BY <3>2, <3>3
  <2>4. K(D \cup {c}) = K(D) + k[c]
    <3>1. IsFiniteSet(D) /\ c \notin D /\ \A d \in D \cup {c} : k[d] \in Int
      BY <1>0, FS_Subset
    <3>2. QED
      BY <3>1, SumWith
  <2>5. k[c] = F(A[c]) /\ K(D) = F(U(D))
    BY <1>2
  <2> HIDE DEF U, F, K
  <2>6. IsFiniteSet(U(D \cup {c})) /\ K(D \cup {c}) = F(U(D \cup {c}))
    BY <2>1, <2>3, <2>4, <2>5
  <2>7. QED
    BY <2>6
<1> HIDE DEF G
<1>3. C \in G
  BY <1>1, <1>2, FillingUp
<1>4. QED
  BY <1>3 DEF G, Joined
=============================================================================
