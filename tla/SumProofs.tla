----------------------------- MODULE SumProofs -----------------------------
(***************************************************************************)
(* Sums over finite sets, as SumFunctionOnSet of the community modules     *)
(* takes them: a recursive function on the subsets of its set that takes   *)
(* away the element CHOOSE picks.  That it does not depend on the choice   *)
(* is shown first, with smallest counterexamples in the place of           *)
(* inductions.                                                             *)
(***************************************************************************)
EXTENDS Integers, FiniteSets, Functions, FiniteSetTheorems, WellFoundedInduction, TLAPS

\* The element that is taken away, what the function is at a set, and the function.
Taken(s) == CHOOSE x \in s : TRUE
SumAt(f, g, s) == IF s = {} THEN 0 ELSE f[Taken(s)] + g[s \ {Taken(s)}]
Sums(f, S, g) == g = [s \in SUBSET S |-> SumAt(f, g, s)]

-----------------------------------------------------------------------------
\* A set of numbers has a least one.
LEMMA LeastOfNumbers ==
    ASSUME NEW T \in SUBSET Nat, T # {}
    PROVE  \E n \in T : \A m \in T : n <= m
  <1>1. PICK n \in T : \A m \in T : ~(<<m, n>> \in OpToRel(<, Nat))
    BY NatLessThanWellFounded, WFMin
  <1>2. ASSUME NEW m \in T PROVE n <= m
    <2>1. ~(<<m, n>> \in OpToRel(<, Nat))
      BY <1>1
    <2>2. ~(m < n)
      BY <2>1 DEF OpToRel
    <2> QED
      BY <2>2
  <1> QED
    BY <1>2

\* A collection of finite sets has a smallest one.
LEMMA SmallestSet ==
    ASSUME NEW S, IsFiniteSet(S), NEW B \in SUBSET (SUBSET S), B # {}
    PROVE  \E s \in B : \A t \in SUBSET s : t # s => t \notin B
  <1> DEFINE sizes == {Cardinality(s) : s \in B}
  <1>1. \A s \in SUBSET S : IsFiniteSet(s) /\ Cardinality(s) \in Nat
    BY FS_Subset, FS_CardinalityType
  <1>2. PICK n \in sizes : \A m \in sizes : n <= m
    <2>1. sizes \in SUBSET Nat /\ sizes # {}
      BY <1>1
    <2> HIDE DEF sizes
    <2> QED
      BY <2>1, LeastOfNumbers
  <1>3. PICK s \in B : n = Cardinality(s)
    BY <1>2
  <1>4. ASSUME NEW t \in SUBSET s, t # s, t \in B PROVE FALSE
    <2>1. Cardinality(t) <= Cardinality(s) /\ Cardinality(t) # Cardinality(s)
      BY <1>1, <1>3, <1>4, FS_Subset
    <2>2. Cardinality(s) <= Cardinality(t)
      BY <1>2, <1>3, <1>4
    <2> QED
      BY <1>1, <1>3, <1>4, <2>1, <2>2
  <1> QED
    BY <1>4

-----------------------------------------------------------------------------
\* The recursive function exists: from the subsets of n elements to those of n + 1.
LEMMA SumsExist ==
    ASSUME NEW f, NEW S, IsFiniteSet(S)
    PROVE  \E g : Sums(f, S, g)
  <1> DEFINE Upto(n) == {s \in SUBSET S : Cardinality(s) <= n}
             Summed(n, g) == g = [s \in Upto(n) |-> SumAt(f, g, s)]
             missing == {n \in Nat : ~\E g : Summed(n, g)}
  <1>1. \A s \in SUBSET S : IsFiniteSet(s) /\ Cardinality(s) \in Nat /\ Cardinality(s) <= Cardinality(S)
    BY FS_Subset, FS_CardinalityType
  <1>2. \A s \in SUBSET S : s # {} =>
           /\ Taken(s) \in s /\ s \ {Taken(s)} \in SUBSET S
           /\ Cardinality(s \ {Taken(s)}) = Cardinality(s) - 1
    BY <1>1, FS_RemoveElement DEF Taken
  <1>3. missing = {}
    <2>1. SUFFICES ASSUME missing # {} PROVE FALSE
      OBVIOUS
    <2>2. PICK n \in missing : \A m \in missing : n <= m
      <3>1. missing \in SUBSET Nat
        OBVIOUS
      <3> HIDE DEF missing
      <3> QED
        BY <2>1, <3>1, LeastOfNumbers
    <2>3. n \in Nat /\ ~\E g : Summed(n, g)
      OBVIOUS
    <2>4. CASE n = 0
      <3>1. \A s \in Upto(0) : s = {}
        BY <1>1, FS_EmptySet
      <3>2. Summed(0, [s \in Upto(0) |-> 0])
        <4> DEFINE h == [s \in Upto(0) |-> 0]
        <4>1. \A s \in Upto(0) : SumAt(f, h, s) = 0
          BY <3>1 DEF SumAt
        <4> QED
          BY <4>1
      <3> QED
        BY <2>3, <2>4, <3>2
    <2>5. CASE n # 0
      <3>1. n - 1 \in Nat /\ n - 1 < n
        BY <2>3, <2>5
      <3>2. n - 1 \notin missing
        <4> HIDE DEF missing
        <4> QED
          BY <2>2, <2>3, <3>1
      <3>3. PICK g : Summed(n - 1, g)
        BY <3>1, <3>2
      <3> DEFINE h == [s \in Upto(n) |-> SumAt(f, g, s)]
      <3>4. \A s \in Upto(n - 1) : s \in Upto(n) /\ h[s] = g[s]
        <4>1. \A s \in Upto(n - 1) : s \in Upto(n)
          BY <1>1, <2>3, <3>1
        <4>2. \A s \in Upto(n - 1) : g[s] = SumAt(f, g, s)
          BY <3>3
        <4> QED
          BY <4>1, <4>2
      <3>5. ASSUME NEW s \in Upto(n) PROVE SumAt(f, h, s) = SumAt(f, g, s)
        <4>1. CASE s = {}
          BY <4>1 DEF SumAt
        <4>2. CASE s # {}
          <5>1. s \ {Taken(s)} \in Upto(n - 1)
            BY <1>1, <1>2, <2>3, <4>2
          <5>2. h[s \ {Taken(s)}] = g[s \ {Taken(s)}]
            BY <3>4, <5>1
          <5> QED
            BY <4>2, <5>2 DEF SumAt
        <4> QED
          BY <4>1, <4>2
      <3>6. Summed(n, h)
        BY <3>5
      <3> QED
        BY <2>3, <3>6
    <2> QED
      BY <2>4, <2>5
  <1>4. PICK g : Summed(Cardinality(S), g)
    BY <1>3, FS_CardinalityType
  <1>5. Upto(Cardinality(S)) = SUBSET S
    BY <1>1
  <1>6. Sums(f, S, g)
    BY <1>4, <1>5 DEF Sums
  <1> QED
    BY <1>6

\* The functions of equal values agree on the subsets they share.
LEMMA SumsAgree ==
    ASSUME NEW f, NEW S, NEW g, Sums(f, S, g), NEW e, NEW T, NEW h, Sums(e, T, h),
           NEW R, IsFiniteSet(R), R \subseteq S, R \subseteq T, \A x \in R : f[x] = e[x]
    PROVE  g[R] = h[R]
  <1> DEFINE B == {s \in SUBSET R : g[s] # h[s]}
  <1>1. SUFFICES ASSUME B # {} PROVE FALSE
    OBVIOUS
  <1>2. PICK s \in B : \A t \in SUBSET s : t # s => t \notin B
    <2>1. B \in SUBSET (SUBSET R)
      OBVIOUS
    <2> HIDE DEF B
    <2> QED
      BY <1>1, <2>1, SmallestSet
  <1>3. g[s] = SumAt(f, g, s) /\ h[s] = SumAt(e, h, s)
    BY DEF Sums
  <1>4. s # {}
    BY <1>3 DEF SumAt
  <1>5. Taken(s) \in s
    BY <1>4 DEF Taken
  <1>6. g[s \ {Taken(s)}] = h[s \ {Taken(s)}]
    BY <1>2, <1>5
  <1> QED
    BY <1>3, <1>4, <1>5, <1>6 DEF SumAt

-----------------------------------------------------------------------------
\* What the sum is at the set itself.
LEMMA SumIsOfTaken ==
    ASSUME NEW f, NEW S, IsFiniteSet(S)
    PROVE  /\ SumFunctionOnSet(f, {}) = 0
           /\ S # {} => SumFunctionOnSet(f, S) =
                           f[Taken(S)] + SumFunctionOnSet(f, S \ {Taken(S)})
  <1> DEFINE G(T) == CHOOSE g : Sums(f, T, g)
  <1>1. \A T : SumFunctionOnSet(f, T) = G(T)[T]
    BY DEF SumFunctionOnSet, FoldFunctionOnSet, MapThenFoldSet, Sums, SumAt, Taken
  <1>2. \A T : IsFiniteSet(T) => Sums(f, T, G(T))
    BY SumsExist
  <1> HIDE DEF G
  <1>3. SumFunctionOnSet(f, {}) = 0
    BY <1>1, <1>2, FS_EmptySet DEF Sums, SumAt
  <1>4. ASSUME S # {} PROVE SumFunctionOnSet(f, S) = f[Taken(S)] + SumFunctionOnSet(f, S \ {Taken(S)})
    <2> DEFINE R == S \ {Taken(S)}
    <2>1. IsFiniteSet(R) /\ R \subseteq S
      BY FS_Subset
    <2>2. G(S)[S] = f[Taken(S)] + G(S)[R]
      BY <1>2, <1>4 DEF Sums, SumAt
    <2>3. Sums(f, S, G(S)) /\ Sums(f, R, G(R))
      BY <1>2, <2>1
    <2> HIDE DEF R
    <2>4. G(S)[R] = G(R)[R]
      BY <2>1, <2>3, SumsAgree
    <2> QED
      BY <1>1, <2>2, <2>4 DEF R
  <1> QED
    BY <1>3, <1>4

\* A sum depends on the values of its set only.
LEMMA SumOfEquals ==
    ASSUME NEW f, NEW e, NEW S, IsFiniteSet(S), \A x \in S : f[x] = e[x]
    PROVE  SumFunctionOnSet(f, S) = SumFunctionOnSet(e, S)
  <1>1. SumFunctionOnSet(f, S) = (CHOOSE g : Sums(f, S, g))[S]
    BY DEF SumFunctionOnSet, FoldFunctionOnSet, MapThenFoldSet, Sums, SumAt, Taken
  <1>2. SumFunctionOnSet(e, S) = (CHOOSE g : Sums(e, S, g))[S]
    BY DEF SumFunctionOnSet, FoldFunctionOnSet, MapThenFoldSet, Sums, SumAt, Taken
  <1>3. Sums(f, S, CHOOSE g : Sums(f, S, g)) /\ Sums(e, S, CHOOSE g : Sums(e, S, g))
    BY SumsExist
  <1> QED
    BY <1>1, <1>2, <1>3, SumsAgree

\* The sum of numbers is one.
LEMMA SumIsANumber ==
    ASSUME NEW f, NEW S, IsFiniteSet(S), NEW N \in {Nat, Int}, \A x \in S : f[x] \in N
    PROVE  SumFunctionOnSet(f, S) \in N
  <1> DEFINE B == {s \in SUBSET S : SumFunctionOnSet(f, s) \notin N}
  <1>1. SUFFICES ASSUME B # {} PROVE FALSE
    OBVIOUS
  <1>2. PICK s \in B : \A t \in SUBSET s : t # s => t \notin B
    <2>1. B \in SUBSET (SUBSET S)
      OBVIOUS
    <2> HIDE DEF B
    <2> QED
      BY <1>1, <2>1, SmallestSet
  <1>3. IsFiniteSet(s)
    BY FS_Subset
  <1>4. s # {}
    <2>1. SumFunctionOnSet(f, {}) = 0
      BY <1>3, SumIsOfTaken
    <2>2. 0 \in N
      OBVIOUS
    <2> QED
      BY <2>1, <2>2
  <1>5. Taken(s) \in s
    BY <1>4 DEF Taken
  <1>6. SumFunctionOnSet(f, s \ {Taken(s)}) \in N
    BY <1>2, <1>5
  <1>7. SumFunctionOnSet(f, s) = f[Taken(s)] + SumFunctionOnSet(f, s \ {Taken(s)})
    BY <1>3, <1>4, SumIsOfTaken
  <1>8. f[Taken(s)] \in N
    BY <1>5
  <1> HIDE DEF B
  <1>9. SumFunctionOnSet(f, s) \in N
    BY <1>6, <1>7, <1>8
  <1> QED
    BY <1>9 DEF B

\* Any element may be taken away first: the order does not matter.
LEMMA SumIsOfAny ==
    ASSUME NEW f, NEW S, IsFiniteSet(S), \A x \in S : f[x] \in Int, NEW x \in S
    PROVE  SumFunctionOnSet(f, S) = f[x] + SumFunctionOnSet(f, S \ {x})
  <1> DEFINE Sum(s) == SumFunctionOnSet(f, s)
             B == {s \in SUBSET S : \E y \in s : Sum(s) # f[y] + Sum(s \ {y})}
  <1>1. SUFFICES ASSUME B # {} PROVE FALSE
    OBVIOUS
  <1>2. PICK s \in B : \A t \in SUBSET s : t # s => t \notin B
    <2>1. B \in SUBSET (SUBSET S)
      OBVIOUS
    <2> HIDE DEF B
    <2> QED
      BY <1>1, <2>1, SmallestSet
  <1>3. PICK y \in s : Sum(s) # f[y] + Sum(s \ {y})
    OBVIOUS
  <1> DEFINE c == Taken(s)
  <1>4. c \in s
    BY DEF Taken
  <1>5. \A t \in SUBSET S : IsFiniteSet(t) /\ Sum(t) \in Int
    <2>1. \A t \in SUBSET S : IsFiniteSet(t) /\ \A z \in t : f[z] \in Int
      BY FS_Subset
    <2> QED
      BY <2>1, SumIsANumber
  <1>6. Sum(s) = f[c] + Sum(s \ {c})
    BY <1>4, <1>5, SumIsOfTaken
  <1>7. y # c
    BY <1>3, <1>6
  <1> HIDE DEF Sum, c
  <1>8. Sum(s \ {c}) = f[y] + Sum((s \ {c}) \ {y})
    BY <1>2, <1>4, <1>7
  <1>9. Sum(s \ {y}) = f[c] + Sum((s \ {y}) \ {c})
    BY <1>2, <1>3, <1>4, <1>7
  <1>10. (s \ {c}) \ {y} = (s \ {y}) \ {c}
    OBVIOUS
  <1>11. f[y] \in Int /\ f[c] \in Int /\ Sum((s \ {y}) \ {c}) \in Int
    BY <1>4, <1>5
  <1> HIDE DEF B
  <1> DEFINE rest == Sum((s \ {y}) \ {c})
  <1>12. /\ Sum(s) = f[c] + (f[y] + rest)
         /\ f[y] + Sum(s \ {y}) = f[y] + (f[c] + rest)
    BY <1>6, <1>8, <1>9, <1>10
  <1>13. f[c] + (f[y] + rest) = f[y] + (f[c] + rest)
    <2>1. rest \in Int
      BY <1>11
    <2> HIDE DEF rest
    <2> QED
      BY <1>11, <2>1
  <1> QED
    BY <1>3, <1>12, <1>13

\* What an element adds.
LEMMA SumOfMore ==
    ASSUME NEW f, NEW S, IsFiniteSet(S), NEW x, x \notin S,
           \A y \in S \cup {x} : f[y] \in Int
    PROVE  SumFunctionOnSet(f, S \cup {x}) = SumFunctionOnSet(f, S) + f[x]
  <1>1. IsFiniteSet(S \cup {x})
    BY FS_AddElement
  <1>2. SumFunctionOnSet(f, S \cup {x}) = f[x] + SumFunctionOnSet(f, (S \cup {x}) \ {x})
    BY <1>1, SumIsOfAny
  <1>3. (S \cup {x}) \ {x} = S
    OBVIOUS
  <1>4. SumFunctionOnSet(f, S) \in Int /\ f[x] \in Int
    BY SumIsANumber
  <1>5. SumFunctionOnSet(f, S \cup {x}) = f[x] + SumFunctionOnSet(f, S)
    BY <1>2, <1>3
  <1> QED
    BY <1>4, <1>5

\* What the change of one value changes.
LEMMA SumOfChanged ==
    ASSUME NEW f, NEW e, NEW S, IsFiniteSet(S), NEW x \in S,
           \A y \in S : f[y] \in Int /\ e[y] \in Int,
           \A y \in S : y # x => e[y] = f[y]
    PROVE  SumFunctionOnSet(e, S) = SumFunctionOnSet(f, S) + (e[x] - f[x])
  <1> DEFINE R == S \ {x}
  <1>1. IsFiniteSet(R) /\ \A y \in R : e[y] = f[y]
    BY FS_Subset
  <1>2. SumFunctionOnSet(e, R) = SumFunctionOnSet(f, R)
    BY <1>1, SumOfEquals
  <1>3. /\ SumFunctionOnSet(f, S) = f[x] + SumFunctionOnSet(f, R)
        /\ SumFunctionOnSet(e, S) = e[x] + SumFunctionOnSet(e, R)
    BY SumIsOfAny
  <1>4. SumFunctionOnSet(f, R) \in Int /\ f[x] \in Int /\ e[x] \in Int
    BY <1>1, SumIsANumber
  <1> QED
    BY <1>2, <1>3, <1>4

\* A sum over a set that at most one element comes to.
LEMMA SumOfOneMore ==
    ASSUME NEW f, NEW e, NEW S, IsFiniteSet(S), NEW N, N \cap S = {},
           \A x \in S : f[x] \in Nat /\ e[x] = f[x],
           \A x \in N : e[x] \in Nat,
           \A x \in N : \A y \in N : x = y
    PROVE  /\ SumFunctionOnSet(f, S) \in Nat
           /\ N = {} => SumFunctionOnSet(e, S \cup N) = SumFunctionOnSet(f, S)
           /\ \A x \in N : SumFunctionOnSet(e, S \cup N) = SumFunctionOnSet(f, S) + e[x]
  <1>1. SumFunctionOnSet(f, S) \in Nat
    BY SumIsANumber
  <1>2. SumFunctionOnSet(e, S) = SumFunctionOnSet(f, S)
    BY SumOfEquals
  <1>3. N = {} => S \cup N = S
    OBVIOUS
  <1>4. ASSUME NEW x \in N PROVE SumFunctionOnSet(e, S \cup N) = SumFunctionOnSet(f, S) + e[x]
    <2>1. S \cup N = S \cup {x} /\ x \notin S
      OBVIOUS
    <2>2. \A y \in S \cup {x} : e[y] \in Int
      OBVIOUS
    <2>3. SumFunctionOnSet(e, S \cup {x}) = SumFunctionOnSet(e, S) + e[x]
      BY <2>1, <2>2, SumOfMore
    <2> QED
      BY <1>2, <2>1, <2>3
  <1> QED
    BY <1>1, <1>2, <1>3, <1>4

\* Nothing sums up to nothing.
LEMMA SumOfZeros ==
    ASSUME NEW S, IsFiniteSet(S), NEW f, \A x \in S : f[x] = 0
    PROVE  SumFunctionOnSet(f, S) = 0
  <1> DEFINE B == {s \in SUBSET S : SumFunctionOnSet(f, s) # 0}
  <1>1. SUFFICES ASSUME B # {} PROVE FALSE
    OBVIOUS
  <1>2. PICK s \in B : \A t \in SUBSET s : t # s => t \notin B
    <2>1. B \in SUBSET (SUBSET S)
      OBVIOUS
    <2> HIDE DEF B
    <2> QED
      BY <1>1, <2>1, SmallestSet
  <1>3. IsFiniteSet(s) /\ s \in SUBSET S /\ SumFunctionOnSet(f, s) # 0
    BY FS_Subset
  <1>4. s # {}
    BY <1>3, SumIsOfTaken
  <1>5. PICK x \in s : TRUE
    BY <1>4
  <1>6. SumFunctionOnSet(f, s) = f[x] + SumFunctionOnSet(f, s \ {x})
    BY <1>3, SumIsOfAny
  <1>7. SumFunctionOnSet(f, s \ {x}) = 0
    BY <1>2, <1>3
  <1> QED
    BY <1>3, <1>6, <1>7

\* A sum over a set, where one number grows.
LEMMA SumGrows ==
    ASSUME NEW S, IsFiniteSet(S), NEW f, NEW e, NEW x \in S, NEW a \in Nat,
           DOMAIN f = S, DOMAIN e = S, \A y \in S : f[y] \in Nat,
           \A y \in S : y # x => e[y] = f[y],
           e[x] = f[x] + a
    PROVE  SumFunction(e) = SumFunction(f) + a
  <1>1. \A y \in S : f[y] \in Int /\ e[y] \in Int
    OBVIOUS
  <1>2. SumFunctionOnSet(e, S) = SumFunctionOnSet(f, S) + (e[x] - f[x])
    BY <1>1, SumOfChanged
  <1>3. e[x] - f[x] = a /\ SumFunctionOnSet(f, S) \in Nat
    BY SumIsANumber
  <1> QED
    BY <1>2, <1>3 DEF SumFunction

-----------------------------------------------------------------------------
(* Inductions, and sums of sums.                                           *)

\* Whatever holds of the empty set, and of a set when of it without the element that is
\* taken away, holds of a finite set.
LEMMA SetInduction ==
    ASSUME NEW S, IsFiniteSet(S), NEW G \in SUBSET (SUBSET S), {} \in G,
           \A s \in SUBSET S : IsFiniteSet(s) /\ s # {} /\ s \ {Taken(s)} \in G => s \in G
    PROVE  S \in G
  <1> DEFINE B == (SUBSET S) \ G
  <1>1. SUFFICES ASSUME B # {} PROVE FALSE
    OBVIOUS
  <1>2. PICK s \in B : \A t \in SUBSET s : t # s => t \notin B
    <2>1. B \in SUBSET (SUBSET S)
      OBVIOUS
    <2> HIDE DEF B
    <2> QED
      BY <1>1, <2>1, SmallestSet
  <1>3. IsFiniteSet(s) /\ s # {}
    BY FS_Subset
  <1>4. Taken(s) \in s
    BY <1>3 DEF Taken
  <1>5. s \ {Taken(s)} \in G
    BY <1>2, <1>4
  <1> QED
    BY <1>3, <1>5

\* Whatever holds of 0, and of a number when of the one before, holds up to any number.
LEMMA UptoInduction ==
    ASSUME NEW N \in Nat, NEW G, 0 \in G, \A n \in 1..N : n - 1 \in G => n \in G
    PROVE  N \in G
  <1> DEFINE T == (0..N) \ G
  <1>1. SUFFICES ASSUME T # {} PROVE FALSE
    OBVIOUS
  <1>2. PICK n \in T : \A m \in T : n <= m
    <2>1. T \in SUBSET Nat
      OBVIOUS
    <2> HIDE DEF T
    <2> QED
      BY <1>1, <2>1, LeastOfNumbers
  <1>3. n \in 1..N /\ n - 1 \in 0..N /\ ~(n <= n - 1)
    OBVIOUS
  <1>4. n - 1 \in G
    BY <1>2, <1>3
  <1> QED
    BY <1>3, <1>4

\* Sums are added element by element.
LEMMA SumOfSums ==
    ASSUME NEW S, IsFiniteSet(S), NEW f, NEW g, NEW h,
           \A x \in S : f[x] \in Int /\ g[x] \in Int /\ h[x] = f[x] + g[x]
    PROVE  SumFunctionOnSet(h, S) = SumFunctionOnSet(f, S) + SumFunctionOnSet(g, S)
  <1> DEFINE F(s) == SumFunctionOnSet(f, s)
             E(s) == SumFunctionOnSet(g, s)
             H(s) == SumFunctionOnSet(h, s)
             G == {s \in SUBSET S : H(s) = F(s) + E(s)}
  <1>1. {} \in G
    <2>1. F({}) = 0 /\ E({}) = 0 /\ H({}) = 0
      BY FS_EmptySet, SumIsOfTaken
    <2> HIDE DEF F, E, H
    <2> QED
      BY <2>1
  <1>2. ASSUME NEW s \in SUBSET S, IsFiniteSet(s), s # {}, s \ {Taken(s)} \in G
        PROVE  s \in G
    <2> DEFINE x == Taken(s)
               t == s \ {Taken(s)}
    <2>1. x \in S /\ IsFiniteSet(t)
      BY <1>2, FS_Subset DEF Taken
    <2>2. F(s) = f[x] + F(t) /\ E(s) = g[x] + E(t) /\ H(s) = h[x] + H(t)
      BY <1>2, SumIsOfTaken
    <2>3. H(t) = F(t) + E(t)
      BY <1>2
    <2>4. F(t) \in Int /\ E(t) \in Int
      BY <1>2, <2>1, SumIsANumber
    <2>5. f[x] \in Int /\ g[x] \in Int /\ h[x] = f[x] + g[x]
      BY <2>1
    <2> HIDE DEF F, E, H, x, t
    <2>6. H(s) = F(s) + E(s)
      BY <2>2, <2>3, <2>4, <2>5
    <2> QED
      BY <2>6
  <1> HIDE DEF G
  <1>3. S \in G
    BY <1>1, <1>2, SetInduction DEF G
  <1> QED
    BY <1>3 DEF G

\* A sum of multiples is the multiple of the sum.
LEMMA SumOfMultiples ==
    ASSUME NEW S, IsFiniteSet(S), NEW f, NEW h, NEW k \in Int,
           \A x \in S : f[x] \in Int /\ h[x] = k * f[x]
    PROVE  SumFunctionOnSet(h, S) = k * SumFunctionOnSet(f, S)
  <1> DEFINE F(s) == SumFunctionOnSet(f, s)
             H(s) == SumFunctionOnSet(h, s)
             G == {s \in SUBSET S : H(s) = k * F(s)}
  <1>1. {} \in G
    <2>1. F({}) = 0 /\ H({}) = 0
      BY FS_EmptySet, SumIsOfTaken
    <2> HIDE DEF F, H
    <2> QED
      BY <2>1
  <1>2. ASSUME NEW s \in SUBSET S, IsFiniteSet(s), s # {}, s \ {Taken(s)} \in G
        PROVE  s \in G
    <2> DEFINE x == Taken(s)
               t == s \ {Taken(s)}
    <2>1. x \in S /\ IsFiniteSet(t)
      BY <1>2, FS_Subset DEF Taken
    <2>2. F(s) = f[x] + F(t) /\ H(s) = h[x] + H(t)
      BY <1>2, SumIsOfTaken
    <2>3. H(t) = k * F(t)
      BY <1>2
    <2>4. F(t) \in Int
      BY <1>2, <2>1, SumIsANumber
    <2>5. f[x] \in Int /\ h[x] = k * f[x]
      BY <2>1
    <2> HIDE DEF F, H, x, t
    <2>6. k * (f[x] + F(t)) = k * f[x] + k * F(t)
      BY <2>4, <2>5
    <2>7. H(s) = k * F(s)
      BY <2>2, <2>3, <2>5, <2>6
    <2> QED
      BY <2>7
  <1> HIDE DEF G
  <1>3. S \in G
    BY <1>1, <1>2, SetInduction DEF G
  <1> QED
    BY <1>3 DEF G

\* A sum is that of a part and of the rest.
LEMMA SumOfParts ==
    ASSUME NEW S, IsFiniteSet(S), NEW f, \A x \in S : f[x] \in Int, NEW P \in SUBSET S
    PROVE  SumFunctionOnSet(f, S) = SumFunctionOnSet(f, P) + SumFunctionOnSet(f, S \ P)
  <1> DEFINE F(s) == SumFunctionOnSet(f, s)
             G == {s \in SUBSET S : F(s) = F(s \cap P) + F(s \ P)}
  <1>1. {} \in G
    <2>1. F({}) = 0 /\ {} \cap P = {} /\ {} \ P = {}
      BY FS_EmptySet, SumIsOfTaken
    <2> HIDE DEF F
    <2> QED
      BY <2>1
  <1>2. ASSUME NEW s \in SUBSET S, IsFiniteSet(s), s # {}, s \ {Taken(s)} \in G
        PROVE  s \in G
    <2> DEFINE x == Taken(s)
               t == s \ {Taken(s)}
    <2>1. x \in s /\ x \in S /\ IsFiniteSet(t) /\ f[x] \in Int
      BY <1>2, FS_Subset DEF Taken
    <2>2. F(s) = f[x] + F(t)
      BY <1>2, SumIsOfTaken
    <2>3. F(t) = F(t \cap P) + F(t \ P)
      BY <1>2
    <2>4. /\ IsFiniteSet(s \cap P) /\ IsFiniteSet(s \ P)
          /\ IsFiniteSet(t \cap P) /\ IsFiniteSet(t \ P)
      BY <1>2, <2>1, FS_Subset
    <2>5. F(t \cap P) \in Int /\ F(t \ P) \in Int
      <3>1. \A y \in (t \cap P) \cup (t \ P) : f[y] \in Int
        OBVIOUS
      <3> QED
        BY <2>4, <3>1, SumIsANumber
    <2>6. CASE x \in P
      <3>1. s \ P = t \ P /\ x \in s \cap P /\ t \cap P = (s \cap P) \ {x}
        BY <2>1, <2>6
      <3>2. F(s \cap P) = f[x] + F((s \cap P) \ {x})
        <4>1. \A y \in s \cap P : f[y] \in Int
          OBVIOUS
        <4> QED
          BY <2>4, <3>1, <4>1, SumIsOfAny
      <3>3. F(s \cap P) = f[x] + F(t \cap P) /\ F(s \ P) = F(t \ P)
        BY <3>1, <3>2
      <3> HIDE DEF F, x, t
      <3>4. F(s) = F(s \cap P) + F(s \ P)
        BY <2>1, <2>2, <2>3, <2>5, <3>3
      <3> QED
        BY <3>4
    <2>7. CASE x \notin P
      <3>1. s \cap P = t \cap P /\ x \in s \ P /\ t \ P = (s \ P) \ {x}
        BY <2>1, <2>7
      <3>2. F(s \ P) = f[x] + F((s \ P) \ {x})
        <4>1. \A y \in s \ P : f[y] \in Int
          OBVIOUS
        <4> QED
          BY <2>4, <3>1, <4>1, SumIsOfAny
      <3>3. F(s \ P) = f[x] + F(t \ P) /\ F(s \cap P) = F(t \cap P)
        BY <3>1, <3>2
      <3> HIDE DEF F, x, t
      <3>4. F(s) = F(s \cap P) + F(s \ P)
        BY <2>1, <2>2, <2>3, <2>5, <3>3
      <3> QED
        BY <3>4
    <2> QED
      BY <2>6, <2>7
  <1> HIDE DEF G
  <1>3. S \in G
    BY <1>1, <1>2, SetInduction DEF G
  <1>4. S \cap P = P
    OBVIOUS
  <1> QED
    BY <1>3, <1>4 DEF G

\* Where no value is smaller, neither is the sum, and the less so over more elements.
LEMMA SumIsMonotone ==
    ASSUME NEW T, IsFiniteSet(T), NEW S \in SUBSET T, NEW f, NEW g,
           \A x \in S : f[x] \in Int /\ g[x] \in Int /\ f[x] <= g[x],
           \A x \in T \ S : g[x] \in Nat
    PROVE  SumFunctionOnSet(f, S) <= SumFunctionOnSet(g, T)
  <1> DEFINE d == [x \in S |-> g[x] - f[x]]
  <1>1. IsFiniteSet(S) /\ IsFiniteSet(T \ S)
    BY FS_Subset
  <1>2. \A x \in S : d[x] \in Nat /\ d[x] \in Int /\ g[x] = f[x] + d[x] /\ f[x] \in Int
    OBVIOUS
  <1>3. /\ SumFunctionOnSet(d, S) \in Nat /\ SumFunctionOnSet(f, S) \in Int
        /\ SumFunctionOnSet(g, T \ S) \in Nat
    <2> HIDE DEF d
    <2> QED
      BY <1>1, <1>2, SumIsANumber
  <1>4. SumFunctionOnSet(g, S) = SumFunctionOnSet(f, S) + SumFunctionOnSet(d, S)
    <2> HIDE DEF d
    <2> QED
      BY <1>1, <1>2, SumOfSums
  <1>5. SumFunctionOnSet(g, T) = SumFunctionOnSet(g, S) + SumFunctionOnSet(g, T \ S)
    <2>1. \A x \in T : g[x] \in Int
      OBVIOUS
    <2> QED
      BY <2>1, SumOfParts
  <1> HIDE DEF d
  <1> QED
    BY <1>3, <1>4, <1>5

\* A sum of ones counts.
LEMMA SumOfOnes ==
    ASSUME NEW S, IsFiniteSet(S), NEW f, \A x \in S : f[x] = 1
    PROVE  SumFunctionOnSet(f, S) = Cardinality(S)
  <1> DEFINE G == {s \in SUBSET S : SumFunctionOnSet(f, s) = Cardinality(s)}
  <1>1. {} \in G
    BY FS_EmptySet, SumIsOfTaken
  <1>2. ASSUME NEW s \in SUBSET S, IsFiniteSet(s), s # {}, s \ {Taken(s)} \in G
        PROVE  s \in G
    <2>1. Taken(s) \in s /\ f[Taken(s)] = 1
      BY <1>2 DEF Taken
    <2>2. /\ Cardinality(s \ {Taken(s)}) = Cardinality(s) - 1
          /\ Cardinality(s) \in Nat
      BY <1>2, <2>1, FS_RemoveElement, FS_CardinalityType
    <2>3. SumFunctionOnSet(f, s) = f[Taken(s)] + SumFunctionOnSet(f, s \ {Taken(s)})
      BY <1>2, SumIsOfTaken
    <2>4. SumFunctionOnSet(f, s \ {Taken(s)}) = Cardinality(s \ {Taken(s)})
      BY <1>2
    <2> QED
      BY <2>1, <2>2, <2>3, <2>4
  <1> HIDE DEF G
  <1>3. S \in G
    BY <1>1, <1>2, SetInduction DEF G
  <1> QED
    BY <1>3 DEF G
=============================================================================
