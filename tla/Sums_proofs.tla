---------------------------- MODULE Sums_proofs ----------------------------
(***************************************************************************)
(* What a sum over a finite set is: the fold that defines it takes the     *)
(* members in an order of its own, and none of the facts below depends on  *)
(* that order.  Induction on the size of a set is by a smallest            *)
(* counterexample.                                                         *)
(***************************************************************************)
EXTENDS Functions, Integers, FiniteSets, FiniteSetTheorems, WellFoundedInduction, TLAPS

\* The member the fold takes first.
First(T) == CHOOSE x \in T : TRUE

\* g adds up f over each set of D.
Adds(g, f, D) == \A T \in D : g[T] = IF T = {} THEN 0 ELSE f[First(T)] + g[T \ {First(T)}]

\* ... over each subset of S.
Solves(g, f, S) == Adds(g, f, SUBSET S)

\* f and e have the same values on T.
Agree(f, e, T) == \A x \in T : f[x] = e[x]

\* On S, h adds f and g.
AddsTwo(h, f, g, S) == \A x \in S : f[x] \in Int /\ g[x] \in Int /\ h[x] = f[x] + g[x]

\* On S, g is c times f.
Times(g, c, f, S) == c \in Int /\ \A x \in S : f[x] \in Int /\ g[x] = c * f[x]

\* A set of numbers has a smallest.
LEMMA LeastNumber ==
    ASSUME NEW N \in SUBSET Nat, N # {}
    PROVE  \E n \in N : \A m \in N : n <= m
<1> DEFINE R == {ss \in Nat \X Nat : ss[1] < ss[2]}
<1>1. OpToRel(<, Nat) = R
  BY DEF OpToRel
<1>2. IsWellFoundedOn(R, Nat)
  BY <1>1, NatLessThanWellFounded
<1> HIDE DEF R
<1>3. PICK n \in N : \A m \in N : ~(<<m, n>> \in R)
  BY <1>2, WFMin
<1>4. ASSUME NEW m \in N PROVE n <= m
  <2>1. m \in Nat /\ n \in Nat /\ <<m, n>> \notin R
    BY <1>3
  <2>2. ~(m < n)
    BY <2>1 DEF R
  <2> QED BY <2>1, <2>2
<1> QED BY <1>4

\* Of finite sets some of which are bad, one is bad while every smaller one is good.
LEMMA SmallestBad ==
    ASSUME NEW S, IsFiniteSet(S), NEW B \in SUBSET (SUBSET S), B # {}
    PROVE  \E T \in B : \A U \in SUBSET S : Cardinality(U) < Cardinality(T) => U \notin B
<1> DEFINE N == {n \in Nat : \E T \in B : Cardinality(T) = n}
<1>1. \A T \in SUBSET S : IsFiniteSet(T) /\ Cardinality(T) \in Nat
  BY FS_Subset, FS_CardinalityType
<1>2. N \in SUBSET Nat /\ N # {}
  BY <1>1
<1> HIDE DEF N
<1>3. PICK n \in N : \A m \in N : n <= m
  BY <1>2, LeastNumber
<1>4. PICK T \in B : Cardinality(T) = n
  BY <1>3 DEF N
<1>5. ASSUME NEW U \in SUBSET S, Cardinality(U) < Cardinality(T), U \in B PROVE FALSE
  <2>1. Cardinality(U) \in N /\ n \in Nat /\ Cardinality(U) \in Nat
    BY <1>1, <1>2, <1>3, <1>5 DEF N
  <2> QED BY <2>1, <1>3, <1>4, <1>5
<1> QED BY <1>4, <1>5

\* Taking a member away leaves a smaller set.
LEMMA Smaller ==
    ASSUME NEW S, IsFiniteSet(S), NEW T \in SUBSET S, NEW x \in T
    PROVE  /\ T \ {x} \in SUBSET S /\ IsFiniteSet(T) /\ Cardinality(T) \in Nat
           /\ Cardinality(T \ {x}) \in Nat /\ Cardinality(T \ {x}) < Cardinality(T) /\ Cardinality(T \ {x}) = Cardinality(T) - 1
  BY FS_Subset, FS_RemoveElement, FS_CardinalityType

\* A set that is not empty has a first member.
LEMMA FirstOf == ASSUME NEW T, T # {} PROVE First(T) \in T
  BY DEF First

\* The recursion that defines the sum has a solution.
LEMMA SolutionExists ==
    ASSUME NEW f, NEW S, IsFiniteSet(S), \A x \in S : f[x] \in Int
    PROVE  \E g \in [SUBSET S -> Int] : Adds(g, f, SUBSET S)
<1> DEFINE D(n) == {T \in SUBSET S : Cardinality(T) <= n}
           N == {n \in Nat : ~ \E g \in [D(n) -> Int] : Adds(g, f, D(n))}
<1>0. \A T \in SUBSET S : IsFiniteSet(T) /\ Cardinality(T) \in Nat /\ Cardinality(T) <= Cardinality(S)
  BY FS_Subset, FS_CardinalityType
<1>1. N = {}
  <2> SUFFICES ASSUME N # {} PROVE FALSE
    OBVIOUS
  <2>1. PICK n \in N : \A m \in N : n <= m
    <3>1. N \in SUBSET Nat
      OBVIOUS
    <3> HIDE DEF N
    <3> QED BY <3>1, LeastNumber
  <2>2. CASE n = 0
    <3>1. \A T \in D(0) : T = {}
      BY <1>0, FS_EmptySet
    <3> DEFINE g == [T \in D(0) |-> 0]
    <3>2. g \in [D(0) -> Int] /\ Adds(g, f, D(0))
      BY <3>1 DEF Adds
    <3> QED BY <2>1, <2>2, <3>2
  <2>3. CASE n # 0
    <3>1. n - 1 \in Nat /\ n - 1 \notin N /\ n \in Nat
      BY <2>1, <2>3
    <3>2. PICK g \in [D(n - 1) -> Int] : Adds(g, f, D(n - 1))
      BY <3>1
    <3> DEFINE h == [T \in D(n) |-> IF T = {} THEN 0 ELSE f[First(T)] + g[T \ {First(T)}]]
    <3>3. ASSUME NEW T \in D(n), T # {} PROVE First(T) \in S /\ T \ {First(T)} \in D(n - 1) /\ T \ {First(T)} \in D(n)
      BY <3>1, <3>3, <1>0, FirstOf, Smaller
    <3>4. h \in [D(n) -> Int]
      <4> HIDE DEF D
      <4> QED BY <3>3
    <3>5. \A T \in D(n - 1) : T \in D(n) /\ h[T] = g[T]
      <4>1. \A T \in D(n - 1) : T \in D(n)
        BY <3>1, <1>0
      <4> HIDE DEF D
      <4> QED BY <4>1, <3>2 DEF Adds
    <3>6. Adds(h, f, D(n))
      <4> SUFFICES ASSUME NEW T \in D(n) PROVE h[T] = IF T = {} THEN 0 ELSE f[First(T)] + h[T \ {First(T)}]
        BY DEF Adds
      <4> HIDE DEF D
      <4> QED BY <3>3, <3>5
    <3> QED BY <3>1, <3>4, <3>6, <2>1
  <2> QED BY <2>2, <2>3
<1>2. D(Cardinality(S)) = SUBSET S
  BY <1>0
<1>3. Cardinality(S) \in Nat
  BY FS_CardinalityType
<1> QED BY <1>1, <1>2, <1>3

\* The sum is what the recursion gives for the whole set.
LEMMA SumDefined ==
    ASSUME NEW f, NEW S, IsFiniteSet(S), \A x \in S : f[x] \in Int
    PROVE  \E g \in [SUBSET S -> Int] : Adds(g, f, SUBSET S) /\ SumFunctionOnSet(f, S) = g[S]
<1> DEFINE G(g) == g = [T \in SUBSET S |-> IF T = {} THEN 0 ELSE f[First(T)] + g[T \ {First(T)}]]
           ch == CHOOSE g : G(g)
<1>1. PICK g \in [SUBSET S -> Int] : Adds(g, f, SUBSET S)
  BY SolutionExists
<1>2. G(g)
  BY <1>1 DEF Adds
<1>3. G(ch)
  <2> HIDE DEF G
  <2> QED BY <1>2
<1>4. SumFunctionOnSet(f, S) = ch[S]
  BY DEF SumFunctionOnSet, FoldFunctionOnSet, MapThenFoldSet, First
<1>5. PICK c : G(c) /\ SumFunctionOnSet(f, S) = c[S]
  <2> HIDE DEF G, ch
  <2> QED BY <1>3, <1>4
<1>6. Adds(c, f, SUBSET S)
  BY <1>5 DEF Adds
<1>7. \A T \in SUBSET S : c[T] \in Int
  <2> DEFINE B == {T \in SUBSET S : c[T] \notin Int}
  <2> SUFFICES ASSUME B # {} PROVE FALSE
    OBVIOUS
  <2>1. PICK T \in B : \A U \in SUBSET S : Cardinality(U) < Cardinality(T) => U \notin B
    <3>1. B \in SUBSET (SUBSET S)
      OBVIOUS
    <3> HIDE DEF B
    <3> QED BY <3>1, SmallestBad
  <2>2. T \in SUBSET S /\ c[T] \notin Int
    BY <2>1
  <2>3. T = {} => c[T] = 0
    BY <1>6, <2>2 DEF Adds
  <2>4. T # {}
    BY <2>2, <2>3
  <2>5. c[T] = f[First(T)] + c[T \ {First(T)}]
    BY <1>6, <2>2, <2>4 DEF Adds
  <2>6. First(T) \in T /\ T \ {First(T)} \in SUBSET S /\ c[T \ {First(T)}] \in Int
    BY <2>1, <2>4, FirstOf, Smaller
  <2>7. f[First(T)] \in Int
    BY <2>2, <2>6
  <2> HIDE DEF B
  <2> QED BY <2>2, <2>5, <2>6, <2>7
<1>8. c \in [SUBSET S -> Int]
  BY <1>5, <1>7
<1> QED BY <1>5, <1>6, <1>8

\* Two solutions agree where the summands agree.
LEMMA SolutionsAgree ==
    ASSUME NEW S, NEW R, IsFiniteSet(S), NEW T \in SUBSET S, T \in SUBSET R, NEW f, NEW e, Agree(f, e, T),
           NEW g, Solves(g, f, S), NEW h, Solves(h, e, R)
    PROVE  g[T] = h[T]
<1> DEFINE B == {U \in SUBSET T : g[U] # h[U]}
<1> SUFFICES ASSUME B # {} PROVE FALSE
  OBVIOUS
<1>1. IsFiniteSet(T) /\ B \in SUBSET (SUBSET T)
  BY FS_Subset
<1>2. PICK U \in B : \A V \in SUBSET T : Cardinality(V) < Cardinality(U) => V \notin B
  <2> HIDE DEF B
  <2> QED BY <1>1, SmallestBad
<1>3. U \in SUBSET T /\ U \in SUBSET S /\ U \in SUBSET R /\ g[U] # h[U]
  BY <1>2
<1>4. U # {}
  BY <1>3 DEF Adds, Solves
<1>5. First(U) \in U /\ U \ {First(U)} \in SUBSET T /\ g[U \ {First(U)}] = h[U \ {First(U)}]
  BY <1>1, <1>2, <1>3, <1>4, FirstOf, Smaller
<1>6. f[First(U)] = e[First(U)]
  BY <1>3, <1>5 DEF Agree
<1>7. g[U] = f[First(U)] + g[U \ {First(U)}] /\ h[U] = e[First(U)] + h[U \ {First(U)}]
  BY <1>3, <1>4 DEF Adds, Solves
<1> QED BY <1>3, <1>5, <1>6, <1>7

\* The order in which members are taken does not matter.
LEMMA AnyFirst ==
    ASSUME NEW f, NEW S, IsFiniteSet(S), \A x \in S : f[x] \in Int, NEW g \in [SUBSET S -> Int], Adds(g, f, SUBSET S)
    PROVE  \A T \in SUBSET S : \A x \in T : g[T] = f[x] + g[T \ {x}]
<1> DEFINE B == {T \in SUBSET S : \E x \in T : g[T] # f[x] + g[T \ {x}]}
<1> SUFFICES ASSUME B # {} PROVE FALSE
  OBVIOUS
<1>1. PICK T \in B : \A U \in SUBSET S : Cardinality(U) < Cardinality(T) => U \notin B
  <2>1. B \in SUBSET (SUBSET S)
    OBVIOUS
  <2> HIDE DEF B
  <2> QED BY <2>1, SmallestBad
<1>2. T \in SUBSET S /\ T # {}
  BY <1>1
<1>3. PICK x \in T : g[T] # f[x] + g[T \ {x}]
  BY <1>1
<1> DEFINE c == First(T)
<1>4. c \in T
  BY <1>2, FirstOf
<1>5. g[T] = f[c] + g[T \ {c}]
  BY <1>2 DEF Adds
<1> HIDE DEF c
<1>6. x # c
  BY <1>3, <1>5
<1>7. /\ T \ {x} \in SUBSET S /\ T \ {x} \notin B
      /\ T \ {c} \in SUBSET S /\ T \ {c} \notin B
  BY <1>1, <1>2, <1>3, <1>4, Smaller
<1> DEFINE U == (T \ {c}) \ {x}
<1>8. U = (T \ {x}) \ {c} /\ U \in SUBSET S /\ x \in T \ {c} /\ c \in T \ {x}
  BY <1>2, <1>3, <1>4, <1>6
<1>9. g[T \ {c}] = f[x] + g[U]
  BY <1>7, <1>8
<1>10. g[T \ {x}] = f[c] + g[U]
  BY <1>7, <1>8
<1>11. f[x] \in Int /\ f[c] \in Int /\ g[U] \in Int
  BY <1>2, <1>3, <1>4, <1>8
<1> HIDE DEF U, B
<1> QED BY <1>3, <1>5, <1>9, <1>10, <1>11

\* A sum of numbers is a number; over nothing it is 0; it depends on the summands only.
LEMMA SumInt ==
    ASSUME NEW f, NEW S, IsFiniteSet(S), \A x \in S : f[x] \in Int
    PROVE  SumFunctionOnSet(f, S) \in Int /\ (S = {} => SumFunctionOnSet(f, S) = 0)
<1>1. PICK g \in [SUBSET S -> Int] : Adds(g, f, SUBSET S) /\ SumFunctionOnSet(f, S) = g[S]
  BY SumDefined
<1>2. S = {} => g[S] = 0
  BY <1>1 DEF Adds
<1> QED BY <1>1, <1>2

LEMMA SumSame ==
    ASSUME NEW f, NEW g, NEW S, IsFiniteSet(S), \A x \in S : f[x] \in Int /\ g[x] = f[x]
    PROVE  SumFunctionOnSet(g, S) = SumFunctionOnSet(f, S)
<1>1. PICK h \in [SUBSET S -> Int] : Adds(h, f, SUBSET S) /\ SumFunctionOnSet(f, S) = h[S]
  BY SumDefined
<1>2. PICK k \in [SUBSET S -> Int] : Adds(k, g, SUBSET S) /\ SumFunctionOnSet(g, S) = k[S]
  BY SumDefined
<1>3. h[S] = k[S]
  <2>1. S \in SUBSET S /\ Agree(f, g, S) /\ Solves(h, f, S) /\ Solves(k, g, S)
    BY <1>1, <1>2 DEF Agree, Solves
  <2> QED BY <2>1, SolutionsAgree
<1> QED BY <1>1, <1>2, <1>3

\* Any member can be taken out of a sum.
LEMMA SumTaken ==
    ASSUME NEW f, NEW S, IsFiniteSet(S), \A x \in S : f[x] \in Int, NEW x \in S
    PROVE  /\ SumFunctionOnSet(f, S) = f[x] + SumFunctionOnSet(f, S \ {x})
           /\ SumFunctionOnSet(f, S) \in Int /\ SumFunctionOnSet(f, S \ {x}) \in Int
<1>1. PICK g \in [SUBSET S -> Int] : Adds(g, f, SUBSET S) /\ SumFunctionOnSet(f, S) = g[S]
  BY SumDefined
<1>2. IsFiniteSet(S \ {x}) /\ S \ {x} \in SUBSET S
  BY FS_RemoveElement
<1>3. PICK h \in [SUBSET (S \ {x}) -> Int] : Adds(h, f, SUBSET (S \ {x})) /\ SumFunctionOnSet(f, S \ {x}) = h[S \ {x}]
  BY <1>2, SumDefined
<1>4. g[S \ {x}] = h[S \ {x}]
  <2> DEFINE T == S \ {x}
  <2>1. T \in SUBSET S /\ T \in SUBSET T /\ Agree(f, f, T) /\ Solves(g, f, S) /\ Solves(h, f, T)
    BY <1>1, <1>3 DEF Agree, Solves
  <2> HIDE DEF T
  <2>2. g[T] = h[T]
    BY <2>1, SolutionsAgree
  <2> QED BY <2>2 DEF T
<1>5. g[S] = f[x] + g[S \ {x}]
  BY <1>1, AnyFirst
<1> QED BY <1>1, <1>2, <1>3, <1>4, <1>5

\* A summand changes, and the sum changes by as much.
LEMMA SumChanged ==
    ASSUME NEW f, NEW g, NEW S, IsFiniteSet(S), NEW x \in S, \A y \in S : f[y] \in Int /\ g[y] \in Int,
           \A y \in S : y # x => g[y] = f[y]
    PROVE  SumFunctionOnSet(g, S) = SumFunctionOnSet(f, S) - f[x] + g[x]
<1>1. IsFiniteSet(S \ {x}) /\ \A y \in S \ {x} : f[y] \in Int /\ g[y] = f[y]
  BY FS_RemoveElement
<1>2. SumFunctionOnSet(g, S \ {x}) = SumFunctionOnSet(f, S \ {x})
  BY <1>1, SumSame
<1>3. SumFunctionOnSet(f, S) = f[x] + SumFunctionOnSet(f, S \ {x}) /\ SumFunctionOnSet(f, S \ {x}) \in Int /\ f[x] \in Int
  BY SumTaken
<1>4. SumFunctionOnSet(g, S) = g[x] + SumFunctionOnSet(g, S \ {x}) /\ g[x] \in Int
  BY SumTaken
<1> QED BY <1>2, <1>3, <1>4

\* A member joins, and the sum grows by it.
LEMMA SumAdded ==
    ASSUME NEW f, NEW S, IsFiniteSet(S), NEW x, x \notin S, \A y \in S \cup {x} : f[y] \in Int
    PROVE  SumFunctionOnSet(f, S \cup {x}) = SumFunctionOnSet(f, S) + f[x]
<1> DEFINE U == S \cup {x}
<1>1. IsFiniteSet(U) /\ U \ {x} = S /\ x \in U /\ (\A y \in U : f[y] \in Int) /\ f[x] \in Int
  BY FS_AddElement
<1> HIDE DEF U
<1>2. SumFunctionOnSet(f, U) = f[x] + SumFunctionOnSet(f, U \ {x}) /\ SumFunctionOnSet(f, U \ {x}) \in Int
  BY <1>1, SumTaken
<1>3. SumFunctionOnSet(f, U \ {x}) = SumFunctionOnSet(f, S)
  BY <1>1, Zenon
<1>4. SumFunctionOnSet(f, U) = SumFunctionOnSet(f, S) + f[x]
  BY <1>1, <1>2, <1>3
<1> QED BY <1>4 DEF U

\* Larger summands have a larger sum.
LEMMA SumMonotone ==
    ASSUME NEW f, NEW g, NEW S, IsFiniteSet(S), \A x \in S : f[x] \in Int /\ g[x] \in Int /\ f[x] <= g[x]
    PROVE  SumFunctionOnSet(f, S) <= SumFunctionOnSet(g, S)
<1> DEFINE B == {T \in SUBSET S : ~(SumFunctionOnSet(f, T) <= SumFunctionOnSet(g, T))}
<1> SUFFICES ASSUME B # {} PROVE FALSE
  OBVIOUS
<1>1. PICK T \in B : \A U \in SUBSET S : Cardinality(U) < Cardinality(T) => U \notin B
  <2>1. B \in SUBSET (SUBSET S)
    OBVIOUS
  <2> HIDE DEF B
  <2> QED BY <2>1, SmallestBad
<1>2. T \in SUBSET S /\ IsFiniteSet(T) /\ ~(SumFunctionOnSet(f, T) <= SumFunctionOnSet(g, T))
  BY <1>1, FS_Subset
<1>3. T # {}
  BY <1>2, SumInt
<1>4. PICK x \in T : TRUE
  BY <1>3
<1>5. T \ {x} \in SUBSET S /\ SumFunctionOnSet(f, T \ {x}) <= SumFunctionOnSet(g, T \ {x})
  BY <1>1, <1>2, Smaller
<1>6. SumFunctionOnSet(f, T) = f[x] + SumFunctionOnSet(f, T \ {x}) /\ SumFunctionOnSet(f, T \ {x}) \in Int
  BY <1>2, SumTaken
<1>7. SumFunctionOnSet(g, T) = g[x] + SumFunctionOnSet(g, T \ {x}) /\ SumFunctionOnSet(g, T \ {x}) \in Int
  BY <1>2, SumTaken
<1>8. f[x] \in Int /\ g[x] \in Int /\ f[x] <= g[x]
  BY <1>2
<1> HIDE DEF B
<1> QED BY <1>2, <1>5, <1>6, <1>7, <1>8

\* Nothing adds up to nothing, and what is not below zero to what is not.
LEMMA SumZero ==
    ASSUME NEW f, NEW S, IsFiniteSet(S), \A x \in S : f[x] = 0
    PROVE  SumFunctionOnSet(f, S) = 0
<1> DEFINE B == {T \in SUBSET S : SumFunctionOnSet(f, T) # 0}
<1> SUFFICES ASSUME B # {} PROVE FALSE
  OBVIOUS
<1>1. PICK T \in B : \A U \in SUBSET S : Cardinality(U) < Cardinality(T) => U \notin B
  <2>1. B \in SUBSET (SUBSET S)
    OBVIOUS
  <2> HIDE DEF B
  <2> QED BY <2>1, SmallestBad
<1>2. T \in SUBSET S /\ IsFiniteSet(T) /\ SumFunctionOnSet(f, T) # 0 /\ \A x \in T : f[x] \in Int
  BY <1>1, FS_Subset
<1>3. T # {}
  BY <1>2, SumInt
<1>4. PICK x \in T : TRUE
  BY <1>3
<1>5. T \ {x} \in SUBSET S /\ SumFunctionOnSet(f, T \ {x}) = 0
  BY <1>1, <1>2, Smaller
<1>6. SumFunctionOnSet(f, T) = f[x] + SumFunctionOnSet(f, T \ {x}) /\ f[x] = 0
  BY <1>2, SumTaken
<1> HIDE DEF B
<1> QED BY <1>2, <1>5, <1>6

LEMMA SumNat ==
    ASSUME NEW f, NEW S, IsFiniteSet(S), \A x \in S : f[x] \in Nat
    PROVE  SumFunctionOnSet(f, S) \in Nat /\ \A x \in S : f[x] <= SumFunctionOnSet(f, S)
<1> DEFINE Zero(T) == [x \in T |-> 0]
<1>1. ASSUME NEW T \in SUBSET S PROVE SumFunctionOnSet(f, T) \in Nat
  <2>1. IsFiniteSet(T) /\ (\A x \in T : f[x] \in Int /\ 0 <= f[x]) /\ \A x \in T : Zero(T)[x] = 0
    BY FS_Subset
  <2> HIDE DEF Zero
  <2>2. SumFunctionOnSet(Zero(T), T) = 0
    BY <2>1, SumZero
  <2>3. SumFunctionOnSet(Zero(T), T) <= SumFunctionOnSet(f, T)
    BY <2>1, SumMonotone
  <2>4. SumFunctionOnSet(f, T) \in Int
    BY <2>1, SumInt
  <2> QED BY <2>2, <2>3, <2>4
<1>2. ASSUME NEW x \in S PROVE f[x] <= SumFunctionOnSet(f, S)
  <2>1. S \ {x} \in SUBSET S /\ f[x] \in Nat
    OBVIOUS
  <2>2. SumFunctionOnSet(f, S \ {x}) \in Nat
    BY <1>1, <2>1
  <2>3. SumFunctionOnSet(f, S) = f[x] + SumFunctionOnSet(f, S \ {x})
    BY SumTaken
  <2> QED BY <2>1, <2>2, <2>3
<1> QED BY <1>1, <1>2

\* A part of a sum of numbers that are not below zero is no larger than the sum.
LEMMA SumPart ==
    ASSUME NEW f, NEW S, IsFiniteSet(S), \A x \in S : f[x] \in Nat, NEW P \in SUBSET S
    PROVE  SumFunctionOnSet(f, P) <= SumFunctionOnSet(f, S)
<1> DEFINE B == {U \in SUBSET S : P \subseteq U /\ ~(SumFunctionOnSet(f, P) <= SumFunctionOnSet(f, U))}
<1> SUFFICES ASSUME B # {} PROVE FALSE
  OBVIOUS
<1>1. PICK U \in B : \A V \in SUBSET S : Cardinality(V) < Cardinality(U) => V \notin B
  <2>1. B \in SUBSET (SUBSET S)
    OBVIOUS
  <2> HIDE DEF B
  <2> QED BY <2>1, SmallestBad
<1>2. U \in SUBSET S /\ P \subseteq U /\ IsFiniteSet(U) /\ IsFiniteSet(P) /\ ~(SumFunctionOnSet(f, P) <= SumFunctionOnSet(f, U))
  BY <1>1, FS_Subset
<1>3. SumFunctionOnSet(f, P) \in Nat
  BY <1>2, SumNat
<1>4. U # P
  BY <1>2, <1>3
<1>5. PICK x \in U : x \notin P
  BY <1>2, <1>4
<1>6. U \ {x} \in SUBSET S /\ P \subseteq U \ {x} /\ U \ {x} \notin B
  BY <1>1, <1>2, <1>5, Smaller
<1>7. SumFunctionOnSet(f, P) <= SumFunctionOnSet(f, U \ {x})
  BY <1>6
<1>8. SumFunctionOnSet(f, U) = f[x] + SumFunctionOnSet(f, U \ {x}) /\ SumFunctionOnSet(f, U \ {x}) \in Int /\ f[x] \in Nat
  BY <1>2, SumTaken
<1> HIDE DEF B
<1> QED BY <1>2, <1>3, <1>7, <1>8

\* The sum over a part of S is the sum over S of what counts only there.
LEMMA SumOver ==
    ASSUME NEW f, NEW g, NEW S, IsFiniteSet(S), NEW P \in SUBSET S, \A x \in S : f[x] \in Int /\ g[x] = IF x \in P THEN f[x] ELSE 0
    PROVE  SumFunctionOnSet(f, P) = SumFunctionOnSet(g, S)
<1> DEFINE B == {U \in SUBSET S : P \subseteq U /\ SumFunctionOnSet(f, P) # SumFunctionOnSet(g, U)}
<1> SUFFICES ASSUME B # {} PROVE FALSE
  OBVIOUS
<1>1. PICK U \in B : \A V \in SUBSET S : Cardinality(V) < Cardinality(U) => V \notin B
  <2>1. B \in SUBSET (SUBSET S)
    OBVIOUS
  <2> HIDE DEF B
  <2> QED BY <2>1, SmallestBad
<1>2. U \in SUBSET S /\ P \subseteq U /\ IsFiniteSet(U) /\ IsFiniteSet(P) /\ SumFunctionOnSet(f, P) # SumFunctionOnSet(g, U)
      /\ \A x \in U : g[x] \in Int
  BY <1>1, FS_Subset
<1>3. SumFunctionOnSet(g, P) = SumFunctionOnSet(f, P)
  BY <1>2, SumSame
<1>4. U # P
  BY <1>2, <1>3
<1>5. PICK x \in U : x \notin P
  BY <1>2, <1>4
<1>6. U \ {x} \in SUBSET S /\ P \subseteq U \ {x} /\ U \ {x} \notin B
  BY <1>1, <1>2, <1>5, Smaller
<1>7. SumFunctionOnSet(f, P) = SumFunctionOnSet(g, U \ {x})
  BY <1>6
<1>8. SumFunctionOnSet(g, U) = g[x] + SumFunctionOnSet(g, U \ {x}) /\ SumFunctionOnSet(g, U \ {x}) \in Int /\ g[x] = 0
  BY <1>2, <1>5, SumTaken
<1> HIDE DEF B
<1> QED BY <1>2, <1>7, <1>8

\* Where every member of R has one more, the sum has as many more as R has members.
LEMMA SumRaised ==
    ASSUME NEW f, NEW g, NEW S, IsFiniteSet(S), NEW R \in SUBSET S,
           \A x \in S : f[x] \in Int /\ g[x] = IF x \in R THEN f[x] + 1 ELSE f[x]
    PROVE  SumFunctionOnSet(g, S) = SumFunctionOnSet(f, S) + Cardinality(R)
<1> DEFINE B == {T \in SUBSET S : SumFunctionOnSet(g, T) # SumFunctionOnSet(f, T) + Cardinality(T \cap R)}
<1>1. S \notin B
  <2> SUFFICES ASSUME B # {} PROVE FALSE
    OBVIOUS
  <2>1. PICK T \in B : \A U \in SUBSET S : Cardinality(U) < Cardinality(T) => U \notin B
    <3>1. B \in SUBSET (SUBSET S)
      OBVIOUS
    <3> HIDE DEF B
    <3> QED BY <3>1, SmallestBad
  <2>2. T \in SUBSET S /\ IsFiniteSet(T) /\ SumFunctionOnSet(g, T) # SumFunctionOnSet(f, T) + Cardinality(T \cap R)
        /\ \A x \in T : f[x] \in Int /\ g[x] \in Int /\ g[x] = IF x \in R THEN f[x] + 1 ELSE f[x]
    BY <2>1, FS_Subset
  <2>3. T # {}
    <3>1. ASSUME T = {} PROVE FALSE
      <4>1. SumFunctionOnSet(f, T) = 0 /\ SumFunctionOnSet(g, T) = 0
        BY <2>2, <3>1, SumInt
      <4>2. Cardinality(T \cap R) = 0
        BY <3>1, FS_EmptySet
      <4> QED BY <2>2, <4>1, <4>2
    <3> QED BY <3>1
  <2>4. PICK x \in T : TRUE
    BY <2>3
  <2>5. T \ {x} \in SUBSET S /\ SumFunctionOnSet(g, T \ {x}) = SumFunctionOnSet(f, T \ {x}) + Cardinality((T \ {x}) \cap R)
    BY <2>1, <2>2, Smaller
  <2>6. SumFunctionOnSet(f, T) = f[x] + SumFunctionOnSet(f, T \ {x}) /\ SumFunctionOnSet(f, T \ {x}) \in Int
    BY <2>2, SumTaken
  <2>7. SumFunctionOnSet(g, T) = g[x] + SumFunctionOnSet(g, T \ {x}) /\ SumFunctionOnSet(g, T \ {x}) \in Int
    BY <2>2, SumTaken
  <2>8. f[x] \in Int /\ g[x] = IF x \in R THEN f[x] + 1 ELSE f[x]
    BY <2>2
  <2>9. IsFiniteSet(T \cap R) /\ Cardinality(T \cap R) \in Nat
    BY <2>2, FS_Subset, FS_CardinalityType
  <2> HIDE DEF B
  <2>10. CASE x \in R
    <3>1. (T \ {x}) \cap R = (T \cap R) \ {x} /\ x \in T \cap R
      BY <2>10
    <3>2. Cardinality((T \cap R) \ {x}) = Cardinality(T \cap R) - 1
      BY <2>9, <3>1, FS_RemoveElement
    <3> QED BY <2>2, <2>5, <2>6, <2>7, <2>8, <2>9, <2>10, <3>1, <3>2
  <2>11. CASE x \notin R
    <3>1. (T \ {x}) \cap R = T \cap R
      BY <2>11
    <3>2. Cardinality((T \ {x}) \cap R) = Cardinality(T \cap R) /\ g[x] = f[x]
      BY <2>8, <2>11, <3>1
    <3> QED BY <2>2, <2>5, <2>6, <2>7, <2>8, <2>9, <3>2
  <2> QED BY <2>10, <2>11
<1>2. S \cap R = R
  OBVIOUS
<1> QED BY <1>1, <1>2

\* Sums are added member by member.
LEMMA SumPlus ==
    ASSUME NEW f, NEW g, NEW h, NEW S, IsFiniteSet(S), AddsTwo(h, f, g, S)
    PROVE  SumFunctionOnSet(h, S) = SumFunctionOnSet(f, S) + SumFunctionOnSet(g, S)
<1> DEFINE B == {T \in SUBSET S : SumFunctionOnSet(h, T) # SumFunctionOnSet(f, T) + SumFunctionOnSet(g, T)}
<1> SUFFICES ASSUME B # {} PROVE FALSE
  OBVIOUS
<1>1. PICK T \in B : \A U \in SUBSET S : Cardinality(U) < Cardinality(T) => U \notin B
  <2>1. B \in SUBSET (SUBSET S)
    OBVIOUS
  <2> HIDE DEF B
  <2> QED BY <2>1, SmallestBad
<1>2. T \in SUBSET S /\ IsFiniteSet(T) /\ SumFunctionOnSet(h, T) # SumFunctionOnSet(f, T) + SumFunctionOnSet(g, T)
      /\ \A x \in T : f[x] \in Int /\ g[x] \in Int /\ h[x] \in Int /\ h[x] = f[x] + g[x]
  BY <1>1, FS_Subset DEF AddsTwo
<1>3. T # {}
  BY <1>2, SumInt
<1>4. PICK x \in T : TRUE
  BY <1>3
<1>5. T \ {x} \in SUBSET S /\ SumFunctionOnSet(h, T \ {x}) = SumFunctionOnSet(f, T \ {x}) + SumFunctionOnSet(g, T \ {x})
  BY <1>1, <1>2, Smaller
<1>6. SumFunctionOnSet(f, T) = f[x] + SumFunctionOnSet(f, T \ {x}) /\ SumFunctionOnSet(f, T \ {x}) \in Int
  BY <1>2, SumTaken
<1>7. SumFunctionOnSet(g, T) = g[x] + SumFunctionOnSet(g, T \ {x}) /\ SumFunctionOnSet(g, T \ {x}) \in Int
  BY <1>2, SumTaken
<1>8. SumFunctionOnSet(h, T) = h[x] + SumFunctionOnSet(h, T \ {x}) /\ SumFunctionOnSet(h, T \ {x}) \in Int
  BY <1>2, SumTaken
<1>9. f[x] \in Int /\ g[x] \in Int /\ h[x] = f[x] + g[x]
  BY <1>2
<1> HIDE DEF B
<1> QED BY <1>2, <1>5, <1>6, <1>7, <1>8, <1>9

\* A factor common to all summands is a factor of the sum.
LEMMA SumScaled ==
    ASSUME NEW f, NEW g, NEW c, NEW S, IsFiniteSet(S), Times(g, c, f, S)
    PROVE  SumFunctionOnSet(g, S) = c * SumFunctionOnSet(f, S)
<1> DEFINE B == {T \in SUBSET S : SumFunctionOnSet(g, T) # c * SumFunctionOnSet(f, T)}
<1> SUFFICES ASSUME B # {} PROVE FALSE
  OBVIOUS
<1>1. PICK T \in B : \A U \in SUBSET S : Cardinality(U) < Cardinality(T) => U \notin B
  <2>1. B \in SUBSET (SUBSET S)
    OBVIOUS
  <2> HIDE DEF B
  <2> QED BY <2>1, SmallestBad
<1>2. T \in SUBSET S /\ IsFiniteSet(T) /\ SumFunctionOnSet(g, T) # c * SumFunctionOnSet(f, T)
      /\ c \in Int /\ \A x \in T : f[x] \in Int /\ g[x] \in Int /\ g[x] = c * f[x]
  BY <1>1, FS_Subset DEF Times
<1>3. T # {}
  BY <1>2, SumInt
<1>4. PICK x \in T : TRUE
  BY <1>3
<1>5. T \ {x} \in SUBSET S /\ SumFunctionOnSet(g, T \ {x}) = c * SumFunctionOnSet(f, T \ {x})
  BY <1>1, <1>2, Smaller
<1>6. SumFunctionOnSet(f, T) = f[x] + SumFunctionOnSet(f, T \ {x}) /\ SumFunctionOnSet(f, T \ {x}) \in Int
  <2>1. IsFiniteSet(T) /\ \A y \in T : f[y] \in Int
    BY <1>2
  <2> QED BY <2>1, SumTaken
<1>7. SumFunctionOnSet(g, T) = g[x] + SumFunctionOnSet(g, T \ {x})
  BY <1>2, SumTaken
<1>8. f[x] \in Int /\ g[x] = c * f[x]
  BY <1>2
<1>9. \A a, b \in Int : c * (a + b) = c * a + c * b
  BY <1>2
<1> HIDE DEF B
<1> QED BY <1>2, <1>5, <1>6, <1>7, <1>8, <1>9

\* Each member of R counts for one.
LEMMA SumOnes ==
    ASSUME NEW g, NEW S, IsFiniteSet(S), NEW R \in SUBSET S, \A x \in S : g[x] = IF x \in R THEN 1 ELSE 0
    PROVE  SumFunctionOnSet(g, S) = Cardinality(R)
<1> DEFINE zero == [x \in S |-> 0]
<1>1. \A x \in S : zero[x] \in Int /\ zero[x] = 0 /\ g[x] = IF x \in R THEN zero[x] + 1 ELSE zero[x]
  OBVIOUS
<1>2. IsFiniteSet(R) /\ Cardinality(R) \in Nat
  BY FS_Subset, FS_CardinalityType
<1> HIDE DEF zero
<1>3. SumFunctionOnSet(g, S) = SumFunctionOnSet(zero, S) + Cardinality(R)
  BY <1>1, SumRaised
<1>4. SumFunctionOnSet(zero, S) = 0
  BY <1>1, SumZero
<1> QED BY <1>2, <1>3, <1>4

\* Where p[x] holds the members of S that come before x, those that fewer than k others precede are k.
LEMMA FirstMembers ==
    ASSUME NEW S, IsFiniteSet(S), NEW p, \A x \in S : p[x] \subseteq S /\ x \notin p[x],
           \A x, y, z \in S : x \in p[y] /\ y \in p[z] => x \in p[z],
           \A x, y \in S : x # y => x \in p[y] \/ y \in p[x],
           NEW k \in Nat, k <= Cardinality(S)
    PROVE  Cardinality({x \in S : Cardinality(p[x]) < k}) = k
<1> DEFINE Before(x, T) == T \cap p[x]
           Early(T) == {x \in T : Cardinality(Before(x, T)) < k}
           B == {T \in SUBSET S : k <= Cardinality(T) /\ Cardinality(Early(T)) # k}
<1>0. ASSUME NEW T \in SUBSET S, NEW x \in T
      PROVE  IsFiniteSet(Before(x, T)) /\ Cardinality(Before(x, T)) \in Nat /\ Cardinality(Before(x, T)) <= Cardinality(T) - 1
  <2>1. IsFiniteSet(T \ {x}) /\ Cardinality(T \ {x}) = Cardinality(T) - 1
    BY Smaller, FS_Subset, FS_RemoveElement
  <2>2. Before(x, T) \subseteq T \ {x}
    OBVIOUS
  <2> HIDE DEF Before
  <2> QED BY <2>1, <2>2, FS_Subset, FS_CardinalityType
<1> SUFFICES ASSUME B # {} PROVE FALSE
  <2>1. S \notin B
    OBVIOUS
  <2>2. Early(S) = {x \in S : Cardinality(p[x]) < k}
    <3>1. \A x \in S : Before(x, S) = p[x]
      OBVIOUS
    <3> HIDE DEF Before
    <3> QED BY <3>1
  <2>3. Cardinality(Early(S)) = k
    <3> HIDE DEF Early
    <3> QED BY <2>1
  <2> QED BY <2>2, <2>3
<1>1. PICK T \in B : \A U \in SUBSET S : Cardinality(U) < Cardinality(T) => U \notin B
  <2>1. B \in SUBSET (SUBSET S)
    OBVIOUS
  <2> HIDE DEF B
  <2> QED BY <2>1, SmallestBad
<1>2. T \in SUBSET S /\ IsFiniteSet(T) /\ Cardinality(T) \in Nat /\ k <= Cardinality(T) /\ Cardinality(Early(T)) # k
  BY <1>1, FS_Subset, FS_CardinalityType
<1>3. CASE k = Cardinality(T)
  <2>1. Early(T) = T
    <3> HIDE DEF Before
    <3> QED BY <1>0, <1>2, <1>3
  <2> QED BY <1>2, <1>3, <2>1
<1>4. CASE k < Cardinality(T)
  <2>1. T # {}
    BY <1>2, <1>4, FS_EmptySet
  <2> DEFINE N == {n \in Nat : \E x \in T : n = Cardinality(T) - Cardinality(Before(x, T))}
  <2>2. \A x \in T : Cardinality(T) - Cardinality(Before(x, T)) \in N
    <3> HIDE DEF Before
    <3> QED BY <1>0, <1>2
  <2>3. PICK n \in N : \A j \in N : n <= j
    <3>1. N \in SUBSET Nat /\ N # {}
      <4> HIDE DEF Before
      <4> QED BY <2>1, <2>2
    <3> HIDE DEF N
    <3> QED BY <3>1, LeastNumber
  <2>4. PICK m \in T : n = Cardinality(T) - Cardinality(Before(m, T))
    <3> HIDE DEF Before
    <3> QED BY <2>3
  <2>5. ASSUME NEW x \in T, m \in p[x] PROVE FALSE
    <3>1. Before(m, T) \cup {m} \subseteq Before(x, T) /\ m \notin Before(m, T)
      BY <1>2, <2>5
    <3> HIDE DEF Before
    <3>2. Cardinality(Before(m, T) \cup {m}) = Cardinality(Before(m, T)) + 1
      BY <1>0, <1>2, <3>1, FS_AddElement
    <3>3. Cardinality(Before(m, T) \cup {m}) <= Cardinality(Before(x, T))
      BY <1>0, <1>2, <3>1, FS_Subset
    <3>4. n <= Cardinality(T) - Cardinality(Before(x, T))
      <4> HIDE DEF N
      <4> QED BY <2>2, <2>3
    <3>5. Cardinality(Before(m, T)) \in Nat /\ Cardinality(Before(x, T)) \in Nat /\ Cardinality(T) \in Nat
      BY <1>0, <1>2
    <3> QED BY <2>4, <3>2, <3>3, <3>4, <3>5
  <2>6. Before(m, T) = T \ {m}
    BY <1>2, <2>5
  <2>7. T \ {m} \in SUBSET S /\ Cardinality(T \ {m}) = Cardinality(T) - 1 /\ T \ {m} \notin B
    BY <1>1, <1>2, Smaller
  <2>8. m \notin Early(T)
    BY <1>2, <1>4, <2>6, <2>7
  <2>9. \A x \in T \ {m} : Before(x, T \ {m}) = Before(x, T)
    BY <2>5
  <2>10. Early(T \ {m}) = Early(T)
    <3>1. \A x \in T \ {m} : Cardinality(Before(x, T \ {m})) = Cardinality(Before(x, T))
      <4> HIDE DEF Before
      <4> QED BY <2>9
    <3>2. ~(Cardinality(Before(m, T)) < k)
      <4> HIDE DEF Before
      <4> QED BY <2>8
    <3>3. ASSUME NEW x PROVE x \in Early(T \ {m}) <=> x \in Early(T)
      <4>1. CASE x = m
        <5> HIDE DEF Before
        <5> QED BY <3>2, <4>1
      <4>2. CASE x # m /\ x \in T
        <5>1. Cardinality(Before(x, T \ {m})) = Cardinality(Before(x, T))
          BY <3>1, <4>2
        <5> HIDE DEF Before
        <5> QED BY <4>2, <5>1
      <4> QED BY <4>1, <4>2
    <3> HIDE DEF Early
    <3> QED BY <3>3
  <2>11. Cardinality(Early(T \ {m})) = k
    <3> HIDE DEF Early
    <3> QED BY <1>2, <1>4, <2>7
  <2> QED BY <1>2, <2>10, <2>11
<1> QED BY <1>2, <1>3, <1>4
=============================================================================
