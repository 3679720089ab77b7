---------------------------- MODULE FiniteFacts ----------------------------
(***************************************************************************)
(* Lemmas about finite sets and about sums over them, for the proofs of    *)
(* the other modules: induction over the subsets of a finite set, told of  *)
(* a least counterexample, and what SumFunction of Functions computes.     *)
(***************************************************************************)
EXTENDS Integers, FiniteSets, Folds, Functions, FiniteSetTheorems, TLAPS

-----------------------------------------------------------------------------
(* Least and greatest *)

\* Induction over the subsets of a finite set, in its first-order form.
LEMMA LeastSubset ==
  ASSUME NEW S, IsFiniteSet(S), NEW C, C \subseteq SUBSET S, C # {}
  PROVE  \E s \in C : \A t \in C : t \subseteq s => t = s
<1>1. IsWellFoundedOn(StrictSubsetOrdering(S), SUBSET S)
  BY FS_StrictSubsetOrderingWellFounded, FS_FiniteSubsetsOfFinite
<1>2. PICK s \in C : \A t \in C : ~ (<<t, s>> \in StrictSubsetOrdering(S))
  BY <1>1, WFMin, Zenon
<1>3. \A t \in C : t \subseteq s => t = s
  BY <1>2 DEF StrictSubsetOrdering
<1> QED
  BY <1>3

\* A finite set of integers has a greatest element.
LEMMA GreatestElement ==
  ASSUME NEW S, IsFiniteSet(S), S # {}, \A x \in S : x \in Int
  PROVE  \E x \in S : \A y \in S : y <= x
<1> DEFINE C == {s \in SUBSET S : \E x \in S : s = {y \in S : x <= y}}
<1>1. C \subseteq SUBSET S
  OBVIOUS
<1>2. C # {}
  <2>1. PICK x \in S : TRUE
    OBVIOUS
  <2>2. {y \in S : x <= y} \in C
    BY <2>1
  <2> QED
    BY <2>2
<1>3. PICK s \in C : \A t \in C : t \subseteq s => t = s
  <2> HIDE DEF C
  <2> QED
    BY <1>1, <1>2, LeastSubset
<1>4. PICK x \in S : s = {y \in S : x <= y}
  BY <1>3
<1>5. ASSUME NEW y \in S, ~ (y <= x) PROVE FALSE
  <2> DEFINE t == {z \in S : y <= z}
  <2>1. x \in Int /\ y \in Int
    OBVIOUS
  <2>2. x <= y
    BY <1>5, <2>1
  <2>3. t \in C
    BY t \in SUBSET S, Zenon
  <2>4. \A z \in S : y <= z => x <= z
    BY <2>1, <2>2
  <2>5. t \subseteq s
    BY <1>4, <2>4
  <2>6. x \in s /\ x \notin t
    BY <1>4, <1>5, <2>1
  <2> HIDE DEF t, C
  <2> QED
    BY <1>3, <2>3, <2>5, <2>6
<1> QED
  BY <1>5

-----------------------------------------------------------------------------
(* Sums *)

\* The element that a fold takes first.
Pick(s) == CHOOSE x \in s : TRUE

\* What it takes to be the sums of f over the subsets of S.
Sums(f, S, g) == g = [s \in SUBSET S |-> IF s = {} THEN 0 ELSE f[Pick(s)] + g[s \ {Pick(s)}]]

\* SumFunction, as the library defines it.
LEMMA SumIs == \A f : SumFunction(f) = (CHOOSE g : Sums(f, DOMAIN f, g))[DOMAIN f]
BY DEF SumFunction, SumFunctionOnSet, FoldFunctionOnSet, MapThenFoldSet, Sums, Pick

\* It is one of them.
LEMMA PickIn == \A s : s # {} => Pick(s) \in s
BY Zenon DEF Pick

\* The sums are unique.
LEMMA SumsUnique ==
  ASSUME NEW f, NEW S, IsFiniteSet(S), NEW T \in SUBSET S, NEW U \in SUBSET S, NEW g, NEW h, Sums(f, T, g), Sums(f, U, h)
  PROVE  \A s \in SUBSET (T \cap U) : g[s] = h[s]
<1> DEFINE C == {s \in SUBSET (T \cap U) : g[s] # h[s]}
<1>1. SUFFICES ASSUME C # {} PROVE FALSE
  OBVIOUS
<1>2. PICK s \in C : \A t \in C : t \subseteq s => t = s
  <2>1. C \subseteq SUBSET S
    OBVIOUS
  <2> HIDE DEF C
  <2> QED
    BY <1>1, <2>1, LeastSubset
<1>3. s # {}
  BY <1>2 DEF Sums
<1>4. Pick(s) \in s
  BY <1>3, PickIn
<1>5. g[s \ {Pick(s)}] = h[s \ {Pick(s)}]
  <2>1. s \ {Pick(s)} \notin C
    BY <1>2, <1>4
  <2> QED
    BY <2>1
<1>6. g[s] = f[Pick(s)] + g[s \ {Pick(s)}] /\ h[s] = f[Pick(s)] + h[s \ {Pick(s)}]
  BY <1>3 DEF Sums
<1> QED
  BY <1>5, <1>6

\* There are sums.
LEMMA SumsExist ==
  ASSUME NEW f, NEW S, IsFiniteSet(S)
  PROVE  \E g : Sums(f, S, g)
<1> DEFINE C == {T \in SUBSET S : ~ \E g : Sums(f, T, g)}
<1>1. SUFFICES ASSUME C # {} PROVE FALSE
  OBVIOUS
<1>2. PICK T \in C : \A U \in C : U \subseteq T => U = T
  <2>1. C \subseteq SUBSET S
    OBVIOUS
  <2> HIDE DEF C
  <2> QED
    BY <1>1, <2>1, LeastSubset
<1> DEFINE of(s) == CHOOSE g : Sums(f, s, g)
           below(s) == IF s = {} THEN 0 ELSE f[Pick(s)] + of(s \ {Pick(s)})[s \ {Pick(s)}]
           h == [s \in SUBSET T |-> below(s)]
<1>3. \A s \in SUBSET T : s # T => Sums(f, s, of(s))
  <2> TAKE s \in SUBSET T
  <2> HAVE s # T
  <2>1. \E g : Sums(f, s, g)
    BY <1>2
  <2> QED
    BY <2>1, Zenon
<1> HIDE DEF of
<1>4. ASSUME NEW s \in SUBSET T, s # T PROVE of(s)[s] = below(s)
  <2>1. CASE s = {}
    BY <1>3, <1>4, <2>1 DEF Sums
  <2>2. CASE s # {}
    <3> DEFINE t == s \ {Pick(s)}
    <3>1. t \in SUBSET T /\ t # T /\ t \in SUBSET s
      BY <1>4
    <3>2. Sums(f, s, of(s)) /\ Sums(f, t, of(t))
      BY <1>3, <1>4, <3>1
    <3>3. of(s)[s] = f[Pick(s)] + of(s)[t]
      BY <2>2, <3>2 DEF Sums
    <3>4. of(s)[t] = of(t)[t]
      <4>1. s \in SUBSET S /\ t \in SUBSET S /\ t \in SUBSET (s \cap t)
        BY <3>1
      <4> HIDE DEF t, C
      <4> QED
        BY <3>2, <4>1, SumsUnique
    <3> QED
      BY <2>2, <3>3, <3>4
  <2> QED
    BY <2>1, <2>2
<1>5. ASSUME NEW s \in SUBSET T, s # {} PROVE h[s] = f[Pick(s)] + h[s \ {Pick(s)}]
  <2>1. Pick(s) \in s
    BY <1>5, PickIn
  <2>2. s \ {Pick(s)} \in SUBSET T /\ s \ {Pick(s)} # T
    BY <2>1
  <2>3. of(s \ {Pick(s)})[s \ {Pick(s)}] = h[s \ {Pick(s)}]
    BY <1>4, <2>2
  <2> QED
    BY <1>5, <2>3
<1>6. h[{}] = 0 /\ h = [s \in SUBSET T |-> h[s]]
  OBVIOUS
<1> HIDE DEF h
<1>7. Sums(f, T, h)
  BY <1>5, <1>6 DEF Sums
<1> QED
  BY <1>2, <1>7

\* What a sum is, without the construction.
LEMMA SumRecursion ==
  ASSUME NEW f, IsFiniteSet(DOMAIN f)
  PROVE  \E g : Sums(f, DOMAIN f, g) /\ SumFunction(f) = g[DOMAIN f]
<1>1. \E g : Sums(f, DOMAIN f, g)
  BY SumsExist
<1>2. Sums(f, DOMAIN f, CHOOSE g : Sums(f, DOMAIN f, g))
  BY <1>1, Zenon
<1> QED
  BY <1>2, SumIs

\* The sums of integers are integers, and any element may be the first.
LEMMA SumsTakeAny ==
  ASSUME NEW f, NEW S, IsFiniteSet(S), \A x \in S : f[x] \in Int,
         NEW g, Sums(f, S, g)
  PROVE  /\ g[{}] = 0
         /\ \A s \in SUBSET S : g[s] \in Int
         /\ \A s \in SUBSET S, x \in S : x \in s => g[s] = f[x] + g[s \ {x}]
<1>1. g[{}] = 0
  BY DEF Sums
<1>2. ASSUME NEW s \in SUBSET S, s # {}
      PROVE  Pick(s) \in s /\ g[s] = f[Pick(s)] + g[s \ {Pick(s)}]
  BY <1>2, PickIn DEF Sums
<1>3. \A s \in SUBSET S : g[s] \in Int
  <2> DEFINE C == {s \in SUBSET S : g[s] \notin Int}
  <2>1. SUFFICES ASSUME C # {} PROVE FALSE
    OBVIOUS
  <2>2. PICK s \in C : \A t \in C : t \subseteq s => t = s
    <3>1. C \subseteq SUBSET S
      OBVIOUS
    <3> HIDE DEF C
    <3> QED
      BY <2>1, <3>1, LeastSubset
  <2>3. s # {}
    BY <1>1
  <2>4. g[s \ {Pick(s)}] \in Int
    <3>1. s \ {Pick(s)} \notin C
      BY <1>2, <2>2, <2>3
    <3> QED
      BY <3>1
  <2> QED
    BY <1>2, <2>3, <2>4
<1>4. \A s \in SUBSET S, x \in S : x \in s => g[s] = f[x] + g[s \ {x}]
  <2> DEFINE C == {s \in SUBSET S : \E x \in s : g[s] # f[x] + g[s \ {x}]}
  <2>1. SUFFICES ASSUME C # {} PROVE FALSE
    OBVIOUS
  <2>2. PICK s \in C : \A t \in C : t \subseteq s => t = s
    <3>1. C \subseteq SUBSET S
      OBVIOUS
    <3> HIDE DEF C
    <3> QED
      BY <2>1, <3>1, LeastSubset
  <2>3. PICK x \in s : g[s] # f[x] + g[s \ {x}]
    OBVIOUS
  <2> DEFINE p == Pick(s)
             r == s \ {p, x}
  <2>4. p \in s /\ p # x /\ g[s] = f[p] + g[s \ {p}]
    BY <1>2, <2>3
  <2> HIDE DEF p
  <2>5. g[s \ {p}] = f[x] + g[r]
    <3>1. s \ {p} \notin C /\ x \in s \ {p} /\ (s \ {p}) \ {x} = r
      BY <2>2, <2>4
    <3> QED
      BY <3>1
  <2>6. g[s \ {x}] = f[p] + g[r]
    <3>1. s \ {x} \notin C /\ p \in s \ {x} /\ (s \ {x}) \ {p} = r
      BY <2>2, <2>4
    <3> QED
      BY <3>1
  <2>7. g[r] \in Int /\ f[p] \in Int /\ f[x] \in Int
    BY <1>3, <2>4
  <2> QED
    BY <2>3, <2>4, <2>5, <2>6, <2>7
<1> QED
  BY <1>1, <1>3, <1>4

\* The sum of integers is one.
LEMMA SumInt ==
  ASSUME NEW f, IsFiniteSet(DOMAIN f), \A x \in DOMAIN f : f[x] \in Int
  PROVE  SumFunction(f) \in Int
<1>1. PICK g : Sums(f, DOMAIN f, g) /\ SumFunction(f) = g[DOMAIN f]
  BY SumRecursion
<1>2. \A s \in SUBSET DOMAIN f : g[s] \in Int
  BY <1>1, SumsTakeAny
<1> QED
  BY <1>1, <1>2

\* A sum grows with what is summed.
LEMMA SumMonotone ==
  ASSUME NEW S, IsFiniteSet(S), NEW f \in [S -> Int], NEW h \in [S -> Int],
         \A x \in S : f[x] <= h[x]
  PROVE  SumFunction(f) <= SumFunction(h)
<1>1. PICK g : Sums(f, S, g) /\ SumFunction(f) = g[S]
  <2>1. DOMAIN f = S
    OBVIOUS
  <2> QED
    BY <2>1, SumRecursion
<1>2. PICK k : Sums(h, S, k) /\ SumFunction(h) = k[S]
  <2>1. DOMAIN h = S
    OBVIOUS
  <2> QED
    BY <2>1, SumRecursion
<1>3. /\ g[{}] = 0 /\ k[{}] = 0
      /\ \A s \in SUBSET S : g[s] \in Int /\ k[s] \in Int
  <2>1. \A x \in S : f[x] \in Int /\ h[x] \in Int
    OBVIOUS
  <2> QED
    BY <1>1, <1>2, <2>1, SumsTakeAny
<1> DEFINE C == {s \in SUBSET S : ~ (g[s] <= k[s])}
<1>4. SUFFICES ASSUME C # {} PROVE FALSE
  BY <1>1, <1>2
<1>5. PICK s \in C : \A t \in C : t \subseteq s => t = s
  <2>1. C \subseteq SUBSET S
    OBVIOUS
  <2> HIDE DEF C
  <2> QED
    BY <1>4, <2>1, LeastSubset
<1>6. s # {}
  <2>1. s = {} => g[s] = 0 /\ k[s] = 0
    BY <1>3, Zenon
  <2>2. ~ (g[s] <= k[s])
    OBVIOUS
  <2>3. 0 <= 0
    OBVIOUS
  <2> QED
    BY <2>1, <2>2, <2>3, Zenon
<1>7. Pick(s) \in s
  BY <1>6, PickIn
<1>8. g[s] = f[Pick(s)] + g[s \ {Pick(s)}] /\ k[s] = h[Pick(s)] + k[s \ {Pick(s)}]
  BY <1>1, <1>2, <1>6 DEF Sums
<1>9. g[s \ {Pick(s)}] <= k[s \ {Pick(s)}]
  <2>1. s \ {Pick(s)} \notin C
    BY <1>5, <1>7
  <2> QED
    BY <2>1
<1>10. Pick(s) \in S /\ s \ {Pick(s)} \in SUBSET S
  BY <1>7
<1> HIDE DEF C
<1>11. f[Pick(s)] \in Int /\ h[Pick(s)] \in Int /\ f[Pick(s)] <= h[Pick(s)]
  BY <1>10
<1>12. g[s] <= k[s]
  BY <1>3, <1>8, <1>9, <1>10, <1>11
<1> QED
  BY <1>12 DEF C

\* One more value is added to the sum of the others.
LEMMA SumAdd ==
  ASSUME NEW S, IsFiniteSet(S), NEW f \in [S -> Int], NEW x, x \notin S,
         NEW h \in [S \union {x} -> Int], \A y \in S : h[y] = f[y]
  PROVE  SumFunction(h) = SumFunction(f) + h[x]
<1> DEFINE T == S \union {x}
<1>1. IsFiniteSet(T)
  BY FS_AddElement
<1>2. PICK g : Sums(f, S, g) /\ SumFunction(f) = g[S]
  <2>1. DOMAIN f = S
    OBVIOUS
  <2> QED
    BY <2>1, SumRecursion
<1>3. PICK k : Sums(h, T, k) /\ SumFunction(h) = k[T]
  <2>1. DOMAIN h = T
    OBVIOUS
  <2> HIDE DEF T
  <2> QED
    BY <1>1, <2>1, SumRecursion
<1>4. k[T] = h[x] + k[T \ {x}]
  <2>1. x \in T /\ T \in SUBSET T /\ \A y \in T : h[y] \in Int
    OBVIOUS
  <2> HIDE DEF T
  <2> QED
    BY <1>1, <1>3, <2>1, SumsTakeAny
<1>5. Sums(h, S, g)
  <2>1. \A s \in SUBSET S : s # {} => f[Pick(s)] = h[Pick(s)]
    BY PickIn
  <2>2. [s \in SUBSET S |-> IF s = {} THEN 0 ELSE f[Pick(s)] + g[s \ {Pick(s)}]]
        = [s \in SUBSET S |-> IF s = {} THEN 0 ELSE h[Pick(s)] + g[s \ {Pick(s)}]]
    BY <2>1
  <2> QED
    BY <1>2, <2>2 DEF Sums
<1>6. k[S] = g[S]
  <2>1. S \in SUBSET T /\ T \in SUBSET T /\ S \in SUBSET (T \cap S)
    OBVIOUS
  <2> HIDE DEF T
  <2> QED
    BY <1>1, <1>3, <1>5, <2>1, SumsUnique
<1>7. T \ {x} = S /\ h[x] \in Int
  OBVIOUS
<1>8. SumFunction(f) \in Int
  <2>1. DOMAIN f = S /\ \A y \in S : f[y] \in Int
    OBVIOUS
  <2> QED
    BY <2>1, SumInt
<1>9. SumFunction(h) = h[x] + SumFunction(f)
  <2> HIDE DEF T
  <2> QED
    BY <1>2, <1>3, <1>4, <1>6, <1>7
<1> QED
  BY <1>7, <1>8, <1>9

=============================================================================
