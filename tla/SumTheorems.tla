---------------------------- MODULE SumTheorems ----------------------------
(***************************************************************************)
(* What SumFunction computes: facts about the sum of the values of a       *)
(* function on a finite set, for the proofs about counters that add up.    *)
(* The sum is a recursive function that takes one element after another    *)
(* out of a set; that the order does not matter is shown by looking at a   *)
(* smallest set for which it would.                                        *)
(***************************************************************************)
EXTENDS Integers, Functions, FiniteSetTheorems, TLAPS

(* A collection of subsets of a finite set has a smallest member. *)
LEMMA LeastSubset ==
    ASSUME NEW T, IsFiniteSet(T), NEW B \in SUBSET SUBSET T, B # {}
    PROVE  \E U \in B : \A V \in B : V \subseteq U => V = U
<1>1. IsWellFoundedOn(StrictSubsetOrdering(T), FiniteSubsetsOf(T))
  BY FS_StrictSubsetOrderingWellFounded
<1>2. FiniteSubsetsOf(T) = SUBSET T
  BY FS_FiniteSubsetsOfFinite
<1>3. IsWellFoundedOn(StrictSubsetOrdering(T), SUBSET T)
  BY <1>1, <1>2
<1>4. \E U \in B : \A V \in B : ~ (<<V, U>> \in StrictSubsetOrdering(T))
  BY <1>3, WFMin
<1> QED
  BY <1>4 DEF StrictSubsetOrdering

(* The element that is taken first, and what the recursive function does. *)
Pick(s) == CHOOSE x \in s : TRUE
Sums(f, T, g) == g = [s \in SUBSET T |-> IF s = {} THEN 0 ELSE f[Pick(s)] + g[s \ {Pick(s)}]]

LEMMA PickIn == ASSUME NEW s, s # {} PROVE Pick(s) \in s
BY DEF Pick

LEMMA SumsUnique ==
    ASSUME NEW f, NEW T, IsFiniteSet(T), NEW g, NEW h, Sums(f, T, g), Sums(f, T, h)
    PROVE  g = h
<1> DEFINE B == {U \in SUBSET T : g[U] # h[U]}
<1>1. /\ \A U \in SUBSET T : g[U] = IF U = {} THEN 0 ELSE f[Pick(U)] + g[U \ {Pick(U)}]
      /\ \A U \in SUBSET T : h[U] = IF U = {} THEN 0 ELSE f[Pick(U)] + h[U \ {Pick(U)}]
      /\ g = [U \in SUBSET T |-> g[U]] /\ h = [U \in SUBSET T |-> h[U]]
  BY DEF Sums
<1>2. SUFFICES ASSUME B # {} PROVE FALSE
  BY <1>1
<1>3. PICK U \in B : \A V \in B : V \subseteq U => V = U
  <2>1. B \in SUBSET SUBSET T
    OBVIOUS
  <2> HIDE DEF B
  <2> QED
    BY <1>2, <2>1, LeastSubset
<1>4. U # {}
  BY <1>1
<1>5. U \ {Pick(U)} \in SUBSET T /\ U \ {Pick(U)} # U /\ U \ {Pick(U)} \subseteq U
  BY <1>4, PickIn
<1>6. g[U \ {Pick(U)}] = h[U \ {Pick(U)}]
  BY <1>3, <1>5
<1> QED
  BY <1>1, <1>4, <1>6

LEMMA SumsRestrict ==
    ASSUME NEW f, NEW T, NEW g, Sums(f, T, g), NEW U \in SUBSET T
    PROVE  Sums(f, U, [s \in SUBSET U |-> g[s]])
<1> DEFINE k == [s \in SUBSET U |-> g[s]]
<1>1. \A s \in SUBSET T : g[s] = IF s = {} THEN 0 ELSE f[Pick(s)] + g[s \ {Pick(s)}]
  BY DEF Sums
<1>2. ASSUME NEW s \in SUBSET U
      PROVE  k[s] = IF s = {} THEN 0 ELSE f[Pick(s)] + k[s \ {Pick(s)}]
  <2>1. s \in SUBSET T /\ s \ {Pick(s)} \in SUBSET U
    OBVIOUS
  <2> QED
    BY <1>1, <2>1
<1>3. k = [s \in SUBSET U |-> k[s]]
  OBVIOUS
<1> HIDE DEF k
<1>4. k = [s \in SUBSET U |-> IF s = {} THEN 0 ELSE f[Pick(s)] + k[s \ {Pick(s)}]]
  BY <1>2, <1>3
<1> QED
  BY <1>4 DEF Sums, k

(* There is such a function: on the smallest set without one it could be   *)
(* put together from those of its subsets.                                 *)
LEMMA SumsExist ==
    ASSUME NEW f, NEW S, IsFiniteSet(S)
    PROVE  \E g : Sums(f, S, g)
<1> DEFINE B == {T \in SUBSET S : ~ \E g : Sums(f, T, g)}
<1>1. SUFFICES ASSUME B # {} PROVE FALSE
  OBVIOUS
<1>2. PICK T \in B : \A V \in B : V \subseteq T => V = T
  <2>1. B \in SUBSET SUBSET S
    OBVIOUS
  <2> HIDE DEF B
  <2> QED
    BY <1>1, <2>1, LeastSubset
<1>3. T \in SUBSET S /\ ~ \E g : Sums(f, T, g)
  OBVIOUS
<1>4. ASSUME NEW U \in SUBSET T, U # T
      PROVE  \E g : Sums(f, U, g)
  BY <1>2, <1>4
<1> HIDE DEF B
<1> DEFINE of(U) == CHOOSE g : Sums(f, U, g)
           val(U) == IF U = {} THEN 0 ELSE f[Pick(U)] + of(U \ {Pick(U)})[U \ {Pick(U)}]
           g == [U \in SUBSET T |-> val(U)]
<1>5. ASSUME NEW U \in SUBSET T, U # T
      PROVE  Sums(f, U, of(U))
  BY <1>4, <1>5
<1>6. \A U \in SUBSET T : IsFiniteSet(U)
  BY <1>3, FS_Subset
<1>7. ASSUME NEW U \in SUBSET T, U # T, NEW V \in SUBSET U
      PROVE  of(V)[V] = of(U)[V]
  <2>1. Sums(f, V, [s \in SUBSET V |-> of(U)[s]])
    BY <1>5, <1>7, SumsRestrict
  <2>2. Sums(f, V, of(V)) /\ IsFiniteSet(V)
    BY <1>5, <1>6, <1>7
  <2>3. of(V) = [s \in SUBSET V |-> of(U)[s]]
    <3> HIDE DEF of
    <3> QED
      BY <2>1, <2>2, SumsUnique
  <2> QED
    BY <2>3
<1>8. ASSUME NEW U \in SUBSET T, U # T
      PROVE  val(U) = of(U)[U]
  <2>1. of(U) = [s \in SUBSET U |-> IF s = {} THEN 0 ELSE f[Pick(s)] + of(U)[s \ {Pick(s)}]]
    BY <1>5, <1>8 DEF Sums
  <2>2. of(U)[U] = IF U = {} THEN 0 ELSE f[Pick(U)] + of(U)[U \ {Pick(U)}]
    <3> HIDE DEF of
    <3> QED
      BY <2>1
  <2>3. of(U \ {Pick(U)})[U \ {Pick(U)}] = of(U)[U \ {Pick(U)}]
    <3>1. U \ {Pick(U)} \in SUBSET U
      OBVIOUS
    <3> HIDE DEF of
    <3> QED
      BY <1>7, <1>8, <3>1
  <2> HIDE DEF of
  <2> QED
    BY <2>2, <2>3
<1>9. ASSUME NEW U \in SUBSET T
      PROVE  val(U) = IF U = {} THEN 0 ELSE f[Pick(U)] + g[U \ {Pick(U)}]
  <2> HIDE DEF of
  <2>1. CASE U = {}
    BY <2>1
  <2>2. CASE U # {}
    <3> DEFINE V == U \ {Pick(U)}
    <3>1. V \in SUBSET T /\ V # T
      BY <2>2, PickIn
    <3>2. g[V] = val(V) /\ val(V) = of(V)[V]
      <4> HIDE DEF val, V
      <4> QED
        BY <1>8, <3>1
    <3> QED
      BY <2>2, <3>2
  <2> QED
    BY <2>1, <2>2
<1>10. Sums(f, T, g)
  <2> HIDE DEF val
  <2>1. g = [U \in SUBSET T |-> IF U = {} THEN 0 ELSE f[Pick(U)] + g[U \ {Pick(U)}]]
    BY <1>9
  <2> QED
    BY <2>1 DEF Sums
<1> QED
  BY <1>3, <1>10

(* The sum, by its definition. *)
LEMMA SumDefined ==
    ASSUME NEW f, NEW T, IsFiniteSet(T)
    PROVE  \E g : Sums(f, T, g) /\ SumFunctionOnSet(f, T) = g[T]
<1> DEFINE c == CHOOSE g : g = [s \in SUBSET T |-> IF s = {} THEN 0
                                                   ELSE f[CHOOSE x \in s : TRUE] + g[s \ {CHOOSE x \in s : TRUE}]]
<1>1. SumFunctionOnSet(f, T) = c[T]
  BY DEF SumFunctionOnSet, FoldFunctionOnSet, MapThenFoldSet
<1>2. \E g : g = [s \in SUBSET T |-> IF s = {} THEN 0
                                     ELSE f[CHOOSE x \in s : TRUE] + g[s \ {CHOOSE x \in s : TRUE}]]
  <2>1. PICK h : Sums(f, T, h)
    BY SumsExist
  <2>2. h = [s \in SUBSET T |-> IF s = {} THEN 0
                                ELSE f[CHOOSE x \in s : TRUE] + h[s \ {CHOOSE x \in s : TRUE}]]
    BY <2>1 DEF Sums, Pick
  <2> QED
    BY <2>2
<1>3. c = [s \in SUBSET T |-> IF s = {} THEN 0
                              ELSE f[CHOOSE x \in s : TRUE] + c[s \ {CHOOSE x \in s : TRUE}]]
  BY <1>2
<1> HIDE DEF c
<1>4. Sums(f, T, c)
  BY <1>3 DEF Sums, Pick
<1> QED
  BY <1>1, <1>4

(* One element after another. *)
LEMMA SumSteps ==
    ASSUME NEW f, NEW T, IsFiniteSet(T)
    PROVE  SumFunctionOnSet(f, T) = IF T = {} THEN 0
               ELSE f[Pick(T)] + SumFunctionOnSet(f, T \ {Pick(T)})
<1> DEFINE V == T \ {Pick(T)}
<1>1. PICK g : Sums(f, T, g) /\ SumFunctionOnSet(f, T) = g[T]
  BY SumDefined
<1>2. V \in SUBSET T /\ IsFiniteSet(V)
  BY FS_Subset
<1>3. PICK h : Sums(f, V, h) /\ SumFunctionOnSet(f, V) = h[V]
  BY <1>2, SumDefined
<1>4. Sums(f, V, [s \in SUBSET V |-> g[s]])
  BY <1>1, <1>2, SumsRestrict
<1>5. h = [s \in SUBSET V |-> g[s]]
  BY <1>2, <1>3, <1>4, SumsUnique
<1>6. h[V] = g[V]
  BY <1>5
<1>7. g[T] = IF T = {} THEN 0 ELSE f[Pick(T)] + g[V]
  BY <1>1 DEF Sums
<1> QED
  BY <1>1, <1>3, <1>6, <1>7

(* The sum is a number, and any element may be taken first. *)
LEMMA SumTake ==
    ASSUME NEW S, IsFiniteSet(S), NEW f \in [S -> Int]
    PROVE  \A T \in SUBSET S :
              /\ SumFunctionOnSet(f, T) \in Int
              /\ \A y \in T : SumFunctionOnSet(f, T) = f[y] + SumFunctionOnSet(f, T \ {y})
<1> DEFINE sum(T) == SumFunctionOnSet(f, T)
           Good(T) == sum(T) \in Int /\ \A y \in T : sum(T) = f[y] + sum(T \ {y})
           B == {T \in SUBSET S : ~ Good(T)}
<1>0. \A T \in SUBSET S : IsFiniteSet(T)
  BY FS_Subset
<1>1. \A T \in SUBSET S : sum(T) = IF T = {} THEN 0 ELSE f[Pick(T)] + sum(T \ {Pick(T)})
  BY <1>0, SumSteps
<1> HIDE DEF sum
<1>2. SUFFICES ASSUME B # {} PROVE FALSE
  BY DEF sum
<1>3. PICK T \in B : \A V \in B : V \subseteq T => V = T
  <2>1. B \in SUBSET SUBSET S
    OBVIOUS
  <2> HIDE DEF B
  <2> QED
    BY <1>2, <2>1, LeastSubset
<1>4. T \in SUBSET S /\ ~ Good(T)
  OBVIOUS
<1>5. ASSUME NEW y \in T
      PROVE  Good(T \ {y})
  <2>1. T \ {y} \in SUBSET S /\ T \ {y} # T /\ T \ {y} \subseteq T
    OBVIOUS
  <2>2. T \ {y} \notin B
    BY <1>3, <2>1
  <2> HIDE DEF Good
  <2> QED
    BY <2>1, <2>2
<1>6. CASE T = {}
  <2>1. sum(T) = 0
    BY <1>1, <1>4, <1>6
  <2> QED
    BY <1>4, <1>6, <2>1
<1>7. CASE T # {}
  <2> DEFINE x == Pick(T)
  <2>1. x \in T
    BY <1>7, PickIn
  <2> HIDE DEF x
  <2>2. sum(T) = f[x] + sum(T \ {x})
    BY <1>1, <1>4, <1>7 DEF x
  <2>3. sum(T \ {x}) \in Int /\ f[x] \in Int
    BY <1>4, <1>5, <2>1
  <2>4. ASSUME NEW y \in T, y # x
        PROVE  sum(T) = f[y] + sum(T \ {y})
    <3>1. sum(T \ {x}) = f[y] + sum((T \ {x}) \ {y})
      BY <1>5, <2>1, <2>4
    <3>2. sum(T \ {y}) = f[x] + sum((T \ {y}) \ {x})
      BY <1>5, <2>1, <2>4
    <3>3. (T \ {x}) \ {y} = (T \ {y}) \ {x}
      OBVIOUS
    <3>4. sum((T \ {x}) \ {y}) \in Int
      <4>1. (T \ {x}) \ {y} \in SUBSET S /\ (T \ {x}) \ {y} \subseteq T /\ (T \ {x}) \ {y} # T
        BY <2>1
      <4>2. (T \ {x}) \ {y} \notin B
        BY <1>3, <4>1
      <4> QED
        BY <4>1, <4>2
    <3>5. f[y] \in Int /\ f[x] \in Int
      BY <1>4, <2>1
    <3> DEFINE c == sum((T \ {x}) \ {y})
    <3>6. c \in Int /\ sum(T \ {x}) = f[y] + c /\ sum(T \ {y}) = f[x] + c
      BY <3>1, <3>2, <3>3, <3>4
    <3> HIDE DEF c
    <3> QED
      BY <2>2, <3>5, <3>6
  <2>5. sum(T) \in Int
    BY <2>2, <2>3
  <2>6. \A y \in T : sum(T) = f[y] + sum(T \ {y})
    <3> SUFFICES ASSUME NEW y \in T PROVE sum(T) = f[y] + sum(T \ {y})
      OBVIOUS
    <3> QED
      BY <2>2, <2>4
  <2>7. Good(T)
    BY <2>5, <2>6
  <2> QED
    BY <1>4, <2>7
<1> QED
  BY <1>6, <1>7

(* A set that holds the empty set, and each set of which it holds one with *)
(* an element less, holds all subsets.                                     *)
LEMMA SubsetInduction ==
    ASSUME NEW S, IsFiniteSet(S), NEW G, {} \in G,
           \A T \in SUBSET S : \A y \in T : T \ {y} \in G => T \in G
    PROVE  \A T \in SUBSET S : T \in G
<1> DEFINE B == {T \in SUBSET S : T \notin G}
<1>1. SUFFICES ASSUME B # {} PROVE FALSE
  OBVIOUS
<1>2. PICK T \in B : \A V \in B : V \subseteq T => V = T
  <2>1. B \in SUBSET SUBSET S
    OBVIOUS
  <2> HIDE DEF B
  <2> QED
    BY <1>1, <2>1, LeastSubset
<1>3. PICK y : y \in T
  <2>1. T # {}
    OBVIOUS
  <2> QED
    BY <2>1
<1>4. T \ {y} \in SUBSET S /\ T \ {y} \subseteq T /\ T \ {y} # T
  BY <1>3
<1>5. T \ {y} \notin B
  BY <1>2, <1>4
<1> QED
  BY <1>3, <1>4, <1>5

(* The sum of no elements, and with one element more. *)
LEMMA SumFacts ==
    ASSUME NEW S, IsFiniteSet(S), NEW f \in [S -> Int]
    PROVE  /\ SumFunctionOnSet(f, {}) = 0
           /\ \A T \in SUBSET S : SumFunctionOnSet(f, T) \in Int
           /\ \A T \in SUBSET S : \A y \in T :
                 SumFunctionOnSet(f, T) = f[y] + SumFunctionOnSet(f, T \ {y})
           /\ SumFunction(f) = SumFunctionOnSet(f, S)
           /\ SumFunction(f) \in Int
<1>1. SumFunctionOnSet(f, {}) = 0
  BY SumSteps, FS_EmptySet
<1>2. DOMAIN f = S
  OBVIOUS
<1> QED
  BY <1>1, <1>2, SumTake DEF SumFunction

(* Sums of natural numbers. *)
LEMMA SumNat ==
    ASSUME NEW S, IsFiniteSet(S), NEW f \in [S -> Nat]
    PROVE  /\ SumFunction(f) \in Nat
           /\ \A y \in S : f[y] <= SumFunction(f)
<1> DEFINE sum(T) == SumFunctionOnSet(f, T)
           G == {T \in SUBSET S : sum(T) \in Nat}
<1>1. f \in [S -> Int]
  OBVIOUS
<1>2. /\ sum({}) = 0 /\ SumFunction(f) = sum(S)
      /\ \A T \in SUBSET S : \A y \in T : sum(T) = f[y] + sum(T \ {y})
  BY <1>1, SumFacts
<1> HIDE DEF sum
<1>3. \A T \in SUBSET S : T \in G
  <2>1. {} \in G
    BY <1>2
  <2>2. ASSUME NEW T \in SUBSET S, NEW y \in T, T \ {y} \in G
        PROVE  T \in G
    <3>1. f[y] \in Nat /\ sum(T \ {y}) \in Nat /\ sum(T) = f[y] + sum(T \ {y})
      BY <1>2, <2>2
    <3>2. sum(T) \in Nat
      BY <3>1
    <3> QED
      BY <3>2
  <2> HIDE DEF G
  <2> QED
    BY <2>1, <2>2, SubsetInduction
<1>4. SumFunction(f) \in Nat
  BY <1>2, <1>3
<1>5. ASSUME NEW y \in S
      PROVE  f[y] <= SumFunction(f)
  <2>1. S \ {y} \in G /\ S \in SUBSET S
    BY <1>3
  <2>2. sum(S \ {y}) \in Nat
    BY <2>1
  <2>3. sum(S) = f[y] + sum(S \ {y})
    BY <1>2, <2>1
  <2> QED
    BY <1>2, <2>2, <2>3
<1> QED
  BY <1>4, <1>5

(* Sums add up. *)
LEMMA SumPlus ==
    ASSUME NEW S, IsFiniteSet(S), NEW f \in [S -> Int], NEW g \in [S -> Int], NEW h \in [S -> Int],
           \A x \in S : h[x] = f[x] + g[x]
    PROVE  SumFunction(h) = SumFunction(f) + SumFunction(g)
<1> DEFINE sf(T) == SumFunctionOnSet(f, T)
           sg(T) == SumFunctionOnSet(g, T)
           sh(T) == SumFunctionOnSet(h, T)
           G == {T \in SUBSET S : sh(T) = sf(T) + sg(T)}
<1>1. /\ sf({}) = 0 /\ SumFunction(f) = sf(S)
      /\ \A T \in SUBSET S : sf(T) \in Int
      /\ \A T \in SUBSET S : \A y \in T : sf(T) = f[y] + sf(T \ {y})
  BY SumFacts
<1>2. /\ sg({}) = 0 /\ SumFunction(g) = sg(S)
      /\ \A T \in SUBSET S : sg(T) \in Int
      /\ \A T \in SUBSET S : \A y \in T : sg(T) = g[y] + sg(T \ {y})
  BY SumFacts
<1>3. /\ sh({}) = 0 /\ SumFunction(h) = sh(S)
      /\ \A T \in SUBSET S : \A y \in T : sh(T) = h[y] + sh(T \ {y})
  BY SumFacts
<1> HIDE DEF sf, sg, sh
<1>4. \A T \in SUBSET S : T \in G
  <2>1. {} \in G
    BY <1>1, <1>2, <1>3
  <2>2. ASSUME NEW T \in SUBSET S, NEW y \in T, T \ {y} \in G
        PROVE  T \in G
    <3> DEFINE V == T \ {y}
    <3>1. V \in SUBSET S /\ y \in S
      OBVIOUS
    <3>2. sf(T) = f[y] + sf(V) /\ sg(T) = g[y] + sg(V) /\ sh(T) = h[y] + sh(V)
      BY <1>1, <1>2, <1>3
    <3>3. sh(V) = sf(V) + sg(V)
      BY <2>2
    <3>4. sf(V) \in Int /\ sg(V) \in Int /\ f[y] \in Int /\ g[y] \in Int /\ h[y] = f[y] + g[y]
      BY <1>1, <1>2, <3>1
    <3> HIDE DEF V
    <3>5. sh(T) = sf(T) + sg(T)
      BY <3>2, <3>3, <3>4
    <3> QED
      BY <3>5
  <2> HIDE DEF G
  <2> QED
    BY <2>1, <2>2, SubsetInduction
<1>5. sh(S) = sf(S) + sg(S)
  BY <1>4
<1> QED
  BY <1>1, <1>2, <1>3, <1>5

(* The sum of zeros. *)
LEMMA SumZero ==
    ASSUME NEW S, IsFiniteSet(S), NEW f \in [S -> Int], \A x \in S : f[x] = 0
    PROVE  SumFunction(f) = 0
<1>1. \A x \in S : f[x] = f[x] + f[x]
  OBVIOUS
<1>2. SumFunction(f) = SumFunction(f) + SumFunction(f)
  BY <1>1, SumPlus
<1>3. SumFunction(f) \in Int
  BY SumFacts
<1> DEFINE s == SumFunction(f)
<1>4. s \in Int /\ s = s + s
  BY <1>2, <1>3
<1> HIDE DEF s
<1>5. s = 0
  BY <1>4
<1> QED
  BY <1>5 DEF s

(* The sum of one value and zeros. *)
LEMMA SumSingle ==
    ASSUME NEW S, IsFiniteSet(S), NEW x \in S, NEW f \in [S -> Int], \A y \in S : y # x => f[y] = 0
    PROVE  SumFunction(f) = f[x]
<1> DEFINE sum(U) == SumFunctionOnSet(f, U)
           T == S \ {x}
           G == {U \in SUBSET T : sum(U) = 0}
<1>1. /\ sum({}) = 0 /\ SumFunction(f) = sum(S)
      /\ \A U \in SUBSET S : \A y \in U : sum(U) = f[y] + sum(U \ {y})
  BY SumFacts
<1> HIDE DEF sum
<1>2. \A U \in SUBSET T : U \in G
  <2>1. {} \in G
    BY <1>1
  <2>2. ASSUME NEW U \in SUBSET T, NEW y \in U, U \ {y} \in G
        PROVE  U \in G
    <3>1. f[y] = 0 /\ U \in SUBSET S /\ sum(U \ {y}) = 0
      BY <2>2
    <3>2. sum(U) = 0 + 0
      BY <1>1, <3>1
    <3> QED
      BY <3>2
  <2>3. IsFiniteSet(T)
    BY FS_Subset
  <2> HIDE DEF G, T
  <2> QED
    BY <2>1, <2>2, <2>3, SubsetInduction
<1>3. sum(T) = 0
  <2>1. T \in SUBSET T
    OBVIOUS
  <2> QED
    BY <1>2, <2>1
<1>4. sum(S) = f[x] + sum(T) /\ f[x] \in Int
  BY <1>1
<1> QED
  BY <1>1, <1>3, <1>4

(* The sum when one value changes. *)
LEMMA SumUpdate ==
    ASSUME NEW S, IsFiniteSet(S), NEW f \in [S -> Int], NEW x \in S, NEW h \in [S -> Int],
           \A y \in S : y # x => h[y] = f[y]
    PROVE  SumFunction(h) = SumFunction(f) + h[x] - f[x]
<1> DEFINE e == [y \in S |-> IF y = x THEN h[x] - f[x] ELSE 0]
<1>1. e \in [S -> Int] /\ \A y \in S : h[y] = f[y] + e[y]
  OBVIOUS
<1>2. \A y \in S : y # x => e[y] = 0
  OBVIOUS
<1>3. e[x] = h[x] - f[x] /\ h[x] \in Int /\ f[x] \in Int
  OBVIOUS
<1> HIDE DEF e
<1>4. SumFunction(h) = SumFunction(f) + SumFunction(e)
  BY <1>1, SumPlus
<1>5. SumFunction(e) = e[x]
  BY <1>1, <1>2, SumSingle
<1>6. SumFunction(f) \in Int
  BY SumFacts
<1> QED
  BY <1>3, <1>4, <1>5, <1>6
=============================================================================
