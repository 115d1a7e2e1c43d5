-------------------------- MODULE FiniteData_proofs --------------------------
(* Facts about the finite data that the models compute with: least and      *)
(* greatest elements, the sum of a function over a set, the elements of a   *)
(* sequence.                                                                *)
(*                                                                          *)
(* Induction is by a minimal counterexample: a nonempty set of subsets of a *)
(* finite set has a member none of whose proper subsets is in it.           *)
EXTENDS FiniteSetsExt, FiniteSetTheorems, Sequences, TLAPS

LEMMA MinimalSubset ==
  ASSUME NEW S, IsFiniteSet(S), NEW T \in SUBSET SUBSET S, T # {}
  PROVE  \E U \in T : \A V \in T : V \subseteq U => V = U
<1>1. IsWellFoundedOn(StrictSubsetOrdering(S), FiniteSubsetsOf(S))
  BY FS_StrictSubsetOrderingWellFounded
<1>2. T \subseteq FiniteSubsetsOf(S)
  BY FS_FiniteSubsetsOfFinite
<1>3. \E U \in T : \A V \in T : ~ (<<V, U>> \in StrictSubsetOrdering(S))
  BY <1>1, <1>2, WFMin
<1>4. QED
  BY <1>3 DEF StrictSubsetOrdering

----------------------------------------------------------------------------
(* Min and Max.                                                             *)

LEMMA MinExists ==
  ASSUME NEW S, S \subseteq Int, IsFiniteSet(S), S # {}
  PROVE  \E x \in S : \A y \in S : x <= y
<1> DEFINE Below(x) == {y \in S : y <= x}
           T == {Below(x) : x \in S}
<1>1. PICK U \in T : \A V \in T : V \subseteq U => V = U
  <2>1. T \in SUBSET SUBSET S /\ T # {}
    OBVIOUS
  <2> HIDE DEF T, Below
  <2>2. QED
    BY ONLY IsFiniteSet(S), <2>1, MinimalSubset
<1>2. PICK x \in S : U = Below(x)
  OBVIOUS
<1>3. ASSUME NEW y \in S, ~ (x <= y) PROVE FALSE
  <2>1. y <= x /\ x \notin Below(y) /\ x \in Below(x)
    BY <1>3
  <2>2. \A z \in S : z <= y => z <= x
    BY <2>1
  <2>3. Below(y) \subseteq Below(x)
    BY <2>2
  <2>4. Below(y) = Below(x)
    BY <1>1, <1>2, <2>3
  <2>5. QED
    BY <2>1, <2>4
<1>4. QED
  BY <1>3

LEMMA MinFacts ==
  ASSUME NEW S, S \subseteq Int, IsFiniteSet(S), S # {}
  PROVE  Min(S) \in S /\ \A y \in S : Min(S) <= y
BY MinExists DEF Min

LEMMA MaxExists ==
  ASSUME NEW S, S \subseteq Int, IsFiniteSet(S), S # {}
  PROVE  \E x \in S : \A y \in S : x >= y
<1> DEFINE Above(x) == {y \in S : y >= x}
           T == {Above(x) : x \in S}
<1>1. PICK U \in T : \A V \in T : V \subseteq U => V = U
  <2>1. T \in SUBSET SUBSET S /\ T # {}
    OBVIOUS
  <2> HIDE DEF T, Above
  <2>2. QED
    BY ONLY IsFiniteSet(S), <2>1, MinimalSubset
<1>2. PICK x \in S : U = Above(x)
  OBVIOUS
<1>3. ASSUME NEW y \in S, ~ (x >= y) PROVE FALSE
  <2>1. y >= x /\ x \notin Above(y) /\ x \in Above(x)
    BY <1>3
  <2>2. \A z \in S : z >= y => z >= x
    BY <2>1
  <2>3. Above(y) \subseteq Above(x)
    BY <2>2
  <2>4. Above(y) = Above(x)
    BY <1>1, <1>2, <2>3
  <2>5. QED
    BY <2>1, <2>4
<1>4. QED
  BY <1>3

LEMMA MaxFacts ==
  ASSUME NEW S, S \subseteq Int, IsFiniteSet(S), S # {}
  PROVE  Max(S) \in S /\ \A y \in S : Max(S) >= y
BY MaxExists DEF Max

\* The maximum of two integers.
LEMMA MaxOfPair ==
  ASSUME NEW a \in Int, NEW b \in Int
  PROVE  Max({a, b}) = IF a >= b THEN a ELSE b
<1>1. {a, b} = {a} \cup {b} /\ {a, b} \subseteq Int /\ {a, b} # {}
  OBVIOUS
<1>2. IsFiniteSet({a} \cup {b})
  BY FS_Singleton, FS_Union
<1>3. Max({a, b}) \in {a, b} /\ \A y \in {a, b} : Max({a, b}) >= y
  BY <1>1, <1>2, MaxFacts
<1>4. QED
  BY <1>3

----------------------------------------------------------------------------
(* Finite sets from sequences.                                              *)

\* The image of a finite set under a function is finite.
LEMMA ImageFinite ==
  ASSUME NEW S, IsFiniteSet(S), NEW f
  PROVE  IsFiniteSet({f[x] : x \in S})
<1> DEFINE T == {f[x] : x \in S}
           g == [x \in S |-> f[x]]
<1>1. g \in Surjection(S, T)
  BY DEF Surjection
<1>2. QED
  BY <1>1, FS_Surjection

\* A set whose elements are told apart by what they are mapped to.
LEMMA SameNumber ==
  ASSUME NEW S, IsFiniteSet(S), NEW T, NEW g,
         \A t \in T : g[t] \in S,
         \A x \in S : \E t \in T : g[t] = x,
         \A t, u \in T : g[t] = g[u] => t = u
  PROVE  IsFiniteSet(T) /\ Cardinality(T) = Cardinality(S)
<1> DEFINE b == [x \in S |-> CHOOSE t \in T : g[t] = x]
<1>1. \A x \in S : b[x] \in T /\ g[b[x]] = x
  OBVIOUS
<1>2. b \in [S -> T]
  BY <1>1
<1>3. \A x, y \in S : b[x] = b[y] => x = y
  BY <1>1
<1>4. \A t \in T : \E x \in S : b[x] = t
  <2> SUFFICES ASSUME NEW t \in T PROVE b[g[t]] = t
    OBVIOUS
  <2>1. b[g[t]] \in T /\ g[b[g[t]]] = g[t]
    BY <1>1
  <2>2. QED
    BY <2>1
<1> HIDE DEF b
<1>5. b \in Bijection(S, T)
  BY <1>2, <1>3, <1>4 DEF Bijection, Injection, IsInjective, Surjection
<1>6. QED
  BY <1>5, FS_Bijection DEF ExistsBijection

LEMMA IndicesFinite ==
  ASSUME NEW A, NEW s \in Seq(A)
  PROVE  IsFiniteSet(DOMAIN s) /\ DOMAIN s \subseteq Nat \ {0}
<1>1. DOMAIN s = 1..Len(s) /\ Len(s) \in Int /\ 1 \in Int
  OBVIOUS
<1>2. IsFiniteSet(1..Len(s))
  BY <1>1, FS_Interval
<1>3. QED
  BY <1>1, <1>2

----------------------------------------------------------------------------
(* Sums.  The recursive function that SumFunctionOnSet is defined by exists *)
(* on a finite set, and its value does not depend on the order.             *)

First(s) == CHOOSE x \in s : TRUE

IsSum(f, S, g) ==
    g = [s \in SUBSET S |-> IF s = {} THEN 0
                                      ELSE f[First(s)] + g[s \ {First(s)}]]

LEMMA SumDef ==
  ASSUME NEW f, NEW S
  PROVE  SumFunctionOnSet(f, S) = (CHOOSE g : IsSum(f, S, g))[S]
BY DEF SumFunctionOnSet, FoldFunctionOnSet, MapThenFoldSet, IsSum, First

LEMMA FirstOfSet ==
  ASSUME NEW S, S # {}
  PROVE  First(S) \in S
BY DEF First

\* Two such functions agree on the sets they are both defined on.
LEMMA SumUnique ==
  ASSUME NEW f, NEW S, NEW R, NEW g, NEW h, IsSum(f, S, g), IsSum(f, R, h),
         IsFiniteSet(S), NEW U, U \subseteq S, U \subseteq R
  PROVE  g[U] = h[U]
<1> DEFINE T == {V \in SUBSET U : g[V] # h[V]}
<1> SUFFICES ASSUME T # {} PROVE FALSE
  OBVIOUS
<1>1. IsFiniteSet(U)
  BY FS_Subset
<1>2. PICK V \in T : \A W \in T : W \subseteq V => W = V
  <2>1. T \in SUBSET SUBSET U
    OBVIOUS
  <2> HIDE DEF T
  <2>2. QED
    BY <1>1, <2>1, MinimalSubset
<1>3. V \subseteq S /\ V \subseteq R /\ g[V] # h[V]
  OBVIOUS
<1>4. V # {}
  BY <1>3 DEF IsSum
<1> DEFINE W == V \ {First(V)}
<1>5. W \in SUBSET U /\ W \subseteq V /\ W # V
  BY <1>4, FirstOfSet
<1>6. g[W] = h[W]
  BY <1>2, <1>5
<1>7. g[V] = f[First(V)] + g[W] /\ h[V] = f[First(V)] + h[W]
  BY <1>3, <1>4 DEF IsSum
<1>8. QED
  BY <1>3, <1>6, <1>7

LEMMA SumExists ==
  ASSUME NEW f, NEW S, IsFiniteSet(S)
  PROVE  \E g : IsSum(f, S, g)
<1> DEFINE T == {U \in SUBSET S : ~ \E g : IsSum(f, U, g)}
<1> SUFFICES ASSUME T # {} PROVE FALSE
  OBVIOUS
<1>1. PICK U \in T : \A V \in T : V \subseteq U => V = U
  <2>1. T \in SUBSET SUBSET S
    OBVIOUS
  <2> HIDE DEF T
  <2>2. QED
    BY <2>1, MinimalSubset
<1>2. U \subseteq S /\ ~ \E g : IsSum(f, U, g)
  OBVIOUS
<1> DEFINE Part(V) == CHOOSE g : IsSum(f, V, g)
           h == [s \in SUBSET U |-> IF s = {} THEN 0
                                   ELSE f[First(s)] + Part(s \ {First(s)})[s \ {First(s)}]]
<1>3. ASSUME NEW V \in SUBSET U, V # U PROVE IsSum(f, V, Part(V))
  <2>1. V \notin T
    BY <1>1, <1>3
  <2>2. \E g : IsSum(f, V, g)
    BY <1>2, <2>1
  <2>3. QED
    BY <2>2
<1>4. ASSUME NEW V \in SUBSET U, V # U PROVE h[V] = Part(V)[V]
  <2>1. IsSum(f, V, Part(V))
    BY <1>3, <1>4
  <2>2. CASE V = {}
    BY <2>1, <2>2 DEF IsSum
  <2>3. CASE V # {}
    <3> DEFINE W == V \ {First(V)}
    <3>1. W \in SUBSET U /\ W # U /\ W \subseteq V
      BY <2>3, FirstOfSet
    <3>2. IsSum(f, W, Part(W)) /\ IsFiniteSet(W)
      BY <1>2, <1>3, <3>1, FS_Subset
    <3>3. Part(W)[W] = Part(V)[W]
      <4> HIDE DEF Part, W
      <4>1. QED
        BY <2>1, <3>1, <3>2, SumUnique
    <3>4. Part(V)[V] = f[First(V)] + Part(V)[W]
      <4> HIDE DEF Part
      <4>1. QED
        BY <2>1, <2>3 DEF IsSum
    <3>5. h[V] = f[First(V)] + Part(W)[W]
      <4> HIDE DEF Part
      <4>1. QED
        BY <2>3
    <3>6. QED
      BY <3>3, <3>4, <3>5
  <2>4. QED
    BY <2>2, <2>3
<1>5. \A s \in SUBSET U : s # {} => Part(s \ {First(s)})[s \ {First(s)}] = h[s \ {First(s)}]
  BY <1>4, FirstOfSet
<1>6. IsSum(f, U, h)
  <2> HIDE DEF Part
  <2>1. h = [s \in SUBSET U |-> IF s = {} THEN 0 ELSE f[First(s)] + h[s \ {First(s)}]]
    BY <1>5
  <2>2. QED
    BY <2>1 DEF IsSum
<1>7. QED
  BY <1>2, <1>6

LEMMA SumOfSubset ==
  ASSUME NEW f, NEW S, IsFiniteSet(S), NEW g, IsSum(f, S, g), NEW U \in SUBSET S
  PROVE  SumFunctionOnSet(f, U) = g[U]
<1>1. IsFiniteSet(U)
  BY FS_Subset
<1>2. IsSum(f, U, CHOOSE h : IsSum(f, U, h))
  BY <1>1, SumExists
<1>3. QED
  BY <1>1, <1>2, SumDef, SumUnique

LEMMA SumEmpty ==
  ASSUME NEW f
  PROVE  SumFunctionOnSet(f, {}) = 0
<1>1. PICK g : IsSum(f, {}, g)
  BY SumExists, FS_EmptySet
<1>2. g[{}] = 0
  BY <1>1 DEF IsSum
<1>3. QED
  BY <1>1, <1>2, SumOfSubset, FS_EmptySet

LEMMA SumStep ==
  ASSUME NEW f, NEW S, IsFiniteSet(S), S # {}
  PROVE  SumFunctionOnSet(f, S) = f[First(S)] + SumFunctionOnSet(f, S \ {First(S)})
<1>1. PICK g : IsSum(f, S, g)
  BY SumExists
<1>2. g[S] = f[First(S)] + g[S \ {First(S)}]
  BY <1>1 DEF IsSum
<1>3. QED
  BY <1>1, <1>2, SumOfSubset

\* A sum of natural numbers is one.
LEMMA SumNat ==
  ASSUME NEW f, NEW S, IsFiniteSet(S), \A x \in S : f[x] \in Nat
  PROVE  SumFunctionOnSet(f, S) \in Nat
<1> DEFINE T == {U \in SUBSET S : SumFunctionOnSet(f, U) \notin Nat}
<1> SUFFICES ASSUME T # {} PROVE FALSE
  OBVIOUS
<1>1. PICK U \in T : \A V \in T : V \subseteq U => V = U
  <2>1. T \in SUBSET SUBSET S
    OBVIOUS
  <2> HIDE DEF T
  <2>2. QED
    BY <2>1, MinimalSubset
<1>2. U \subseteq S /\ SumFunctionOnSet(f, U) \notin Nat /\ IsFiniteSet(U)
  BY FS_Subset
<1>3. U # {}
  BY <1>2, SumEmpty
<1>4. First(U) \in U /\ U \ {First(U)} \notin T
  BY <1>1, <1>3, FirstOfSet
<1>5. SumFunctionOnSet(f, U \ {First(U)}) \in Nat
  BY <1>2, <1>4
<1>6. f[First(U)] \in Nat
  BY <1>2, <1>4
<1>7. QED
  BY <1>2, <1>3, <1>5, <1>6, SumStep

\* Any element may be taken out first.
LEMMA SumRemove ==
  ASSUME NEW f, NEW S, IsFiniteSet(S), \A x \in S : f[x] \in Nat, NEW a \in S
  PROVE  SumFunctionOnSet(f, S) = f[a] + SumFunctionOnSet(f, S \ {a})
<1> DEFINE Sum(U) == SumFunctionOnSet(f, U)
           T == {U \in SUBSET S : \E x \in U : Sum(U) # f[x] + Sum(U \ {x})}
<1> SUFFICES ASSUME T # {} PROVE FALSE
  OBVIOUS
<1>1. PICK U \in T : \A V \in T : V \subseteq U => V = U
  <2>1. T \in SUBSET SUBSET S
    OBVIOUS
  <2> HIDE DEF T
  <2>2. QED
    BY <2>1, MinimalSubset
<1>2. PICK x \in U : Sum(U) # f[x] + Sum(U \ {x})
  OBVIOUS
<1> DEFINE y == First(U)
           R == (U \ {x}) \ {y}
<1>3. y \in U /\ Sum(U) = f[y] + Sum(U \ {y})
  BY <1>2, SumStep, FirstOfSet, FS_Subset
<1>4. x # y
  BY <1>2, <1>3
<1>5. \A V \in SUBSET U : V # U => \A z \in V : Sum(V) = f[z] + Sum(V \ {z})
  BY <1>1
<1> HIDE DEF Sum, T, y
<1>6. Sum(U \ {y}) = f[x] + Sum((U \ {y}) \ {x})
  BY <1>3, <1>4, <1>5
<1>7. Sum(U \ {x}) = f[y] + Sum(R)
  BY <1>3, <1>4, <1>5
<1>8. (U \ {y}) \ {x} = R
  OBVIOUS
<1>9. Sum(R) \in Nat /\ f[x] \in Nat /\ f[y] \in Nat
  <2>1. R \subseteq S /\ IsFiniteSet(R) /\ U \subseteq S
    BY FS_Subset DEF T
  <2>2. QED
    BY <1>3, <2>1, SumNat DEF Sum
<1> HIDE DEF R
<1>10. Sum(U) = f[y] + (f[x] + Sum(R))
  BY <1>3, <1>6, <1>8
<1>11. QED
  BY <1>2, <1>7, <1>9, <1>10

\* More elements have no smaller sum.
LEMMA SumMonotonic ==
  ASSUME NEW f, NEW S, IsFiniteSet(S), \A x \in S : f[x] \in Nat,
         NEW R \in SUBSET S
  PROVE  SumFunctionOnSet(f, R) <= SumFunctionOnSet(f, S)
<1> DEFINE Sum(U) == SumFunctionOnSet(f, U)
           T == {U \in SUBSET S : R \subseteq U /\ ~ (Sum(R) <= Sum(U))}
<1> SUFFICES ASSUME T # {} PROVE FALSE
  OBVIOUS
<1>1. PICK U \in T : \A V \in T : V \subseteq U => V = U
  <2>1. T \in SUBSET SUBSET S
    OBVIOUS
  <2> HIDE DEF T
  <2>2. QED
    BY <2>1, MinimalSubset
<1>2. U \subseteq S /\ R \subseteq U /\ ~ (Sum(R) <= Sum(U))
  OBVIOUS
<1>3. \A V \in SUBSET S : Sum(V) \in Nat
  BY SumNat, FS_Subset
<1>4. PICK x \in U : x \notin R
  BY <1>2, <1>3
<1>5. Sum(U) = f[x] + Sum(U \ {x})
  BY <1>2, SumRemove, FS_Subset
<1>6. Sum(R) <= Sum(U \ {x})
  BY <1>1, <1>2, <1>4
<1>7. Sum(R) \in Nat /\ Sum(U \ {x}) \in Nat /\ f[x] \in Nat
  BY <1>2, <1>3
<1> HIDE DEF Sum
<1>8. QED
  BY <1>2, <1>5, <1>6, <1>7

\* The sum depends on the values on the set only.
LEMMA SumSame ==
  ASSUME NEW f, NEW h, NEW S, IsFiniteSet(S), \A x \in S : f[x] = h[x]
  PROVE  SumFunctionOnSet(f, S) = SumFunctionOnSet(h, S)
<1> DEFINE T == {U \in SUBSET S : SumFunctionOnSet(f, U) # SumFunctionOnSet(h, U)}
<1> SUFFICES ASSUME T # {} PROVE FALSE
  OBVIOUS
<1>1. PICK U \in T : \A V \in T : V \subseteq U => V = U
  <2>1. T \in SUBSET SUBSET S
    OBVIOUS
  <2> HIDE DEF T
  <2>2. QED
    BY <2>1, MinimalSubset
<1>2. U \subseteq S /\ IsFiniteSet(U)
      /\ SumFunctionOnSet(f, U) # SumFunctionOnSet(h, U)
  BY FS_Subset
<1>3. U # {}
  BY <1>2, SumEmpty
<1>4. First(U) \in U /\ U \ {First(U)} \notin T
  BY <1>1, <1>3, FirstOfSet
<1>5. QED
  BY <1>2, <1>3, <1>4, SumStep
=============================================================================
