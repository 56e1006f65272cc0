--------------------------- MODULE DutyCycleProofs ---------------------------
(***************************************************************************)
(* The duty cycle of one band, for every unit, number of buckets, width of *)
(* the clock and resolution: the ring never forgets what was on the air in *)
(* the ages it answers for, and a full band frees time exactly when it is  *)
(* said to.                                                                *)
(*                                                                         *)
(* A sum is a fold over a set; what it computes is shown by inductions     *)
(* over the sizes of finite sets, each as a set of the sizes that is       *)
(* closed under the successor.                                             *)
(***************************************************************************)
EXTENDS DutyCycle, FiniteSetTheorems, WellFoundedInduction, TLAPS

-----------------------------------------------------------------------------
(* Induction over the sizes of finite sets *)

LEMMA Smallest ==
    ASSUME NEW T, T \subseteq Nat, T # {}
    PROVE  \E m \in T : \A k \in T : m <= k
<1>1. PICK m \in T : \A k \in T : ~ (<<k, m>> \in OpToRel(<, Nat))
  BY NatLessThanWellFounded, WFMin
<1>2. \A k \in T : ~ (k < m)
  BY <1>1 DEF OpToRel
<1> QED BY <1>2

LEMMA Stepwise ==
    ASSUME NEW T, 0 \in T, \A n \in Nat : n \in T => n + 1 \in T
    PROVE  Nat \subseteq T
<1> SUFFICES ASSUME Nat \ T # {} PROVE FALSE
  OBVIOUS
<1>1. PICK m \in Nat \ T : \A k \in Nat \ T : m <= k
  BY Smallest, Zenon
<1>2. m # 0 /\ m - 1 \in Nat /\ m = (m - 1) + 1
  BY <1>1
<1>3. m - 1 \in T
  BY <1>1, <1>2
<1> QED BY <1>1, <1>2, <1>3

\* What fold of a sum computes
SumsOf(f, D) == CHOOSE iter : iter = [s \in SUBSET D |->
                 IF s = {} THEN 0 ELSE LET x == CHOOSE x \in s : TRUE IN f[x] + iter[s \ {x}]]

LEMMA SumIsOf ==
    ASSUME NEW f
    PROVE  SumFunction(f) = SumsOf(f, DOMAIN f)[DOMAIN f]
  BY DEF SumFunction, SumFunctionOnSet, FoldFunctionOnSet, MapThenFoldSet, SumsOf

Picked(s) == CHOOSE x \in s : TRUE
Rule(f, g, s) == IF s = {} THEN 0 ELSE f[Picked(s)] + g[s \ {Picked(s)}]
UpTo(D, n) == {s \in SUBSET D : Cardinality(s) <= n}

LEMMA SumsExist ==
    ASSUME NEW D, IsFiniteSet(D), NEW f \in [D -> Int]
    PROVE  \E g \in [SUBSET D -> Int] : \A s \in SUBSET D : g[s] = Rule(f, g, s)
<1> DEFINE T == {n \in Nat : \E g \in [UpTo(D, n) -> Int] : \A s \in UpTo(D, n) : g[s] = Rule(f, g, s)}
<1>p. ASSUME NEW s \in SUBSET D, s # {}
      PROVE  /\ Picked(s) \in s /\ f[Picked(s)] \in Int
             /\ s \ {Picked(s)} \in SUBSET D
             /\ Cardinality(s) \in Nat /\ Cardinality(s \ {Picked(s)}) = Cardinality(s) - 1
  <2>1. Picked(s) \in s
    BY <1>p DEF Picked
  <2>2. IsFiniteSet(s)
    BY FS_Subset
  <2> QED BY <2>1, <2>2, FS_RemoveElement, FS_CardinalityType
<1>1. 0 \in T
  <2> DEFINE g == [s \in UpTo(D, 0) |-> 0]
  <2>1. ASSUME NEW s \in UpTo(D, 0) PROVE s = {}
    <3>1. IsFiniteSet(s) /\ Cardinality(s) \in Nat /\ Cardinality(s) <= 0
      BY FS_Subset, FS_CardinalityType DEF UpTo
    <3> QED BY <3>1, FS_EmptySet
  <2>2. g \in [UpTo(D, 0) -> Int] /\ \A s \in UpTo(D, 0) : g[s] = Rule(f, g, s)
    BY <2>1 DEF Rule
  <2> QED BY <2>2
<1>2. ASSUME NEW n \in Nat, n \in T PROVE n + 1 \in T
  <2>1. PICK g \in [UpTo(D, n) -> Int] : \A s \in UpTo(D, n) : g[s] = Rule(f, g, s)
    BY <1>2
  <2> DEFINE h == [s \in UpTo(D, n + 1) |-> Rule(f, g, s)]
  <2>2. ASSUME NEW s \in UpTo(D, n + 1), s # {}
        PROVE  /\ s \ {Picked(s)} \in UpTo(D, n) /\ s \ {Picked(s)} \in UpTo(D, n + 1)
               /\ f[Picked(s)] \in Int
    <3>1. s \in SUBSET D /\ Cardinality(s) <= n + 1
      BY DEF UpTo
    <3> QED BY <3>1, <2>2, <1>p DEF UpTo
  <2>3. h \in [UpTo(D, n + 1) -> Int]
    BY <2>2 DEF Rule
  <2>4. ASSUME NEW s \in UpTo(D, n + 1) PROVE h[s] = Rule(f, h, s)
    <3>1. CASE s = {}
      BY <3>1 DEF Rule
    <3>2. CASE s # {}
      <4> DEFINE r == s \ {Picked(s)}
      <4>1. h[r] = g[r]
        BY <2>1, <2>2, <3>2
      <4> QED BY <4>1, <3>2 DEF Rule
    <3> QED BY <3>1, <3>2
  <2> HIDE DEF h
  <2> QED BY <2>3, <2>4
<1>3. Cardinality(D) \in T
  <2> HIDE DEF T
  <2> QED BY <1>1, <1>2, Stepwise, FS_CardinalityType
<1>4. UpTo(D, Cardinality(D)) = SUBSET D
  BY FS_Subset DEF UpTo
<1> QED BY <1>3, <1>4

LEMMA SumsOfEquation ==
    ASSUME NEW D, IsFiniteSet(D), NEW f \in [D -> Int]
    PROVE  \A s \in SUBSET D : SumsOf(f, D)[s] = Rule(f, SumsOf(f, D), s)
<1>1. PICK g \in [SUBSET D -> Int] : \A s \in SUBSET D : g[s] = Rule(f, g, s)
  BY SumsExist
<1>2. g = [s \in SUBSET D |-> Rule(f, g, s)]
  BY <1>1
<1> DEFINE P(h) == h = [s \in SUBSET D |-> IF s = {} THEN 0
                       ELSE LET x == CHOOSE x \in s : TRUE IN f[x] + h[s \ {x}]]
<1>3. P(g)
  BY <1>2 DEF Rule, Picked
<1>4. P(SumsOf(f, D))
  BY <1>3 DEF SumsOf
<1>5. SumsOf(f, D) = [s \in SUBSET D |-> Rule(f, SumsOf(f, D), s)]
  BY <1>4 DEF Rule, Picked
<1> QED BY <1>5

\* The sum of f over a part of its domain.
Total(f, T) == SumsOf(f, DOMAIN f)[T]

LEMMA AnyOrder ==
    ASSUME NEW D, IsFiniteSet(D), NEW f \in [D -> Int], NEW S \in SUBSET D
    PROVE  /\ Total(f, S) \in Int
           /\ \A x \in S : Total(f, S) = f[x] + Total(f, S \ {x})
<1> DEFINE g == SumsOf(f, D)
           T == {n \in Nat : \A s \in UpTo(D, n) :
                    g[s] \in Int /\ \A x \in s : g[s] = f[x] + g[s \ {x}]}
<1>e. \A s \in SUBSET D : g[s] = Rule(f, g, s)
  BY SumsOfEquation
<1> HIDE DEF g
<1>1. 0 \in T
  <2>1. ASSUME NEW s \in UpTo(D, 0) PROVE s = {}
    <3>1. IsFiniteSet(s) /\ Cardinality(s) \in Nat /\ Cardinality(s) <= 0
      BY FS_Subset, FS_CardinalityType DEF UpTo
    <3> QED BY <3>1, FS_EmptySet
  <2>2. g[{}] = 0
    BY <1>e DEF Rule
  <2> QED BY <2>1, <2>2
<1>2. ASSUME NEW n \in Nat, n \in T PROVE n + 1 \in T
  <2> SUFFICES ASSUME NEW s \in UpTo(D, n + 1)
               PROVE  g[s] \in Int /\ \A x \in s : g[s] = f[x] + g[s \ {x}]
    OBVIOUS
  <2>0. CASE s = {}
    <3>1. g[s] = 0
      BY <1>e, <2>0 DEF Rule
    <3> QED BY <2>0, <3>1
  <2> SUFFICES ASSUME s # {}
               PROVE  g[s] \in Int /\ \A x \in s : g[s] = f[x] + g[s \ {x}]
    BY <2>0
  <2> DEFINE p == Picked(s)
  <2>1. s \in SUBSET D /\ Cardinality(s) <= n + 1 /\ IsFiniteSet(s) /\ Cardinality(s) \in Nat
    BY FS_Subset, FS_CardinalityType DEF UpTo
  <2>2. p \in s /\ g[s] = f[p] + g[s \ {p}]
    BY <1>e, <2>1 DEF Rule, Picked
  <2> HIDE DEF p
  <2>3. ASSUME NEW x \in s
        PROVE  s \ {x} \in UpTo(D, n) /\ f[x] \in Int /\ g[s \ {x}] \in Int
    <3>1. Cardinality(s \ {x}) = Cardinality(s) - 1
      BY <2>1, FS_RemoveElement
    <3>2. s \ {x} \in UpTo(D, n)
      BY <2>1, <3>1 DEF UpTo
    <3> QED BY <1>2, <2>1, <3>2
  <2>4. ASSUME NEW x \in s, x # p PROVE g[s] = f[x] + g[s \ {x}]
    <3>1. g[s \ {p}] = f[x] + g[(s \ {p}) \ {x}]
      BY <1>2, <2>2, <2>3, <2>4
    <3>2. g[s \ {x}] = f[p] + g[(s \ {x}) \ {p}]
      BY <1>2, <2>2, <2>3, <2>4
    <3>3. (s \ {p}) \ {x} = (s \ {x}) \ {p}
      OBVIOUS
    <3>4. (s \ {x}) \ {p} \in UpTo(D, n)
      <4>1. IsFiniteSet(s \ {x}) /\ s \ {x} \in SUBSET D /\ Cardinality(s \ {x}) <= n
        BY <2>1, <2>3, FS_RemoveElement DEF UpTo
      <4>2. Cardinality((s \ {x}) \ {p}) <= n
        <5>1. (s \ {x}) \ {p} \in SUBSET (s \ {x})
          OBVIOUS
        <5>2. Cardinality((s \ {x}) \ {p}) <= Cardinality(s \ {x})
          BY <4>1, <5>1, FS_Subset
        <5>3. Cardinality((s \ {x}) \ {p}) \in Nat /\ Cardinality(s \ {x}) \in Nat
          BY <4>1, <5>1, FS_Subset, FS_CardinalityType
        <5> QED BY <4>1, <5>2, <5>3
      <4> QED BY <4>1, <4>2 DEF UpTo
    <3>5. g[(s \ {x}) \ {p}] \in Int
      BY <1>2, <3>4
    <3>6. g[s] = f[p] + (f[x] + g[(s \ {x}) \ {p}])
      BY <2>2, <3>1, <3>3, Zenon
    <3>7. f[p] \in Int /\ f[x] \in Int
      BY <2>2, <2>3
    <3> QED BY <3>2, <3>5, <3>6, <3>7
  <2>5. g[s] \in Int
    BY <2>2, <2>3
  <2> QED BY <2>2, <2>4, <2>5, Zenon
<1>3. Cardinality(D) \in T
  <2> HIDE DEF T
  <2> QED BY <1>1, <1>2, Stepwise, FS_CardinalityType
<1>4. S \in UpTo(D, Cardinality(D))
  BY FS_Subset DEF UpTo
<1> QED BY <1>3, <1>4 DEF Total, g

LEMMA SetInduction ==
    ASSUME NEW D, IsFiniteSet(D), NEW P, {} \in P,
           \A S \in SUBSET D : \A x \in D \ S : S \in P => S \union {x} \in P
    PROVE  SUBSET D \subseteq P
<1> DEFINE T == {n \in Nat : UpTo(D, n) \subseteq P}
<1>1. 0 \in T
  <2>1. ASSUME NEW s \in UpTo(D, 0) PROVE s = {}
    <3>1. IsFiniteSet(s) /\ Cardinality(s) \in Nat /\ Cardinality(s) <= 0
      BY FS_Subset, FS_CardinalityType DEF UpTo
    <3> QED BY <3>1, FS_EmptySet
  <2> QED BY <2>1
<1>2. ASSUME NEW n \in Nat, n \in T PROVE n + 1 \in T
  <2> SUFFICES ASSUME NEW s \in UpTo(D, n + 1), s # {} PROVE s \in P
    OBVIOUS
  <2>1. PICK x \in s : TRUE
    OBVIOUS
  <2>2. s \in SUBSET D /\ Cardinality(s) <= n + 1 /\ IsFiniteSet(s) /\ Cardinality(s) \in Nat
    BY FS_Subset, FS_CardinalityType DEF UpTo
  <2>3. Cardinality(s \ {x}) = Cardinality(s) - 1
    BY <2>2, FS_RemoveElement
  <2>4. s \ {x} \in P
    BY <1>2, <2>2, <2>3 DEF UpTo
  <2>5. x \in D \ (s \ {x}) /\ (s \ {x}) \union {x} = s
    BY <2>2
  <2> QED BY <2>2, <2>4, <2>5
<1>3. Cardinality(D) \in T
  <2> HIDE DEF T
  <2> QED BY <1>1, <1>2, Stepwise, FS_CardinalityType
<1> QED BY <1>3, FS_Subset DEF UpTo

LEMMA TotalOf ==
    ASSUME NEW D, IsFiniteSet(D), NEW f \in [D -> Int]
    PROVE  /\ Total(f, {}) = 0
           /\ \A S \in SUBSET D : Total(f, S) \in Int
           /\ \A S \in SUBSET D : \A x \in D \ S : Total(f, S \union {x}) = Total(f, S) + f[x]
<1>1. Total(f, {}) = 0
  BY SumsOfEquation DEF Total, Rule
<1>2. \A S \in SUBSET D : Total(f, S) \in Int
  BY AnyOrder
<1>3. ASSUME NEW S \in SUBSET D, NEW x \in D \ S
      PROVE  Total(f, S \union {x}) = Total(f, S) + f[x]
  <2>1. S \union {x} \in SUBSET D /\ x \in S \union {x} /\ (S \union {x}) \ {x} = S
    OBVIOUS
  <2>2. Total(f, S \union {x}) = f[x] + Total(f, S)
    BY <2>1, AnyOrder
  <2> QED BY <2>2, <1>2
<1> QED BY <1>1, <1>2, <1>3

LEMMA TotalAdd ==
    ASSUME NEW D, IsFiniteSet(D), NEW f \in [D -> Int], NEW S \in SUBSET D, NEW x \in D, x \notin S,
           NEW R, R = S \union {x}
    PROVE  Total(f, R) = Total(f, S) + f[x] /\ Total(f, S) \in Int /\ f[x] \in Int
  BY TotalOf

\* More of a function that is nowhere negative sums up to more.
LEMMA TotalGrows ==
    ASSUME NEW D, IsFiniteSet(D), NEW f \in [D -> Nat], NEW S \in SUBSET D, NEW U \in SUBSET D,
           S \subseteq U
    PROVE  Total(f, S) \in Nat /\ Total(f, S) <= Total(f, U)
<1> DEFINE P == {V \in SUBSET D : Total(f, V) \in Nat}
           Q == {V \in SUBSET D : Total(f, S) <= Total(f, S \union V)}
<1>f. f \in [D -> Int]
  OBVIOUS
<1>1. {} \in P
  BY TotalOf, <1>f
<1>2. ASSUME NEW V \in SUBSET D, NEW x \in D \ V, V \in P PROVE V \union {x} \in P
  <2>1. Total(f, V \union {x}) = Total(f, V) + f[x]
    BY TotalOf, <1>f
  <2> QED BY <2>1, <1>2
<1>3. SUBSET D \subseteq P
  <2> HIDE DEF P
  <2> QED BY <1>1, <1>2, SetInduction
<1>4. {} \in Q
  <2>1. S \union {} = S /\ Total(f, S) \in Nat
    BY <1>3
  <2> QED BY <2>1
<1>5. ASSUME NEW V \in SUBSET D, NEW x \in D \ V, V \in Q PROVE V \union {x} \in Q
  <2> DEFINE W == S \union V
             R == S \union (V \union {x})
  <2>1. W \in SUBSET D /\ Total(f, S) \in Nat /\ Total(f, W) \in Nat /\ Total(f, S) <= Total(f, W)
    BY <1>3, <1>5
  <2>2. CASE x \in S
    <3>1. R = W
      BY <2>2
    <3> QED BY <2>1, <3>1
  <2>3. CASE x \notin S
    <3>1. R = W \union {x} /\ x \notin W
      BY <2>3
    <3> HIDE DEF R, W
    <3>2. Total(f, R) = Total(f, W) + f[x] /\ f[x] \in Nat
      BY <2>1, <3>1, <1>f, TotalAdd
    <3> QED BY <2>1, <3>2 DEF R
  <2> QED BY <2>2, <2>3
<1>6. SUBSET D \subseteq Q
  <2> HIDE DEF Q
  <2> QED BY <1>4, <1>5, SetInduction
<1>7. S \union U = U
  OBVIOUS
<1> QED BY <1>3, <1>6, <1>7

\* What is zero does not count.
LEMMA TotalOfRest ==
    ASSUME NEW D, IsFiniteSet(D), NEW f \in [D -> Int], NEW S \in SUBSET D, NEW U \in SUBSET D,
           S \subseteq U, \A x \in U \ S : f[x] = 0
    PROVE  Total(f, U) = Total(f, S)
<1> DEFINE P == {V \in SUBSET D : Total(f, S \union (V \cap U)) = Total(f, S)}
<1>1. {} \in P
  <2>1. S \union ({} \cap U) = S
    OBVIOUS
  <2> QED BY <2>1
<1>2. ASSUME NEW V \in SUBSET D, NEW x \in D \ V, V \in P PROVE V \union {x} \in P
  <2> DEFINE W == S \union (V \cap U)
  <2>1. W \in SUBSET D /\ Total(f, W) = Total(f, S) /\ Total(f, S) \in Int
    BY <1>2, TotalOf
  <2>2. CASE x \in S \/ x \notin U
    <3>1. S \union ((V \union {x}) \cap U) = W
      BY <2>2
    <3> QED BY <2>1, <3>1
  <2>3. CASE x \in U \ S
    <3> DEFINE R == S \union ((V \union {x}) \cap U)
    <3>1. R = W \union {x} /\ x \notin W
      BY <2>3
    <3> HIDE DEF R, W
    <3>2. Total(f, R) = Total(f, W) + f[x]
      BY <2>1, <3>1, TotalAdd
    <3>3. f[x] = 0
      BY <2>3
    <3> QED BY <2>1, <3>2, <3>3 DEF R
  <2> QED BY <2>2, <2>3
<1>3. SUBSET D \subseteq P
  <2> HIDE DEF P
  <2> QED BY <1>1, <1>2, SetInduction
<1>4. S \union (U \cap U) = U
  OBVIOUS
<1> QED BY <1>3, <1>4

\* A function that is nowhere larger sums up to no more.
LEMMA TotalBelow ==
    ASSUME NEW D, IsFiniteSet(D), NEW f \in [D -> Int],
           NEW E, NEW g \in [E -> Int], NEW S \in SUBSET D, S \in SUBSET E, IsFiniteSet(E),
           \A x \in S : f[x] <= g[x]
    PROVE  Total(f, S) <= Total(g, S)
<1> DEFINE P == {V \in SUBSET S : Total(f, V) <= Total(g, V)}
<1>1. {} \in P
  BY TotalOf
<1>2. ASSUME NEW V \in SUBSET S, NEW x \in S \ V, V \in P PROVE V \union {x} \in P
  <2>1. V \in SUBSET D /\ x \in D \ V /\ V \in SUBSET E /\ x \in E \ V
    OBVIOUS
  <2>2. /\ Total(f, V \union {x}) = Total(f, V) + f[x]
        /\ Total(g, V \union {x}) = Total(g, V) + g[x]
        /\ Total(f, V) \in Int /\ Total(g, V) \in Int
    BY <2>1, TotalOf
  <2>3. f[x] <= g[x] /\ f[x] \in Int /\ g[x] \in Int
    BY <2>1
  <2> QED BY <2>2, <2>3, <1>2
<1>3. SUBSET S \subseteq P
  <2>1. IsFiniteSet(S)
    BY FS_Subset
  <2> HIDE DEF P
  <2> QED BY <1>1, <1>2, <2>1, SetInduction
<1> QED BY <1>3

\* What is moved, each to a place of its own and some out of the domain, sums up to no more.
LEMMA TotalMoved ==
    ASSUME NEW D, IsFiniteSet(D), NEW f \in [D -> Nat], NEW g \in [D -> Nat], NEW m,
           \A x \in D : m[x] \in D => g[m[x]] = f[x],
           \A x, y \in D : m[x] = m[y] => x = y,
           NEW S \in SUBSET D
    PROVE  Total(g, {m[x] : x \in S} \cap D) <= Total(f, S)
<1> DEFINE Up(V) == {m[x] : x \in V} \cap D
           P == {V \in SUBSET D : Total(g, Up(V)) <= Total(f, V)}
<1>f. f \in [D -> Int] /\ g \in [D -> Int]
  OBVIOUS
<1>1. {} \in P
  <2>1. Up({}) = {}
    OBVIOUS
  <2>2. Total(f, {}) = 0 /\ Total(g, {}) = 0
    BY <1>f, TotalOf
  <2> QED BY <2>1, <2>2
<1>2. ASSUME NEW V \in SUBSET D, NEW x \in D \ V, V \in P PROVE V \union {x} \in P
  <2> DEFINE W == V \union {x}
  <2>1. Total(f, W) = Total(f, V) + f[x] /\ Total(f, V) \in Int /\ f[x] \in Nat
    <3>1. W = V \union {x} /\ x \in D /\ x \notin V /\ f[x] \in Nat
      OBVIOUS
    <3> HIDE DEF W
    <3> QED BY <1>f, <3>1, TotalAdd
  <2>2. Up(V) \in SUBSET D /\ Total(g, Up(V)) \in Int /\ Total(g, Up(V)) <= Total(f, V)
    <3>1. Up(V) \in SUBSET D
      OBVIOUS
    <3> HIDE DEF Up
    <3> QED BY <1>f, <1>2, <3>1, TotalOf
  <2>3. CASE m[x] \notin D
    <3>1. Up(W) = Up(V)
      BY <2>3
    <3> HIDE DEF Up, W
    <3>2. Total(g, Up(W)) <= Total(f, W)
      BY <2>1, <2>2, <3>1
    <3> QED BY <3>2 DEF W
  <2>4. CASE m[x] \in D
    <3>1. Up(W) = Up(V) \union {m[x]} /\ m[x] \notin Up(V)
      BY <2>4
    <3> HIDE DEF Up, W
    <3>2. Total(g, Up(W)) = Total(g, Up(V)) + g[m[x]] /\ g[m[x]] = f[x]
      BY <1>f, <2>2, <2>4, <3>1, TotalAdd
    <3>3. Total(g, Up(W)) <= Total(f, W)
      BY <2>1, <2>2, <3>2
    <3> QED BY <3>3 DEF W
  <2> QED BY <2>3, <2>4
<1>3. SUBSET D \subseteq P
  <2> HIDE DEF P
  <2> QED BY <1>1, <1>2, SetInduction
<1> QED BY <1>3
-----------------------------------------------------------------------------
(* Quotients and remainders *)

LEMMA DivMod ==
    ASSUME NEW a \in Int, NEW u \in Nat \ {0}
    PROVE  /\ a \div u \in Int /\ a % u \in 0 .. u - 1
           /\ a = u * (a \div u) + (a % u)
  OBVIOUS

LEMMA Product ==
    ASSUME NEW u \in Nat, NEW a \in Int, NEW b \in Int
    PROVE  /\ u * (a + b) = u * a + u * b
           /\ u * a \in Int
           /\ u * (a - b) = u * a - u * b
           /\ a <= b => u * a <= u * b
  OBVIOUS

LEMMA ModAt ==
    ASSUME NEW u \in Nat \ {0}, NEW a \in Int, NEW k \in Int, NEW r \in 0 .. u - 1, a = u * k + r
    PROVE  a % u = r /\ a \div u = k
  OBVIOUS

LEMMA ModSteps ==
    ASSUME NEW u \in Nat \ {0}, NEW a \in Int
    PROVE  /\ a \in 0 .. u - 1 => a % u = a
           /\ a \in u .. 2 * u - 1 => a % u = a - u
           /\ a \in -u .. -1 => a % u = a + u
  OBVIOUS

LEMMA ModSame ==
    ASSUME NEW u \in Nat \ {0}, NEW a \in Int, NEW k \in Int
    PROVE  (a + u * k) % u = a % u
<1> DEFINE q == a \div u
           r == a % u
<1>1. q \in Int /\ r \in 0 .. u - 1 /\ a = u * q + r
  BY DivMod
<1> HIDE DEF q, r
<1>2. a + u * k = u * (q + k) + r
  BY <1>1, Product
<1>3. a + u * k \in Int /\ q + k \in Int
  BY <1>1, Product
<1> QED BY <1>1, <1>2, <1>3, ModAt DEF r

LEMMA StepsCover ==
    ASSUME NEW ms \in Nat
    PROVE  Steps(ms) \in Nat /\ Steps(ms) > 0 /\ ms <= Resolution * Steps(ms)
<1>1. Resolution \in Nat \ {0}
  BY DutyCycleAssumption
<1>2. CASE ms < Resolution
  BY <1>1, <1>2 DEF Steps
<1>3. CASE ms >= Resolution /\ Resolution = 1
  BY <1>1, <1>3 DEF Steps
<1>4. CASE ms >= Resolution /\ Resolution # 1
  <2> DEFINE q == ms \div Resolution
             r == ms % Resolution
  <2>1. q \in Int /\ r \in 0 .. Resolution - 1 /\ ms = Resolution * q + r
    BY <1>1, DivMod
  <2>2. Steps(ms) = q + 1
    BY <1>1, <1>4 DEF Steps
  <2> HIDE DEF q, r
  <2>3. Resolution * (q + 1) = Resolution * q + Resolution /\ Resolution * q \in Int
    BY <1>1, <2>1, Product
  <2>4. q >= 0
    <3> SUFFICES ASSUME q + 1 <= 0 PROVE FALSE
      BY <2>1
    <3>1. Resolution * (q + 1) <= Resolution * 0
      BY <1>1, <2>1, Product
    <3> QED BY <1>1, <2>1, <2>3, <3>1
  <2> QED BY <1>1, <2>1, <2>2, <2>3, <2>4
<1> QED BY <1>1, <1>2, <1>3, <1>4

-----------------------------------------------------------------------------
(* Types *)

Band == [toa_timestamp_ms : 0 .. Width - 1, index_previous : Places, toa_sum_ms : [Places -> Nat]]
Ages == 0 .. Kept

Typed ==
    /\ clock \in 0 .. Width - 1 /\ enabled \in Modes
    /\ band \in Band
    /\ toa \in Nat /\ left \in Nat /\ frames \in Nat
    /\ air \in [Ages -> Nat]

LEMMA Constants ==
    /\ Unit \in Nat \ {0} /\ Buckets \in Nat \ {0} /\ Width \in Nat \ {0} /\ Resolution \in Nat \ {0}
    /\ Period \in Nat /\ Period = Unit * Buckets /\ Width > 2 * Period
    /\ Kept \in Int /\ (-Width) % Unit \in 0 .. Unit - 1
    /\ Kept + ((-Width) % Unit) = Period - Unit
    /\ Airtimes \subseteq Nat
    /\ 0 \in Places /\ IsFiniteSet(Places) /\ IsFiniteSet(Ages)
<1>1. /\ Unit \in Nat \ {0} /\ Buckets \in Nat \ {0} /\ Resolution \in Nat \ {0}
      /\ Width \in Nat /\ Width > 2 * Period /\ Airtimes \subseteq 1 .. Period
  BY DutyCycleAssumption
<1>2. Period \in Nat /\ Period = Unit * Buckets
  BY <1>1 DEF Period
<1>3. (-Width) % Unit \in 0 .. Unit - 1
  BY <1>1
<1>4. Kept \in Int /\ Kept + ((-Width) % Unit) = Period - Unit
  BY <1>1, <1>2, <1>3 DEF Kept
<1>5. 0 \in Places /\ IsFiniteSet(Places)
  BY <1>1, FS_Interval DEF Places
<1>6. IsFiniteSet(Ages)
  BY <1>4, FS_Interval DEF Ages
<1> QED BY <1>1, <1>2, <1>3, <1>4, <1>5, <1>6

LEMMA IndexTyped ==
    ASSUME band \in Band, NEW diff \in Int
    PROVE  compute_index(diff) \in Places
<1>1. diff \div Unit \in Int /\ Buckets + 1 \in Nat \ {0}
  BY Constants
<1>2. (diff \div Unit) % (Buckets + 1) \in Int /\ band.index_previous \in Int
  BY <1>1 DEF Band, Places
<1> QED BY <1>2, Constants DEF compute_index, Places

LEMMA DiffTyped ==
    ASSUME band \in Band, NEW now \in 0 .. Width - 1
    PROVE  time_diff(now) \in Nat
<1>1. band.toa_timestamp_ms \in Int /\ band.toa_timestamp_ms % Unit \in Int
  BY Constants DEF Band
<1> QED BY <1>1, Constants DEF time_diff

LEMMA ErasedTyped ==
    ASSUME band \in Band, NEW idx
    PROVE  /\ Erased(idx) \in [Places -> Nat] /\ Empty \in [Places -> Nat]
           /\ \A i \in Places : Erased(idx)[i] = 0 \/ Erased(idx)[i] = band.toa_sum_ms[i]
  BY DEF Band, Erased, Empty

LEMMA BandTyped ==
    ASSUME band \in Band, NEW now \in 0 .. Width - 1, NEW ms \in Nat
    PROVE  Updated(now) \in Band /\ Summed(now, ms) \in Band
<1>1. compute_index(time_diff(now)) \in Places /\ time_diff(now) \in Nat
  BY DiffTyped, IndexTyped
<1>2. Erased(compute_index(time_diff(now))) \in [Places -> Nat] /\ Empty \in [Places -> Nat]
  BY ErasedTyped
<1>3. Updated(now) \in Band
  BY <1>1, <1>2 DEF Updated, Band
<1>4. Summed(now, ms) \in Band
  <2> DEFINE idx == compute_index(time_diff(now))
             kept == Counted(idx, time_diff(now))
  <2>1. kept \in [Places -> Nat]
    BY <1>2 DEF Counted
  <2>2. Steps(ms) \in Nat /\ idx \in Places
    BY <1>1, StepsCover
  <2>3. Summed(now, ms) = [toa_timestamp_ms |-> now, index_previous |-> idx,
                           toa_sum_ms |-> [kept EXCEPT ![idx] = @ + Steps(ms)]]
    BY DEF Summed
  <2> HIDE DEF idx, kept
  <2>4. [kept EXCEPT ![idx] = @ + Steps(ms)] \in [Places -> Nat]
    BY <2>1, <2>2
  <2> QED BY <2>2, <2>3, <2>4 DEF Band
<1> QED BY <1>3, <1>4

LEMMA TypedStep ==
    ASSUME Typed, [Next]_vars
    PROVE  Typed'
<1>t. /\ clock \in 0 .. Width - 1 /\ enabled \in Modes /\ band \in Band
      /\ toa \in Nat /\ left \in Nat /\ frames \in Nat /\ air \in [Ages -> Nat]
  BY DEF Typed
<1>1. CASE Tick
  <2>1. clock' \in 0 .. Width - 1
    BY <1>1, <1>t, Constants DEF Tick
  <2>2. left' \in Nat
    BY <1>1, <1>t DEF Tick
  <2>3. air' \in [Ages -> Nat]
    <3>1. \A age \in Ages : (IF age = 0 THEN 0 ELSE air[age - 1]) \in Nat
      BY <1>t, Constants DEF Ages
    <3> QED BY <1>1, <3>1 DEF Tick, Ages
  <2> QED BY <1>1, <1>t, <2>1, <2>2, <2>3 DEF Tick, Typed
<1>2. ASSUME NEW ms \in Airtimes, Send(ms) PROVE Typed'
  BY <1>2, <1>t, Constants, BandTyped DEF Send, Typed
<1>3. CASE Ask
  BY <1>3, <1>t, BandTyped DEF Ask, Typed
<1>4. CASE Sent
  <2>1. CASE enabled = "full disabled"
    BY <1>4, <2>1, <1>t DEF Sent, Typed
  <2>2. CASE enabled # "full disabled"
    <3>1. air' \in [Ages -> Nat]
      <4>1. air' = [air EXCEPT ![0] = @ + toa]
        BY <1>4, <2>2 DEF Sent
      <4>2. air' = [a \in Ages |-> IF a = 0 THEN air[a] + toa ELSE air[a]]
        BY <4>1, <1>t DEF Ages
      <4>3. \A a \in Ages : (IF a = 0 THEN air[a] + toa ELSE air[a]) \in Nat
        BY <1>t
      <4> QED BY <4>2, <4>3
    <3> QED BY <1>4, <2>2, <3>1, <1>t, BandTyped DEF Sent, Typed
  <2> QED BY <2>1, <2>2
<1>5. ASSUME NEW mode \in Modes, Enable(mode) PROVE Typed'
  BY <1>5, <1>t DEF Enable, Typed
<1>6. CASE UNCHANGED vars
  BY <1>6, <1>t DEF vars, Typed
<1> QED BY <1>1, <1>2, <1>3, <1>4, <1>5, <1>6 DEF Next

-----------------------------------------------------------------------------
(* The places of the ring, by how many buckets back they are *)

Back(idx, i) == (idx - i) % Buckets
Newest(idx, j) == {i \in Places : Back(idx, i) <= j}

LEMMA Backwards ==
    ASSUME NEW idx \in Places, NEW i \in Places, NEW m \in 0 .. Buckets - 1,
           NEW new, new = (m + idx) % Buckets
    PROVE  /\ Back(idx, i) \in 0 .. Buckets - 1 /\ Back(idx, idx) = 0
           /\ new \in Places
           /\ (new - idx) % Buckets = m
           /\ (i - idx - 1) % Buckets = Buckets - 1 - Back(idx, i)
           /\ Back(idx, i) <= Buckets - 1 - m => Back(new, i) = Back(idx, i) + m
<1>1. Buckets \in Nat \ {0}
  BY Constants
<1>2. idx \in 0 .. Buckets - 1 /\ i \in 0 .. Buckets - 1
  BY DEF Places
<1>3. Back(idx, i) = IF idx >= i THEN idx - i ELSE idx - i + Buckets
  BY <1>1, <1>2 DEF Back
<1>4. new = IF m + idx < Buckets THEN m + idx ELSE m + idx - Buckets
  BY <1>1, <1>2
<1>5. (new - idx) % Buckets = m
  BY <1>1, <1>2, <1>4
<1>6. (i - idx - 1) % Buckets = Buckets - 1 - Back(idx, i)
  BY <1>1, <1>2, <1>3
<1>7. ASSUME Back(idx, i) <= Buckets - 1 - m PROVE Back(new, i) = Back(idx, i) + m
  <2>1. Back(new, i) = (new - i) % Buckets
    BY DEF Back
  <2>2. CASE new - i >= 0
    <3>1. (new - i) % Buckets = new - i
      BY <1>1, <1>2, <1>4, <2>2
    <3> QED BY <1>1, <1>2, <1>3, <1>4, <1>7, <2>1, <2>2, <3>1
  <2>3. CASE new - i < 0
    <3>1. (new - i) % Buckets = new - i + Buckets
      BY <1>1, <1>2, <1>4, <2>3
    <3> QED BY <1>1, <1>2, <1>3, <1>4, <1>7, <2>1, <2>3, <3>1
  <2> QED BY <1>1, <1>2, <1>4, <2>2, <2>3
<1>8. Back(idx, i) \in 0 .. Buckets - 1 /\ new \in Places
  BY <1>1, <1>2, <1>3, <1>4 DEF Places
<1>9. Back(idx, idx) = 0
  BY <1>1, <1>2 DEF Back
<1> QED BY <1>5, <1>6, <1>7, <1>8, <1>9

\* Of the buckets of the last hour, the erasure leaves those that have not gone round.
LEMMA ErasedBack ==
    ASSUME band \in Band, NEW m \in 0 .. Buckets - 1,
           NEW idx, idx = (m + band.index_previous) % Buckets, NEW i \in Places
    PROVE  Erased(idx)[i] = IF Back(band.index_previous, i) <= Buckets - 1 - m
                            THEN band.toa_sum_ms[i] ELSE 0
<1>1. band.index_previous \in Places
  BY DEF Band
<1>2. /\ (idx - band.index_previous) % Buckets = m
      /\ (i - band.index_previous - 1) % Buckets = Buckets - 1 - Back(band.index_previous, i)
      /\ Back(band.index_previous, i) \in 0 .. Buckets - 1
  BY <1>1, Backwards
<1>3. Erased(idx)[i] = IF Buckets - 1 - Back(band.index_previous, i) < m
                       THEN 0 ELSE band.toa_sum_ms[i]
  BY <1>2 DEF Erased
<1> QED BY <1>2, <1>3, Constants

-----------------------------------------------------------------------------
(* The grid of the units *)

\* A time that is not an hour ahead of the start of the unit of the timestamp: how many units
\* ahead it is, whether the clock has wrapped since or not.  Where it falls in a unit of the new
\* grid is not further than the old grid and the width of the clock say.
LEMMA Ahead ==
    ASSUME band \in Band, NEW e \in Nat, NEW ts, ts = band.toa_timestamp_ms,
           e + (ts % Unit) < Period,
           NEW now, now = (ts + e) % Width
    PROVE  \E m \in 0 .. Buckets - 1, r \in 0 .. Unit - 1 :
              /\ e + (ts % Unit) = Unit * m + r
              /\ time_diff(now) = e + (ts % Unit)
              /\ time_diff(now) \div Unit = m
              /\ compute_index(time_diff(now)) = (m + band.index_previous) % Buckets
              /\ now % Unit <= r + ((-Width) % Unit)
              /\ (now = ts + e /\ now % Unit = r) \/ now = ts + e - Width
<1> DEFINE base == ts % Unit
           q == ts \div Unit
           diff == e + base
           m == diff \div Unit
           r == diff % Unit
           s == (-Width) % Unit
           w == (-Width) \div Unit
<1>c. /\ Unit \in Nat \ {0} /\ Buckets \in Nat \ {0} /\ Width \in Nat \ {0}
      /\ Period \in Nat /\ Period = Unit * Buckets /\ Width > 2 * Period
  BY Constants
<1>1. ts \in 0 .. Width - 1
  BY DEF Band
<1>2. base \in 0 .. Unit - 1 /\ q \in Int /\ ts = Unit * q + base
  <2>1. ts \in Int
    BY <1>1
  <2> QED BY <2>1, <1>c, DivMod, Zenon
<1>3. s \in 0 .. Unit - 1 /\ w \in Int /\ -Width = Unit * w + s
  BY <1>c
<1>4. diff \in Nat /\ diff < Period
  BY <1>2
<1>5. m \in Int /\ r \in 0 .. Unit - 1 /\ diff = Unit * m + r
  <2>1. diff \in Int
    BY <1>4
  <2> QED BY <2>1, <1>c, DivMod, Zenon
<1>6. now = ts + e \/ now = ts + e - Width
  <2> HIDE DEF base
  <2>1. ts + e \in 0 .. 2 * Width - 1
    BY <1>1, <1>2, <1>4, <1>c
  <2> DEFINE z == ts + e
  <2> HIDE DEF z
  <2>2. z % Width = z \/ z % Width = z - Width
    BY <2>1, <1>c DEF z
  <2>3. now = z % Width
    BY DEF z
  <2>4. now = z \/ now = z - Width
    BY <2>2, <2>3, Zenon
  <2> QED BY <2>4, <1>1, <1>c DEF z
<1>7. time_diff(now) = diff
  <2> HIDE DEF base
  <2>1. time_diff(now) = (now - (ts - base)) % Width
    BY DEF time_diff, base
  <2>2. CASE now = ts + e
    <3>1. now - (ts - base) = diff
      BY <2>2, <1>1, <1>2
    <3> QED BY <2>1, <3>1, <1>4, <1>c
  <2>3. CASE now = ts + e - Width
    <3>1. now - (ts - base) = diff - Width
      BY <2>3, <1>1, <1>2, <1>c
    <3> QED BY <2>1, <3>1, <1>4, <1>c
  <2> QED BY <1>6, <2>2, <2>3
<1> HIDE DEF base, q, diff, m, r, s, w
<1>8. m \in 0 .. Buckets - 1
  <2>1. CASE m < 0
    <3>1. Unit * m <= Unit * (-1)
      BY <2>1, <1>5, <1>c, Product
    <3> QED BY <3>1, <1>4, <1>5, <1>c
  <2>2. CASE m >= Buckets
    <3>1. Unit * Buckets <= Unit * m
      BY <2>2, <1>5, <1>c, Product
    <3> QED BY <3>1, <1>4, <1>5, <1>c
  <2> QED BY <2>1, <2>2, <1>5, <1>c
<1>9. compute_index(diff) = (m + band.index_previous) % Buckets
  <2>1. m % (Buckets + 1) = m
    BY <1>8, <1>c
  <2> QED BY <2>1 DEF compute_index, m
<1>10. ts + e = Unit * (q + m) + r
  <2>1. ts + e = Unit * q + Unit * m + r
    BY <1>1, <1>2, <1>5, <1>c, Product DEF diff
  <2>2. Unit * (q + m) = Unit * q + Unit * m /\ Unit * q \in Int /\ Unit * m \in Int
    BY <1>2, <1>5, <1>c, Product
  <2> QED BY <2>1, <2>2, <1>5
<1>11. now = ts + e => now % Unit = r
  <2>1. q + m \in Int /\ ts + e \in Int
    BY <1>1, <1>2, <1>5
  <2> QED BY <1>5, <1>10, <2>1, <1>c, ModAt
<1>12. now = ts + e - Width => now % Unit <= r + s
  <2> SUFFICES ASSUME now = ts + e - Width PROVE now % Unit <= r + s
    OBVIOUS
  <2> DEFINE k == q + m + w
  <2>1. k \in Int /\ Unit * k \in Int /\ Unit * k = Unit * (q + m) + Unit * w
    BY <1>2, <1>3, <1>5, <1>c, Product
  <2>2. now = Unit * k + (r + s)
    <3>1. Unit * (q + m) \in Int /\ Unit * w \in Int
      BY <1>2, <1>3, <1>5, <1>c, Product
    <3> QED BY <2>1, <3>1, <1>3, <1>5, <1>10, <1>c, <1>1
  <2> HIDE DEF k
  <2>3. CASE r + s < Unit
    <3> DEFINE z == r + s
    <3>0. z \in 0 .. Unit - 1 /\ now = Unit * k + z /\ now \in Int
      BY <2>1, <2>2, <2>3, <1>3, <1>5, <1>c
    <3> HIDE DEF z
    <3>1. now % Unit = z
      BY <2>1, <3>0, <1>c, ModAt
    <3> USE DEF z
    <3> QED BY <3>1, <1>3, <1>5
  <2>4. CASE r + s >= Unit
    <3>1. Unit * (k + 1) = Unit * k + Unit /\ k + 1 \in Int
      BY <2>1, <1>c, Product
    <3>2. now = Unit * (k + 1) + (r + s - Unit) /\ r + s - Unit \in 0 .. Unit - 1 /\ now \in Int
      BY <3>1, <2>1, <2>2, <2>4, <1>3, <1>5, <1>c
    <3>3. now % Unit = r + s - Unit
      BY <3>1, <3>2, <1>c, ModAt
    <3> QED BY <3>3, <1>3, <1>5, <1>c
  <2> QED BY <2>3, <2>4, <1>3, <1>5, <1>c
<1>13. now % Unit <= r + s /\ ((now = ts + e /\ now % Unit = r) \/ now = ts + e - Width)
  BY <1>6, <1>11, <1>12, <1>3, <1>5
<1>14. time_diff(now) = e + (ts % Unit) /\ e + (ts % Unit) = Unit * m + r
  BY <1>7, <1>5 DEF diff, base
<1>15. time_diff(now) \div Unit = m
  BY <1>7 DEF m
<1>16. compute_index(time_diff(now)) = (m + band.index_previous) % Buckets
  BY <1>7, <1>9
<1>17. r \in 0 .. Unit - 1 /\ s = (-Width) % Unit
  BY <1>5 DEF s
<1> QED BY <1>8, <1>13, <1>14, <1>15, <1>16, <1>17

-----------------------------------------------------------------------------
(* Sums of a change in one place *)

LEMMA TotalSame ==
    ASSUME NEW D, IsFiniteSet(D), NEW f \in [D -> Int], NEW g \in [D -> Int], NEW S \in SUBSET D,
           \A x \in S : f[x] = g[x]
    PROVE  Total(f, S) = Total(g, S)
<1>1. \A x \in S : f[x] <= g[x] /\ g[x] <= f[x]
  OBVIOUS
<1>2. Total(f, S) <= Total(g, S) /\ Total(g, S) <= Total(f, S)
  BY <1>1, TotalBelow
<1> QED BY <1>2, TotalOf

LEMMA TotalRaised ==
    ASSUME NEW D, IsFiniteSet(D), NEW f \in [D -> Nat], NEW g \in [D -> Nat], NEW S \in SUBSET D,
           NEW x, NEW n \in Nat, x \in D => g[x] = f[x] + n, \A y \in D : y # x => g[y] = f[y]
    PROVE  /\ Total(f, S) \in Nat /\ Total(g, S) \in Nat
           /\ Total(g, S) = IF x \in S THEN Total(f, S) + n ELSE Total(f, S)
<1>f. f \in [D -> Int] /\ g \in [D -> Int]
  OBVIOUS
<1>0. Total(f, S) \in Nat /\ Total(g, S) \in Nat
  BY TotalGrows
<1>1. CASE x \notin S
  <2>1. Total(f, S) = Total(g, S)
    BY <1>f, <1>1, TotalSame
  <2> QED BY <1>0, <1>1, <2>1
<1>2. CASE x \in S
  <2> DEFINE R == S \ {x}
  <2>1. R \in SUBSET D /\ \A y \in R : f[y] = g[y]
    OBVIOUS
  <2>2. Total(f, S) = f[x] + Total(f, R) /\ Total(g, S) = g[x] + Total(g, R)
    BY <1>f, <1>2, AnyOrder
  <2> HIDE DEF R
  <2>3. Total(f, R) = Total(g, R) /\ Total(f, R) \in Int
    BY <1>f, <2>1, TotalSame, TotalOf
  <2>4. g[x] = f[x] + n /\ f[x] \in Nat
    BY <1>2
  <2> QED BY <1>0, <1>2, <2>2, <2>3, <2>4
<1> QED BY <1>1, <1>2

\* What is zero everywhere sums up to zero.
LEMMA TotalNothing ==
    ASSUME NEW D, IsFiniteSet(D), NEW f \in [D -> Int], NEW S \in SUBSET D, \A x \in S : f[x] = 0
    PROVE  Total(f, S) = 0
<1>1. {} \in SUBSET D /\ {} \subseteq S /\ \A x \in S \ {} : f[x] = 0
  OBVIOUS
<1>2. Total(f, S) = Total(f, {})
  BY <1>1, TotalOfRest
<1> QED BY <1>2, TotalOf

-----------------------------------------------------------------------------
(* The inductive invariant *)

Slack == (-Width) % Unit

\* The ages, e after the last sum, of what the newest j + 1 buckets answer for: back to the start
\* of the unit of the timestamp and j units more, less what the wrap of the clock has put the
\* grids apart, unless it was not before the wrap.
Answers(ts, e, j) ==
    {a \in Ages :
        /\ a >= e
        /\ \/ a - e + Slack <= (ts % Unit) + Unit * j
           \/ a - e <= ts /\ a - e <= (ts % Unit) + Unit * j}

\* The newest buckets hold what was on the air at the ages they answer for.
Held(b, onair, e) ==
    \A j \in 0 .. Buckets - 1 :
        Total(onair, Answers(b.toa_timestamp_ms, e, j))
            <= Resolution * Total(b.toa_sum_ms, Newest(b.index_previous, j))

\* Some time e, which the clock does not tell when it has wrapped, after the last sum or the last
\* reset of the ring: nothing was counted since.
HeldSince(e) ==
    /\ (band.toa_timestamp_ms + e) % Width = clock
    /\ \A a \in Ages : a < e => air[a] = 0
    /\ Held(band, air, e)

Inv == Typed /\ \E e \in Nat : HeldSince(e)

\* A ring holds nothing at all.
LEMMA NothingHeld ==
    ASSUME NEW b \in Band, NEW onair \in [Ages -> Nat], \A a \in Ages : onair[a] = 0,
           NEW e \in Nat
    PROVE  Held(b, onair, e)
<1> SUFFICES ASSUME NEW j \in 0 .. Buckets - 1
             PROVE  Total(onair, Answers(b.toa_timestamp_ms, e, j))
                      <= Resolution * Total(b.toa_sum_ms, Newest(b.index_previous, j))
  BY DEF Held
<1> DEFINE A == Answers(b.toa_timestamp_ms, e, j)
           N == Newest(b.index_previous, j)
<1>1. A \in SUBSET Ages /\ N \in SUBSET Places
  BY DEF Answers, Newest
<1>2. b.toa_sum_ms \in [Places -> Nat] /\ onair \in [Ages -> Int]
  BY DEF Band
<1> HIDE DEF A, N
<1>3. Total(onair, A) = 0
  BY <1>1, <1>2, Constants, TotalNothing
<1>4. Total(b.toa_sum_ms, N) \in Nat
  BY <1>1, <1>2, Constants, TotalGrows
<1>5. Resolution * Total(b.toa_sum_ms, N) >= 0
  <2>1. Resolution * 0 <= Resolution * Total(b.toa_sum_ms, N)
    BY <1>4, Constants, Product
  <2> QED BY <2>1, Constants
<1> QED BY <1>3, <1>5 DEF A, N

\* An hour or more after the unit of the last sum, all of it is too old to be asked for.
LEMMA LongAgo ==
    ASSUME Typed, NEW e \in Nat, HeldSince(e), e + (band.toa_timestamp_ms % Unit) >= Period
    PROVE  \A a \in Ages : air[a] = 0
<1>1. band.toa_timestamp_ms % Unit \in 0 .. Unit - 1
  BY Constants DEF Typed, Band
<1>2. \A a \in Ages : a < e
  BY <1>1, Constants DEF Ages
<1> QED BY <1>2 DEF HeldSince

\* Less than that, the newest buckets that an update leaves answer for every age.
LEMMA AllAnswered ==
    ASSUME band \in Band, NEW e \in Nat, NEW m \in 0 .. Buckets - 1, NEW r \in 0 .. Unit - 1,
           e + (band.toa_timestamp_ms % Unit) = Unit * m + r,
           NEW a \in Ages, a >= e
    PROVE  a \in Answers(band.toa_timestamp_ms, e, Buckets - 1 - m)
<1> DEFINE base == band.toa_timestamp_ms % Unit
<1>1. base \in 0 .. Unit - 1
  BY Constants DEF Band
<1>2. a \in Nat /\ a <= Kept /\ Slack \in 0 .. Unit - 1 /\ Kept + Slack = Period - Unit /\ Kept \in Int
  BY Constants DEF Ages, Slack
<1>3. Unit * (Buckets - 1 - m) = Period - Unit - Unit * m /\ Unit * m \in Int
  BY Constants, Product
<1> HIDE DEF base
<1>4. a - e + Slack <= base + Unit * (Buckets - 1 - m)
  <2>1. e = Unit * m + r - base
    BY <1>1, <1>3 DEF base
  <2> QED BY <1>1, <1>2, <1>3, <2>1, Constants
<1> QED BY <1>4 DEF Answers, base

-----------------------------------------------------------------------------
(* The steps of the ring *)

LEMMA UpdateHolds ==
    ASSUME Typed, NEW e \in Nat, HeldSince(e)
    PROVE  \E d \in Nat : /\ (Updated(clock).toa_timestamp_ms + d) % Width = clock
                          /\ \A a \in Ages : a < d => air[a] = 0
                          /\ Held(Updated(clock), air, d)
<1> DEFINE ts == band.toa_timestamp_ms
           idx == band.index_previous
           b == Updated(clock)
           new == compute_index(time_diff(clock))
<1>t. /\ clock \in 0 .. Width - 1 /\ band \in Band /\ air \in [Ages -> Nat]
      /\ (ts + e) % Width = clock /\ Held(band, air, e)
      /\ \A a \in Ages : a < e => air[a] = 0
  BY DEF Typed, HeldSince
<1>b. b \in Band
  BY <1>t, BandTyped
<1>d. time_diff(clock) \in Nat
  BY <1>t, DiffTyped
<1>1. CASE e + (ts % Unit) >= Period
  <2>1. \A a \in Ages : air[a] = 0
    BY <1>1, LongAgo
  <2>2. CASE time_diff(clock) >= Period
    <3>1. b.toa_timestamp_ms = clock
      BY <2>2 DEF Updated
    <3>2. (clock + 0) % Width = clock
      BY <1>t, Constants
    <3>3. Held(b, air, 0)
      BY <1>t, <1>b, <2>1, NothingHeld
    <3> QED BY <2>1, <3>1, <3>2, <3>3
  <2>3. CASE time_diff(clock) < Period
    <3>1. b.toa_timestamp_ms = ts
      BY <2>3, <1>t, <1>d, Constants DEF Updated, Band
    <3>2. Held(b, air, e)
      BY <1>t, <1>b, <2>1, NothingHeld
    <3> QED BY <1>t, <3>1, <3>2
  <2> QED BY <1>d, <2>2, <2>3, Constants
<1>2. CASE e + (ts % Unit) < Period
  <2>1. PICK m \in 0 .. Buckets - 1, r \in 0 .. Unit - 1 :
              /\ e + (ts % Unit) = Unit * m + r
              /\ time_diff(clock) = e + (ts % Unit)
              /\ new = (m + idx) % Buckets
    BY <1>t, <1>2, Ahead
  <2>2. b = [band EXCEPT !.toa_sum_ms = Erased(new)]
    BY <1>2, <2>1, <1>d, Constants DEF Updated
  <2>3. b.toa_timestamp_ms = ts /\ b.index_previous = idx /\ b.toa_sum_ms = Erased(new)
    BY <2>2, <1>t DEF Band
  <2>f. /\ band.toa_sum_ms \in [Places -> Nat] /\ Erased(new) \in [Places -> Nat]
        /\ air \in [Ages -> Int] /\ idx \in Places
    BY <1>t, ErasedTyped DEF Band
  <2> DEFINE A(j) == Answers(ts, e, j)
             N(j) == Newest(idx, j)
  <2>n. \A j \in Int : N(j) \in SUBSET Places /\ A(j) \in SUBSET Ages
    BY DEF Newest, Answers
  <2>4. ASSUME NEW j \in 0 .. Buckets - 1 - m
        PROVE  /\ Total(air, A(j)) <= Resolution * Total(Erased(new), N(j))
               /\ Total(Erased(new), N(j)) \in Nat
    <3>1. Total(air, A(j)) <= Resolution * Total(band.toa_sum_ms, N(j))
      <4>1. j \in 0 .. Buckets - 1
        BY Constants
      <4> QED BY <4>1, <1>t DEF Held
    <3>2. \A i \in N(j) : Erased(new)[i] = band.toa_sum_ms[i]
      <4> SUFFICES ASSUME NEW i \in N(j) PROVE Erased(new)[i] = band.toa_sum_ms[i]
        OBVIOUS
      <4>1. i \in Places /\ Back(idx, i) <= j
        BY DEF Newest
      <4>2. Back(idx, i) \in Int
        BY <4>1, <2>f, Backwards
      <4>3. Back(idx, i) <= Buckets - 1 - m
        BY <4>1, <4>2, Constants
      <4> QED BY <1>t, <2>1, <4>1, <4>3, ErasedBack
    <3> HIDE DEF N, A
    <3>3. Total(Erased(new), N(j)) = Total(band.toa_sum_ms, N(j))
      <4>1. Erased(new) \in [Places -> Int] /\ band.toa_sum_ms \in [Places -> Int]
        BY <2>f
      <4>2. N(j) \in SUBSET Places
        BY <2>n
      <4> QED BY <3>2, <4>1, <4>2, Constants, TotalSame
    <3>4. Total(Erased(new), N(j)) \in Nat
      <4>1. N(j) \in SUBSET Places
        BY <2>n
      <4> QED BY <2>f, <4>1, Constants, TotalGrows
    <3> QED BY <3>1, <3>3, <3>4
  <2>5. ASSUME NEW j \in 0 .. Buckets - 1
        PROVE  Total(air, A(j)) <= Resolution * Total(Erased(new), N(j))
    <3> DEFINE k == Buckets - 1 - m
    <3>1. CASE j <= k
      BY <2>4, <3>1
    <3>2. CASE j > k
      <4>k. k \in 0 .. k /\ k \in Int
        BY Constants
      <4>1. A(j) \subseteq A(k)
        BY <1>t, <2>1, AllAnswered DEF Answers
      <4>2. N(k) \subseteq N(j)
        <5>1. \A i \in Places : Back(idx, i) \in Int
          BY <2>f, Backwards
        <5> QED BY <3>2, <4>k, <5>1 DEF Newest
      <4>3. Total(air, A(k)) <= Resolution * Total(Erased(new), N(k)) /\ Total(Erased(new), N(k)) \in Nat
        BY <4>k, <2>4
      <4>4. A(j) \in SUBSET Ages /\ A(k) \in SUBSET Ages /\ N(j) \in SUBSET Places /\ N(k) \in SUBSET Places
        BY <2>n, <4>k
      <4> HIDE DEF A, N, k
      <4>5. Total(air, A(j)) <= Total(air, A(k)) /\ Total(air, A(j)) \in Nat
        BY <1>t, <4>1, <4>4, Constants, TotalGrows
      <4>6. Total(air, A(k)) \in Int
        BY <2>f, <4>4, Constants, TotalOf
      <4>7. Total(Erased(new), N(k)) <= Total(Erased(new), N(j))
        BY <2>f, <4>2, <4>4, Constants, TotalGrows
      <4>8. Total(Erased(new), N(j)) \in Nat
        BY <2>f, <4>4, Constants, TotalGrows
      <4>9. /\ Resolution * Total(Erased(new), N(k)) <= Resolution * Total(Erased(new), N(j))
            /\ Resolution * Total(Erased(new), N(k)) \in Int /\ Resolution * Total(Erased(new), N(j)) \in Int
        BY <4>3, <4>7, <4>8, Constants, Product
      <4> QED BY <4>3, <4>5, <4>6, <4>9
    <3> QED BY <3>1, <3>2, Constants
  <2>6. Held(b, air, e)
    BY <2>3, <2>5 DEF Held
  <2> QED BY <1>t, <2>3, <2>6
<1> QED
  <2>1. e + (ts % Unit) \in Int
    BY <1>t, Constants DEF Band
  <2> QED BY <2>1, <1>1, <1>2, Constants

\* A frame that is summed less than an hour after the unit of the last sum: the buckets of the
\* new grid answer for no age that those of the old grid did not.
LEMMA SumAnswers ==
    ASSUME band \in Band, NEW e \in Nat, NEW m \in 0 .. Buckets - 1, NEW r \in 0 .. Unit - 1,
           NEW ts, ts = band.toa_timestamp_ms,
           e + (ts % Unit) = Unit * m + r, e + (ts % Unit) < Period,
           NEW now \in 0 .. Width - 1, now % Unit <= r + Slack,
           (now = ts + e /\ now % Unit = r) \/ now = ts + e - Width,
           NEW j \in 0 .. Buckets - 1, NEW a \in Answers(now, 0, j), a >= e
    PROVE  j >= m /\ a \in Answers(ts, e, j - m)
<1> DEFINE base == ts % Unit
           up == now % Unit
<1>c. /\ Unit \in Nat \ {0} /\ Width \in Nat /\ Width > 2 * Period /\ Period \in Nat
      /\ Slack \in 0 .. Unit - 1 /\ Kept + Slack = Period - Unit /\ Kept \in Int
      /\ Buckets \in Nat
  BY Constants DEF Slack
<1>1. base \in 0 .. Unit - 1 /\ ts \in 0 .. Width - 1
  BY <1>c DEF Band
<1>2. up \in Int
  BY <1>c
<1>3. a \in Nat /\ a <= Kept /\ a \in Ages
  BY DEF Answers, Ages
<1>4. a + Slack <= up + Unit * j \/ (a <= now /\ a <= up + Unit * j)
  BY <1>3 DEF Answers
<1>5. Unit * m \in Int /\ Unit * j \in Int /\ Unit * (j - m) = Unit * j - Unit * m
  BY <1>c, Product
<1> HIDE DEF base, up
<1>6. e + base = Unit * m + r /\ e + base < Period /\ up <= r + Slack
  BY DEF base, up
<1>7. (now = ts + e /\ up = r) \/ now = ts + e - Width
  BY DEF up
<1>8. a <= r + Unit * j
  <2>1. CASE now = ts + e /\ up = r
    BY <1>c, <1>2, <1>3, <1>4, <1>5, <2>1
  <2>2. CASE now = ts + e - Width
    <3>1. ~ a <= now
      BY <1>1, <1>c, <1>3, <2>2
    <3> QED BY <1>c, <1>2, <1>3, <1>4, <1>5, <1>6, <3>1
  <2> QED BY <1>7, <2>1, <2>2
<1>9. j >= m
  <2> SUFFICES ASSUME j + 1 <= m PROVE FALSE
    BY <1>c
  <2>1. Unit * (j + 1) <= Unit * m /\ Unit * (j + 1) = Unit * j + Unit
    BY <1>c, Product
  <2> QED BY <1>1, <1>3, <1>5, <1>6, <1>8, <1>c, <2>1
<1>10. a - e <= base + Unit * (j - m)
  BY <1>1, <1>3, <1>5, <1>6, <1>8, <1>c
<1>11. a - e + Slack <= base + Unit * (j - m) \/ a - e <= ts
  <2>1. CASE now = ts + e /\ up = r
    <3>1. CASE a + Slack <= up + Unit * j
      BY <1>1, <1>3, <1>5, <1>6, <1>c, <2>1, <3>1
    <3>2. CASE a <= now
      BY <1>1, <1>3, <1>c, <2>1, <3>2
    <3> QED BY <1>4, <3>1, <3>2
  <2>2. CASE now = ts + e - Width
    BY <1>1, <1>3, <1>6, <1>c, <2>2
  <2> QED BY <1>7, <2>1, <2>2
<1> QED BY <1>3, <1>9, <1>10, <1>11 DEF Answers, base

LEMMA SumHolds ==
    ASSUME Typed, NEW e \in Nat, HeldSince(e), NEW ms \in Nat,
           NEW onair \in [Ages -> Nat],
           \A a \in Ages : onair[a] = IF a = 0 THEN air[a] + ms ELSE air[a]
    PROVE  Held(Summed(clock, ms), onair, 0)
<1> DEFINE ts == band.toa_timestamp_ms
           idx == band.index_previous
           b == Summed(clock, ms)
           new == compute_index(time_diff(clock))
           kept == Counted(new, time_diff(clock))
           sums == [kept EXCEPT ![new] = @ + Steps(ms)]
<1>t. /\ clock \in 0 .. Width - 1 /\ band \in Band /\ air \in [Ages -> Nat]
      /\ (ts + e) % Width = clock /\ Held(band, air, e)
      /\ \A a \in Ages : a < e => air[a] = 0
  BY DEF Typed, HeldSince
<1>d. time_diff(clock) \in Nat /\ new \in Places
  BY <1>t, DiffTyped, IndexTyped
<1>k. kept \in [Places -> Nat]
  BY <1>t, ErasedTyped DEF Counted
<1>s. Steps(ms) \in Nat /\ ms <= Resolution * Steps(ms)
  BY StepsCover
<1>b. b.toa_timestamp_ms = clock /\ b.index_previous = new /\ b.toa_sum_ms = sums
  BY DEF Summed
<1> DEFINE A(j) == Answers(clock, 0, j)
           N(j) == Newest(new, j)
<1>n. \A j \in Int : N(j) \in SUBSET Places /\ A(j) \in SUBSET Ages
  BY DEF Newest, Answers
<1>1. ASSUME NEW j \in 0 .. Buckets - 1
      PROVE  Total(air, A(j)) <= Resolution * Total(kept, N(j))
  <2>1. CASE e + (ts % Unit) >= Period
    <3>1. \A a \in Ages : air[a] = 0
      BY <2>1, LongAgo
    <3>2. A(j) \in SUBSET Ages /\ N(j) \in SUBSET Places /\ air \in [Ages -> Int]
      BY <1>n, <1>t
    <3> HIDE DEF A, N, kept
    <3>3. Total(air, A(j)) = 0
      BY <3>1, <3>2, Constants, TotalNothing
    <3>4. Total(kept, N(j)) \in Nat
      BY <1>k, <3>2, Constants, TotalGrows
    <3>5. Resolution * 0 <= Resolution * Total(kept, N(j))
      BY <3>4, Constants, Product
    <3> QED BY <3>3, <3>5, Constants
  <2>2. CASE e + (ts % Unit) < Period
    <3>1. PICK m \in 0 .. Buckets - 1, r \in 0 .. Unit - 1 :
              /\ e + (ts % Unit) = Unit * m + r
              /\ time_diff(clock) = e + (ts % Unit)
              /\ new = (m + idx) % Buckets
              /\ clock % Unit <= r + Slack
              /\ (clock = ts + e /\ clock % Unit = r) \/ clock = ts + e - Width
      BY <1>t, <2>2, Ahead DEF Slack
    <3>2. kept = Erased(new)
      BY <2>2, <3>1, <1>d, Constants DEF Counted
    <3>3. \A a \in A(j) : a >= e => j >= m /\ a \in Answers(ts, e, j - m)
      BY <1>t, <2>2, <3>1, SumAnswers
    <3>4. CASE j < m
      <4>1. \A a \in A(j) : air[a] = 0
        <5>1. \A a \in A(j) : a \in Nat /\ a \in Ages
          BY DEF Answers, Ages
        <5> QED BY <1>t, <3>3, <3>4, <5>1, Constants
      <4>2. A(j) \in SUBSET Ages /\ N(j) \in SUBSET Places /\ air \in [Ages -> Int]
        BY <1>n, <1>t
      <4> HIDE DEF A, N, kept
      <4>3. Total(air, A(j)) = 0
        BY <4>1, <4>2, Constants, TotalNothing
      <4>4. Total(kept, N(j)) \in Nat
        BY <1>k, <4>2, Constants, TotalGrows
      <4>5. Resolution * 0 <= Resolution * Total(kept, N(j))
        BY <4>4, Constants, Product
      <4> QED BY <4>3, <4>5, Constants
    <3>5. CASE j >= m
      <4> DEFINE B == Answers(ts, e, j - m)
                 R == {a \in A(j) : a >= e}
                 M == Newest(idx, j - m)
      <4>j. j - m \in 0 .. Buckets - 1
        BY <3>5, Constants
      <4>1. A(j) \in SUBSET Ages /\ R \in SUBSET Ages /\ B \in SUBSET Ages
        BY DEF Answers
      <4>2. R \subseteq A(j) /\ \A a \in A(j) \ R : air[a] = 0
        <5>1. \A a \in A(j) : a \in Nat /\ a \in Ages
          BY DEF Answers, Ages
        <5> QED BY <1>t, <5>1
      <4>3. R \subseteq B
        BY <3>3
      <4>4. M \in SUBSET Places /\ N(j) \in SUBSET Places
        BY DEF Newest
      <4>5. M \subseteq N(j) /\ \A i \in M : kept[i] = band.toa_sum_ms[i]
        <5> SUFFICES ASSUME NEW i \in M PROVE i \in N(j) /\ kept[i] = band.toa_sum_ms[i]
          OBVIOUS
        <5>1. i \in Places /\ Back(idx, i) <= j - m /\ idx \in Places
          BY <1>t DEF Newest, Band
        <5>2. Back(idx, i) \in 0 .. Buckets - 1
          BY <5>1, Backwards
        <5>3. Back(idx, i) <= Buckets - 1 - m
          BY <5>1, <5>2, Constants
        <5>4. Back(new, i) = Back(idx, i) + m
          BY <3>1, <5>1, <5>3, Backwards
        <5>5. Back(new, i) <= j
          BY <5>1, <5>2, <5>4, Constants
        <5>6. kept[i] = band.toa_sum_ms[i]
          BY <1>t, <3>1, <3>2, <5>1, <5>3, ErasedBack
        <5> QED BY <5>1, <5>5, <5>6 DEF Newest
      <4>6. Total(air, B) <= Resolution * Total(band.toa_sum_ms, M)
        BY <1>t, <4>j DEF Held
      <4>7. air \in [Ages -> Int] /\ band.toa_sum_ms \in [Places -> Int] /\ kept \in [Places -> Int]
        BY <1>t, <1>k DEF Band
      <4> HIDE DEF A, B, R, M, N, kept
      <4>8. Total(air, A(j)) = Total(air, R)
        BY <4>1, <4>2, <4>7, Constants, TotalOfRest
      <4>9. Total(air, R) <= Total(air, B) /\ Total(air, R) \in Nat
        BY <1>t, <4>1, <4>3, Constants, TotalGrows
      <4>10. Total(air, B) \in Int
        BY <4>1, <4>7, Constants, TotalOf
      <4>11. Total(band.toa_sum_ms, M) = Total(kept, M)
        BY <4>4, <4>5, <4>7, Constants, TotalSame
      <4>12. Total(kept, M) <= Total(kept, N(j)) /\ Total(kept, M) \in Nat
        BY <1>k, <4>4, <4>5, Constants, TotalGrows
      <4>13. Total(kept, N(j)) \in Int
        BY <4>4, <4>7, Constants, TotalOf
      <4>14. /\ Resolution * Total(kept, M) <= Resolution * Total(kept, N(j))
             /\ Resolution * Total(kept, M) \in Int /\ Resolution * Total(kept, N(j)) \in Int
        BY <4>12, <4>13, Constants, Product
      <4> QED BY <4>6, <4>8, <4>9, <4>10, <4>11, <4>14
    <3> QED BY <3>4, <3>5, Constants
  <2> QED
    <3>1. e + (ts % Unit) \in Int
      BY <1>t, Constants DEF Band
    <3> QED BY <3>1, <2>1, <2>2, Constants
<1>2. ASSUME NEW j \in 0 .. Buckets - 1
      PROVE  Total(onair, A(j)) <= Resolution * Total(sums, N(j))
  <2>1. A(j) \in SUBSET Ages /\ N(j) \in SUBSET Places
    BY <1>n
  <2>2. new \in N(j)
    BY <1>d, Constants, Backwards DEF Newest
  <2>3. sums \in [Places -> Nat] /\ sums[new] = kept[new] + Steps(ms)
        /\ \A i \in Places : i # new => sums[i] = kept[i]
    <3> HIDE DEF kept, new
    <3> QED BY <1>d, <1>k, <1>s
  <2> HIDE DEF A, N, sums, kept, new
  <2>4. Total(onair, A(j)) <= Total(air, A(j)) + ms /\ Total(air, A(j)) \in Nat /\ Total(onair, A(j)) \in Nat
    <3>1. /\ 0 \in Ages => onair[0] = air[0] + ms
          /\ \A a \in Ages : a # 0 => onair[a] = air[a]
      OBVIOUS
    <3>2. /\ Total(air, A(j)) \in Nat /\ Total(onair, A(j)) \in Nat
          /\ Total(onair, A(j)) = IF 0 \in A(j) THEN Total(air, A(j)) + ms ELSE Total(air, A(j))
      BY <1>t, <2>1, <3>1, Constants, TotalRaised
    <3> QED BY <3>2
  <2>5. /\ Total(sums, N(j)) = Total(kept, N(j)) + Steps(ms)
        /\ Total(kept, N(j)) \in Nat
    BY <1>k, <1>s, <1>d, <2>1, <2>2, <2>3, Constants, TotalRaised
  <2>6. /\ Resolution * (Total(kept, N(j)) + Steps(ms))
             = Resolution * Total(kept, N(j)) + Resolution * Steps(ms)
        /\ Resolution * Total(kept, N(j)) \in Int /\ Resolution * Steps(ms) \in Int
    BY <1>s, <2>5, Constants, Product
  <2> QED BY <1>1, <1>s, <2>4, <2>5, <2>6
<1> QED BY <1>2, <1>b DEF Held

LEMMA TickHolds ==
    ASSUME Typed, Typed', NEW e \in Nat, HeldSince(e), Tick
    PROVE  HeldSince(e + 1)'
<1> DEFINE ts == band.toa_timestamp_ms
           up == [a \in Ages |-> a + 1]
<1>t. /\ band' = band /\ band \in Band /\ air \in [Ages -> Nat] /\ air' \in [Ages -> Nat]
      /\ clock' = (clock + 1) % Width /\ clock = (ts + e) % Width
      /\ \A a \in Ages : a < e => air[a] = 0
      /\ Held(band, air, e)
  BY DEF Typed, HeldSince, Tick
<1>a. \A a \in Ages : air'[a] = IF a = 0 THEN 0 ELSE air[a - 1]
  BY DEF Tick, Ages
<1>1. (ts + (e + 1)) % Width = clock'
  <2> DEFINE x == ts + e
             k == x \div Width
  <2>1. x \in Int /\ Width \in Nat \ {0}
    BY <1>t, Constants DEF Band
  <2> HIDE DEF x
  <2>2. k \in Int /\ x % Width \in 0 .. Width - 1 /\ x = Width * k + (x % Width)
    BY <2>1, DivMod, Zenon
  <2> HIDE DEF k
  <2>3. clock = x % Width
    BY <1>t DEF x
  <2>4. x + 1 = (clock + 1) + Width * k /\ clock + 1 \in Int
    BY <2>1, <2>2, <2>3, Product
  <2>5. ((clock + 1) + Width * k) % Width = (clock + 1) % Width
    BY <2>1, <2>2, <2>4, ModSame
  <2>6. ts + (e + 1) = x + 1
    BY <1>t, Constants DEF Band, x
  <2> QED BY <1>t, <2>4, <2>5, <2>6
<1>2. ASSUME NEW a \in Ages, a < e + 1 PROVE air'[a] = 0
  <2>1. a \in Nat
    BY DEF Ages
  <2>2. a # 0 => a - 1 \in Ages /\ a - 1 < e
    BY <1>2, <2>1, Constants DEF Ages
  <2> QED BY <1>a, <1>t, <2>2
<1>3. ASSUME NEW j \in 0 .. Buckets - 1
      PROVE  Total(air', Answers(ts, e + 1, j)) <= Resolution * Total(band.toa_sum_ms, Newest(band.index_previous, j))
  <2> DEFINE S == Answers(ts, e, j)
             R == Answers(ts, e + 1, j)
  <2>1. S \in SUBSET Ages
    BY DEF Answers
  <2>2. R = {up[a] : a \in S} \cap Ages
    <3>1. ASSUME NEW a \in R PROVE a \in {up[x] : x \in S} \cap Ages
      <4>1. a \in Ages /\ a \in Nat /\ a >= e + 1 /\ a <= Kept
        BY DEF Answers, Ages
      <4>2. a - 1 \in Ages /\ a - 1 >= e
        BY <4>1, Constants DEF Ages
      <4>3. (a - 1) - e = a - (e + 1)
        BY <4>1
      <4>4. a - 1 \in S
        BY <4>2, <4>3 DEF Answers
      <4>5. up[a - 1] = a
        BY <4>1, <4>2
      <4> QED BY <4>1, <4>4, <4>5
    <3>2. ASSUME NEW x \in S, up[x] \in Ages PROVE up[x] \in R
      <4>1. x \in Ages /\ x \in Nat /\ x >= e /\ up[x] = x + 1
        BY DEF Answers, Ages
      <4>2. (x + 1) - (e + 1) = x - e /\ x + 1 >= e + 1
        BY <4>1
      <4> QED BY <3>2, <4>1, <4>2 DEF Answers
    <3> QED BY <3>1, <3>2
  <2>3. \A x \in Ages : up[x] \in Ages => air'[up[x]] = air[x]
    <3> SUFFICES ASSUME NEW x \in Ages, up[x] \in Ages PROVE air'[up[x]] = air[x]
      OBVIOUS
    <3>1. x \in Nat /\ up[x] = x + 1
      BY DEF Ages
    <3>2. up[x] # 0 /\ up[x] - 1 = x
      BY <3>1
    <3> QED BY <1>a, <3>2
  <2>4. \A x, y \in Ages : up[x] = up[y] => x = y
    BY DEF Ages
  <2> HIDE DEF up, S
  <2>5. Total(air', {up[a] : a \in S} \cap Ages) <= Total(air, S)
    BY <1>t, <2>1, <2>3, <2>4, Constants, TotalMoved
  <2>6. Total(air, S) <= Resolution * Total(band.toa_sum_ms, Newest(band.index_previous, j))
    BY <1>t DEF Held, S
  <2>7. Total(air, S) \in Int /\ Total(air', R) \in Int
    <3>1. air \in [Ages -> Int] /\ air' \in [Ages -> Int] /\ R \in SUBSET Ages
      BY <1>t DEF Answers
    <3> HIDE DEF R
    <3> QED BY <2>1, <3>1, Constants, TotalOf
  <2>8. Resolution * Total(band.toa_sum_ms, Newest(band.index_previous, j)) \in Int
    <3>1. Newest(band.index_previous, j) \in SUBSET Places /\ band.toa_sum_ms \in [Places -> Nat]
      BY <1>t DEF Newest, Band
    <3>2. Total(band.toa_sum_ms, Newest(band.index_previous, j)) \in Nat
      BY <3>1, Constants, TotalGrows
    <3> QED BY <3>2, Constants, Product
  <2> HIDE DEF R
  <2> QED BY <2>2, <2>5, <2>6, <2>7, <2>8 DEF R
<1>4. Held(band, air', e + 1)
  BY <1>3 DEF Held
<1> QED BY <1>1, <1>2, <1>4, <1>t DEF HeldSince

LEMMA InvInit ==
    Init => Inv
<1> SUFFICES ASSUME Init PROVE Inv
  OBVIOUS
<1>1. band = [toa_timestamp_ms |-> 0, index_previous |-> 0, toa_sum_ms |-> [i \in Places |-> 0]]
  BY DEF Init
<1>2. band \in Band
  BY <1>1, Constants DEF Band
<1>3. air \in [Ages -> Nat] /\ \A a \in Ages : air[a] = 0
  BY DEF Init, Ages
<1>4. Typed
  BY <1>2, <1>3, Constants DEF Init, Typed, Modes
<1>5. (band.toa_timestamp_ms + 0) % Width = clock
  BY <1>1, Constants DEF Init
<1>6. Held(band, air, 0)
  BY <1>2, <1>3, NothingHeld
<1>7. HeldSince(0)
  BY <1>3, <1>5, <1>6 DEF HeldSince
<1> QED BY <1>4, <1>7 DEF Inv

LEMMA InvStep ==
    Inv /\ [Next]_vars => Inv'
<1> SUFFICES ASSUME Inv, [Next]_vars PROVE Inv'
  OBVIOUS
<1>t. Typed /\ Typed'
  BY TypedStep DEF Inv
<1>e. PICK e \in Nat : HeldSince(e)
  BY DEF Inv
<1>1. CASE Tick
  <2>1. HeldSince(e + 1)'
    BY <1>t, <1>e, <1>1, TickHolds
  <2> QED BY <1>t, <2>1 DEF Inv
<1>2. CASE band' = Updated(clock) /\ UNCHANGED <<clock, air>>
  <2>1. PICK d \in Nat : /\ (band'.toa_timestamp_ms + d) % Width = clock
                         /\ \A a \in Ages : a < d => air[a] = 0
                         /\ Held(band', air, d)
    BY <1>t, <1>e, <1>2, UpdateHolds
  <2>2. HeldSince(d)'
    BY <1>2, <2>1 DEF HeldSince
  <2> QED BY <1>t, <2>2 DEF Inv
<1>3. CASE Sent
  <2>1. CASE enabled = "full disabled"
    <3>1. HeldSince(e)'
      BY <1>3, <2>1, <1>e DEF Sent, HeldSince
    <3> QED BY <1>t, <3>1 DEF Inv
  <2>2. CASE enabled # "full disabled"
    <3>1. /\ band' = Summed(clock, toa) /\ clock' = clock /\ toa \in Nat
          /\ air \in [Ages -> Nat] /\ air' \in [Ages -> Nat] /\ clock \in 0 .. Width - 1
      BY <1>3, <2>2, <1>t DEF Sent, Typed
    <3>2. air' = [air EXCEPT ![0] = @ + toa]
      BY <1>3, <2>2 DEF Sent
    <3>3. \A a \in Ages : air'[a] = IF a = 0 THEN air[a] + toa ELSE air[a]
      BY <3>1, <3>2
    <3>4. Held(band', air', 0)
      BY <1>t, <1>e, <3>1, <3>3, SumHolds
    <3>5. (band'.toa_timestamp_ms + 0) % Width = clock'
      <4>1. band'.toa_timestamp_ms = clock
        BY <3>1 DEF Summed
      <4> QED BY <3>1, <4>1, Constants
    <3>6. \A a \in Ages : a < 0 => air'[a] = 0
      BY DEF Ages
    <3>7. HeldSince(0)'
      BY <3>4, <3>5, <3>6 DEF HeldSince
    <3> QED BY <1>t, <3>7 DEF Inv
  <2> QED BY <2>1, <2>2
<1>4. CASE UNCHANGED <<clock, band, air>>
  <2>1. HeldSince(e)'
    BY <1>4, <1>e DEF HeldSince
  <2> QED BY <1>t, <2>1 DEF Inv
<1> QED BY <1>1, <1>2, <1>3, <1>4 DEF Next, Send, Ask, Enable, vars

LEMMA InvRemembers ==
    Inv => Remembered
<1> SUFFICES ASSUME Inv PROVE Remembered
  OBVIOUS
<1> DEFINE ts == band.toa_timestamp_ms
           A == Answers(ts, 0, Buckets - 1)
<1>t. Typed /\ band \in Band /\ air \in [Ages -> Nat]
  BY DEF Inv, Typed
<1>s. band.toa_sum_ms \in [Places -> Nat] /\ band.index_previous \in Places
  BY <1>t DEF Band
<1>e. PICK e \in Nat : HeldSince(e)
  BY DEF Inv
<1>1. Consumed(band) = Resolution * Total(band.toa_sum_ms, Places)
  BY <1>s, SumIsOf DEF Consumed, Total
<1>2. SumFunction(air) = Total(air, Ages)
  BY <1>t, SumIsOf DEF Total
<1>3. Newest(band.index_previous, Buckets - 1) = Places
  <2>1. \A i \in Places : Back(band.index_previous, i) \in 0 .. Buckets - 1
    <3>1. 0 \in 0 .. Buckets - 1
      BY Constants
    <3> QED BY <1>s, <3>1, Backwards
  <2> QED BY <2>1, Constants DEF Newest
<1>4. Total(air, Answers(ts, e, Buckets - 1)) <= Resolution * Total(band.toa_sum_ms, Places)
  <2>1. Buckets - 1 \in 0 .. Buckets - 1
    BY Constants
  <2> QED BY <1>e, <1>3, <2>1 DEF HeldSince, Held
<1>5. \A a \in Ages : a >= e => a \in Answers(ts, e, Buckets - 1)
  <2> SUFFICES ASSUME NEW a \in Ages, a >= e PROVE a \in Answers(ts, e, Buckets - 1)
    OBVIOUS
  <2>1. ts % Unit \in 0 .. Unit - 1
    BY <1>t, Constants DEF Band
  <2>2. Unit * (Buckets - 1) = Period - Unit /\ Unit * (Buckets - 1) \in Int
    BY Constants, Product
  <2>3. a \in Nat /\ a <= Kept /\ Slack \in 0 .. Unit - 1 /\ Kept + Slack = Period - Unit /\ Kept \in Int
    BY Constants DEF Ages, Slack
  <2>4. a - e + Slack <= (ts % Unit) + Unit * (Buckets - 1)
    BY <2>1, <2>2, <2>3
  <2> QED BY <2>4 DEF Answers
<1>6. Total(air, Ages) = Total(air, Answers(ts, e, Buckets - 1))
  <2> DEFINE R == Answers(ts, e, Buckets - 1)
  <2>1. R \in SUBSET Ages /\ Ages \in SUBSET Ages /\ air \in [Ages -> Int]
    BY <1>t DEF Answers
  <2>2. \A a \in Ages \ R : air[a] = 0
    <3>1. \A a \in Ages : a \in Nat
      BY DEF Ages
    <3> QED BY <1>e, <1>5, <3>1 DEF HeldSince
  <2> HIDE DEF R
  <2> QED BY <2>1, <2>2, Constants, TotalOfRest DEF R
<1>7. Total(air, Ages) \in Nat
  BY <1>t, Constants, TotalGrows
<1>8. Resolution * Total(band.toa_sum_ms, Places) \in Int
  <2>1. Total(band.toa_sum_ms, Places) \in Nat
    BY <1>s, Constants, TotalGrows
  <2> QED BY <2>1, Constants, Product
<1> QED BY <1>1, <1>2, <1>4, <1>6, <1>7, <1>8 DEF Remembered

\* The ring never counts less than was on the air in the ages it answers for, whatever the
\* frames, the updates, the modes and the wrap of the clock did to its buckets.
THEOREM RingRemembers ==
    Spec => []Remembered
<1>1. Spec => []Inv
  BY InvInit, InvStep, PTL DEF Spec
<1> QED BY <1>1, InvRemembers, PTL

-----------------------------------------------------------------------------
(* When a full band is free again *)

\* A time to come that the clock, which may wrap on the way, does not take for one that is past.
LEMMA DiffAhead ==
    ASSUME band \in Band, NEW ts, ts = band.toa_timestamp_ms,
           clock \in 0 .. Width - 1, ts <= clock, NEW w \in 0 .. Period,
           time_diff(clock) < Period
    PROVE  \E q \in Int, base \in 0 .. Unit - 1 :
              /\ ts = Unit * q + base
              /\ time_diff(clock) = clock - Unit * q
              /\ time_diff((clock + w) % Width) = time_diff(clock) + w
<1> DEFINE base == ts % Unit
           q == ts \div Unit
           start == ts - base
           x == clock + w
<1>c. Unit \in Nat \ {0} /\ Width \in Nat \ {0} /\ Period \in Nat /\ Width > 2 * Period
  BY Constants
<1>1. ts \in 0 .. Width - 1
  BY DEF Band
<1>2. base \in 0 .. Unit - 1 /\ q \in Int /\ ts = Unit * q + base
  <2>1. ts \in Int
    BY <1>1
  <2> QED BY <2>1, <1>c, DivMod, Zenon
<1>3. \A now : time_diff(now) = (now - start) % Width
  BY DEF time_diff
<1> HIDE DEF base, q, start
<1>4. start = Unit * q /\ start \in Int
  BY <1>1, <1>2, <1>c, Product DEF start
<1>5. start >= 0
  <2> SUFFICES ASSUME q + 1 <= 0 PROVE FALSE
    <3>1. CASE q >= 0
      <4>1. Unit * 0 <= Unit * q
        BY <1>2, <1>c, <3>1, Product
      <4> QED BY <1>4, <1>c, <4>1
    <3> QED BY <3>1, <1>2
  <2>1. Unit * (q + 1) <= Unit * 0 /\ Unit * (q + 1) = Unit * q + Unit
    BY <1>2, <1>c, Product
  <2> QED BY <1>1, <1>2, <1>4, <1>c, <2>1
<1>6. start <= ts
  BY <1>1, <1>2 DEF start
<1>7. time_diff(clock) = clock - start
  <2> DEFINE y == clock - start
  <2>1. y \in 0 .. Width - 1
    BY <1>1, <1>4, <1>5, <1>6, <1>c
  <2> HIDE DEF y
  <2>2. y % Width = y
    BY <2>1, <1>c
  <2> QED BY <1>3, <2>2, Zenon DEF y
<1>8. time_diff(x % Width) = time_diff(clock) + w
  <2> DEFINE z == x % Width
             d == z - start
  <2>0. x \in 0 .. 2 * Width - 1
    BY <1>c
  <2> HIDE DEF x
  <2>1. z = x \/ z = x - Width
    BY <2>0, <1>c
  <2> HIDE DEF z
  <2>2. (clock - start) + w \in 0 .. Width - 1
    BY <1>7, <1>c, <1>1, <1>4, <1>6
  <2>3. d = (clock - start) + w \/ d = (clock - start) + w - Width
    BY <2>1, <1>4, <1>c DEF x
  <2> HIDE DEF d
  <2>4. d % Width = (clock - start) + w
    <3> DEFINE v == (clock - start) + w
    <3>1. d = v \/ d = v - Width
      BY <2>2, <2>3, <1>c, <1>4
    <3>2. v \in 0 .. Width - 1
      BY <2>2
    <3> HIDE DEF v
    <3>3. d % Width = v
      BY <3>1, <3>2, <1>c
    <3> QED BY <3>3 DEF v
  <2>5. time_diff(z) = d % Width
    BY <1>3, Zenon DEF d
  <2> QED BY <2>4, <2>5, <1>7 DEF z
<1> QED BY <1>2, <1>4, <1>7, <1>8 DEF x

\* The ring at a time to come, less than an hour ahead of the unit of the last sum or just that.
LEMMA UpdatedAhead ==
    ASSUME band \in Band, NEW now \in 0 .. Width - 1,
           NEW m \in 0 .. Buckets, NEW r \in 0 .. Unit - 1, time_diff(now) = Unit * m + r
    PROVE  /\ m < Buckets => /\ time_diff(now) < Period
                             /\ compute_index(time_diff(now)) = (m + band.index_previous) % Buckets
                             /\ Updated(now) = [band EXCEPT !.toa_sum_ms = Erased((m + band.index_previous) % Buckets)]
           /\ m = Buckets => Updated(now).toa_sum_ms = Empty
<1> DEFINE diff == time_diff(now)
<1>c. Unit \in Nat \ {0} /\ Buckets \in Nat \ {0} /\ Period = Unit * Buckets /\ Period \in Nat
  BY Constants
<1>1. Unit * m \in Int /\ diff \in Int /\ diff = Unit * m + r
  BY <1>c, DiffTyped, Product
<1> HIDE DEF diff
<1>2. ASSUME m < Buckets
      PROVE  diff < Period /\ compute_index(diff) = (m + band.index_previous) % Buckets
  <2>1. Unit * (m + 1) <= Unit * Buckets /\ Unit * (m + 1) = Unit * m + Unit
    BY <1>2, <1>c, Product
  <2>2. diff < Period
    BY <2>1, <1>1, <1>c
  <2>3. diff \div Unit = m
    BY <1>1, <1>c, ModAt
  <2>4. m % (Buckets + 1) = m
    BY <1>2, <1>c
  <2> QED BY <2>2, <2>3, <2>4 DEF compute_index
<1>3. m = Buckets => diff >= Period
  BY <1>1, <1>c
<1> QED BY <1>1, <1>2, <1>3, <1>c DEF Updated, diff

\* The place k buckets after the last one that a sum would use now.
LEMMA After ==
    ASSUME NEW idx \in Places, NEW m \in 0 .. Buckets - 1, NEW new, new = (m + idx) % Buckets,
           NEW k \in 1 .. Buckets - m
    PROVE  /\ (new + k) % Buckets \in Places
           /\ Back(idx, (new + k) % Buckets) = Buckets - m - k
           /\ k = Buckets - m => (new + k) % Buckets = idx
<1> DEFINE x == new + k
           y == x % Buckets
<1>c. Buckets \in Nat \ {0} /\ idx \in 0 .. Buckets - 1
  BY Constants DEF Places
<1>1. new = m + idx \/ new = m + idx - Buckets
  BY <1>c
<1>2. new \in 0 .. Buckets - 1 /\ x \in Int
  BY <1>c
<1>3. y \in 0 .. Buckets - 1
  <2> HIDE DEF x
  <2> QED BY <1>2, <1>c
<1>4. y = IF idx + m + k < Buckets THEN idx + m + k ELSE idx + m + k - Buckets
  <2>1. CASE idx + m + k < Buckets
    <3>1. x = idx + m + k /\ x \in 0 .. Buckets - 1
      BY <2>1, <1>1, <1>2, <1>c
    <3> HIDE DEF x
    <3>2. y = x
      BY <3>1, <1>c
    <3> QED BY <2>1, <3>1, <3>2
  <2>2. CASE idx + m + k >= Buckets
    <3> DEFINE z == idx + m + k - Buckets
    <3>1. z \in 0 .. Buckets - 1
      BY <2>2, <1>c
    <3>2. x = z \/ x = z + Buckets
      BY <1>1, <1>c
    <3> HIDE DEF x, z
    <3>3. y = z
      BY <3>1, <3>2, <1>c
    <3> QED BY <2>2, <3>3, <1>c DEF z
  <2> QED BY <2>1, <2>2, <1>c
<1>5. (idx - y) % Buckets = Buckets - m - k
  <2> HIDE DEF y
  <2> DEFINE d == idx - y
             v == Buckets - m - k
  <2>1. v \in 0 .. Buckets - 1 /\ (d = v \/ d = v - Buckets)
    BY <1>4, <1>c
  <2> HIDE DEF d, v
  <2>2. d % Buckets = v
    BY <2>1, <1>c
  <2> QED BY <2>2 DEF d, v
<1>6. k = Buckets - m => y = idx
  BY <1>4, <1>c
<1> QED BY <1>3, <1>5, <1>6 DEF Back, Places

LEMMA SamePlace ==
    ASSUME NEW idx \in Places, NEW i \in Places, NEW j \in Places, Back(idx, i) = Back(idx, j)
    PROVE  i = j
<1>1. Buckets \in Nat \ {0} /\ idx \in 0 .. Buckets - 1 /\ i \in 0 .. Buckets - 1 /\ j \in 0 .. Buckets - 1
  BY Constants DEF Places
<1>2. Back(idx, i) = IF idx >= i THEN idx - i ELSE idx - i + Buckets
  BY <1>1 DEF Back
<1>3. Back(idx, j) = IF idx >= j THEN idx - j ELSE idx - j + Buckets
  BY <1>1 DEF Back
<1>4. (IF idx >= i THEN idx - i ELSE idx - i + Buckets) = (IF idx >= j THEN idx - j ELSE idx - j + Buckets)
  BY <1>2, <1>3, Zenon
<1>5. CASE idx >= i /\ idx >= j
  BY <1>1, <1>4, <1>5
<1>6. CASE idx >= i /\ ~ idx >= j
  BY <1>1, <1>4, <1>6
<1>7. CASE ~ idx >= i /\ idx >= j
  BY <1>1, <1>4, <1>7
<1>8. CASE ~ idx >= i /\ ~ idx >= j
  BY <1>1, <1>4, <1>8
<1> QED BY <1>5, <1>6, <1>7, <1>8, Zenon

\* A ring that has lost what one of its buckets held holds less.
LEMMA ConsumesLess ==
    ASSUME NEW f \in [Places -> Nat], NEW g \in [Places -> Nat],
           \A i \in Places : g[i] <= f[i],
           NEW x \in Places, g[x] < f[x]
    PROVE  Resolution * Total(g, Places) < Resolution * Total(f, Places)
<1> DEFINE h == [g EXCEPT ![x] = f[x]]
           n == f[x] - g[x]
<1>1. h \in [Places -> Nat] /\ n \in Nat /\ n >= 1
      /\ h[x] = g[x] + n /\ (\A i \in Places : i # x => h[i] = g[i])
      /\ \A i \in Places : h[i] <= f[i]
  OBVIOUS
<1>2. f \in [Places -> Int] /\ h \in [Places -> Int] /\ Places \in SUBSET Places
  OBVIOUS
<1> HIDE DEF h, n
<1>3. Total(h, Places) = Total(g, Places) + n /\ Total(g, Places) \in Nat
  BY <1>1, <1>2, Constants, TotalRaised
<1>4. Total(h, Places) <= Total(f, Places) /\ Total(f, Places) \in Int
  BY <1>1, <1>2, Constants, TotalBelow, TotalOf
<1>5. Total(g, Places) + 1 <= Total(f, Places)
  BY <1>1, <1>3, <1>4
<1>6. /\ Resolution * (Total(g, Places) + 1) <= Resolution * Total(f, Places)
      /\ Resolution * (Total(g, Places) + 1) = Resolution * Total(g, Places) + Resolution
      /\ Resolution * Total(g, Places) \in Int /\ Resolution * Total(f, Places) \in Int
  <2> DEFINE t == Total(g, Places)
             u == Total(f, Places)
  <2>1. t \in Int /\ u \in Int /\ t + 1 <= u
    BY <1>3, <1>4, <1>5
  <2> HIDE DEF t, u
  <2>2. Resolution * (t + 1) <= Resolution * u /\ Resolution * (t + 1) = Resolution * t + Resolution * 1
    BY <2>1, Constants, Product
  <2>3. Resolution * t \in Int /\ Resolution * u \in Int
    BY <2>1, Constants, Product
  <2> QED BY <2>2, <2>3, Constants DEF t, u
<1> QED BY <1>6, Constants

LEMMA ConsumedOf ==
    ASSUME NEW b, b.toa_sum_ms \in [Places -> Nat]
    PROVE  Consumed(b) = Resolution * Total(b.toa_sum_ms, Places) /\ Consumed(b) \in Nat
<1>1. Consumed(b) = Resolution * Total(b.toa_sum_ms, Places)
  BY SumIsOf DEF Consumed, Total
<1>2. Total(b.toa_sum_ms, Places) \in Nat
  BY Constants, TotalGrows
<1>3. Resolution * 0 <= Resolution * Total(b.toa_sum_ms, Places) /\ Resolution * Total(b.toa_sum_ms, Places) \in Int
  BY <1>2, Constants, Product
<1> QED BY <1>1, <1>3, Constants

LEMMA NothingConsumed ==
    ASSUME NEW b, b.toa_sum_ms = Empty PROVE Consumed(b) = 0
<1>1. Empty \in [Places -> Nat] /\ Empty \in [Places -> Int] /\ \A i \in Places : Empty[i] = 0
  BY DEF Empty
<1>2. Total(Empty, Places) = 0
  BY <1>1, Constants, TotalNothing
<1> QED BY <1>1, <1>2, ConsumedOf, Constants

LEMMA BudgetPositive ==
    Budget \in Nat /\ Budget > 0
<1>1. Regulation \in Nat \ {0} /\ Regulation <= Period /\ Period \in Nat
  BY DutyCycleAssumption, Constants
<1> DEFINE q == Period \div Regulation
           r == Period % Regulation
<1>2. q \in Int /\ r \in 0 .. Regulation - 1 /\ Period = Regulation * q + r
  BY <1>1, DivMod
<1> HIDE DEF q, r
<1>3. q > 0
  <2> SUFFICES ASSUME q <= 0 PROVE FALSE
    BY <1>2
  <2>1. Regulation * q <= Regulation * 0 /\ Regulation * q \in Int
    BY <1>1, <1>2, Product
  <2> QED BY <1>1, <1>2, <2>1
<1> QED BY <1>2, <1>3 DEF Budget, q

LEMMA TypedWaits ==
    Typed => WaitsExactly
<1> DEFINE ts == band.toa_timestamp_ms
           idx == band.index_previous
           diff == time_diff(clock)
           now == Updated(clock)
           wait == NextFree(clock)
           used(w) == Consumed(Updated((clock + w) % Width))
<1> SUFFICES ASSUME Typed, Available(now) <= 0, now.toa_timestamp_ms <= clock
             PROVE  used(wait) < Consumed(now) /\ used(wait - 1) = Consumed(now)
  BY DEF WaitsExactly
<1>t. band \in Band /\ clock \in 0 .. Width - 1 /\ idx \in Places /\ band.toa_sum_ms \in [Places -> Nat]
  BY DEF Typed, Band
<1>c. Unit \in Nat \ {0} /\ Buckets \in Nat \ {0} /\ Period = Unit * Buckets /\ Period \in Nat
      /\ Width \in Nat \ {0} /\ Width > 2 * Period
  BY Constants
<1>n. now \in Band /\ now.toa_sum_ms \in [Places -> Nat]
  BY <1>t, BandTyped DEF Band
<1>1. Consumed(now) > 0
  <2>1. Consumed(now) \in Nat
    BY <1>n, ConsumedOf
  <2> HIDE DEF now
  <2> QED BY <2>1, BudgetPositive DEF Available
<1>2. diff \in Nat /\ diff < Period
  <2>1. diff \in Nat
    BY <1>t, DiffTyped
  <2>2. diff >= Period => now.toa_sum_ms = Empty
    BY DEF Updated
  <2> QED BY <1>1, <1>c, <2>1, <2>2, NothingConsumed
<1>3. now.toa_timestamp_ms = ts
  BY <1>2, <1>c, <1>t DEF Updated, Band
<1>4. ts <= clock
  BY <1>3
<1>5. PICK q \in Int, base \in 0 .. Unit - 1 :
         /\ ts = Unit * q + base
         /\ diff = clock - Unit * q
  <2>1. 0 \in 0 .. Period
    BY <1>c
  <2> QED BY <1>2, <1>4, <1>t, <2>1, DiffAhead
<1> DEFINE m == diff \div Unit
           r == diff % Unit
<1>6. m \in Int /\ r \in 0 .. Unit - 1 /\ diff = Unit * m + r
  <2>1. diff \in Int
    BY <1>2
  <2> QED BY <2>1, <1>c, DivMod, Zenon
<1> HIDE DEF m, r, diff
<1>7. m \in 0 .. Buckets - 1
  <2>1. CASE m < 0
    <3>1. Unit * m <= Unit * (-1)
      BY <2>1, <1>6, <1>c, Product
    <3> QED BY <3>1, <1>2, <1>6, <1>c
  <2>2. CASE m >= Buckets
    <3>1. Unit * Buckets <= Unit * m
      BY <2>2, <1>6, <1>c, Product
    <3> QED BY <3>1, <1>2, <1>6, <1>c
  <2> QED BY <2>1, <2>2, <1>6, <1>c
<1>8. clock % Unit = r
  <2>1. Unit * (q + m) = Unit * q + Unit * m /\ Unit * q \in Int /\ Unit * m \in Int /\ q + m \in Int
    BY <1>5, <1>6, <1>c, Product
  <2>2. clock \in Int
    BY <1>t
  <2>3. clock = Unit * (q + m) + r
    BY <1>5, <1>6, <2>1, <2>2
  <2> DEFINE k == q + m
  <2> HIDE DEF k
  <2>4. k \in Int /\ clock = Unit * k + r
    BY <2>1, <2>3 DEF k
  <2> QED BY <1>6, <1>c, <2>2, <2>4, ModAt
<1> DEFINE new == (m + idx) % Buckets
           S == Erased(new)
<1>9. diff < Period /\ compute_index(diff) = new /\ now = [band EXCEPT !.toa_sum_ms = S]
  <2>1. m \in 0 .. Buckets /\ m < Buckets
    BY <1>7, <1>c
  <2> QED BY <1>t, <1>6, <2>1, UpdatedAhead DEF diff
<1>10. now.toa_sum_ms = S /\ S \in [Places -> Nat]
  BY <1>9, <1>t, ErasedTyped DEF Band
<1> DEFINE after(k) == (new + k) % Buckets
           K == {k \in 1 .. Buckets : now.toa_sum_ms[after(k)] # 0 \/ after(k) = idx}
           stop == Min(K)
<1>11. wait = (Unit - r) + (stop - 1) * Unit
  BY <1>8, <1>9 DEF NextFree, diff
<1>12. stop \in K /\ (\A k \in K : stop <= k) /\ stop \in 1 .. Buckets - m
  <2>1. Buckets - m \in 1 .. Buckets /\ after(Buckets - m) = idx
    <3>1. Buckets - m \in 1 .. Buckets - m
      BY <1>7, <1>c
    <3>2. after(Buckets - m) = idx
      BY <1>7, <1>t, <3>1, After
    <3> QED BY <3>1, <3>2, <1>7, <1>c
  <2>2. Buckets - m \in K
    BY <2>1
  <2>3. K \subseteq Nat /\ K # {}
    BY <2>2
  <2> HIDE DEF K
  <2>4. PICK x \in K : \A k \in K : x <= k
    BY <2>3, Smallest
  <2>5. stop \in K /\ \A k \in K : stop <= k
    BY <2>4 DEF Min
  <2>6. stop <= Buckets - m
    BY <2>2, <2>5
  <2>7. stop \in 1 .. Buckets
    BY <2>5 DEF K
  <2> QED BY <2>5, <2>6, <2>7, <1>7, <1>c
<1> HIDE DEF stop
<1>13. \A k \in 1 .. Buckets - m : k < stop => S[after(k)] = 0
  <2> SUFFICES ASSUME NEW k \in 1 .. Buckets - m, k < stop PROVE S[after(k)] = 0
    OBVIOUS
  <2>1. k \in 1 .. Buckets
    BY <1>7, <1>c
  <2>2. k \notin K
    <3> HIDE DEF K
    <3> QED BY <1>7, <1>12, <1>c
  <2> QED BY <2>1, <2>2, <1>10
<1>14. /\ wait \in 1 .. Period
       /\ diff + wait = Unit * (m + stop)
       /\ diff + (wait - 1) = Unit * (m + stop - 1) + (Unit - 1)
  <2>1. /\ Unit * (m + stop) = Unit * m + Unit * stop /\ Unit * m \in Int /\ Unit * stop \in Int
        /\ Unit * (m + stop - 1) = Unit * (m + stop) - Unit
        /\ (stop - 1) * Unit = Unit * stop - Unit
        /\ Unit * (m + stop) <= Unit * Buckets
        /\ Unit * 1 <= Unit * stop
    <3>1. m + stop \in Int /\ stop \in Int /\ m + stop <= Buckets /\ stop >= 1
      BY <1>7, <1>12, <1>c
    <3>2. /\ Unit * (m + stop) = Unit * m + Unit * stop /\ Unit * m \in Int /\ Unit * stop \in Int
          /\ Unit * (m + stop) <= Unit * Buckets /\ Unit * 1 <= Unit * stop
      BY <1>6, <1>c, <3>1, Product
    <3>3. Unit * (m + stop - 1) = Unit * (m + stop) - Unit /\ (stop - 1) * Unit = Unit * stop - Unit
      BY <1>6, <1>c, <3>1
    <3> QED BY <3>2, <3>3
  <2>2. diff + wait = Unit * (m + stop)
    BY <1>6, <1>11, <1>c, <2>1
  <2>3. wait \in Int /\ wait >= 1
    BY <1>6, <1>11, <1>c, <2>1
  <2> HIDE DEF wait
  <2> QED BY <1>2, <1>c, <2>1, <2>2, <2>3
<1> HIDE DEF wait, K
<1>15. \A w \in 0 .. Period : /\ time_diff((clock + w) % Width) = diff + w
                              /\ (clock + w) % Width \in 0 .. Width - 1
  <2> SUFFICES ASSUME NEW w \in 0 .. Period
               PROVE  /\ time_diff((clock + w) % Width) = diff + w
                      /\ (clock + w) % Width \in 0 .. Width - 1
    OBVIOUS
  <2>1. time_diff((clock + w) % Width) = diff + w
    BY <1>2, <1>4, <1>t, DiffAhead DEF diff
  <2>2. (clock + w) % Width \in 0 .. Width - 1
    <3> DEFINE x == clock + w
    <3>1. x \in Int
      BY <1>t, <1>c
    <3> HIDE DEF x
    <3>2. x % Width \in 0 .. Width - 1
      BY <3>1, <1>c
    <3> QED BY <3>2 DEF x
  <2> QED BY <2>1, <2>2
\* A tick before: what the ring has lost more by then was empty.
<1>16. used(wait - 1) = Consumed(now)
  <2> DEFINE m2 == m + stop - 1
             t2 == (clock + (wait - 1)) % Width
             S2 == Erased((m2 + idx) % Buckets)
  <2>1. m2 \in 0 .. Buckets - 1 /\ Unit - 1 \in 0 .. Unit - 1
    BY <1>7, <1>12, <1>c
  <2>2. time_diff(t2) = Unit * m2 + (Unit - 1) /\ t2 \in 0 .. Width - 1
    <3>1. wait - 1 \in 0 .. Period
      BY <1>14, <1>c
    <3> QED BY <1>14, <1>15, <3>1
  <2> HIDE DEF m2, t2
  <2>3. Updated(t2) = [band EXCEPT !.toa_sum_ms = S2]
    <3>1. m2 \in 0 .. Buckets /\ m2 < Buckets
      BY <2>1, <1>c
    <3> QED BY <1>t, <2>1, <2>2, <3>1, UpdatedAhead
  <2>4. ASSUME NEW i \in Places PROVE S2[i] = S[i]
    <3> DEFINE d == Back(idx, i)
    <3>1. d \in 0 .. Buckets - 1
      BY <1>7, <1>t, Backwards
    <3>2. S2[i] = IF d <= Buckets - 1 - m2 THEN band.toa_sum_ms[i] ELSE 0
      BY <1>t, <2>1, ErasedBack
    <3>3. S[i] = IF d <= Buckets - 1 - m THEN band.toa_sum_ms[i] ELSE 0
      BY <1>t, <1>7, ErasedBack
    <3> HIDE DEF S2, S, new
    <3>4. CASE d <= Buckets - 1 - m /\ d > Buckets - 1 - m2
      <4> DEFINE k == Buckets - m - d
      <4>1. k \in 1 .. Buckets - m /\ k < stop
        BY <3>1, <3>4, <1>7, <1>12, <1>c DEF m2
      <4>2. after(k) \in Places /\ Back(idx, after(k)) = Buckets - m - k
        BY <4>1, <1>7, <1>t, After DEF new
      <4>3. Buckets - m - k = d
        BY <3>1, <1>7, <1>c
      <4>4. after(k) = i
        BY <4>2, <4>3, <1>t, SamePlace
      <4>5. S[i] = 0
        BY <4>1, <4>4, <1>13
      <4>6. S2[i] = 0
        BY <3>1, <3>2, <3>4, <2>1, <1>c
      <4> QED BY <4>5, <4>6
    <3>5. CASE d > Buckets - 1 - m \/ d <= Buckets - 1 - m2
      <4>1. m2 >= m
        BY <1>7, <1>12, <1>c DEF m2
      <4>2. d <= Buckets - 1 - m <=> d <= Buckets - 1 - m2
        BY <3>1, <3>5, <4>1, <2>1, <1>7, <1>c
      <4> QED BY <3>2, <3>3, <4>2
    <3> QED BY <3>1, <3>4, <3>5, <1>7, <2>1, <1>c
  <2>5. S2 \in [Places -> Nat]
    BY <1>t, ErasedTyped
  <2> HIDE DEF S2, S
  <2>6. S2 = S
    BY <2>4, <2>5, <1>10
  <2>7. Updated(t2).toa_sum_ms = now.toa_sum_ms
    BY <1>10, <1>t, <2>3, <2>6 DEF Band
  <2> HIDE DEF now
  <2>8. Consumed(Updated(t2)) = Consumed(now)
    BY <2>7 DEF Consumed
  <2> QED BY <2>8 DEF t2
\* Then: the bucket that ends the search has gone, or with the last one the whole ring.
<1>17. used(wait) < Consumed(now)
  <2> DEFINE t3 == (clock + wait) % Width
             m3 == m + stop
             x == after(stop)
  <2>1. time_diff(t3) = Unit * m3 + 0 /\ t3 \in 0 .. Width - 1 /\ m3 \in 0 .. Buckets /\ 0 \in 0 .. Unit - 1
    <3>1. wait \in 0 .. Period /\ m3 \in 0 .. Buckets /\ 0 \in 0 .. Unit - 1
      BY <1>7, <1>12, <1>14, <1>c
    <3>2. Unit * m3 + 0 = Unit * m3
      BY <3>1, <1>c, Product
    <3> QED BY <1>14, <1>15, <3>1, <3>2
  <2>2. CASE m3 = Buckets
    <3> HIDE DEF t3, m3
    <3>1. Updated(t3).toa_sum_ms = Empty
      BY <1>t, <2>1, <2>2, UpdatedAhead
    <3>2. Consumed(Updated(t3)) = 0
      BY <3>1, NothingConsumed
    <3> QED BY <1>1, <3>2 DEF t3
  <2>3. CASE m3 # Buckets
    <3> DEFINE S3 == Erased((m3 + idx) % Buckets)
    <3>1. m3 \in 0 .. Buckets - 1 /\ m3 < Buckets
      BY <2>1, <2>3, <1>c
    <3>2. Updated(t3) = [band EXCEPT !.toa_sum_ms = S3]
      <4> HIDE DEF t3, m3
      <4> QED BY <1>t, <2>1, <3>1, UpdatedAhead
    <3>3. S3 \in [Places -> Nat]
      BY <1>t, ErasedTyped
    <3>4. x \in Places /\ Back(idx, x) = Buckets - m - stop
      BY <1>12, <1>7, <1>t, After
    <3>5. S3[x] = 0
      <4>1. ~ Back(idx, x) <= Buckets - 1 - m3
        BY <3>4, <1>7, <1>12, <1>c
      <4> HIDE DEF x, m3
      <4> QED BY <1>t, <3>1, <3>4, <4>1, ErasedBack
    <3>6. S[x] # 0
      <4>1. now.toa_sum_ms[x] # 0 \/ x = idx
        BY <1>12 DEF K
      <4>2. x # idx
        <5>1. Back(idx, idx) = 0
          BY <1>7, <1>t, Backwards
        <5>2. Back(idx, x) # 0
          BY <3>4, <3>1, <1>7, <1>12, <1>c
        <5> QED BY <5>1, <5>2
      <4> QED BY <4>1, <4>2, <1>10
    <3>7. ASSUME NEW i \in Places PROVE S3[i] <= S[i]
      <4> DEFINE d == Back(idx, i)
      <4>1. d \in 0 .. Buckets - 1
        BY <1>7, <1>t, Backwards
      <4>2. S[i] = IF d <= Buckets - 1 - m THEN band.toa_sum_ms[i] ELSE 0
        BY <1>t, <1>7, ErasedBack
      <4>3. S3[i] = IF d <= Buckets - 1 - m3 THEN band.toa_sum_ms[i] ELSE 0
        <5> HIDE DEF m3
        <5> QED BY <1>t, <3>1, ErasedBack
      <4>4. d <= Buckets - 1 - m3 => d <= Buckets - 1 - m
        BY <4>1, <1>7, <1>12, <1>c
      <4>5. band.toa_sum_ms[i] \in Nat
        BY <1>t
      <4> HIDE DEF S, S3, d, m3
      <4> QED BY <4>2, <4>3, <4>4, <4>5
    <3> HIDE DEF S, S3, x, m3, t3
    <3>8. S3[x] < S[x]
      <4>1. S[x] \in Nat
        BY <1>10, <3>4
      <4> QED BY <3>5, <3>6, <4>1
    <3>9. Resolution * Total(S3, Places) < Resolution * Total(S, Places)
      BY <1>10, <3>3, <3>4, <3>7, <3>8, ConsumesLess
    <3>10. Updated(t3).toa_sum_ms = S3
      BY <1>t, <3>2 DEF Band
    <3> HIDE DEF now
    <3> QED BY <1>10, <3>3, <3>9, <3>10, ConsumedOf DEF t3
  <2> QED BY <2>2, <2>3
<1> QED BY <1>16, <1>17

\* A full band frees time exactly when get_next_free_time_ms says, neither a tick earlier nor
\* later, unless the clock wrapped since the last sum.
THEOREM WaitExact ==
    Spec => []WaitsExactly
<1>1. Init => Typed
  BY InvInit DEF Inv
<1>2. Typed /\ [Next]_vars => Typed'
  BY TypedStep
<1>3. Spec => []Typed
  BY <1>1, <1>2, PTL DEF Spec
<1> QED BY <1>3, TypedWaits, PTL
=============================================================================
