---------------------------- MODULE CountingLemmas ----------------------------
(***************************************************************************)
(* Facts about naturals, finite sets and sums that the proofs of several   *)
(* components rest on: induction, in the form of a set of naturals, what   *)
(* Max and Min choose, and what the recursive SumFunction of the community *)
(* modules adds up to.                                                     *)
(***************************************************************************)
EXTENDS Integers, FiniteSetsExt, Functions, FiniteSetTheorems, WellFoundedInduction, TLAPS

-----------------------------------------------------------------------------
(* Induction over the naturals, on sets of them.                           *)

LEMMA Least ==
   ASSUME NEW T, T \subseteq Nat, T # {}
   PROVE \E m \in T : \A n \in T : m <= n
<1> DEFINE R == {ss \in Nat \X Nat : ss[1] < ss[2]}
<1>1. IsWellFoundedOn(R, Nat)
  BY NatLessThanWellFounded DEF OpToRel
<1>2. \E x \in T : \A y \in T : ~ (<<y, x>> \in R)
  <2> HIDE DEF R
  <2> QED BY <1>1, WFMin
<1>3. PICK m \in T : \A y \in T : ~ (<<y, m>> \in R)
  BY <1>2
<1>4. ASSUME NEW n \in T PROVE m <= n
  <2>1. ~(n < m)
    BY <1>3 
  <2> QED BY <2>1
<1> QED BY <1>4

LEMMA Induction ==
   ASSUME NEW T, 0 \in T, \A n \in Nat : n \in T => n + 1 \in T
   PROVE Nat \subseteq T
<1> DEFINE U == Nat \ T
<1> SUFFICES ASSUME U # {} PROVE FALSE
  OBVIOUS
<1>1. PICK m \in U : \A n \in U : m <= n
  BY Least
<1>2. m # 0 /\ m - 1 \in Nat
  OBVIOUS
<1>3. m - 1 \in T
  BY <1>1, <1>2
<1> QED
  BY <1>2, <1>3

Some(s) == CHOOSE x \in s : TRUE
SumStep(f, g) == [s \in SUBSET DOMAIN f |-> IF s = {} THEN 0 ELSE f[Some(s)] + g[s \ {Some(s)}]]

LEMMA Unfold ==
  ASSUME NEW f
  PROVE  SumFunction(f) = (CHOOSE g : g = SumStep(f, g))[DOMAIN f]
 BY DEF SumFunction, SumFunctionOnSet, FoldFunctionOnSet, MapThenFoldSet, SumStep, Some

LEMMA SumExists ==
  ASSUME NEW S, IsFiniteSet(S), NEW f \in [S -> Int]
  PROVE  \E g : g = SumStep(f, g)
<1> DEFINE Upto(g, n) == \A s \in SUBSET S : Cardinality(s) <= n => g[s] = SumStep(f, g)[s]
           T == {n \in Nat : \E g \in [SUBSET S -> Int] : Upto(g, n)}
<1>0. \A s \in SUBSET S : s # {} => 
          /\ Some(s) \in s /\ f[Some(s)] \in Int
          /\ s \ {Some(s)} \in SUBSET S
          /\ Cardinality(s \ {Some(s)}) = Cardinality(s) - 1
          /\ Cardinality(s) \in Nat
  <2> TAKE s \in SUBSET S
  <2> HAVE s # {}
  <2>1. Some(s) \in s
    BY DEF Some
  <2>2. IsFiniteSet(s)
    BY FS_Subset
  <2> QED BY <2>1, <2>2, FS_RemoveElement, FS_CardinalityType
<1>00. \A g \in [SUBSET S -> Int] : SumStep(f, g) \in [SUBSET S -> Int]
  <2> TAKE g \in [SUBSET S -> Int]
  <2>1. ASSUME NEW s \in SUBSET S PROVE (IF s = {} THEN 0 ELSE f[Some(s)] + g[s \ {Some(s)}]) \in Int
    <3>1. CASE s # {}
      <4>1. f[Some(s)] \in Int /\ g[s \ {Some(s)}] \in Int
        BY <1>0, <3>1
      <4> QED BY <4>1
    <3> QED BY <3>1
  <2>2. DOMAIN f = S
    OBVIOUS
  <2> QED BY <2>1, <2>2 DEF SumStep
<1>1. 0 \in T
  <2>1. \A s \in SUBSET S : Cardinality(s) <= 0 => s = {}
    BY FS_Subset, FS_EmptySet, FS_CardinalityType
  <2> DEFINE g == [s \in SUBSET S |-> 0]
  <2>2. Upto(g, 0) 
    BY <2>1 DEF SumStep
  <2>3. g \in [SUBSET S -> Int]
    OBVIOUS
  <2> HIDE DEF g, Upto
  <2> QED BY <2>2, <2>3
<1>2. ASSUME NEW n \in Nat, n \in T PROVE n + 1 \in T
  <2>1. PICK g \in [SUBSET S -> Int] : Upto(g, n)
    BY <1>2
  <2> DEFINE h == SumStep(f, g)
  <2>2. ASSUME NEW s \in SUBSET S, Cardinality(s) <= n + 1 PROVE h[s] = SumStep(f, h)[s]
    <3>1. CASE s = {}
      BY <3>1 DEF SumStep
    <3>2. CASE s # {}
      <4> DEFINE t == s \ {Some(s)}
      <4>1. t \in SUBSET S /\ Cardinality(t) <= n
        BY <1>0, <2>2, <3>2
      <4>2. g[t] = h[t]
        BY <4>1, <2>1
      <4>3. h[s] = f[Some(s)] + g[t] /\ SumStep(f, h)[s] = f[Some(s)] + h[t]
        BY <3>2 DEF SumStep
      <4> QED BY <4>2, <4>3
    <3> QED BY <3>1, <3>2
  <2>3. h \in [SUBSET S -> Int]
    BY <1>00
  <2> QED BY <2>2, <2>3
<1>3. Cardinality(S) \in T
  <2> HIDE DEF T
  <2> QED BY <1>1, <1>2, Induction, FS_CardinalityType
<1>4. PICK g \in [SUBSET S -> Int] : Upto(g, Cardinality(S))
  BY <1>3
<1>5. \A s \in SUBSET S : g[s] = SumStep(f, g)[s]
  BY <1>4, FS_Subset
<1>6. SumStep(f, g) = [s \in SUBSET S |-> SumStep(f, g)[s]]
  BY <1>00
<1> QED BY <1>5, <1>6, <1>00

LEMMA SumBounds ==
  ASSUME NEW S, IsFiniteSet(S), NEW low \in Int, NEW high \in Int, NEW f \in [S -> Int],
         \A x \in S : low <= f[x] /\ f[x] <= high
  PROVE  /\ SumFunction(f) \in Int
         /\ low * Cardinality(S) <= SumFunction(f)
         /\ SumFunction(f) <= high * Cardinality(S)
<1> DEFINE g == CHOOSE h : h = SumStep(f, h)
<1>1. g = SumStep(f, g)
  BY SumExists
<1>2. SumFunction(f) = g[S]
  BY Unfold
<1> HIDE DEF g
<1> DEFINE Within(s) == /\ g[s] \in Int
                        /\ low * Cardinality(s) <= g[s]
                        /\ g[s] <= high * Cardinality(s)
           T == {n \in Nat : \A s \in SUBSET S : Cardinality(s) = n => Within(s)}
<1>3. 0 \in T
  <2>1. \A s \in SUBSET S : Cardinality(s) = 0 => s = {}
    BY FS_Subset, FS_EmptySet
  <2>2. g[{}] = 0
    BY <1>1 DEF SumStep
  <2>3. Within({})
    BY <2>2, FS_EmptySet
  <2> HIDE DEF Within
  <2> QED BY <2>1, <2>3
<1>4. ASSUME NEW n \in Nat, n \in T PROVE n + 1 \in T
  <2> SUFFICES ASSUME NEW s \in SUBSET S, Cardinality(s) = n + 1 PROVE Within(s)
    OBVIOUS
  <2> DEFINE x == Some(s)
             t == s \ {x}
  <2>0. IsFiniteSet(s) /\ s # {}
    BY FS_Subset, FS_EmptySet
  <2>1. x \in s
    BY <2>0 DEF Some
  <2>2. t \in SUBSET S /\ Cardinality(t) = n
    <3> HIDE DEF x
    <3>1. Cardinality(t) = Cardinality(s) - 1
      BY <2>0, <2>1, FS_RemoveElement
    <3> QED BY <3>1
  <2>3. Within(t)
    BY <2>2, <1>4
  <2>4. g[s] = f[x] + g[t]
    BY <1>1, <2>0 DEF SumStep
  <2>5. f[x] \in Int /\ low <= f[x] /\ f[x] <= high
    BY <2>1
  <2> HIDE DEF x, t
  <2>6. g[t] \in Int /\ low * n <= g[t] /\ g[t] <= high * n
    BY <2>2, <2>3
  <2>7. low * (n + 1) = low * n + low /\ high * (n + 1) = high * n + high
    OBVIOUS
  <2>8. low * n \in Int /\ high * n \in Int
    OBVIOUS
  <2> QED BY <2>4, <2>5, <2>6, <2>7, <2>8
<1>5. Cardinality(S) \in T
  <2> HIDE DEF T
  <2> QED BY <1>3, <1>4, Induction, FS_CardinalityType
<1> QED BY <1>2, <1>5

(* The order in which SumFunction picks its terms does not matter: any one *)
(* may be taken out.                                                       *)
LEMMA SumSplit ==
  ASSUME NEW S, IsFiniteSet(S), NEW f \in [S -> Int], NEW x \in S
  PROVE  /\ SumFunction(f) \in Int
         /\ SumFunction([y \in S \ {x} |-> f[y]]) \in Int
         /\ SumFunction(f) = f[x] + SumFunction([y \in S \ {x} |-> f[y]])
<1> DEFINE R == S \ {x}
           h == [y \in R |-> f[y]]
           g == CHOOSE u : u = SumStep(f, u)
           k == CHOOSE u : u = SumStep(h, u)
<1>1. IsFiniteSet(R) /\ R \subseteq S
  BY FS_Subset
<1>2. g = SumStep(f, g)
  BY SumExists
<1>3. h \in [R -> Int]
  OBVIOUS
<1>4. k = SumStep(h, k)
  <2> HIDE DEF h, R
  <2> QED BY <1>1, <1>3, SumExists
<1>5. SumFunction(f) = g[S] /\ SumFunction(h) = k[R]
  BY Unfold
<1> HIDE DEF g, k
<1>6. \A s \in SUBSET S : s # {} =>
        /\ Some(s) \in s /\ f[Some(s)] \in Int
        /\ s \ {Some(s)} \in SUBSET S
        /\ Cardinality(s \ {Some(s)}) = Cardinality(s) - 1
        /\ Cardinality(s) \in Nat
        /\ g[s] = f[Some(s)] + g[s \ {Some(s)}]
  <2> TAKE s \in SUBSET S
  <2> HAVE s # {}
  <2>1. Some(s) \in s
    BY DEF Some
  <2>2. IsFiniteSet(s)
    BY FS_Subset
  <2>3. g[s] = f[Some(s)] + g[s \ {Some(s)}]
    BY <1>2 DEF SumStep
  <2> QED BY <2>1, <2>2, <2>3, FS_RemoveElement, FS_CardinalityType
<1>7. g[{}] = 0
  BY <1>2 DEF SumStep
<1>8. \A s \in SUBSET R : k[s] = IF s = {} THEN 0 ELSE f[Some(s)] + k[s \ {Some(s)}]
  <2> TAKE s \in SUBSET R
  <2>1. DOMAIN h = R
    OBVIOUS
  <2>2. k[s] = IF s = {} THEN 0 ELSE h[Some(s)] + k[s \ {Some(s)}]
    BY <1>4, <2>1 DEF SumStep
  <2>3. s # {} => Some(s) \in R
    BY DEF Some
  <2> QED BY <2>2, <2>3
<1> HIDE DEF h
<1> DEFINE Fits(s) == /\ g[s] \in Int
                      /\ s \subseteq R => k[s] = g[s]
                      /\ \A y \in s : g[s] = f[y] + g[s \ {y}]
           T == {n \in Nat : \A s \in SUBSET S : Cardinality(s) <= n => Fits(s)}
<1>9. Fits({})
  <2>1. k[{}] = 0
    BY <1>8
  <2> QED BY <2>1, <1>7
<1>10. 0 \in T
  <2>1. \A s \in SUBSET S : Cardinality(s) <= 0 => s = {}
    BY FS_Subset, FS_EmptySet, FS_CardinalityType
  <2> HIDE DEF Fits
  <2> QED BY <2>1, <1>9
<1>11. ASSUME NEW n \in Nat, n \in T PROVE n + 1 \in T
  <2> SUFFICES ASSUME NEW s \in SUBSET S, Cardinality(s) <= n + 1 PROVE Fits(s)
    OBVIOUS
  <2>e. CASE s = {}
    BY <2>e, <1>9
  <2> SUFFICES ASSUME s # {} PROVE Fits(s)
    BY <2>e
  <2> DEFINE c == Some(s)
             t == s \ {c}
  <2>0. IsFiniteSet(s) /\ s # {} /\ Cardinality(s) \in Nat
    BY FS_Subset, FS_CardinalityType
  <2>1. c \in s /\ f[c] \in Int /\ t \in SUBSET S /\ Cardinality(t) <= n /\ g[s] = f[c] + g[t]
    BY <1>6, <2>0
  <2>2. Fits(t)
    BY <2>1, <1>11
  <2>3. s \subseteq R => k[s] = f[c] + k[t]
    BY <1>8, <2>0
  <2>4. ASSUME NEW y \in s PROVE g[s] = f[y] + g[s \ {y}]
    <3>1. CASE c = y
      BY <3>1, <2>1
    <3>2. CASE c # y
      <4> DEFINE r == s \ {y}
      <4>1. r \in SUBSET S /\ Cardinality(r) <= n /\ Cardinality(r) \in Nat
        <5>1. Cardinality(r) = Cardinality(s) - 1
          BY <2>0, FS_RemoveElement
        <5>2. Cardinality(r) \in Nat
          BY <2>0, FS_Subset, FS_CardinalityType
        <5> HIDE DEF Fits
        <5> QED BY <5>1, <5>2, <2>0
      <4>2. c \in r /\ y \in t /\ t \ {y} = r \ {c}
        BY <2>1, <3>2
      <4>3. Fits(r)
        BY <4>1, <1>11
      <4>4. r \ {c} \in SUBSET S /\ Cardinality(r \ {c}) <= n
        <5>1. IsFiniteSet(r)
          BY <2>0, FS_Subset
        <5>2. Cardinality(r \ {c}) = Cardinality(r) - 1
          <6> HIDE DEF c, r
          <6> QED BY <5>1, <4>2, FS_RemoveElement
        <5> QED BY <5>2, <4>1
      <4>5. Fits(r \ {c})
        BY <4>4, <1>11
      <4>6. g[r] = f[c] + g[r \ {c}] /\ g[t] = f[y] + g[t \ {y}]
        BY <4>2, <4>3, <2>2
      <4>7. g[r \ {c}] \in Int /\ f[y] \in Int
        BY <4>5
      <4> DEFINE u == g[r \ {c}]
      <4>8. g[s] = f[c] + g[t] /\ f[c] \in Int
        BY <2>1
      <4>9. g[t] = f[y] + u /\ g[r] = f[c] + u /\ u \in Int
        BY <4>2, <4>6, <4>7
      <4>10. g[s] = f[y] + g[r]
        <5> HIDE DEF c, t, r, u, Fits
        <5> QED BY <4>7, <4>8, <4>9
      <4> QED BY <4>10
    <3> QED BY <3>1, <3>2
  <2>5. s \subseteq R => t \subseteq R
    OBVIOUS
  <2>6. g[s] \in Int
    BY <2>1, <2>2
  <2>7. s \subseteq R => k[s] = g[s]
    BY <2>1, <2>2, <2>3, <2>5
  <2> QED BY <2>4, <2>6, <2>7
<1>12. \A s \in SUBSET S : Fits(s)
  <2> TAKE s \in SUBSET S
  <2>1. Cardinality(s) \in Nat
    BY FS_Subset, FS_CardinalityType
  <2>2. Cardinality(s) \in T
    <3> HIDE DEF T
    <3> QED BY <2>1, <1>10, <1>11, Induction
  <2> HIDE DEF Fits
  <2> QED BY <2>1, <2>2
<1>13. Fits(S) /\ Fits(R)
  BY <1>1, <1>12
<1>14. f[x] \in Int
  OBVIOUS
<1> QED BY <1>5, <1>13, <1>14 DEF h

-----------------------------------------------------------------------------
(* Chosen members and images.                                              *)

LEMMA Largest ==
    ASSUME NEW S, S \subseteq Nat, S # {}, NEW bound \in Nat, \A x \in S : x <= bound
    PROVE  Max(S) \in S /\ \A x \in S : x <= Max(S)
<1> DEFINE T == {bound - x : x \in S}
<1>1. T \subseteq Nat /\ T # {}
  <2>1. \A x \in S : bound - x \in Nat
    OBVIOUS
  <2> QED BY <2>1
<1>2. PICK m \in T : \A n \in T : m <= n
  BY <1>1, Least
<1>3. PICK x \in S : m = bound - x
  BY <1>2
<1>4. \A y \in S : x >= y
  BY <1>2, <1>3
<1> QED
  BY <1>3, <1>4 DEF Max

LEMMA Smallest ==
    ASSUME NEW S, S \subseteq Nat, S # {}
    PROVE  Min(S) \in S /\ \A x \in S : Min(S) <= x
  BY Least DEF Min

LEMMA MaxOfTwo ==
    ASSUME NEW a \in Int, NEW b \in Int
    PROVE  Max({a, b}) = IF a >= b THEN a ELSE b
  BY DEF Max

LEMMA MinOfTwo ==
    ASSUME NEW a \in Int, NEW b \in Int
    PROVE  Min({a, b}) = IF a <= b THEN a ELSE b
  BY DEF Min

LEMMA ImageFinite ==
    ASSUME NEW S, IsFiniteSet(S), NEW f
    PROVE  IsFiniteSet({f[x] : x \in S})
<1> DEFINE T == {f[x] : x \in S}
           g == [x \in S |-> f[x]]
<1>1. g \in Surjection(S, T)
  BY DEF Surjection
<1> QED
  BY <1>1, FS_Surjection
=============================================================================
