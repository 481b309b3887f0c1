---------------------------- MODULE NumberFacts ----------------------------
(***************************************************************************)
(* What the proofs need to know of numbers: a set of them has a least      *)
(* element, % may be taken before or after an addition, and what           *)
(* SumFunctionOnSet, the sum of a function's values over a set, does when  *)
(* an element is taken out or a value changes.  The community modules      *)
(* define that sum by a recursive function on the subsets, so its equation *)
(* must first be shown to have a solution.                                 *)
(***************************************************************************)
EXTENDS Integers, Functions, FiniteSetTheorems, NaturalsInduction,
        WellFoundedInduction, TLAPS

\* A set of numbers that is not empty has a least element.
LEMMA LeastNat ==
    ASSUME NEW T, T \subseteq Nat, T # {}
    PROVE  \E n \in T : \A m \in T : n <= m
<1> DEFINE Less == { ss \in Nat \X Nat : ss[1] < ss[2] }
<1>1. OpToRel(<, Nat) = Less
  BY DEF OpToRel
<1>2. IsWellFoundedOn(Less, Nat)
  BY <1>1, NatLessThanWellFounded, Zenon
<1>3. PICK n \in T : \A m \in T : <<m, n>> \notin Less
  <2> HIDE DEF Less
  <2> QED
    BY <1>2, WFMin
<1>4. ASSUME NEW m \in T PROVE n <= m
  <2>1. SUFFICES ASSUME m < n PROVE FALSE
    OBVIOUS
  <2> DEFINE ss == <<m, n>>
  <2>2. ss \in Nat \X Nat /\ ss[1] = m /\ ss[2] = n
    OBVIOUS
  <2>3. ss \in Less
    <3> HIDE DEF ss
    <3> QED
      BY <2>1, <2>2
  <2> QED
    BY <1>3, <2>3
<1> QED
  BY <1>4

\* The element that the recursion takes first.
Pick(s) == CHOOSE x \in s : TRUE

\* h holds the sums of f over the sets of D.
AddsUp(h, f, D) ==
    \A s \in D : h[s] = IF s = {} THEN 0 ELSE f[Pick(s)] + h[s \ {Pick(s)}]

IsSums(h, f, D) == h \in [D -> Int] /\ AddsUp(h, f, D)

LEMMA PickIn == ASSUME NEW s, s # {} PROVE Pick(s) \in s
BY DEF Pick

\* The subsets with at most n elements.
UpTo(S, n) == { s \in SUBSET S : Cardinality(s) <= n }

LEMMA SumsUpTo ==
    ASSUME NEW S, IsFiniteSet(S), NEW f, \A x \in S : f[x] \in Int,
           NEW n \in Nat
    PROVE  \E h : IsSums(h, f, UpTo(S, n))
<1> DEFINE Bad == { m \in Nat : ~ \E h : IsSums(h, f, UpTo(S, m)) }
<1>1. SUFFICES ASSUME Bad # {} PROVE FALSE
  OBVIOUS
<1>2. PICK m \in Bad : \A k \in Bad : m <= k
  <2>1. Bad \subseteq Nat
    OBVIOUS
  <2> HIDE DEF Bad
  <2> QED  BY <1>1, <2>1, LeastNat
<1>3. \A s \in SUBSET S : /\ IsFiniteSet(s) /\ Cardinality(s) \in Nat
                          /\ Cardinality(s) = 0 <=> s = {}
  BY FS_Subset, FS_CardinalityType, FS_EmptySet
<1>4. CASE m = 0
  <2>1. UpTo(S, 0) = {{}}
    BY <1>3 DEF UpTo
  <2>2. IsSums([s \in {{}} |-> 0], f, {{}})
    BY DEF IsSums, AddsUp
  <2> QED  BY <1>2, <1>4, <2>1, <2>2
<1>5. CASE m # 0
  <2>1. m \in Nat /\ m - 1 \in Nat /\ m - 1 \notin Bad
    BY <1>2, <1>5
  <2>2. PICK h : IsSums(h, f, UpTo(S, m - 1))
    BY <2>1
  <2> DEFINE D == UpTo(S, m - 1)
             g == [s \in UpTo(S, m) |->
                     IF s = {} THEN 0 ELSE f[Pick(s)] + h[s \ {Pick(s)}]]
  <2>3. ASSUME NEW s \in UpTo(S, m), s # {}
        PROVE  Pick(s) \in S /\ s \ {Pick(s)} \in D
    <3>1. s \in SUBSET S /\ Pick(s) \in s /\ Cardinality(s) <= m
      BY <2>3, PickIn DEF UpTo
    <3>2. Cardinality(s \ {Pick(s)}) = Cardinality(s) - 1
      BY <1>3, <3>1, FS_RemoveElement
    <3> QED  BY <1>3, <2>1, <3>1, <3>2 DEF UpTo
  <2>4. \A s \in D : h[s] \in Int
    BY <2>2 DEF IsSums, AddsUp
  <2>5. g \in [UpTo(S, m) -> Int]
    <3> SUFFICES ASSUME NEW s \in UpTo(S, m), s # {}
                 PROVE  f[Pick(s)] + h[s \ {Pick(s)}] \in Int
      OBVIOUS
    <3> QED  BY <2>3, <2>4
  <2>6. \A s \in D : s \in UpTo(S, m) /\ g[s] = h[s]
    <3> SUFFICES ASSUME NEW s \in D PROVE s \in UpTo(S, m) /\ g[s] = h[s]
      OBVIOUS
    <3>1. s \in UpTo(S, m)
      BY <1>3, <2>1 DEF UpTo
    <3>2. h[s] = IF s = {} THEN 0 ELSE f[Pick(s)] + h[s \ {Pick(s)}]
      BY <2>2 DEF IsSums, AddsUp
    <3> QED  BY <3>1, <3>2
  <2>7. ASSUME NEW s \in UpTo(S, m)
        PROVE  g[s] = IF s = {} THEN 0 ELSE f[Pick(s)] + g[s \ {Pick(s)}]
    <3>1. g[s] = IF s = {} THEN 0 ELSE f[Pick(s)] + h[s \ {Pick(s)}]
      OBVIOUS
    <3> HIDE DEF g, D
    <3> QED  BY <2>3, <2>6, <3>1
  <2>8. IsSums(g, f, UpTo(S, m))
    <3> HIDE DEF g
    <3> QED  BY <2>5, <2>7 DEF IsSums, AddsUp
  <2> QED  BY <1>2, <2>8
<1> QED  BY <1>4, <1>5

\* Two functions that have the sums' equation have the same values.
LEMMA SumsUnique ==
    ASSUME NEW S, IsFiniteSet(S), NEW f, NEW g, NEW h,
           AddsUp(g, f, SUBSET S), AddsUp(h, f, SUBSET S)
    PROVE  \A s \in SUBSET S : g[s] = h[s]
<1> DEFINE Bad == { n \in Nat : \E s \in SUBSET S :
                                   Cardinality(s) = n /\ g[s] # h[s] }
<1>1. \A s \in SUBSET S : IsFiniteSet(s) /\ Cardinality(s) \in Nat
  BY FS_Subset, FS_CardinalityType
<1>2. SUFFICES ASSUME Bad # {} PROVE FALSE
  BY <1>1
<1>3. PICK n \in Bad : \A m \in Bad : n <= m
  <2>1. Bad \subseteq Nat
    OBVIOUS
  <2> HIDE DEF Bad
  <2> QED  BY <1>2, <2>1, LeastNat
<1>4. PICK s \in SUBSET S : Cardinality(s) = n /\ g[s] # h[s]
  BY <1>3
<1>5. s # {}
  BY <1>4 DEF AddsUp
<1> DEFINE t == s \ {Pick(s)}
<1>6. Pick(s) \in s /\ t \in SUBSET S /\ Cardinality(t) = n - 1 /\ n \in Nat
  BY <1>1, <1>4, <1>5, PickIn, FS_RemoveElement
<1>7. g[t] # h[t]
  BY <1>4, <1>5, <1>6 DEF AddsUp
<1> HIDE DEF t
<1>8. n - 1 \in Nat
  BY <1>1, <1>6
<1>9. n - 1 \in Bad
  BY <1>6, <1>7, <1>8
<1> HIDE DEF Bad
<1> QED  BY <1>3, <1>6, <1>8, <1>9

\* The sum is the last of the sums over the subsets.
LEMMA SumIsSums ==
    ASSUME NEW S, IsFiniteSet(S), NEW f, \A x \in S : f[x] \in Int
    PROVE  \E h : IsSums(h, f, SUBSET S) /\ SumFunctionOnSet(f, S) = h[S]
<1> DEFINE Solves(h) == h = [s \in SUBSET S |->
                               IF s = {} THEN 0
                               ELSE f[Pick(s)] + h[s \ {Pick(s)}]]
           h == CHOOSE g : Solves(g)
<1>1. SumFunctionOnSet(f, S) = h[S]
  BY DEF SumFunctionOnSet, FoldFunctionOnSet, MapThenFoldSet, Pick
<1>2. UpTo(S, Cardinality(S)) = SUBSET S /\ Cardinality(S) \in Nat
  BY FS_Subset, FS_CardinalityType DEF UpTo
<1>3. \E g : IsSums(g, f, UpTo(S, Cardinality(S)))
  BY <1>2, SumsUpTo
<1>4. PICK g : IsSums(g, f, SUBSET S)
  BY <1>2, <1>3
<1>5. Solves(g)
  BY <1>4 DEF IsSums, AddsUp
<1>6. AddsUp(h, f, SUBSET S)
  <2>1. Solves(h)
    <3> HIDE DEF Solves
    <3> QED  BY <1>5
  <2> HIDE DEF h
  <2> QED  BY <2>1 DEF AddsUp
<1> HIDE DEF h
<1>8. AddsUp(g, f, SUBSET S)
  BY <1>4 DEF IsSums
<1>7. \A s \in SUBSET S : g[s] = h[s]
  BY <1>6, <1>8, SumsUnique
<1> QED  BY <1>1, <1>4, <1>7

-----------------------------------------------------------------------------
(***************************************************************************)
(* The facts about sums.                                                   *)
(***************************************************************************)

\* The sums over the subsets do not depend on the set they were taken from.
LEMMA SumEquation ==
    ASSUME NEW S, IsFiniteSet(S), NEW f, \A x \in S : f[x] \in Int
    PROVE  /\ SumFunctionOnSet(f, S) \in Int
           /\ SumFunctionOnSet(f, S)
                = IF S = {} THEN 0
                  ELSE f[Pick(S)] + SumFunctionOnSet(f, S \ {Pick(S)})
<1>1. PICK h : IsSums(h, f, SUBSET S) /\ SumFunctionOnSet(f, S) = h[S]
  BY SumIsSums
<1>2. h[S] \in Int /\ h[S] = IF S = {} THEN 0 ELSE f[Pick(S)] + h[S \ {Pick(S)}]
  BY <1>1 DEF IsSums, AddsUp
<1>3. CASE S = {}
  BY <1>1, <1>2, <1>3
<1>4. CASE S # {}
  <2> DEFINE T == S \ {Pick(S)}
  <2>1. T \subseteq S /\ IsFiniteSet(T)
    BY FS_Subset
  <2>2. PICK g : IsSums(g, f, SUBSET T) /\ SumFunctionOnSet(f, T) = g[T]
    BY <2>1, SumIsSums
  <2>3. AddsUp(g, f, SUBSET T) /\ AddsUp(h, f, SUBSET T)
    BY <1>1, <2>1, <2>2 DEF IsSums, AddsUp
  <2>4. \A s \in SUBSET T : g[s] = h[s]
    <3> HIDE DEF T
    <3> QED  BY <2>1, <2>3, SumsUnique
  <2>5. g[T] = h[T]
    BY <2>4
  <2> QED  BY <1>1, <1>2, <1>4, <2>2, <2>5
<1> QED  BY <1>3, <1>4

\* Any element can be taken out first.
LEMMA SumRemove ==
    ASSUME NEW S, IsFiniteSet(S), NEW f, \A x \in S : f[x] \in Int,
           NEW a \in S
    PROVE  SumFunctionOnSet(f, S) = f[a] + SumFunctionOnSet(f, S \ {a})
<1> DEFINE Sum(s) == SumFunctionOnSet(f, s)
           Bad == { n \in Nat : \E s \in SUBSET S : \E b \in s :
                       Cardinality(s) = n /\ Sum(s) # f[b] + Sum(s \ {b}) }
<1>1. \A s \in SUBSET S : IsFiniteSet(s) /\ Cardinality(s) \in Nat
  BY FS_Subset, FS_CardinalityType
<1>2. SUFFICES ASSUME Bad # {} PROVE FALSE
  BY <1>1
<1>3. PICK n \in Bad : \A m \in Bad : n <= m
  <2>1. Bad \subseteq Nat
    OBVIOUS
  <2> HIDE DEF Bad
  <2> QED  BY <1>2, <2>1, LeastNat
<1>13. PICK s \in SUBSET S : \E b \in s :
          Cardinality(s) = n /\ Sum(s) # f[b] + Sum(s \ {b})
  BY <1>3
<1>4. PICK b \in s : Cardinality(s) = n /\ Sum(s) # f[b] + Sum(s \ {b})
  BY <1>13
<1>5. ASSUME NEW t \in SUBSET S
      PROVE  /\ Sum(t) \in Int
             /\ t # {} => Sum(t) = f[Pick(t)] + Sum(t \ {Pick(t)})
  BY <1>1, SumEquation
<1> HIDE DEF Sum
<1> DEFINE c == Pick(s)
<1>6. c \in s /\ c # b
  BY <1>4, <1>5, PickIn
<1> HIDE DEF c
<1>7. n \in Nat /\ n - 1 \in Nat /\ n - 1 \notin Bad
  <2>1. n \in Nat /\ ~(n <= n - 1)
    BY <1>3
  <2>2. n # 0
    BY <1>1, <1>4, FS_EmptySet
  <2> HIDE DEF Bad
  <2> QED  BY <1>3, <2>1, <2>2
<1>8. ASSUME NEW x \in s, NEW y \in s, x # y
      PROVE  Sum(s \ {x}) = f[y] + Sum((s \ {x}) \ {y})
  <2>1. Cardinality(s \ {x}) = n - 1 /\ y \in s \ {x} /\ s \ {x} \in SUBSET S
    BY <1>1, <1>4, <1>8, FS_RemoveElement
  <2> QED  BY <1>7, <2>1
<1>9. (s \ {c}) \ {b} = (s \ {b}) \ {c}
  OBVIOUS
<1> DEFINE d == (s \ {b}) \ {c}
<1>10. Sum(s \ {c}) = f[b] + Sum(d) /\ Sum(s \ {b}) = f[c] + Sum(d)
  BY <1>6, <1>8, <1>9
<1>11. Sum(s) = f[c] + Sum(s \ {c})
  BY <1>4, <1>5 DEF c
<1>12. Sum(d) \in Int /\ f[b] \in Int /\ f[c] \in Int
  BY <1>5, <1>6
<1> HIDE DEF d
<1> QED  BY <1>4, <1>10, <1>11, <1>12

\* Functions that agree on the set have the same sum.
LEMMA SumSame ==
    ASSUME NEW S, IsFiniteSet(S), NEW f, NEW g,
           \A x \in S : f[x] \in Int /\ g[x] = f[x]
    PROVE  SumFunctionOnSet(f, S) = SumFunctionOnSet(g, S)
<1>1. PICK h : IsSums(h, f, SUBSET S) /\ SumFunctionOnSet(f, S) = h[S]
  BY SumIsSums
<1>2. PICK k : IsSums(k, g, SUBSET S) /\ SumFunctionOnSet(g, S) = k[S]
  BY SumIsSums
<1>3. AddsUp(h, f, SUBSET S)
  BY <1>1 DEF IsSums
<1>4. AddsUp(k, f, SUBSET S)
  <2> SUFFICES ASSUME NEW s \in SUBSET S
               PROVE  k[s] = IF s = {} THEN 0
                             ELSE f[Pick(s)] + k[s \ {Pick(s)}]
    BY DEF AddsUp
  <2>1. k[s] = IF s = {} THEN 0 ELSE g[Pick(s)] + k[s \ {Pick(s)}]
    BY <1>2 DEF IsSums, AddsUp
  <2>2. s # {} => g[Pick(s)] = f[Pick(s)]
    BY PickIn
  <2> QED  BY <2>1, <2>2
<1>5. \A s \in SUBSET S : h[s] = k[s]
  BY <1>3, <1>4, SumsUnique
<1> QED  BY <1>1, <1>2, <1>5

\* A change of one value changes the sum by as much.
LEMMA SumChange ==
    ASSUME NEW S, IsFiniteSet(S), NEW f, NEW g, NEW a \in S,
           \A x \in S : f[x] \in Int /\ g[x] \in Int,
           \A x \in S \ {a} : g[x] = f[x]
    PROVE  /\ SumFunctionOnSet(f, S) \in Int
           /\ SumFunctionOnSet(g, S)
                = SumFunctionOnSet(f, S) - f[a] + g[a]
<1> DEFINE T == S \ {a}
<1>1. IsFiniteSet(T)
  BY FS_Subset
<1>2. SumFunctionOnSet(f, T) = SumFunctionOnSet(g, T)
  <2>1. \A x \in T : f[x] \in Int /\ g[x] = f[x]
    OBVIOUS
  <2> HIDE DEF T
  <2> QED  BY <1>1, <2>1, SumSame
<1>3. SumFunctionOnSet(f, T) \in Int
  <2>1. \A x \in T : f[x] \in Int
    OBVIOUS
  <2> HIDE DEF T
  <2> QED  BY <1>1, <2>1, SumEquation
<1>4. /\ SumFunctionOnSet(f, S) = f[a] + SumFunctionOnSet(f, T)
      /\ SumFunctionOnSet(g, S) = g[a] + SumFunctionOnSet(g, T)
  BY SumRemove
<1> QED  BY <1>2, <1>3, <1>4

\* The sum of ones is their number.
LEMMA SumOfOnes ==
    ASSUME NEW S, IsFiniteSet(S), NEW f, \A x \in S : f[x] = 1
    PROVE  SumFunctionOnSet(f, S) = Cardinality(S)
<1> DEFINE Bad == { n \in Nat : \E s \in SUBSET S :
                       Cardinality(s) = n /\ SumFunctionOnSet(f, s) # n }
<1>1. \A s \in SUBSET S : IsFiniteSet(s) /\ Cardinality(s) \in Nat
  BY FS_Subset, FS_CardinalityType
<1>2. SUFFICES ASSUME Bad # {} PROVE FALSE
  BY <1>1
<1>3. PICK n \in Bad : \A m \in Bad : n <= m
  <2>1. Bad \subseteq Nat
    OBVIOUS
  <2> HIDE DEF Bad
  <2> QED  BY <1>2, <2>1, LeastNat
<1>4. PICK s \in SUBSET S : Cardinality(s) = n /\ SumFunctionOnSet(f, s) # n
  BY <1>3
<1>5. IsFiniteSet(s) /\ \A x \in s : f[x] \in Int /\ f[x] = 1
  BY <1>1
<1>6. SumFunctionOnSet(f, s)
        = IF s = {} THEN 0 ELSE f[Pick(s)] + SumFunctionOnSet(f, s \ {Pick(s)})
  BY <1>5, SumEquation
<1>7. s # {}
  BY <1>4, <1>6, FS_EmptySet
<1> DEFINE t == s \ {Pick(s)}
<1>8. /\ Pick(s) \in s /\ t \in SUBSET S /\ Cardinality(t) = n - 1
      /\ n \in Nat /\ Cardinality(t) \in Nat
  BY <1>1, <1>4, <1>7, PickIn, FS_RemoveElement
<1>9. n - 1 \notin Bad
  <2> HIDE DEF Bad
  <2> QED  BY <1>3, <1>8
<1>10. SumFunctionOnSet(f, t) = n - 1
  BY <1>8, <1>9
<1>11. SumFunctionOnSet(f, s) = 1 + SumFunctionOnSet(f, t)
  BY <1>5, <1>6, <1>7, <1>8
<1> HIDE DEF t, Bad
<1> QED  BY <1>4, <1>8, <1>10, <1>11

-----------------------------------------------------------------------------
(***************************************************************************)
(* Counting modulo m.                                                      *)
(***************************************************************************)
LEMMA DivMod ==
    ASSUME NEW m \in Nat \ {0}, NEW i \in Int
    PROVE  /\ i = m * (i \div m) + (i % m)
           /\ i % m \in 0 .. m - 1 /\ i \div m \in Int
OBVIOUS

LEMMA ModIs ==
    ASSUME NEW m \in Nat \ {0}, NEW i \in Int, NEW q \in Int,
           NEW r \in 0 .. m - 1, i = m * q + r
    PROVE  i % m = r
OBVIOUS

LEMMA ModOfSmall ==
    ASSUME NEW m \in Nat \ {0}, NEW i \in 0 .. m - 1
    PROVE  i % m = i
OBVIOUS

\* It does not matter if a summand is taken modulo m first.
LEMMA ModOfMod ==
    ASSUME NEW m \in Nat \ {0}, NEW i \in Int, NEW k \in Int
    PROVE  ((i % m) + k) % m = (i + k) % m
<1>1. PICK q \in Int, r \in 0 .. m - 1 : i = m * q + r /\ i % m = r
  <2>1. i = m * (i \div m) + (i % m) /\ i % m \in 0 .. m - 1 /\ i \div m \in Int
    BY DivMod
  <2> QED  BY <2>1
<1>0. r + k \in Int
  OBVIOUS
<1>2. PICK p \in Int, s \in 0 .. m - 1 : r + k = m * p + s /\ (r + k) % m = s
  <2> DEFINE j == r + k
  <2>0. j \in Int
    BY <1>0
  <2> HIDE DEF j
  <2>1. j = m * (j \div m) + (j % m) /\ j % m \in 0 .. m - 1 /\ j \div m \in Int
    BY <2>0, DivMod
  <2>2. \E p \in Int, s \in 0 .. m - 1 : j = m * p + s /\ j % m = s
    BY <2>1
  <2> QED  BY <2>2 DEF j
<1>3. m * (q + p) = m * q + m * p
  OBVIOUS
<1>4. PICK u \in Int : u = q + p
  OBVIOUS
<1>5. PICK v \in Int : v = i + k
  OBVIOUS
<1>6. m * q \in Int /\ m * p \in Int /\ m * u \in Int /\ s \in Int
  OBVIOUS
<1>7. v = m * u + s
  BY <1>1, <1>2, <1>3, <1>4, <1>5, <1>6
<1>8. v % m = s
  BY <1>7, ModIs
<1> QED  BY <1>1, <1>2, <1>5, <1>8
=============================================================================
