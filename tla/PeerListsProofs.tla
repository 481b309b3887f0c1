-------------------------- MODULE PeerListsProofs --------------------------
(***************************************************************************)
(* The arithmetic of total_weight: how the weight of a list changes when   *)
(* a peer is put before it (add.c), taken out of it (del.c) or replaced    *)
(* (mdf.c).  WeightsUpTo is a recursive function, so its defining equation *)
(* must first be shown to have a solution; both its existence and its      *)
(* uniqueness are by the least index at which they would fail.             *)
(***************************************************************************)
EXTENDS PeerLists, NumberFacts, SequenceTheorems

\* f holds the weights of the first 0, 1, ..., n peers of s.
IsWeights(f, s, n) ==
    /\ f \in [0 .. n -> Int]
    /\ f[0] = 0
    /\ \A i \in 1 .. n : f[i] = f[i - 1] + s[i].weight

\* Sequences of records with an integer weight.
Weighted(s) == \A i \in 1 .. Len(s) : s[i].weight \in Int

\* There is a function of the weights of the first n peers.
LEMMA WeightsExist ==
    ASSUME NEW S, NEW s \in Seq(S), Weighted(s),
           NEW n \in 0 .. Len(s)
    PROVE  \E f : IsWeights(f, s, n)
<1> DEFINE Bad == { m \in 0 .. Len(s) : ~ \E f : IsWeights(f, s, m) }
<1>1. SUFFICES Bad = {}
  OBVIOUS
<1>2. SUFFICES ASSUME Bad # {} PROVE FALSE
  OBVIOUS
<1>3. PICK m \in Bad : \A k \in Bad : m <= k
  <2>1. Bad \subseteq Nat
    OBVIOUS
  <2> HIDE DEF Bad
  <2> QED
    BY <1>2, <2>1, LeastNat
<1>4. m \in 0 .. Len(s) /\ Len(s) \in Nat
  OBVIOUS
<1>5. CASE m = 0
  <2>1. IsWeights([i \in 0 .. 0 |-> 0], s, 0)
    BY DEF IsWeights
  <2> QED
    BY <2>1, <1>5
<1>6. CASE m # 0
  <2>1. m - 1 \in 0 .. Len(s) /\ m - 1 \notin Bad
    BY <1>3, <1>4, <1>6
  <2>2. PICK f : IsWeights(f, s, m - 1)
    BY <2>1
  <2> DEFINE g == [i \in 0 .. m |-> IF i = m THEN f[m - 1] + s[m].weight
                                    ELSE f[i]]
  <2>3. s[m].weight \in Int
    BY <1>4, <1>6 DEF Weighted
  <2>4. g \in [0 .. m -> Int]
    BY <2>2, <2>3, <1>4, <1>6 DEF IsWeights
  <2>5. g[0] = 0
    BY <2>2, <1>4, <1>6 DEF IsWeights
  <2>6. ASSUME NEW i \in 1 .. m PROVE g[i] = g[i - 1] + s[i].weight
    BY <2>2, <1>4, <1>6 DEF IsWeights
  <2>7. IsWeights(g, s, m)
    BY <2>4, <2>5, <2>6 DEF IsWeights
  <2> QED
    BY <2>7
<1> QED
  BY <1>5, <1>6

\* Two functions of the weights of the same peers are equal.
LEMMA WeightsUnique ==
    ASSUME NEW S, NEW s \in Seq(S), Weighted(s),
           NEW f, IsWeights(f, s, Len(s)),
           NEW g, IsWeights(g, s, Len(s)),
           NEW n \in 0 .. Len(s)
    PROVE  f[n] = g[n]
<1> DEFINE Bad == { m \in 0 .. Len(s) : f[m] # g[m] }
<1>1. SUFFICES ASSUME Bad # {} PROVE FALSE
  OBVIOUS
<1>2. PICK m \in Bad : \A k \in Bad : m <= k
  <2>1. Bad \subseteq Nat
    OBVIOUS
  <2> HIDE DEF Bad
  <2> QED
    BY <1>1, <2>1, LeastNat
<1>3. m \in 0 .. Len(s) /\ Len(s) \in Nat /\ f[m] # g[m]
  OBVIOUS
<1>4. m # 0
  BY <1>3 DEF IsWeights
<1>5. f[m - 1] = g[m - 1]
  BY <1>2, <1>3, <1>4
<1>6. f[m] = f[m - 1] + s[m].weight /\ g[m] = g[m - 1] + s[m].weight
  BY <1>3, <1>4 DEF IsWeights
<1> QED
  BY <1>3, <1>5, <1>6

\* WeightsUpTo(s) is the function of the weights of s.
LEMMA WeightsUpToIsWeights ==
    ASSUME NEW S, NEW s \in Seq(S), Weighted(s)
    PROVE  IsWeights(WeightsUpTo(s), s, Len(s))
<1> DEFINE Solves(f) == f = [i \in 0 .. Len(s) |->
                              IF i = 0 THEN 0 ELSE f[i - 1] + s[i].weight]
<1>1. WeightsUpTo(s) = CHOOSE f : Solves(f)
  BY DEF WeightsUpTo
<1>2. PICK f : IsWeights(f, s, Len(s))
  <2>1. Len(s) \in 0 .. Len(s)
    OBVIOUS
  <2> QED
    BY <2>1, WeightsExist
<1>3. Solves(f)
  BY <1>2 DEF IsWeights
<1>4. Solves(WeightsUpTo(s))
  BY <1>1, <1>3
<1> DEFINE w == WeightsUpTo(s)
<1>5. DOMAIN w = 0 .. Len(s) /\ w[0] = 0
  BY <1>4
<1>6. ASSUME NEW i \in 1 .. Len(s) PROVE w[i] = w[i - 1] + s[i].weight
  BY <1>4
<1> DEFINE Bad == { m \in 0 .. Len(s) : w[m] \notin Int }
<1>7. Bad = {}
  <2>1. SUFFICES ASSUME Bad # {} PROVE FALSE
    OBVIOUS
  <2>2. PICK m \in Bad : \A k \in Bad : m <= k
    <3>1. Bad \subseteq Nat
      OBVIOUS
    <3> HIDE DEF Bad
    <3> QED
      BY <2>1, <3>1, LeastNat
  <2>3. m \in 0 .. Len(s) /\ Len(s) \in Nat /\ w[m] \notin Int
    OBVIOUS
  <2>4. m # 0
    BY <2>3, <1>5
  <2>5. w[m - 1] \in Int
    BY <2>2, <2>3, <2>4
  <2>6. w[m] = w[m - 1] + s[m].weight /\ s[m].weight \in Int
    BY <1>6, <2>3, <2>4 DEF Weighted
  <2> QED
    BY <2>3, <2>5, <2>6
<1>8. w \in [0 .. Len(s) -> Int]
  BY <1>4, <1>7
<1> HIDE DEF w
<1>9. IsWeights(w, s, Len(s))
  BY <1>5, <1>6, <1>8 DEF IsWeights
<1> QED
  BY <1>9 DEF w

\* Any function of the weights of s tells the total.
LEMMA TotalByWeights ==
    ASSUME NEW S, NEW s \in Seq(S), Weighted(s),
           NEW f, IsWeights(f, s, Len(s))
    PROVE  Total(s) = f[Len(s)]
<1>1. IsWeights(WeightsUpTo(s), s, Len(s))
  BY WeightsUpToIsWeights
<1>2. Len(s) \in 0 .. Len(s)
  OBVIOUS
<1> QED
  BY <1>1, <1>2, WeightsUnique DEF Total

LEMMA TotalInt ==
    ASSUME NEW S, NEW s \in Seq(S), Weighted(s)
    PROVE  Total(s) \in Int
<1>1. IsWeights(WeightsUpTo(s), s, Len(s))
  BY WeightsUpToIsWeights
<1>2. Len(s) \in 0 .. Len(s)
  OBVIOUS
<1> QED
  BY <1>1, <1>2 DEF Total, IsWeights

\* add.c: a peer put before a list adds its weight.
LEMMA TotalCons ==
    ASSUME NEW S, NEW s \in Seq(S), Weighted(s),
           NEW e \in S, e.weight \in Int
    PROVE  /\ Cons(e, s) \in Seq(S) /\ Weighted(Cons(e, s))
           /\ Total(Cons(e, s)) = Total(s) + e.weight
<1> DEFINE t == Cons(e, s)
           w == WeightsUpTo(s)
           f == [i \in 0 .. Len(s) + 1 |->
                   IF i = 0 THEN 0 ELSE e.weight + w[i - 1]]
<1>1. IsWeights(w, s, Len(s))
  BY WeightsUpToIsWeights
<1>2. t \in Seq(S) /\ Len(t) = Len(s) + 1
  BY DEF Cons
<1>3. \A i \in 1 .. Len(t) : t[i] = IF i = 1 THEN e ELSE s[i - 1]
  BY DEF Cons
<1>4. Weighted(t)
  <2>1. ASSUME NEW i \in 1 .. Len(t) PROVE t[i].weight \in Int
    <3>1. CASE i = 1
      BY <1>3, <3>1
    <3>2. CASE i # 1
      <4>1. i - 1 \in 1 .. Len(s)
        BY <1>2, <3>2
      <4> QED
        BY <1>3, <3>2, <4>1 DEF Weighted
    <3> QED
      BY <3>1, <3>2
  <2> QED
    BY <2>1 DEF Weighted
<1>5. IsWeights(f, t, Len(t))
  <2> HIDE DEF w, t
  <2>1. f \in [0 .. Len(t) -> Int] /\ f[0] = 0
    BY <1>1, <1>2 DEF IsWeights
  <2>2. ASSUME NEW i \in 1 .. Len(t) PROVE f[i] = f[i - 1] + t[i].weight
    <3>1. CASE i = 1
      BY <1>1, <1>2, <1>3, <3>1 DEF IsWeights
    <3>2. CASE i # 1
      <4>1. i - 1 \in 1 .. Len(s) /\ i - 2 \in 0 .. Len(s)
        BY <1>2, <3>2
      <4>2. w[i - 1] = w[(i - 1) - 1] + s[i - 1].weight
        BY <1>1, <4>1 DEF IsWeights
      <4>3. t[i] = s[i - 1] /\ s[i - 1].weight \in Int
        BY <1>3, <3>2, <4>1 DEF Weighted
      <4>4. w[i - 2] \in Int
        BY <1>1, <4>1 DEF IsWeights
      <4>5. f[i] = e.weight + w[i - 1] /\ f[i - 1] = e.weight + w[i - 2]
        BY <1>2, <3>2
      <4> QED
        BY <4>2, <4>3, <4>4, <4>5
    <3> QED
      BY <3>1, <3>2
  <2> QED
    BY <2>1, <2>2 DEF IsWeights
<1>6. Total(t) = f[Len(t)]
  <2> HIDE DEF f, t
  <2> QED
    BY <1>2, <1>4, <1>5, TotalByWeights
<1>7. f[Len(t)] = e.weight + w[Len(s)] /\ w[Len(s)] \in Int
  BY <1>1, <1>2 DEF IsWeights
<1> QED
  BY <1>2, <1>4, <1>6, <1>7 DEF Total

\* del.c: a peer taken out of a list takes its weight with it.
LEMMA TotalRemoveAt ==
    ASSUME NEW S, NEW s \in Seq(S), Weighted(s), NEW k \in 1 .. Len(s)
    PROVE  /\ RemoveAt(s, k) \in Seq(S) /\ Weighted(RemoveAt(s, k))
           /\ Len(RemoveAt(s, k)) = Len(s) - 1
           /\ \A i \in 1 .. Len(s) - 1 :
                RemoveAt(s, k)[i] = IF i < k THEN s[i] ELSE s[i + 1]
           /\ Total(RemoveAt(s, k)) = Total(s) - s[k].weight
<1> DEFINE t == RemoveAt(s, k)
           w == WeightsUpTo(s)
           f == [i \in 0 .. Len(s) - 1 |->
                   IF i < k THEN w[i] ELSE w[i + 1] - s[k].weight]
<1>1. IsWeights(w, s, Len(s))
  BY WeightsUpToIsWeights
<1> DEFINE a == SubSeq(s, 1, k - 1)
           b == SubSeq(s, k + 1, Len(s))
<1>a. /\ a \in Seq(S) /\ Len(a) = k - 1
      /\ \A i \in 1 .. k - 1 : a[i] = s[i]
  OBVIOUS
<1>b. /\ b \in Seq(S) /\ Len(b) = Len(s) - k
      /\ \A i \in 1 .. Len(s) - k : b[i] = s[k + i]
  <2>1. CASE k = Len(s)
    BY <2>1
  <2>2. CASE k < Len(s)
    BY <2>2
  <2> QED
    BY <2>1, <2>2
<1>c. t = a \o b
  BY DEF RemoveAt
<1>2. t \in Seq(S) /\ Len(t) = Len(s) - 1
  <2> HIDE DEF a, b, t
  <2> QED
    BY <1>a, <1>b, <1>c
<1>3. \A i \in 1 .. Len(s) - 1 : t[i] = IF i < k THEN s[i] ELSE s[i + 1]
  <2> SUFFICES ASSUME NEW i \in 1 .. Len(s) - 1
               PROVE  t[i] = IF i < k THEN s[i] ELSE s[i + 1]
    OBVIOUS
  <2>1. t[i] = IF i <= k - 1 THEN a[i] ELSE b[i - (k - 1)]
    <3> HIDE DEF a, b, t
    <3> QED
      BY <1>a, <1>b, <1>c
  <2>2. CASE i < k
    BY <1>a, <2>1, <2>2
  <2>3. CASE i >= k
    <3>1. i - (k - 1) \in 1 .. Len(s) - k
      BY <2>3
    <3>2. b[i - (k - 1)] = s[k + (i - (k - 1))]
      BY <1>b, <3>1
    <3>3. k + (i - (k - 1)) = i + 1
      OBVIOUS
    <3> HIDE DEF a, b, t
    <3> QED
      BY <2>1, <2>3, <3>2, <3>3
  <2> QED
    BY <2>2, <2>3
<1>4. s[k].weight \in Int /\ \A i \in 1 .. Len(s) : s[i].weight \in Int
  BY DEF Weighted
<1>5. Weighted(t)
  <2> HIDE DEF t
  <2> QED
    BY <1>2, <1>3, <1>4 DEF Weighted
<1>6. IsWeights(f, t, Len(t))
  <2> HIDE DEF w, t
  <2>1. f \in [0 .. Len(t) -> Int] /\ f[0] = 0
    BY <1>1, <1>2, <1>4 DEF IsWeights
  <2>2. ASSUME NEW i \in 1 .. Len(t) PROVE f[i] = f[i - 1] + t[i].weight
    <3>a. /\ i \in 1 .. Len(s) /\ i + 1 \in 1 .. Len(s)
          /\ i - 1 \in 0 .. Len(s) /\ (i + 1) - 1 = i
          /\ i \in 0 .. Len(s) /\ i + 1 \in 0 .. Len(s)
      BY <1>2
    <3>b. w[i + 1] = w[(i + 1) - 1] + s[i + 1].weight
      BY <1>1, <3>a DEF IsWeights
    <3>1. /\ w[i] = w[i - 1] + s[i].weight
          /\ w[i + 1] = w[i] + s[i + 1].weight
          /\ w[i - 1] \in Int /\ w[i] \in Int /\ w[i + 1] \in Int
          /\ s[i].weight \in Int /\ s[i + 1].weight \in Int
      BY <1>1, <1>4, <3>a, <3>b DEF IsWeights
    <3>c. t[i] = IF i < k THEN s[i] ELSE s[i + 1]
      BY <1>2, <1>3
    <3>d. f[i] = IF i < k THEN w[i] ELSE w[i + 1] - s[k].weight
      BY <1>2
    <3>e. f[i - 1] = IF i - 1 < k THEN w[i - 1]
                     ELSE w[i] - s[k].weight
      BY <1>2, <3>a
    <3> HIDE DEF f
    <3>2. CASE i < k
      BY <3>1, <3>2, <3>c, <3>d, <3>e
    <3>3. CASE i = k
      <4>1. ~(i < k) /\ i - 1 < k
        BY <3>3
      <4>2. /\ f[i] = w[i + 1] - s[i].weight
            /\ f[i - 1] = w[i - 1] /\ t[i] = s[i + 1]
        BY <4>1, <3>3, <3>c, <3>d, <3>e
      <4>3. PICK x \in Int, y \in Int, z \in Int :
               x = w[i - 1] /\ y = s[i].weight /\ z = s[i + 1].weight
        BY <3>1
      <4>4. w[i] = x + y /\ w[i + 1] = (x + y) + z
        BY <3>1, <4>3, Zenon
      <4>5. f[i] = ((x + y) + z) - y /\ f[i - 1] = x /\ t[i].weight = z
        BY <4>2, <4>3, <4>4, Zenon
      <4>6. ((x + y) + z) - y = x + z
        OBVIOUS
      <4> QED  BY <4>5, <4>6, Zenon
    <3>4. CASE i > k
      <4>1. ~(i < k) /\ ~(i - 1 < k)
        BY <3>4
      <4>2. /\ f[i] = w[i + 1] - s[k].weight
            /\ f[i - 1] = w[i] - s[k].weight /\ t[i] = s[i + 1]
        BY <4>1, <3>c, <3>d, <3>e
      <4>3. PICK x \in Int, y \in Int, z \in Int :
               x = w[i] /\ y = s[k].weight /\ z = s[i + 1].weight
        BY <1>4, <3>1
      <4>4. w[i + 1] = x + z
        BY <3>1, <4>3, Zenon
      <4>5. f[i] = (x + z) - y /\ f[i - 1] = x - y /\ t[i].weight = z
        BY <4>2, <4>3, <4>4, Zenon
      <4>6. (x + z) - y = (x - y) + z
        OBVIOUS
      <4> QED  BY <4>5, <4>6, Zenon
    <3> QED
      BY <3>2, <3>3, <3>4
  <2> QED
    BY <2>1, <2>2 DEF IsWeights
<1>7. Total(t) = f[Len(t)]
  <2> HIDE DEF f, t
  <2> QED
    BY <1>2, <1>5, <1>6, TotalByWeights
<1>8. f[Len(t)] = w[Len(s)] - s[k].weight
  <2>1. CASE k = Len(s)
    <3>1. w[Len(s)] = w[Len(s) - 1] + s[k].weight /\ w[Len(s) - 1] \in Int
      BY <1>1, <2>1 DEF IsWeights
    <3> HIDE DEF w, t
    <3> QED
      BY <1>2, <1>4, <2>1, <3>1
  <2>2. CASE k # Len(s)
    BY <1>2, <2>2
  <2> QED
    BY <2>1, <2>2
<1> QED
  BY <1>2, <1>3, <1>5, <1>7, <1>8 DEF Total

\* mdf.c: a peer replaced changes the total by the difference.
LEMMA TotalReplaceAt ==
    ASSUME NEW S, NEW s \in Seq(S), Weighted(s), NEW k \in 1 .. Len(s),
           NEW e \in S, e.weight \in Int
    PROVE  /\ ReplaceAt(s, k, e) \in Seq(S) /\ Weighted(ReplaceAt(s, k, e))
           /\ Len(ReplaceAt(s, k, e)) = Len(s)
           /\ \A i \in 1 .. Len(s) :
                ReplaceAt(s, k, e)[i] = IF i = k THEN e ELSE s[i]
           /\ Total(ReplaceAt(s, k, e)) = (Total(s) - s[k].weight) + e.weight
<1> DEFINE t == ReplaceAt(s, k, e)
           w == WeightsUpTo(s)
           f == [i \in 0 .. Len(s) |->
                   IF i < k THEN w[i] ELSE (w[i] - s[k].weight) + e.weight]
<1>1. IsWeights(w, s, Len(s))
  BY WeightsUpToIsWeights
<1>2. t \in Seq(S) /\ Len(t) = Len(s)
  BY DEF ReplaceAt
<1>3. \A i \in 1 .. Len(s) : t[i] = IF i = k THEN e ELSE s[i]
  BY DEF ReplaceAt
<1>4. s[k].weight \in Int /\ \A i \in 1 .. Len(s) : s[i].weight \in Int
  BY DEF Weighted
<1>5. Weighted(t)
  <2> HIDE DEF t
  <2> QED
    BY <1>2, <1>3, <1>4 DEF Weighted
<1>6. IsWeights(f, t, Len(t))
  <2> HIDE DEF w, t
  <2>1. f \in [0 .. Len(t) -> Int] /\ f[0] = 0
    BY <1>1, <1>2, <1>4 DEF IsWeights
  <2>2. ASSUME NEW i \in 1 .. Len(t) PROVE f[i] = f[i - 1] + t[i].weight
    <3>1. /\ w[i] = w[i - 1] + s[i].weight
          /\ w[i - 1] \in Int /\ w[i] \in Int
          /\ s[i].weight \in Int
      BY <1>1, <1>2, <1>4 DEF IsWeights
    <3>2. /\ i \in 1 .. Len(s) /\ i \in 0 .. Len(s) /\ i - 1 \in 0 .. Len(s)
          /\ t[i] = IF i = k THEN e ELSE s[i]
      BY <1>2, <1>3
    <3>c. f[i] = IF i < k THEN w[i] ELSE (w[i] - s[k].weight) + e.weight
      BY <3>2
    <3>d. f[i - 1] = IF i - 1 < k THEN w[i - 1]
                     ELSE (w[i - 1] - s[k].weight) + e.weight
      BY <3>2
    <3> HIDE DEF f
    <3>5. CASE i < k
      <4>1. i - 1 < k /\ i # k
        BY <3>2, <3>5
      <4> QED  BY <3>1, <3>2, <3>5, <3>c, <3>d, <4>1, Zenon
    <3>3. CASE i = k
      <4>1. i - 1 < k /\ ~(i < k)
        BY <3>2, <3>3
      <4>2. /\ f[i] = (w[i] - s[i].weight) + e.weight
            /\ f[i - 1] = w[i - 1] /\ t[i] = e
        BY <3>2, <3>3, <3>c, <3>d, <4>1, Zenon
      <4>3. PICK x \in Int, y \in Int : x = w[i - 1] /\ y = s[i].weight
        BY <3>1, Zenon
      <4>4. w[i] = x + y
        BY <3>1, <4>3, Zenon
      <4>5. /\ f[i] = ((x + y) - y) + e.weight /\ f[i - 1] = x
            /\ t[i].weight = e.weight
        BY <4>2, <4>3, <4>4, Zenon
      <4>6. ((x + y) - y) + e.weight = x + e.weight
        OBVIOUS
      <4> QED  BY <4>5, <4>6, Zenon
    <3>4. CASE i > k
      <4>0. ~(i - 1 < k) /\ ~(i < k) /\ i # k
        BY <3>2, <3>4
      <4>1. /\ f[i] = (w[i] - s[k].weight) + e.weight
            /\ f[i - 1] = (w[i - 1] - s[k].weight) + e.weight
            /\ t[i] = s[i]
        BY <3>2, <3>c, <3>d, <4>0, Zenon
      <4>7. PICK x \in Int, y \in Int : x = w[i - 1] /\ y = s[i].weight
        BY <3>1, Zenon
      <4>2. PICK z \in Int, v \in Int : /\ z = s[k].weight /\ v = e.weight
                                       /\ x = w[i - 1] /\ y = s[i].weight
        BY <1>4, <4>7, Zenon
      <4>3. w[i] = x + y
        BY <3>1, <4>2, Zenon
      <4>4. /\ f[i] = ((x + y) - z) + v /\ f[i - 1] = (x - z) + v
            /\ t[i].weight = y
        BY <4>1, <4>2, <4>3, Zenon
      <4>5. ((x + y) - z) + v = ((x - z) + v) + y
        OBVIOUS
      <4> QED  BY <4>4, <4>5, Zenon
    <3> QED
      BY <3>2, <3>3, <3>4, <3>5
  <2> QED
    BY <2>1, <2>2 DEF IsWeights
<1>7. Total(t) = f[Len(t)]
  <2> HIDE DEF f, t
  <2> QED
    BY <1>2, <1>5, <1>6, TotalByWeights
<1>8. f[Len(t)] = (w[Len(s)] - s[k].weight) + e.weight
  BY <1>2
<1> QED
  BY <1>2, <1>3, <1>5, <1>7, <1>8 DEF Total

\* lst.c: the peers of two groups, one list after the other.
LEMMA TotalConcat ==
    ASSUME NEW S, NEW a \in Seq(S), NEW b \in Seq(S), Weighted(a), Weighted(b)
    PROVE  Total(a \o b) = Total(a) + Total(b)
<1> DEFINE t == a \o b
           v == WeightsUpTo(a)
           w == WeightsUpTo(b)
           n == Len(a)
           f == [i \in 0 .. n + Len(b) |->
                   IF i <= n THEN v[i] ELSE v[n] + w[i - n]]
<1>1. IsWeights(v, a, n) /\ IsWeights(w, b, Len(b))
  BY WeightsUpToIsWeights
<1>2. /\ t \in Seq(S) /\ Len(t) = n + Len(b) /\ n \in Nat /\ Len(b) \in Nat
      /\ \A i \in 1 .. n + Len(b) : t[i] = IF i <= n THEN a[i] ELSE b[i - n]
  OBVIOUS
<1>3. /\ v \in [0 .. n -> Int] /\ w \in [0 .. Len(b) -> Int]
      /\ v[0] = 0 /\ w[0] = 0 /\ v[n] \in Int
  BY <1>1, <1>2 DEF IsWeights
<1>4. \A i \in 1 .. n + Len(b) : t[i].weight \in Int
  <2> HIDE DEF t
  <2> TAKE i \in 1 .. n + Len(b)
  <2>1. CASE i <= n
    <3>1. i \in 1 .. n
      BY <2>1
    <3> QED  BY <1>2, <2>1, <3>1 DEF Weighted
  <2>2. CASE i > n
    <3>1. i - n \in 1 .. Len(b) /\ ~(i <= n)
      BY <1>2, <2>2
    <3> QED  BY <1>2, <3>1 DEF Weighted
  <2> QED  BY <1>2, <2>1, <2>2
<1>5. Weighted(t)
  BY <1>2, <1>4 DEF Weighted
<1> HIDE DEF t, v, w, n
<1>6. f \in [0 .. n + Len(b) -> Int]
  <2> SUFFICES ASSUME NEW i \in 0 .. n + Len(b)
               PROVE  (IF i <= n THEN v[i] ELSE v[n] + w[i - n]) \in Int
    OBVIOUS
  <2>1. CASE i <= n
    <3>1. i \in 0 .. n
      BY <1>2, <2>1
    <3> QED  BY <1>3, <2>1, <3>1
  <2>2. CASE i > n
    <3>1. i - n \in 0 .. Len(b) /\ ~(i <= n)
      BY <1>2, <2>2
    <3> QED  BY <1>3, <3>1
  <2> QED  BY <1>2, <2>1, <2>2
<1>7. ASSUME NEW i \in 1 .. n + Len(b) PROVE f[i] = f[i - 1] + t[i].weight
  <2>1. /\ i \in 0 .. n + Len(b) /\ i - 1 \in 0 .. n + Len(b)
        /\ f[i] = IF i <= n THEN v[i] ELSE v[n] + w[i - n]
        /\ f[i - 1] = IF i - 1 <= n THEN v[i - 1] ELSE v[n] + w[(i - 1) - n]
    BY <1>2
  <2> HIDE DEF f
  <2>2. CASE i <= n
    <3>1. i \in 1 .. n /\ i - 1 <= n
      BY <1>2, <2>2
    <3>2. v[i] = v[i - 1] + a[i].weight
      BY <1>1, <3>1 DEF IsWeights
    <3> QED  BY <1>2, <2>1, <2>2, <3>1, <3>2
  <2>3. CASE i > n
    <3>1. i - n \in 1 .. Len(b) /\ ~(i <= n) /\ (i - 1) - n = (i - n) - 1
      BY <1>2, <2>3
    <3>2. w[i - n] = w[(i - n) - 1] + b[i - n].weight
      BY <1>1, <3>1 DEF IsWeights
    <3>3. b[i - n].weight \in Int /\ (i - n) - 1 \in 0 .. Len(b)
      BY <3>1, <1>2 DEF Weighted
    <3>4. w[(i - n) - 1] \in Int
      BY <1>3, <3>3
    <3>5. f[i - 1] = v[n] + w[(i - n) - 1]
      <4>1. CASE i - 1 <= n
        <5>1. i - 1 = n /\ (i - n) - 1 = 0
          BY <1>2, <2>3, <4>1
        <5> QED  BY <1>3, <2>1, <4>1, <5>1
      <4>2. CASE ~(i - 1 <= n)
        BY <2>1, <3>1, <4>2
      <4> QED  BY <4>1, <4>2
    <3>6. f[i] = v[n] + w[i - n] /\ t[i] = b[i - n]
      BY <1>2, <2>1, <3>1
    <3>7. v[n] \in Int
      BY <1>3
    <3>8. PICK x \in Int, y \in Int, z \in Int :
             x = v[n] /\ y = w[(i - n) - 1] /\ z = b[i - n].weight
      BY <3>3, <3>4, <3>7
    <3>9. w[i - n] = y + z /\ t[i].weight = z
      BY <3>2, <3>6, <3>8, Zenon
    <3>10. f[i] = x + (y + z) /\ f[i - 1] = x + y
      BY <3>5, <3>6, <3>8, <3>9, Zenon
    <3>11. x + (y + z) = (x + y) + z
      OBVIOUS
    <3> QED  BY <3>9, <3>10, <3>11, Zenon
  <2> QED  BY <1>2, <2>2, <2>3
<1>8. IsWeights(f, t, Len(t))
  <2>1. f[0] = 0
    BY <1>2, <1>3
  <2> HIDE DEF f
  <2> QED  BY <1>2, <1>6, <1>7, <2>1 DEF IsWeights
<1>9. f[n + Len(b)] = v[n] + w[Len(b)]
  <2>1. CASE Len(b) = 0
    BY <1>2, <1>3, <2>1
  <2>2. CASE Len(b) # 0
    <3>1. ~(n + Len(b) <= n) /\ (n + Len(b)) - n = Len(b)
          /\ n + Len(b) \in 0 .. n + Len(b)
      BY <1>2, <2>2
    <3> QED  BY <3>1
  <2> QED  BY <2>1, <2>2
<1>10. Total(t) = f[Len(t)]
  <2> HIDE DEF f
  <2> QED  BY <1>2, <1>5, <1>8, TotalByWeights
<1> HIDE DEF f
<1> QED  BY <1>2, <1>9, <1>10 DEF Total, t, v, w, n

=============================================================================
