--------------------------- MODULE ShmListsProofs ---------------------------
(***************************************************************************)
(* The lists of ShmWorkers, for any number of workers, chunks, groups and  *)
(* deaths: what is in the memory is a list of each group at every          *)
(* statement, and number and total_weight say what is in it.               *)
(***************************************************************************)
EXTENDS ShmWorkersProofs, NumberFacts

(***************************************************************************)
(* Lists in the memory m.                                                  *)
(***************************************************************************)
\* The chunks s[1] .. s[k], each once, are the list that begins at p.
Chain(k, s, p, m) ==
    /\ \A i, j \in 1 .. k : s[i] = s[j] => i = j
    /\ p = IF k = 0 THEN Null ELSE s[1]
    /\ \A i \in 1 .. k : m[s[i]].next = IF i = k THEN Null ELSE s[i + 1]

\* The chunks in L are such a list.
IsList(L, p, m) ==
    \E k \in 0 .. Chunks : \E s \in [1 .. k -> Chunk] :
       L = { s[i] : i \in 1 .. k } /\ Chain(k, s, p, m)

LEMMA ChunkFacts ==
    /\ Chunks \in Nat /\ IsFiniteSet(Chunk) /\ Cardinality(Chunk) = Chunks
    /\ Null \notin Chunk /\ Chunk \subseteq Nat
<1>1. Chunks \in Nat /\ Chunks > 0
  BY ShmAssumption
<1>2. IsFiniteSet(1 .. Chunks) /\ Cardinality(1 .. Chunks) = Chunks
  BY <1>1, FS_Interval
<1> QED  BY <1>1, <1>2, Constants DEF Chunk

\* Follow goes through a list and then stays at its end.
LEMMA FollowChain ==
    ASSUME NEW p, NEW m, NEW k \in 0 .. Chunks, NEW s \in [1 .. k -> Chunk],
           Chain(k, s, p, m)
    PROVE  Follow(p, m) = [n \in 0 .. Chunks |->
                             IF n < k THEN s[n + 1] ELSE Null]
<1> DEFINE Solves(f) == f = [n \in 0 .. Chunks |->
                               IF n = 0 THEN p
                               ELSE IF f[n - 1] = Null THEN Null
                               ELSE m[f[n - 1]].next]
           g == [n \in 0 .. Chunks |-> IF n < k THEN s[n + 1] ELSE Null]
           h == CHOOSE f : Solves(f)
<1>1. Follow(p, m) = h
  BY DEF Follow
<1>2. Chunks \in Nat /\ k \in Nat /\ k <= Chunks
  BY ChunkFacts
<1>3. \A i \in 1 .. k : s[i] \in Chunk /\ s[i] # Null
  BY ChunkFacts
<1>4. Solves(g)
  <2> SUFFICES ASSUME NEW n \in 0 .. Chunks
               PROVE  g[n] = IF n = 0 THEN p
                             ELSE IF g[n - 1] = Null THEN Null
                             ELSE m[g[n - 1]].next
    BY Zenon
  <2>1. CASE n = 0
    BY <1>2, <2>1 DEF Chain
  <2>2. CASE n # 0 /\ n <= k
    <3>1. n \in 1 .. k /\ n - 1 \in 0 .. Chunks /\ n - 1 < k /\ (n - 1) + 1 = n
      BY <1>2, <2>2
    <3>2. g[n - 1] = s[n]
      BY <3>1
    <3>3. m[s[n]].next = IF n = k THEN Null ELSE s[n + 1]
      BY <3>1 DEF Chain
    <3>4. g[n] = IF n = k THEN Null ELSE s[n + 1]
      BY <1>2, <2>2
    <3> HIDE DEF g
    <3> QED  BY <1>3, <2>2, <3>1, <3>2, <3>3, <3>4
  <2>3. CASE n # 0 /\ n > k
    BY <1>2, <2>3
  <2> QED  BY <1>2, <2>1, <2>2, <2>3
<1>5. Solves(h)
  <2> HIDE DEF Solves, g
  <2> QED  BY <1>4
<1>6. \A n \in 0 .. Chunks : h[n] = g[n]
  <2> DEFINE Bad == { n \in 0 .. Chunks : h[n] # g[n] }
  <2>1. SUFFICES ASSUME Bad # {} PROVE FALSE
    OBVIOUS
  <2>2. PICK n \in Bad : \A i \in Bad : n <= i
    <3>1. Bad \subseteq Nat
      OBVIOUS
    <3> HIDE DEF Bad
    <3> QED  BY <2>1, <3>1, LeastNat
  <2>3. /\ n \in 0 .. Chunks /\ h[n] # g[n]
        /\ n # 0 => n - 1 \in 0 .. Chunks /\ n - 1 \notin Bad
    <3>1. n \in 0 .. Chunks /\ h[n] # g[n]
      BY <2>2
    <3>2. n # 0 => n - 1 \in 0 .. Chunks /\ ~(n <= n - 1)
      BY <1>2, <3>1
    <3> HIDE DEF Bad
    <3> QED  BY <2>2, <3>1, <3>2
  <2>4. n # 0 => h[n - 1] = g[n - 1]
    BY <2>3
  <2> DEFINE Value(f) == IF n = 0 THEN p
                         ELSE IF f[n - 1] = Null THEN Null
                         ELSE m[f[n - 1]].next
  <2>5. g[n] = Value(g) /\ h[n] = Value(h)
    <3>1. \A f : Solves(f) => f[n] = Value(f)
      BY <2>3
    <3> HIDE DEF Solves, Value, g, h
    <3> QED  BY <1>4, <1>5, <3>1
  <2>6. Value(g) = Value(h)
    <3> HIDE DEF g, h
    <3> QED  BY <2>4
  <2> HIDE DEF g, h, Value
  <2> QED  BY <2>3, <2>5, <2>6
<1>7. h = [n \in 0 .. Chunks |-> h[n]]
  <2>1. \A f : Solves(f) => f = [n \in 0 .. Chunks |-> f[n]]
    OBVIOUS
  <2> HIDE DEF Solves, h
  <2> QED  BY <1>5, <2>1
<1>8. h = g
  <2>1. g = [n \in 0 .. Chunks |-> g[n]]
    OBVIOUS
  <2> HIDE DEF g, h
  <2> QED  BY <1>6, <1>7, <2>1
<1> QED  BY <1>1, <1>8

\* So what a reader meets on the way is the list, and it comes to its end.
LEMMA ListIsFollowed ==
    ASSUME NEW L, NEW p, NEW m, IsList(L, p, m)
    PROVE  /\ Range(Follow(p, m)) \ {Null} = L
           /\ Follow(p, m)[Chunks] = Null
<1>1. PICK k \in 0 .. Chunks : \E s \in [1 .. k -> Chunk] :
         L = { s[i] : i \in 1 .. k } /\ Chain(k, s, p, m)
  BY DEF IsList
<1>2. PICK s \in [1 .. k -> Chunk] :
         L = { s[i] : i \in 1 .. k } /\ Chain(k, s, p, m)
  BY <1>1
<1> DEFINE g == [n \in 0 .. Chunks |-> IF n < k THEN s[n + 1] ELSE Null]
<1>3. Follow(p, m) = g
  BY <1>2, FollowChain
<1>4. Chunks \in Nat /\ k \in Nat /\ k <= Chunks
  BY ChunkFacts
<1>5. \A i \in 1 .. k : s[i] # Null
  BY ChunkFacts
<1>6. ASSUME NEW c \in L PROVE c \in Range(g) /\ c # Null
  <2>1. PICK i \in 1 .. k : c = s[i]
    BY <1>2
  <2>2. i - 1 \in 0 .. Chunks /\ g[i - 1] = s[i]
    BY <1>4
  <2> QED  BY <1>5, <2>1, <2>2 DEF Range
<1>7. ASSUME NEW c \in Range(g), c # Null PROVE c \in L
  <2>1. PICK n \in 0 .. Chunks : c = g[n]
    BY DEF Range
  <2>2. n < k /\ c = s[n + 1] /\ n + 1 \in 1 .. k
    BY <1>4, <1>7, <2>1
  <2> QED  BY <1>2, <2>2
<1>8. g[Chunks] = Null
  BY <1>4
<1> HIDE DEF g
<1> QED  BY <1>3, <1>6, <1>7, <1>8

-----------------------------------------------------------------------------
\* What a list is made of.
LEMMA ListFacts ==
    ASSUME NEW L, NEW p, NEW m, IsList(L, p, m)
    PROVE  /\ L \subseteq Chunk /\ IsFiniteSet(L)
           /\ Cardinality(L) \in 0 .. Chunks
           /\ p = Null <=> L = {}
           /\ p \in L \cup {Null}
           /\ \A c \in L : /\ m[c].next \in L \cup {Null}
                           /\ m[c].next # p /\ m[c].next # c
<1>1. PICK k \in 0 .. Chunks : \E s \in [1 .. k -> Chunk] :
         L = { s[i] : i \in 1 .. k } /\ Chain(k, s, p, m)
  BY DEF IsList
<1>2. PICK s \in [1 .. k -> Chunk] :
         L = { s[i] : i \in 1 .. k } /\ Chain(k, s, p, m)
  BY <1>1
<1>3. Chunks \in Nat /\ k \in Nat /\ k <= Chunks
  BY ChunkFacts
<1>4. \A i \in 1 .. k : s[i] \in L /\ s[i] \in Chunk /\ s[i] # Null
  BY <1>2, ChunkFacts
<1>5. L \subseteq Chunk
  BY <1>2
<1>6. IsFiniteSet(L) /\ Cardinality(L) \in 0 .. Chunks
  <2>1. IsFiniteSet(L) /\ Cardinality(L) <= Chunks
    BY <1>5, ChunkFacts, FS_Subset
  <2>2. Cardinality(L) \in Nat
    BY <2>1, FS_CardinalityType
  <2> QED  BY <1>3, <2>1, <2>2
<1>7. (p = Null <=> L = {}) /\ p \in L \cup {Null}
  <2>1. CASE k = 0
    BY <1>2, <2>1 DEF Chain
  <2>2. CASE k # 0
    <3>1. 1 \in 1 .. k /\ p = s[1]
      BY <1>2, <1>3, <2>2 DEF Chain
    <3> QED  BY <1>4, <3>1
  <2> QED  BY <2>1, <2>2
<1>8. ASSUME NEW c \in L
      PROVE  m[c].next \in L \cup {Null} /\ m[c].next # p /\ m[c].next # c
  <2>1. PICK i \in 1 .. k : c = s[i]
    BY <1>2
  <2>2. 1 \in 1 .. k /\ p = s[1]
    BY <1>2, <1>3 DEF Chain
  <2>3. CASE i = k
    BY <1>2, <1>4, <2>1, <2>2, <2>3 DEF Chain
  <2>4. CASE i # k
    <3>1. i + 1 \in 1 .. k /\ i + 1 # 1 /\ i + 1 # i
      BY <1>3, <2>4
    <3>2. m[c].next = s[i + 1]
      BY <1>2, <2>1, <2>4 DEF Chain
    <3>3. s[i + 1] # s[1] /\ s[i + 1] # s[i]
      BY <1>2, <2>2, <3>1 DEF Chain
    <3> QED  BY <1>4, <2>1, <2>2, <3>1, <3>2, <3>3
  <2> QED  BY <2>3, <2>4
<1> QED  BY <1>5, <1>6, <1>7, <1>8

\* A change of other chunks, or of other fields, leaves it.
LEMMA ListStays ==
    ASSUME NEW L, NEW p, NEW m, NEW mm, IsList(L, p, m),
           \A c \in L : mm[c].next = m[c].next
    PROVE  IsList(L, p, mm)
<1>1. PICK k \in 0 .. Chunks : \E s \in [1 .. k -> Chunk] :
         L = { s[i] : i \in 1 .. k } /\ Chain(k, s, p, m)
  BY DEF IsList
<1>2. PICK s \in [1 .. k -> Chunk] :
         L = { s[i] : i \in 1 .. k } /\ Chain(k, s, p, m)
  BY <1>1
<1>3. \A i \in 1 .. k : s[i] \in L
  BY <1>2
<1>4. Chain(k, s, p, mm)
  BY <1>2, <1>3 DEF Chain
<1> QED  BY <1>2, <1>4 DEF IsList

\* add: a chunk that points to the list is a list with it.
LEMMA ListPush ==
    ASSUME NEW L, NEW p, NEW m, IsList(L, p, m),
           NEW c \in Chunk, c \notin L, m[c].next = p
    PROVE  IsList(L \cup {c}, c, m)
<1>1. PICK k \in 0 .. Chunks : \E s \in [1 .. k -> Chunk] :
         L = { s[i] : i \in 1 .. k } /\ Chain(k, s, p, m)
  BY DEF IsList
<1>2. PICK s \in [1 .. k -> Chunk] :
         L = { s[i] : i \in 1 .. k } /\ Chain(k, s, p, m)
  BY <1>1
<1> DEFINE j == k + 1
           t == [i \in 1 .. j |-> IF i = 1 THEN c ELSE s[i - 1]]
<1>3. k \in Nat /\ j \in Nat /\ j = k + 1 /\ j # 0
  BY ChunkFacts
<1> HIDE DEF j
<1>4. /\ 1 \in 1 .. j /\ t[1] = c
      /\ \A i \in 1 .. k : s[i] \in L /\ i + 1 \in 1 .. j /\ t[i + 1] = s[i]
      /\ \A i \in 1 .. j : i # 1 => i - 1 \in 1 .. k /\ t[i] = s[i - 1]
  <2>1. 1 \in 1 .. j /\ t[1] = c
    BY <1>3
  <2>2. ASSUME NEW i \in 1 .. k
        PROVE  s[i] \in L /\ i + 1 \in 1 .. j /\ t[i + 1] = s[i]
    <3>1. i + 1 \in 1 .. j /\ i + 1 # 1 /\ (i + 1) - 1 = i
      BY <1>3
    <3> QED  BY <1>2, <3>1
  <2>3. ASSUME NEW i \in 1 .. j, i # 1
        PROVE  i - 1 \in 1 .. k /\ t[i] = s[i - 1]
    BY <1>3, <2>3
  <2> QED  BY <2>1, <2>2, <2>3
<1>5. t \in [1 .. j -> Chunk]
  <2> SUFFICES ASSUME NEW i \in 1 .. j, i # 1 PROVE s[i - 1] \in Chunk
    OBVIOUS
  <2> QED  BY <1>4
<1> HIDE DEF t
<1>6. \A i, n \in 1 .. j : t[i] = t[n] => i = n
  <2> SUFFICES ASSUME NEW i \in 1 .. j, NEW n \in 1 .. j, t[i] = t[n]
               PROVE  i = n
    OBVIOUS
  <2>1. CASE i = 1 \/ n = 1
    BY <1>4, <2>1
  <2>2. CASE i # 1 /\ n # 1
    <3>1. i - 1 \in 1 .. k /\ n - 1 \in 1 .. k /\ s[i - 1] = s[n - 1]
      BY <1>4, <2>2
    <3>2. i - 1 = n - 1
      BY <1>2, <3>1 DEF Chain
    <3> QED  BY <1>3, <3>2
  <2> QED  BY <2>1, <2>2
<1>7. j \in 0 .. Chunks
  <2>1. t \in Injection(1 .. j, Chunk)
    BY <1>5, <1>6 DEF Injection, IsInjective
  <2>2. Cardinality(1 .. j) <= Chunks
    BY <2>1, ChunkFacts, FS_Injection
  <2>3. Cardinality(1 .. j) = j
    BY <1>3, FS_Interval
  <2> QED  BY <1>3, <2>2, <2>3, ChunkFacts
<1>8. \A i \in 1 .. j : m[t[i]].next = IF i = j THEN Null ELSE t[i + 1]
  <2> SUFFICES ASSUME NEW i \in 1 .. j
               PROVE  m[t[i]].next = IF i = j THEN Null ELSE t[i + 1]
    OBVIOUS
  <2>1. CASE i = 1
    <3>1. m[t[i]].next = p
      BY <1>4, <2>1
    <3>2. CASE k = 0
      BY <1>2, <1>3, <2>1, <3>1, <3>2 DEF Chain
    <3>3. CASE k # 0
      <4>1. 1 \in 1 .. k /\ i # j /\ p = s[1] /\ i + 1 = 1 + 1
        BY <1>2, <1>3, <2>1, <3>3 DEF Chain
      <4>2. t[i + 1] = s[1]
        BY <1>4, <4>1
      <4> QED  BY <3>1, <4>1, <4>2
    <3> QED  BY <3>2, <3>3
  <2>2. CASE i # 1
    <3> DEFINE n == i - 1
    <3>1. n \in 1 .. k /\ t[i] = s[n] /\ n + 1 = i /\ (n = k <=> i = j)
      BY <1>3, <1>4, <2>2
    <3> HIDE DEF n
    <3>2. m[s[n]].next = IF n = k THEN Null ELSE s[n + 1]
      BY <1>2, <3>1 DEF Chain
    <3>3. n # k => i \in 1 .. k
      BY <1>3, <3>1
    <3>4. n # k => t[i + 1] = s[i]
      BY <1>4, <3>3
    <3> QED  BY <3>1, <3>2, <3>4
  <2> QED  BY <2>1, <2>2
<1>9. L \cup {c} = { t[i] : i \in 1 .. j }
  <2>1. ASSUME NEW x \in L PROVE \E i \in 1 .. j : x = t[i]
    <3>1. PICK i \in 1 .. k : x = s[i]
      BY <1>2
    <3> QED  BY <1>4, <3>1
  <2>2. ASSUME NEW i \in 1 .. j PROVE t[i] \in L \cup {c}
    BY <1>4
  <2> QED  BY <1>4, <2>1, <2>2
<1>10. Chain(j, t, c, m)
  BY <1>3, <1>4, <1>6, <1>8 DEF Chain
<1> QED  BY <1>5, <1>7, <1>9, <1>10 DEF IsList

\* A list without its first chunk.
LEMMA ListPop ==
    ASSUME NEW L, NEW p, NEW m, IsList(L, p, m), p # Null
    PROVE  IsList(L \ {p}, m[p].next, m)
<1>1. PICK k \in 0 .. Chunks : \E s \in [1 .. k -> Chunk] :
         L = { s[i] : i \in 1 .. k } /\ Chain(k, s, p, m)
  BY DEF IsList
<1>2. PICK s \in [1 .. k -> Chunk] :
         L = { s[i] : i \in 1 .. k } /\ Chain(k, s, p, m)
  BY <1>1
<1> DEFINE j == k - 1
           t == [i \in 1 .. j |-> s[i + 1]]
<1>3. /\ k \in Nat /\ j \in Nat /\ j = k - 1 /\ j \in 0 .. Chunks
      /\ 1 \in 1 .. k /\ p = s[1]
  <2>1. k # 0
    BY <1>2 DEF Chain
  <2> QED  BY <1>2, <2>1, ChunkFacts DEF Chain
<1> HIDE DEF j
<1>4. \A i \in 1 .. j : i + 1 \in 1 .. k /\ i + 1 # 1 /\ t[i] = s[i + 1]
  BY <1>3
<1>5. t \in [1 .. j -> Chunk]
  <2>1. \A i \in 1 .. j : s[i + 1] \in Chunk
    BY <1>4
  <2> QED  BY <2>1
<1> HIDE DEF t
<1>6. \A i, n \in 1 .. j : t[i] = t[n] => i = n
  <2> SUFFICES ASSUME NEW i \in 1 .. j, NEW n \in 1 .. j, t[i] = t[n]
               PROVE  i = n
    OBVIOUS
  <2>1. i + 1 \in 1 .. k /\ n + 1 \in 1 .. k /\ s[i + 1] = s[n + 1]
    BY <1>4
  <2>2. i + 1 = n + 1
    BY <1>2, <2>1 DEF Chain
  <2> QED  BY <1>3, <2>2
<1>7. \A i \in 1 .. j : m[t[i]].next = IF i = j THEN Null ELSE t[i + 1]
  <2> SUFFICES ASSUME NEW i \in 1 .. j
               PROVE  m[t[i]].next = IF i = j THEN Null ELSE t[i + 1]
    OBVIOUS
  <2> DEFINE n == i + 1
  <2>1. n \in 1 .. k /\ t[i] = s[n] /\ n = i + 1 /\ (n = k <=> i = j)
    BY <1>3, <1>4
  <2> HIDE DEF n
  <2>2. m[s[n]].next = IF n = k THEN Null ELSE s[n + 1]
    BY <1>2, <2>1 DEF Chain
  <2>3. i # j => n \in 1 .. j
    BY <1>3, <2>1
  <2>4. i # j => t[n] = s[n + 1]
    BY <1>4, <2>3
  <2> QED  BY <2>1, <2>2, <2>4
<1>8. m[p].next = IF j = 0 THEN Null ELSE t[1]
  <2>1. m[p].next = IF 1 = k THEN Null ELSE s[1 + 1]
    BY <1>2, <1>3 DEF Chain
  <2>2. (1 = k <=> j = 0) /\ (j # 0 => 1 \in 1 .. j)
    BY <1>3
  <2> QED  BY <1>4, <2>1, <2>2
<1>9. L \ {p} = { t[i] : i \in 1 .. j }
  <2>1. ASSUME NEW x \in L, x # p PROVE \E i \in 1 .. j : x = t[i]
    <3>1. PICK i \in 1 .. k : x = s[i]
      BY <1>2
    <3>2. i - 1 \in 1 .. j /\ (i - 1) + 1 = i
      BY <1>3, <2>1, <3>1
    <3>3. t[i - 1] = s[i]
      BY <1>4, <3>2
    <3> QED  BY <3>1, <3>2, <3>3
  <2>2. ASSUME NEW i \in 1 .. j PROVE t[i] \in L /\ t[i] # p
    <3>1. t[i] = s[i + 1] /\ i + 1 \in 1 .. k /\ i + 1 # 1
      BY <1>4
    <3>2. s[i + 1] # s[1]
      BY <1>2, <1>3, <3>1 DEF Chain
    <3> QED  BY <1>2, <1>3, <3>1, <3>2
  <2> QED  BY <2>1, <2>2
<1>10. Chain(j, t, m[p].next, m)
  BY <1>6, <1>7, <1>8 DEF Chain
<1> QED  BY <1>3, <1>5, <1>9, <1>10 DEF IsList

\* del: the chunk b is made to point behind its successor.
LEMMA ListCut ==
    ASSUME NEW L, NEW p, NEW m, NEW mm, IsList(L, p, m),
           NEW b \in L, NEW c, c = m[b].next, c # Null,
           mm[b].next = m[c].next,
           \A d \in L \ {b} : mm[d].next = m[d].next
    PROVE  IsList(L \ {c}, p, mm)
<1>1. PICK k \in 0 .. Chunks : \E s \in [1 .. k -> Chunk] :
         L = { s[i] : i \in 1 .. k } /\ Chain(k, s, p, m)
  BY DEF IsList
<1>2. PICK s \in [1 .. k -> Chunk] :
         L = { s[i] : i \in 1 .. k } /\ Chain(k, s, p, m)
  BY <1>1
<1>3. PICK l \in 1 .. k : b = s[l]
  BY <1>2
<1> DEFINE j == k - 1
           t == [i \in 1 .. j |-> IF i <= l THEN s[i] ELSE s[i + 1]]
<1>4. /\ k \in Nat /\ l \in Nat /\ j \in Nat /\ j = k - 1
      /\ j \in 0 .. Chunks /\ l \in 1 .. j /\ l + 1 \in 1 .. k
      /\ c = s[l + 1]
  <2>1. c = IF l = k THEN Null ELSE s[l + 1]
    BY <1>2, <1>3 DEF Chain
  <2>2. l # k
    BY <2>1
  <2> QED  BY <1>3, <2>1, <2>2, ChunkFacts
<1> HIDE DEF j
<1>5. ASSUME NEW i \in 1 .. k
      PROVE  /\ s[i] \in L /\ s[i] \in Chunk
             /\ m[s[i]].next = IF i = k THEN Null ELSE s[i + 1]
             /\ \A n \in 1 .. k : s[i] = s[n] => i = n
  BY <1>2 DEF Chain
<1>6. ASSUME NEW i \in 1 .. j
      PROVE  /\ i <= l => i \in 1 .. k /\ t[i] = s[i]
             /\ i > l => i + 1 \in 1 .. k /\ t[i] = s[i + 1]
  BY <1>4
<1>7. t \in [1 .. j -> Chunk]
  <2> SUFFICES ASSUME NEW i \in 1 .. j
               PROVE  (IF i <= l THEN s[i] ELSE s[i + 1]) \in Chunk
    OBVIOUS
  <2>1. i <= l \/ i > l
    BY <1>4
  <2> QED  BY <1>5, <1>6, <2>1
<1> HIDE DEF t
<1> DEFINE From(i) == IF i <= l THEN i ELSE i + 1
<1>8. ASSUME NEW i \in 1 .. j
      PROVE  From(i) \in 1 .. k /\ From(i) # l + 1 /\ t[i] = s[From(i)]
  BY <1>4, <1>6
<1>9. \A i, n \in 1 .. j : t[i] = t[n] => i = n
  <2> SUFFICES ASSUME NEW i \in 1 .. j, NEW n \in 1 .. j, t[i] = t[n]
               PROVE  i = n
    OBVIOUS
  <2>1. From(i) = From(n)
    BY <1>5, <1>8
  <2> QED  BY <1>4, <2>1
<1>10. \A i \in 1 .. j : mm[t[i]].next = IF i = j THEN Null ELSE t[i + 1]
  <2> SUFFICES ASSUME NEW i \in 1 .. j
               PROVE  mm[t[i]].next = IF i = j THEN Null ELSE t[i + 1]
    OBVIOUS
  <2>0. i # j => i + 1 \in 1 .. j
    BY <1>4
  <2>1. CASE i < l
    <3>1. /\ t[i] = s[i] /\ i \in 1 .. k /\ i # l /\ i # k /\ i # j
          /\ i + 1 <= l
      BY <1>4, <1>6, <2>1
    <3>2. s[i] # b
      BY <1>3, <1>5, <3>1
    <3>3. mm[s[i]].next = s[i + 1]
      BY <1>5, <3>1, <3>2
    <3> QED  BY <1>6, <2>0, <3>1, <3>3
  <2>2. CASE i = l
    <3>1. t[i] = b
      BY <1>3, <1>4, <1>6, <2>2
    <3>2. mm[b].next = IF l + 1 = k THEN Null ELSE s[(l + 1) + 1]
      BY <1>4, <1>5
    <3>3. (l + 1 = k <=> i = j) /\ i + 1 > l
      BY <1>4, <2>2
    <3>4. i # j => t[i + 1] = s[(l + 1) + 1]
      BY <1>6, <2>0, <2>2, <3>3
    <3> QED  BY <3>1, <3>2, <3>3, <3>4
  <2>3. CASE i > l
    <3>1. /\ t[i] = s[i + 1] /\ i + 1 \in 1 .. k /\ i + 1 # l
          /\ (i + 1 = k <=> i = j) /\ i + 1 > l
      BY <1>4, <1>6, <2>3
    <3>2. s[i + 1] # b
      BY <1>3, <1>5, <3>1
    <3>3. mm[s[i + 1]].next = IF i + 1 = k THEN Null ELSE s[(i + 1) + 1]
      BY <1>5, <3>1, <3>2
    <3>4. i # j => t[i + 1] = s[(i + 1) + 1]
      BY <1>6, <2>0, <3>1
    <3> QED  BY <3>1, <3>3, <3>4
  <2> QED  BY <1>4, <2>1, <2>2, <2>3
<1>11. L \ {c} = { t[i] : i \in 1 .. j }
  <2>1. ASSUME NEW x \in L, x # c PROVE \E i \in 1 .. j : x = t[i]
    <3>1. PICK i \in 1 .. k : x = s[i]
      BY <1>2
    <3>2. i # l + 1
      BY <1>4, <2>1, <3>1
    <3>3. CASE i <= l
      <4>1. i \in 1 .. j
        BY <1>4, <3>3
      <4> QED  BY <1>6, <3>1, <3>3, <4>1
    <3>4. CASE i > l
      <4>1. i - 1 \in 1 .. j /\ i - 1 > l /\ (i - 1) + 1 = i
        BY <1>4, <3>2, <3>4
      <4> QED  BY <1>6, <3>1, <4>1
    <3> QED  BY <1>4, <3>3, <3>4
  <2>2. ASSUME NEW i \in 1 .. j PROVE t[i] \in L /\ t[i] # c
    BY <1>4, <1>5, <1>8
  <2> QED  BY <2>1, <2>2
<1>12. p = IF j = 0 THEN Null ELSE t[1]
  <2>1. p = s[1] /\ j # 0 /\ 1 \in 1 .. j /\ 1 <= l
    BY <1>2, <1>4 DEF Chain
  <2> QED  BY <1>6, <2>1
<1>13. Chain(j, t, p, mm)
  BY <1>9, <1>10, <1>12 DEF Chain
<1> QED  BY <1>4, <1>7, <1>11, <1>13 DEF IsList

-----------------------------------------------------------------------------
(***************************************************************************)
(* The invariant.  A del is not alone with the list when others change it  *)
(* at the same time, so nothing is said then.                              *)
(***************************************************************************)
Regime == MaxChangers <= 1 \/ "del" \notin Ops

Changing == {"add", "del", "edit"}

\* No more calls change the list than are let in.
OneAtATime ==
    /\ MaxChangers <= 1 =>
          \A v, w \in Worker :
             run[v].op \in Changing /\ run[w].op \in Changing => v = w
    /\ "del" \notin Ops => \A w \in Worker : run[w].op # "del"

Lists == \A g \in Group : IsList(Linked(g), peers[g].peer, mem)

Sound ==
    /\ AllLinked \subseteq used
    /\ \A c \in AllLinked : mem[c].weight > 0
    /\ \A g, h \in Group : g # h => Linked(g) \cap Linked(h) = {}

\* The call has a peer that is not in a list yet.
Owns(r) ==
    /\ r.op = "add" /\ r.speer # Null
    /\ r.pc \in {"fill", "lock", "count", "weigh", "point", "link"}

OwnsIt(r) ==
    Owns(r) => /\ r.speer \in used \ AllLinked
               /\ r.pc # "fill" => mem[r.speer].weight = r.weight
               /\ r.pc = "link" => mem[r.speer].next = peers[r.group].peer

\* The cursor of an edit stays in the list of its group.
EditsIt(r) ==
    r.op = "edit" /\ r.pc \in {"walk", "next", "lock", "weigh", "set", "unlock"} =>
       r.speer \in Linked(r.group) \cup {Null}

\* The cursors of a del stay there, one behind the other, until the peer is
\* taken out that was asked for; then the second one does.
Searching == {"walk", "check", "lock", "count", "weigh", "unlink"}

DelsIt(r) ==
    r.op = "del" =>
       /\ r.pc \in Searching \cup {"next", "free", "unlock"} =>
             r.pspeer \in Linked(r.group) \cup {Null}
       /\ r.pc \in Searching \cup {"next"} =>
             r.speer \in Linked(r.group) \cup {Null}
       /\ r.pc \in Searching /\ r.speer # Null =>
             \/ r.speer = peers[r.group].peer
             \/ r.pspeer # Null /\ mem[r.pspeer].next = r.speer
       /\ r.pc \in Searching \ {"walk"} => Matches(r)
       /\ r.pc = "free" => r.speer \notin AllLinked

Mine(r) == OwnsIt(r) /\ EditsIt(r) /\ DelsIt(r)

Distinct ==
    \A v, w \in Worker :
       v # w /\ Owns(run[v]) /\ Owns(run[w]) => run[v].speer # run[w].speer

LInv ==
    /\ Lists /\ Sound /\ Distinct
    /\ \A w \in Worker : Mine(run[w])

\* What a step may take out of the lists.
Asked ==
    \A c \in AllLinked \ AllLinked' :
       \E w \in Worker : /\ run[w].op = "del" /\ mutex = w
                         /\ run[w].speer = c /\ Matches(run[w])

-----------------------------------------------------------------------------
LEMMA OpsInit == Init => OneAtATime
BY IdleCall DEF Init, OneAtATime, Changing

\* A step changes the local variables of its own worker only; only Begin
\* begins a call.
LEMMA StepIsOwn ==
    ASSUME SInv, NEW w \in Worker, Begin(w) \/ CallStep(w) \/ Crash(w)
    PROVE  \A v \in Worker \ {w} : run'[v] = run[v]
<1>1. run \in [Worker -> CallsOf]
  BY DEF SInv, Types
<1>2. \E r : run' = [run EXCEPT ![w] = r]
  <2>1. CASE Begin(w)
    BY <2>1 DEF Begin, CallAdd, CallDel, CallEdit, CallLst, Call
  <2>2. CASE \/ Walk(w) \/ Advance(w) \/ Check(w) \/ Lock(w) \/ Unlock(w)
             \/ Crash(w) \/ Segv(w) \/ Respawn(w)
    BY <2>2 DEF Walk, Advance, Check, Lock, Unlock, Crash, Segv, Respawn,
                Finish, Goto, Call
  <2>3. CASE \/ Alloc(w) \/ Fill(w) \/ SlabFull(w) \/ FillFails(w)
             \/ Size(w) \/ First(w) \/ Copy(w) \/ Copied(w)
    BY <2>3 DEF Alloc, Fill, SlabFull, FillFails, Size, First, Copy, Copied,
                Finish, Goto, Call
  <2>4. CASE \/ Count(w) \/ Weigh(w) \/ Point(w) \/ Link(w)
             \/ UnlinkFirst(w) \/ UnlinkOther(w) \/ Free(w) \/ SetWeight(w)
    BY <2>4 DEF Count, Weigh, Point, Link, UnlinkFirst, UnlinkOther, Free,
                SetWeight, Goto, Call
  <2>5. CASE \/ FoundGroup(w) \/ NoGroup(w) \/ NewGroup(w)
             \/ NewGroupFails(w) \/ UnlockUnheld(w) \/ NextGroup(w)
    BY <2>5 DEF FoundGroup, NoGroup, NewGroup, NewGroupFails, UnlockUnheld,
                NextGroup, Finish, Goto, Call
  <2> QED  BY <2>1, <2>2, <2>3, <2>4, <2>5 DEF CallStep
<1> QED  BY <1>1, <1>2

\* What a call is when a worker begins it.
LEMMA Entered ==
    ASSUME SInv, NEW w \in Worker
    PROVE  /\ CallAdd(w) => run'[w].op = "add"
           /\ CallDel(w) => run'[w].op = "del" /\ run'[w].pc \in {"group", "walk"}
           /\ CallEdit(w) => run'[w].op = "edit"
           /\ CallLst(w) => run'[w].op = "lst"
<1>1. \A r : Call(w, r) => run'[w] = r
  BY DEF SInv, Types, Call
<1>2. 0 \in Group /\ peers[0].peer \in Chunk \cup {Null}
  BY Memory
<1>3. CallAdd(w) => run'[w].op = "add"
  <2> SUFFICES ASSUME CallAdd(w) PROVE run'[w].op = "add"
    OBVIOUS
  <2>1. PICK n \in Name, k \in Weights, pc \in {"alloc", "group"} :
           Call(w, [Idle EXCEPT !.pc = pc, !.op = "add", !.want = n,
                                !.weight = k])
    BY DEF CallAdd
  <2> DEFINE q == [Idle EXCEPT !.pc = pc, !.op = "add", !.want = n,
                               !.weight = k]
  <2>2. q.op = "add" /\ Call(w, q)
    BY <2>1 DEF Idle
  <2> HIDE DEF q
  <2> QED  BY <1>1, <2>2
<1>4. CallLst(w) => run'[w].op = "lst"
  <2> SUFFICES ASSUME CallLst(w) PROVE run'[w].op = "lst"
    OBVIOUS
  <2> DEFINE n == IF peers[0].next = Null THEN 0
                  ELSE peers[peers[0].next].number
             q == [Idle EXCEPT !.pc = "size", !.op = "lst", !.size = n]
  <2>1. run' = [run EXCEPT ![w] = q]
    BY DEF CallLst, Call
  <2> HIDE DEF n
  <2>2. q.op = "lst"
    BY DEF Idle
  <2> HIDE DEF q
  <2> QED  BY <1>1, <2>1, <2>2 DEF Call
<1>5. ASSUME NEW q \in CallsOf, Call(w, q) \/ Call(w, Start(q, 0))
      PROVE  run'[w].op = q.op /\ run'[w].pc \in {q.pc, "walk"}
  <2>1. Start(q, 0).op = q.op /\ Start(q, 0).pc = "walk"
    BY <1>2, StartCall
  <2> QED  BY <1>1, <1>5, <2>1
<1>6. ASSUME CallDel(w)
      PROVE  run'[w].op = "del" /\ run'[w].pc \in {"group", "walk"}
  <2>1. PICK n \in Wants :
           LET q == [Idle EXCEPT !.pc = "group", !.op = "del", !.want = n] IN
           Call(w, q) \/ Call(w, Start(q, 0))
    BY <1>6 DEF CallDel
  <2> DEFINE q == [Idle EXCEPT !.pc = "group", !.op = "del", !.want = n]
  <2>2. q \in CallsOf /\ q.op = "del" /\ q.pc = "group"
    BY IdleCall, Constants DEF CallsOf, Pcs
  <2>3. Call(w, q) \/ Call(w, Start(q, 0))
    BY <2>1
  <2> HIDE DEF q
  <2> QED  BY <1>5, <2>2, <2>3
<1>7. ASSUME CallEdit(w) PROVE run'[w].op = "edit"
  <2>1. PICK n \in Wants, k \in Weights :
           LET q == [Idle EXCEPT !.pc = "group", !.op = "edit", !.want = n,
                                 !.weight = k] IN
           Call(w, q) \/ Call(w, Start(q, 0))
    BY <1>7 DEF CallEdit
  <2> DEFINE q == [Idle EXCEPT !.pc = "group", !.op = "edit", !.want = n,
                               !.weight = k]
  <2>2. q \in CallsOf /\ q.op = "edit"
    BY IdleCall, Constants DEF CallsOf, Pcs
  <2>3. Call(w, q) \/ Call(w, Start(q, 0))
    BY <2>1
  <2> HIDE DEF q
  <2> QED  BY <1>5, <2>2, <2>3
<1> QED  BY <1>3, <1>4, <1>6, <1>7

LEMMA StepKeepsOp ==
    ASSUME SInv, NEW w \in Worker, CallStep(w) \/ Crash(w)
    PROVE  run'[w].op \in {run[w].op, "none"}
<1>0. run \in [Worker -> CallsOf] /\ run[w] \in CallsOf /\ AtHand(run[w])
  BY AtCall DEF SInv, Types
<1>1. \A r : run' = [run EXCEPT ![w] = r] => run'[w] = r
  BY <1>0
<1>2. \A pc : Goto(w, pc) => run'[w].op = run[w].op
  BY <1>0 DEF Goto, CallsOf
<1>3. Finish(w) => run'[w].op = "none"
  BY <1>1, IdleCall DEF Finish, Call
<1>4. Call(w, Dead) => run'[w].op = "none"
  <2>1. Dead.op = "none"
    BY DEF Dead, Idle
  <2> QED  BY <1>1, <2>1 DEF Call
<1>5. /\ \A x, y : [run[w] EXCEPT !.pc = x, !.speer = y].op = run[w].op
      /\ \A x : [run[w] EXCEPT !.pc = x].op = run[w].op
      /\ \A x, y : [run[w] EXCEPT !.pc = x, !.group = y].op = run[w].op
      /\ \A g : Start(run[w], g).op = run[w].op
  BY <1>0 DEF CallsOf, Start
<1>6. CASE \/ Walk(w) \/ Check(w) \/ Lock(w) \/ Crash(w) \/ Segv(w)
           \/ Respawn(w) \/ SlabFull(w) \/ FillFails(w) \/ Fill(w)
           \/ NoGroup(w) \/ UnlockUnheld(w) \/ NextGroup(w)
           \/ Count(w) \/ Weigh(w) \/ Point(w) \/ Link(w)
           \/ UnlinkOther(w) \/ Free(w) \/ SetWeight(w)
  BY <1>2, <1>3, <1>4, <1>6
     DEF Walk, Check, Lock, Crash, Segv, Respawn, SlabFull, FillFails, Fill,
         NoGroup, UnlockUnheld, NextGroup, Count, Weigh, Point, Link,
         UnlinkOther, Free, SetWeight
<1>7. CASE Advance(w) \/ UnlinkFirst(w) \/ Size(w) \/ First(w) \/ Copy(w)
  <2>0. /\ \A x, y : [run[w] EXCEPT !.pc = "walk", !.speer = x,
                                    !.pspeer = y].op = run[w].op
        /\ \A x : [run[w] EXCEPT !.pc = "free", !.pspeer = x].op = run[w].op
        /\ \A x : [run[w] EXCEPT !.pc = "first", !.size = x].op = run[w].op
        /\ \A x, y : [run[w] EXCEPT !.rows = x, !.speer = y].op = run[w].op
    BY <1>0 DEF CallsOf
  <2>1. CASE Advance(w)
    BY <1>1, <2>0, <2>1 DEF Advance, Call
  <2>2. CASE UnlinkFirst(w)
    BY <1>1, <2>0, <2>2 DEF UnlinkFirst, Call
  <2>3. CASE Size(w)
    BY <1>1, <2>0, <2>3 DEF Size, Call
  <2>4. CASE First(w)
    BY <1>1, <1>5, <2>4 DEF First, Call
  <2>5. CASE Copy(w)
    BY <1>1, <2>0, <2>5 DEF Copy, Call
  <2> QED  BY <1>7, <2>1, <2>2, <2>3, <2>4, <2>5
<1>8. CASE Alloc(w)
  <2>1. PICK c : run' = [run EXCEPT ![w] =
                           [run[w] EXCEPT !.pc = "fill", !.speer = c]]
    BY <1>8 DEF Alloc, Call
  <2> QED  BY <1>1, <1>5, <2>1
<1>9. CASE Copied(w)
  <2>1. CASE Finish(w)
    BY <1>3, <2>1
  <2>2. CASE ~Finish(w)
    <3>1. PICK r : run' = [run EXCEPT ![w] = r] /\ r.op = run[w].op
      BY <1>0, <1>9, <2>2 DEF Copied, Call, CallsOf
    <3> QED  BY <1>1, <3>1
  <2> QED  BY <2>1, <2>2
<1>10. CASE FoundGroup(w) \/ NewGroup(w)
  <2>1. CASE NewGroup(w)
    <3>1. PICK g : run' = [run EXCEPT ![w] =
                             [run[w] EXCEPT !.pc = "lock", !.group = g]]
      BY <2>1 DEF NewGroup, Call
    <3> QED  BY <1>1, <1>5, <3>1
  <2>2. CASE FoundGroup(w) /\ run[w].op = "add"
    <3>1. PICK g : run' = [run EXCEPT ![w] =
                             [run[w] EXCEPT !.pc = "alloc", !.group = g]]
      BY <2>2 DEF FoundGroup, Call
    <3> QED  BY <1>1, <1>5, <3>1
  <2>3. CASE FoundGroup(w) /\ run[w].op # "add"
    <3>1. PICK g : run' = [run EXCEPT ![w] = Start(run[w], g)]
      BY <2>3 DEF FoundGroup, Call
    <3> QED  BY <1>1, <1>5, <3>1
  <2> QED  BY <1>10, <2>1, <2>2, <2>3
<1>11. CASE NewGroupFails(w)
  <2>1. run[w].op = "add"
    BY <1>0, <1>11 DEF NewGroupFails, At, AtHand
  <2>2. [Idle EXCEPT !.pc = "unlock unheld", !.op = "add"].op = "add"
    BY DEF Idle
  <2> QED  BY <1>1, <1>11, <2>1, <2>2 DEF NewGroupFails, Call
<1>12. CASE Unlock(w)
  <2>1. run[w].op \in {"add", "del", "edit"}
    BY <1>0, <1>12 DEF Unlock, At, AtHand
  <2>2. /\ Idle.op = "none"
        /\ \A x, y : [run[w] EXCEPT !.pc = x, !.speer = y].op = run[w].op
    BY <1>5, IdleCall
  <2>3. AfterUnlock(run[w]).op \in {run[w].op, "none"}
    BY <1>5, <2>1, <2>2 DEF AfterUnlock
  <2> QED  BY <1>1, <1>12, <2>3 DEF Unlock, Call
<1> QED
  BY <1>6, <1>7, <1>8, <1>9, <1>10, <1>11, <1>12 DEF CallStep

LEMMA OpsKeep ==
    ASSUME SInv, OneAtATime, [Next]_vars
    PROVE  OneAtATime'
<1>1. CASE UNCHANGED vars
  BY <1>1 DEF vars, OneAtATime
<1>2. ASSUME NEW w \in Worker, CallStep(w) \/ Crash(w)
      PROVE  OneAtATime'
  <2>1. \A v \in Worker \ {w} : run'[v] = run[v]
    BY <1>2, StepIsOwn
  <2>2. run'[w].op \in {run[w].op, "none"}
    BY <1>2, StepKeepsOp
  <2>3. \A v \in Worker : run'[v].op \in Changing => run'[v].op = run[v].op
    BY <2>1, <2>2 DEF Changing
  <2> QED  BY <2>1, <2>2, <2>3 DEF OneAtATime, Changing
<1>3. ASSUME NEW w \in Worker, Begin(w)
      PROVE  OneAtATime'
  <2>1. \A v \in Worker \ {w} : run'[v] = run[v]
    BY <1>3, StepIsOwn
  <2>2. run \in [Worker -> CallsOf]
    BY DEF SInv, Types
  <2>3. CASE "lst" \in Ops /\ CallLst(w)
    <3>1. run'[w].op = "lst"
      BY <2>2, <2>3 DEF CallLst, Call, Idle
    <3> QED  BY <2>1, <3>1 DEF OneAtATime, Changing
  <2>4. CASE /\ Cardinality(Changers) < MaxChangers
             /\ \/ "add" \in Ops /\ CallAdd(w)
                \/ "del" \in Ops /\ CallDel(w)
                \/ "edit" \in Ops /\ CallEdit(w)
    <3>1. run'[w].op = "del" => "del" \in Ops
      BY <2>4, Entered
    <3>2. MaxChangers <= 1 => Changers = {}
      <4>1. IsFiniteSet(Changers) /\ MaxChangers \in Nat
        BY ShmAssumption, FS_Subset DEF Changers
      <4>2. Cardinality(Changers) \in Nat
        BY <4>1, FS_CardinalityType
      <4>3. MaxChangers <= 1 => Cardinality(Changers) = 0
        BY <2>4, <4>1, <4>2
      <4> QED  BY <4>1, <4>3, FS_EmptySet
    <3>3. MaxChangers <= 1 =>
             \A v \in Worker \ {w} : run'[v].op \notin Changing
      BY <2>1, <3>2 DEF Changers, Changing
    <3> QED  BY <2>1, <3>1, <3>3 DEF OneAtATime
  <2> QED  BY <1>3, <2>3, <2>4 DEF Begin
<1> QED  BY <1>1, <1>2, <1>3 DEF Next

\* A del has the list for itself.
LEMMA DelIsAlone ==
    ASSUME OneAtATime, Regime, NEW v \in Worker, NEW w \in Worker, v # w,
           run[v].op = "del"
    PROVE  run[w].op \notin Changing
BY DEF OneAtATime, Regime, Changing

-----------------------------------------------------------------------------
\* What is in the lists, from the invariant.
LEMMA ListsHave ==
    ASSUME SInv, Lists
    PROVE  /\ \A g \in Group :
                 /\ Linked(g) \subseteq Chunk /\ Linked(g) \subseteq AllLinked
                 /\ IsFiniteSet(Linked(g))
                 /\ Cardinality(Linked(g)) \in 0 .. Chunks
                 /\ peers[g].peer = Null <=> Linked(g) = {}
                 /\ peers[g].peer \in Linked(g) \cup {Null}
                 /\ \A c \in Linked(g) :
                       /\ mem[c].next \in Linked(g) \cup {Null}
                       /\ mem[c].next # peers[g].peer /\ mem[c].next # c
           /\ AllLinked \subseteq Chunk /\ Null \notin AllLinked
<1>1. ASSUME NEW g \in Group
      PROVE  /\ Linked(g) \subseteq Chunk /\ IsFiniteSet(Linked(g))
             /\ Cardinality(Linked(g)) \in 0 .. Chunks
             /\ peers[g].peer = Null <=> Linked(g) = {}
             /\ peers[g].peer \in Linked(g) \cup {Null}
             /\ \A c \in Linked(g) :
                   /\ mem[c].next \in Linked(g) \cup {Null}
                   /\ mem[c].next # peers[g].peer /\ mem[c].next # c
  BY ListFacts DEF Lists
<1>2. \A g \in Group : Linked(g) \subseteq AllLinked
  BY DEF AllLinked
<1>3. AllLinked \subseteq Chunk
  BY <1>1 DEF AllLinked
<1> QED  BY <1>1, <1>2, <1>3, ChunkFacts

\* What the list of a group is after a step.
LEMMA NewList ==
    ASSUME NEW g \in Group, NEW L, IsList(L, peers'[g].peer, mem')
    PROVE  Linked(g)' = L /\ IsList(Linked(g)', peers'[g].peer, mem')
<1>1. Range(Follow(peers'[g].peer, mem')) \ {Null} = L
  BY ListIsFollowed
<1>2. Linked(g)' = Range(Follow(peers'[g].peer, mem')) \ {Null}
  BY DEF Linked
<1> QED  BY <1>1, <1>2

\* The heads of the lists, and the chunks in them, point where they did.
SameHeads == \A g \in Group : peers'[g].peer = peers[g].peer
SameNexts == \A c \in AllLinked : mem'[c].next = mem[c].next

LEMMA SameLists ==
    ASSUME SInv, Lists, SameHeads, SameNexts
    PROVE  Lists' /\ AllLinked' = AllLinked /\ \A g \in Group : Linked(g)' = Linked(g)
<1>1. ASSUME NEW g \in Group
      PROVE  /\ Linked(g)' = Linked(g)
             /\ IsList(Linked(g)', peers'[g].peer, mem')
  <2>1. IsList(Linked(g), peers[g].peer, mem')
    BY ListsHave, ListStays DEF Lists, SameNexts
  <2> QED  BY <2>1, NewList DEF SameHeads
<1>2. Lists'
  BY <1>1 DEF Lists
<1>3. AllLinked' = AllLinked
  BY <1>1 DEF AllLinked
<1> QED  BY <1>1, <1>2, <1>3

\* A step of worker w on its local variables.
LEMMA QuietKeeps ==
    ASSUME SInv, LInv, NEW w \in Worker, NEW r \in CallsOf,
           run' = [run EXCEPT ![w] = r],
           SameHeads, UNCHANGED << mem, used >>, Mine(r),
           Owns(r) => Owns(run[w]) /\ run[w].speer = r.speer
    PROVE  LInv' /\ \A g \in Group : Linked(g)' = Linked(g)
<1>1. run \in [Worker -> CallsOf] /\ Lists /\ Sound /\ Distinct
  BY DEF SInv, Types, LInv
<1>2. SameNexts
  BY DEF SameNexts
<1>3. Lists' /\ AllLinked' = AllLinked /\ \A g \in Group : Linked(g)' = Linked(g)
  BY <1>1, <1>2, SameLists
<1>4. Sound'
  BY <1>1, <1>3 DEF Sound
<1>5. run'[w] = r /\ \A v \in Worker \ {w} : run'[v] = run[v]
  BY <1>1
<1>6. Distinct'
  <2>1. \A v \in Worker : Owns(run'[v]) => Owns(run[v]) /\ run[v].speer = run'[v].speer
    BY <1>5
  <2>2. \A v \in Worker : Owns(run[v])' <=> Owns(run'[v])
    BY DEF Owns
  <2> QED  BY <1>1, <2>1, <2>2 DEF Distinct
<1>7. ASSUME NEW v \in Worker, NEW q, Mine(q), run'[v] = q,
             q.group \in Group
      PROVE  Mine(run[v])'
  <2>1. OwnsIt(run[v])'
    BY <1>3, <1>7 DEF Mine, OwnsIt, Owns, SameHeads
  <2>2. EditsIt(run[v])'
    BY <1>3, <1>7 DEF Mine, EditsIt
  <2>3. DelsIt(run[v])'
    BY <1>3, <1>7 DEF Mine, DelsIt, SameHeads, Matches
  <2> QED  BY <2>1, <2>2, <2>3 DEF Mine
<1>8. ASSUME NEW v \in Worker PROVE Mine(run[v])'
  <2>1. CASE v = w
    <3>1. Mine(r) /\ run'[v] = r /\ r.group \in Group
      BY <1>5, <2>1, Fields
    <3> QED  BY <1>7, <3>1
  <2>2. CASE v # w
    <3>1. Mine(run[v]) /\ run'[v] = run[v] /\ run[v].group \in Group
      BY <1>1, <1>5, <2>2, Fields DEF LInv
    <3> QED  BY <1>7, <3>1
  <2> QED  BY <2>1, <2>2
<1> QED  BY <1>3, <1>4, <1>6, <1>8 DEF LInv

LEMMA Unowned ==
    /\ Mine(Idle) /\ ~Owns(Idle) /\ Idle \in CallsOf
    /\ Mine(Dead) /\ ~Owns(Dead) /\ Dead \in CallsOf
<1>1. Idle.op = "none" /\ Dead.op = "none"
  BY DEF Idle, Dead
<1> QED
  BY <1>1, IdleCall, DeadCall DEF Mine, OwnsIt, EditsIt, DelsIt, Owns

\* The lists do not change in steps that end a call, or that only go on.
LEMMA FinishQuiet ==
    ASSUME SInv, LInv, NEW w \in Worker, Finish(w) \/ Call(w, Dead),
           UNCHANGED << peers, mem, used >>
    PROVE  LInv' /\ \A g \in Group : Linked(g)' = Linked(g)
<1>1. SameHeads
  BY DEF SameHeads
<1>2. CASE Finish(w)
  <2>1. run' = [run EXCEPT ![w] = Idle]
    BY <1>2 DEF Finish, Call
  <2> QED  BY <1>1, <2>1, Unowned, QuietKeeps
<1>3. CASE Call(w, Dead)
  <2>1. run' = [run EXCEPT ![w] = Dead]
    BY <1>3 DEF Call
  <2> QED  BY <1>1, <2>1, Unowned, QuietKeeps
<1> QED  BY <1>2, <1>3

LEMMA GotoFields ==
    ASSUME NEW q \in CallsOf, NEW pc \in Pcs
    PROVE  LET r == [q EXCEPT !.pc = pc] IN
           /\ r \in CallsOf /\ r.pc = pc /\ r.op = q.op
           /\ r.want = q.want /\ r.weight = q.weight /\ r.group = q.group
           /\ r.speer = q.speer /\ r.pspeer = q.pspeer
BY DEF CallsOf

\* From statement q.pc a call may go on to pc as far as the lists go.
MayGo(q, pc) ==
    /\ q.op = "add" /\ q.speer # Null
          /\ pc \in {"fill", "lock", "count", "weigh", "point", "link"} =>
             Owns(q) /\ q.pc # "fill" /\ pc # "link"
    /\ q.op = "edit"
          /\ pc \in {"walk", "next", "lock", "weigh", "set", "unlock"} =>
             q.pc \in {"walk", "next", "lock", "weigh", "set", "unlock"}
    /\ q.op = "del" /\ pc \in Searching \cup {"next", "free", "unlock"} =>
             /\ pc \notin {"free", "unlock"} /\ q.pc \in Searching
             /\ pc \in Searching \ {"walk"} =>
                   q.pc # "walk" \/ Matches(q)

LEMMA GotoQuiet ==
    ASSUME SInv, LInv, NEW w \in Worker, NEW pc \in Pcs, Goto(w, pc),
           SameHeads, UNCHANGED << mem, used >>, MayGo(run[w], pc)
    PROVE  LInv' /\ \A g \in Group : Linked(g)' = Linked(g)
<1> DEFINE q == run[w]
           r == [q EXCEPT !.pc = pc]
<1>1. q \in CallsOf /\ Mine(q)
  BY AtCall DEF LInv
<1>2. /\ r \in CallsOf /\ r.pc = pc /\ r.op = q.op
      /\ r.want = q.want /\ r.weight = q.weight /\ r.group = q.group
      /\ r.speer = q.speer /\ r.pspeer = q.pspeer
  BY <1>1, GotoFields
<1>3. run' = [run EXCEPT ![w] = r]
  BY DEF Goto
<1>4. MayGo(q, pc)
  OBVIOUS
<1> HIDE DEF r, q
<1>5. Owns(r) => Owns(q) /\ q.speer = r.speer
  BY <1>2, <1>4 DEF Owns, MayGo
<1>6. OwnsIt(r)
  BY <1>1, <1>2, <1>4 DEF Owns, MayGo, Mine, OwnsIt
<1>7. EditsIt(r)
  BY <1>1, <1>2, <1>4 DEF MayGo, Mine, EditsIt
<1>8. DelsIt(r)
  BY <1>1, <1>2, <1>4 DEF MayGo, Mine, DelsIt, Matches, Searching
<1> QED  BY <1>2, <1>3, <1>5, <1>6, <1>7, <1>8, QuietKeeps DEF Mine, q

LEMMA EndsQuiet ==
    ASSUME SInv, LInv, NEW w \in Worker,
           \/ SlabFull(w) \/ FillFails(w) \/ UnlockUnheld(w)
           \/ Crash(w) \/ Segv(w) \/ Respawn(w)
    PROVE  LInv' /\ \A g \in Group : Linked(g)' = Linked(g)
<1>1. /\ Finish(w) \/ Call(w, Dead)
      /\ UNCHANGED << peers, mem, used >>
  BY DEF SlabFull, FillFails, UnlockUnheld, Crash, Segv, Respawn
<1> QED  BY <1>1, FinishQuiet

LEMMA GoesQuiet ==
    ASSUME SInv, LInv, NEW w \in Worker,
           \/ Walk(w) \/ Check(w) \/ Lock(w) \/ NoGroup(w)
           \/ NextGroup(w) \/ Count(w) \/ Weigh(w)
    PROVE  LInv' /\ \A g \in Group : Linked(g)' = Linked(g)
<1>1. /\ run[w] \in CallsOf /\ AtHand(run[w]) /\ run[w].group \in Group
      /\ peers \in [Group -> GroupsOf] /\ 0 \in Group
  BY AtCall, Fields, Memory DEF SInv, Types
<1>2. \A p : p = peers => \A g \in Group : p[g].peer = peers[g].peer
  OBVIOUS
<1>3. CASE Walk(w)
  <2>1. UNCHANGED << peers, mem, used >> /\ SameHeads /\ run[w].pc = "walk"
    BY <1>3 DEF Walk, At, SameHeads
  <2>2. CASE Finish(w)
    BY <2>1, <2>2, FinishQuiet
  <2>3. CASE ~Finish(w)
    <3>1. PICK pc \in {"next", "check", "lock"} :
             /\ Goto(w, pc)
             /\ pc = "next" \/ Matches(run[w])
      <4>1. Goto(w, IF ~Matches(run[w]) THEN "next"
                    ELSE IF run[w].op = "del" THEN "check" ELSE "lock")
        BY <1>3, <2>3 DEF Walk
      <4> QED  BY <4>1
    <3>2. pc \in Pcs
      BY DEF Pcs
    <3>3. MayGo(run[w], pc)
      BY <1>1, <2>1, <3>1 DEF MayGo, Searching, AtHand
    <3> QED  BY <2>1, <3>1, <3>2, <3>3, GotoQuiet
  <2> QED  BY <2>2, <2>3
<1>4. CASE Check(w)
  <2>1. UNCHANGED << peers, mem, used >> /\ SameHeads /\ run[w].pc = "check"
    BY <1>4 DEF Check, At, SameHeads
  <2>2. CASE Goto(w, "lock")
    <3>1. "lock" \in Pcs
      BY DEF Pcs
    <3>2. MayGo(run[w], "lock")
      BY <1>1, <2>1 DEF MayGo, Searching, AtHand
    <3> QED  BY <2>1, <2>2, <3>1, <3>2, GotoQuiet
  <2> QED  BY <1>4, <2>1, <2>2, FinishQuiet DEF Check
<1>5. CASE Lock(w)
  <2>1. UNCHANGED << peers, mem, used >> /\ SameHeads /\ run[w].pc = "lock"
    BY <1>5 DEF Lock, At, SameHeads
  <2>2. PICK pc \in {"weigh", "next group", "count"} :
           /\ Goto(w, pc)
           /\ pc = "weigh" => run[w].op = "edit"
           /\ pc = "next group" => MakesGroup(run[w])
           /\ pc = "count" => ~MakesGroup(run[w]) /\ run[w].op # "edit"
    BY <1>5 DEF Lock
  <2>3. pc \in Pcs
    BY DEF Pcs, Section
  <2>4. MayGo(run[w], pc)
    BY <1>1, <2>1, <2>2 DEF MayGo, Searching, AtHand, MakesGroup, Owns
  <2> QED  BY <2>1, <2>2, <2>3, <2>4, GotoQuiet
<1>6. CASE NoGroup(w)
  <2>1. UNCHANGED << peers, mem, used >> /\ SameHeads /\ run[w].pc = "group"
    BY <1>6 DEF NoGroup, At, SameHeads
  <2>2. CASE Goto(w, "new group")
    <3>1. "new group" \in Pcs
      BY DEF Pcs
    <3>2. MayGo(run[w], "new group")
      BY <1>1, <2>1 DEF MayGo, Searching, AtHand
    <3> QED  BY <2>1, <2>2, <3>1, <3>2, GotoQuiet
  <2> QED  BY <1>6, <2>1, <2>2, FinishQuiet DEF NoGroup
<1>7. CASE NextGroup(w)
  <2>1. /\ UNCHANGED << mem, used >> /\ run[w].pc = "next group"
        /\ Goto(w, "unlock") /\ run[w].op = "add"
        /\ peers' = [peers EXCEPT ![0].next = run[w].group]
    BY <1>1, <1>7 DEF NextGroup, At, AtHand
  <2>2. SameHeads
    BY <1>1, <2>1 DEF SameHeads, GroupsOf
  <2>3. "unlock" \in Pcs
    BY DEF Pcs, Section
  <2>4. MayGo(run[w], "unlock")
    BY <2>1 DEF MayGo, Searching
  <2> QED  BY <2>1, <2>2, <2>3, <2>4, GotoQuiet
<1>8. CASE Count(w)
  <2>1. /\ UNCHANGED << mem, used >> /\ run[w].pc = "count"
        /\ Goto(w, "weigh") /\ run[w].op # "edit"
    BY <1>1, <1>8 DEF Count, At, AtHand
  <2>2. SameHeads
    <3>1. PICK n : peers' = [peers EXCEPT ![run[w].group].number = n]
      BY <1>8 DEF Count
    <3> QED  BY <1>1, <3>1 DEF SameHeads, GroupsOf
  <2>3. "weigh" \in Pcs
    BY DEF Pcs, Section
  <2>4. MayGo(run[w], "weigh")
    BY <2>1 DEF MayGo, Searching, Owns
  <2> QED  BY <2>1, <2>2, <2>3, <2>4, GotoQuiet
<1>9. CASE Weigh(w)
  <2>1. /\ UNCHANGED << mem, used >> /\ run[w].pc = "weigh"
        /\ run[w].op \in {"add", "del", "edit"}
    BY <1>1, <1>9 DEF Weigh, At, AtHand
  <2>2. SameHeads
    <3>1. PICK n : peers' = [peers EXCEPT ![run[w].group].total_weight = n]
      BY <1>9 DEF Weigh
    <3> QED  BY <1>1, <3>1 DEF SameHeads, GroupsOf
  <2>3. PICK pc \in {"point", "unlink", "set"} :
           /\ Goto(w, pc)
           /\ pc = "point" => run[w].op = "add"
           /\ pc = "unlink" => run[w].op = "del"
           /\ pc = "set" => run[w].op = "edit"
    BY <1>9, <2>1 DEF Weigh
  <2>4. pc \in Pcs
    BY DEF Pcs, Section
  <2>5. MayGo(run[w], pc)
    BY <2>1, <2>3 DEF MayGo, Searching, Owns
  <2> QED  BY <2>1, <2>2, <2>3, <2>4, <2>5, GotoQuiet
<1> QED  BY <1>3, <1>4, <1>5, <1>6, <1>7, <1>8, <1>9

\* The cursors start at the head of a list.
LEMMA StartMine ==
    ASSUME SInv, LInv, NEW q \in CallsOf, q.op \in {"del", "edit"},
           NEW g \in Group
    PROVE  Start(q, g) \in CallsOf /\ Mine(Start(q, g)) /\ ~Owns(Start(q, g))
<1> DEFINE r == Start(q, g)
           h == peers[g].peer
<1>1. h \in Chunk \cup {Null} /\ h \in Linked(g) \cup {Null}
  BY Memory, ListsHave DEF LInv
<1>2. /\ r \in CallsOf /\ r.pc = "walk" /\ r.op = q.op /\ r.group = g
      /\ r.speer = h /\ (r.op = "del" => r.pspeer = h)
  BY <1>1, StartCall
<1> HIDE DEF r
<1>3. ~Owns(r) /\ OwnsIt(r) /\ EditsIt(r)
  BY <1>1, <1>2 DEF OwnsIt, Owns, EditsIt
<1>4. DelsIt(r)
  BY <1>1, <1>2 DEF DelsIt, Searching, h
<1> QED  BY <1>2, <1>3, <1>4 DEF Mine, r

\* A call that has no peer.
LEMMA OtherMine ==
    ASSUME NEW r, \/ r.op \in {"none", "lst"}
                  \/ r.pc \in {"group", "alloc", "new group", "size", "first",
                               "copy", "unlock unheld"}
                  \/ r.op = "add" /\ r.speer = Null
                  \/ r.op = "add" /\ r.pc = "unlock"
    PROVE  Mine(r) /\ ~Owns(r)
BY DEF Mine, OwnsIt, Owns, EditsIt, DelsIt, Searching

LEMMA BeginQuiet ==
    ASSUME SInv, LInv, NEW w \in Worker, Begin(w)
    PROVE  LInv' /\ \A g \in Group : Linked(g)' = Linked(g)
<1>1. /\ UNCHANGED << peers, mem, used >> /\ SameHeads
      /\ run'[w] \in CallsOf /\ 0 \in Group
  <2>1. SInv'
    BY BeginKeeps
  <2> QED  BY <2>1, Memory DEF Begin, SameHeads, SInv, Types
<1>2. ASSUME NEW r, Call(w, r), Mine(r), ~Owns(r)
      PROVE  LInv' /\ \A g \in Group : Linked(g)' = Linked(g)
  <2>1. run' = [run EXCEPT ![w] = r] /\ run'[w] = r
    BY <1>2 DEF Call, SInv, Types
  <2>2. r \in CallsOf
    BY <1>1, <2>1
  <2> QED  BY <1>1, <1>2, <2>1, <2>2, QuietKeeps
<1>3. CASE CallAdd(w)
  <2>1. PICK n \in Name, k \in Weights, pc \in {"alloc", "group"} :
           Call(w, [Idle EXCEPT !.pc = pc, !.op = "add", !.want = n,
                                !.weight = k])
    BY <1>3 DEF CallAdd
  <2> DEFINE r == [Idle EXCEPT !.pc = pc, !.op = "add", !.want = n,
                               !.weight = k]
  <2>2. r.op = "add" /\ r.speer = Null
    BY DEF Idle
  <2>3. Mine(r) /\ ~Owns(r)
    <3> HIDE DEF r
    <3> QED  BY <2>2, OtherMine
  <2> QED  BY <1>2, <2>1, <2>3
<1>4. ASSUME NEW q \in CallsOf, q.op \in {"del", "edit"}, q.pc = "group",
             Call(w, q) \/ Call(w, Start(q, 0))
      PROVE  LInv' /\ \A g \in Group : Linked(g)' = Linked(g)
  BY <1>1, <1>2, <1>4, StartMine, OtherMine
<1>5. CASE CallDel(w)
  <2>1. PICK n \in Wants :
           LET r == [Idle EXCEPT !.pc = "group", !.op = "del", !.want = n] IN
           Call(w, r) \/ Call(w, Start(r, 0))
    BY <1>5 DEF CallDel
  <2> DEFINE r == [Idle EXCEPT !.pc = "group", !.op = "del", !.want = n]
  <2>2. r \in CallsOf /\ r.op = "del" /\ r.pc = "group"
    BY IdleCall, Constants DEF CallsOf, Pcs
  <2> QED  BY <1>4, <2>1, <2>2
<1>6. CASE CallEdit(w)
  <2>1. PICK n \in Wants, k \in Weights :
           LET r == [Idle EXCEPT !.pc = "group", !.op = "edit", !.want = n,
                                 !.weight = k] IN
           Call(w, r) \/ Call(w, Start(r, 0))
    BY <1>6 DEF CallEdit
  <2> DEFINE r == [Idle EXCEPT !.pc = "group", !.op = "edit", !.want = n,
                               !.weight = k]
  <2>2. r \in CallsOf /\ r.op = "edit" /\ r.pc = "group"
    BY IdleCall, Constants DEF CallsOf, Pcs
  <2> QED  BY <1>4, <2>1, <2>2
<1>7. CASE CallLst(w)
  <2>1. PICK n : Call(w, [Idle EXCEPT !.pc = "size", !.op = "lst", !.size = n])
    BY <1>7 DEF CallLst
  <2> DEFINE r == [Idle EXCEPT !.pc = "size", !.op = "lst", !.size = n]
  <2>2. r.op = "lst"
    BY DEF Idle
  <2>3. Mine(r) /\ ~Owns(r)
    <3> HIDE DEF r
    <3> QED  BY <2>2, OtherMine
  <2> QED  BY <1>2, <2>1, <2>3
<1> QED  BY <1>3, <1>5, <1>6, <1>7 DEF Begin

LEMMA LocalQuiet ==
    ASSUME SInv, SInv', LInv, NEW w \in Worker,
           \/ Unlock(w) \/ FoundGroup(w) \/ NewGroup(w) \/ NewGroupFails(w)
           \/ Advance(w) \/ Size(w) \/ First(w) \/ Copy(w) \/ Copied(w)
    PROVE  LInv' /\ \A g \in Group : Linked(g)' = Linked(g)
<1>1. /\ UNCHANGED << peers, mem, used >> /\ SameHeads
      /\ run'[w] \in CallsOf /\ run[w] \in CallsOf
      /\ AtHand(run[w]) /\ Mine(run[w]) /\ run[w].group \in Group
  <2>1. UNCHANGED << peers, mem, used >>
    BY DEF Unlock, FoundGroup, NewGroup, NewGroupFails, Advance, Size, First,
           Copy, Copied
  <2> QED  BY <2>1, AtCall, Fields DEF SameHeads, SInv, Types, LInv
<1>2. ASSUME NEW r, Call(w, r), Mine(r), ~Owns(r)
      PROVE  LInv' /\ \A g \in Group : Linked(g)' = Linked(g)
  <2>1. run' = [run EXCEPT ![w] = r] /\ run'[w] = r
    BY <1>2 DEF Call, SInv, Types
  <2>2. r \in CallsOf
    BY <1>1, <2>1
  <2> QED  BY <1>1, <1>2, <2>1, <2>2, QuietKeeps
<1>3. CASE Size(w) \/ First(w)
  <2>1. CASE Size(w)
    <3> DEFINE n == Uint(run[w].size + peers[0].number)
               r == [run[w] EXCEPT !.pc = "first", !.size = n]
    <3>1. Call(w, r)
      BY <2>1 DEF Size
    <3>2. r.pc = "first"
      <4> HIDE DEF n
      <4> QED  BY <1>1 DEF CallsOf
    <3> HIDE DEF r
    <3> QED  BY <1>2, <3>1, <3>2, OtherMine
  <2>2. CASE First(w)
    <3> DEFINE n == peers[run[w].group].peer
               r == [run[w] EXCEPT !.pc = "copy", !.speer = n]
    <3>1. Call(w, r)
      BY <2>2 DEF First
    <3>2. r.pc = "copy"
      <4> HIDE DEF n
      <4> QED  BY <1>1 DEF CallsOf
    <3> HIDE DEF r
    <3> QED  BY <1>2, <3>1, <3>2, OtherMine
  <2> QED  BY <1>3, <2>1, <2>2
<1>4. CASE Copy(w)
  <2> DEFINE n == mem[run[w].speer].next
             k == run[w].rows + 1
             r == [run[w] EXCEPT !.rows = k, !.speer = n]
  <2>1. Call(w, r) /\ run[w].pc = "copy"
    BY <1>4 DEF Copy, At
  <2>2. r.pc = "copy"
    <3> HIDE DEF n, k
    <3> QED  BY <1>1, <2>1 DEF CallsOf
  <2> HIDE DEF r
  <2> QED  BY <1>2, <2>1, <2>2, OtherMine
<1>5. CASE Copied(w)
  <2>1. CASE ~Finish(w)
    <3> DEFINE n == peers[run[w].group].next
               r == [run[w] EXCEPT !.pc = "first", !.group = n, !.speer = Null]
    <3>1. Call(w, r)
      BY <1>5, <2>1 DEF Copied
    <3>2. r.pc = "first"
      <4> HIDE DEF n
      <4> QED  BY <1>1 DEF CallsOf
    <3> HIDE DEF r
    <3> QED  BY <1>2, <3>1, <3>2, OtherMine
  <2> QED  BY <1>1, <2>1, FinishQuiet
<1>6. CASE NewGroup(w)
  <2>1. PICK g : Call(w, [run[w] EXCEPT !.pc = "lock", !.group = g])
    BY <1>6 DEF NewGroup
  <2> DEFINE r == [run[w] EXCEPT !.pc = "lock", !.group = g]
  <2>2. r.op = "add" /\ r.speer = Null
    BY <1>1, <1>6 DEF NewGroup, At, AtHand, CallsOf
  <2>3. Mine(r) /\ ~Owns(r)
    <3> HIDE DEF r
    <3> QED  BY <2>2, OtherMine
  <2> QED  BY <1>2, <2>1, <2>3
<1>7. CASE NewGroupFails(w)
  <2> DEFINE r == [Idle EXCEPT !.pc = "unlock unheld", !.op = "add"]
  <2>1. Call(w, r) /\ r.pc = "unlock unheld"
    BY <1>7 DEF NewGroupFails, Idle
  <2> HIDE DEF r
  <2> QED  BY <1>2, <2>1, OtherMine
<1>8. CASE FoundGroup(w)
  <2>1. run[w].op \in {"add", "del", "edit"} /\ peers[0].next \in Group
    BY <1>1, <1>8, Memory DEF FoundGroup, At, AtHand
  <2>2. CASE run[w].op = "add"
    <3> DEFINE n == peers[0].next
               r == [run[w] EXCEPT !.pc = "alloc", !.group = n]
    <3>1. Call(w, r)
      BY <1>8, <2>2 DEF FoundGroup
    <3>2. r.pc = "alloc"
      <4> HIDE DEF n
      <4> QED  BY <1>1 DEF CallsOf
    <3> HIDE DEF r
    <3> QED  BY <1>2, <3>1, <3>2, OtherMine
  <2>3. CASE run[w].op # "add"
    <3>1. Call(w, Start(run[w], peers[0].next))
      BY <1>8, <2>3 DEF FoundGroup
    <3> QED  BY <1>1, <1>2, <2>1, <2>3, <3>1, StartMine
  <2> QED  BY <2>2, <2>3
<1>9. CASE Advance(w)
  <2> DEFINE q == run[w]
             next == mem[q.speer].next
             back == IF q.op = "del" THEN q.speer ELSE q.pspeer
             r == [q EXCEPT !.pc = "walk", !.speer = next, !.pspeer = back]
  <2>1. /\ q.pc = "next" /\ q.speer # Null /\ q.op \in {"del", "edit"}
        /\ Call(w, r)
    BY <1>1, <1>9 DEF Advance, At, AtHand
  <2>2. /\ r.pc = "walk" /\ r.op = q.op /\ r.group = q.group
        /\ r.speer = next /\ r.pspeer = back
    <3> HIDE DEF next, back
    <3> QED  BY <1>1 DEF CallsOf
  <2> HIDE DEF r
  <2>3. q.speer \in Linked(q.group)
    BY <1>1, <2>1 DEF Mine, EditsIt, DelsIt
  <2>4. next \in Linked(q.group) \cup {Null}
    BY <1>1, <2>3, ListsHave DEF LInv
  <2>5. Owns(r) <=> FALSE
    BY <2>1, <2>2 DEF Owns
  <2>6. OwnsIt(r) /\ EditsIt(r)
    BY <2>2, <2>4, <2>5 DEF OwnsIt, EditsIt
  <2>7. DelsIt(r)
    <3>1. r.op = "del" => r.pspeer = q.speer
      BY <2>2
    <3> HIDE DEF back
    <3> QED  BY <2>1, <2>2, <2>3, <2>4, <3>1 DEF DelsIt, Searching
  <2> QED  BY <1>2, <2>1, <2>5, <2>6, <2>7 DEF Mine
<1>10. CASE Unlock(w)
  <2> DEFINE q == run[w]
  <2>1. /\ q.pc = "unlock" /\ q.op \in {"add", "del", "edit"}
        /\ Call(w, AfterUnlock(q))
    BY <1>1, <1>10 DEF Unlock, At, AtHand
  <2>2. CASE q.op = "add"
    <3>1. CASE MakesGroup(q)
      <4>1. PICK r : Call(w, r) /\ r.pc = "group"
        BY <1>1, <2>1, <2>2, <3>1 DEF AfterUnlock, CallsOf, MakesGroup
      <4> QED  BY <1>2, <4>1, OtherMine
    <3>2. CASE ~MakesGroup(q)
      <4>1. Finish(w)
        BY <2>1, <2>2, <3>2 DEF AfterUnlock, Finish
      <4> QED  BY <1>1, <4>1, FinishQuiet
    <3> QED  BY <3>1, <3>2
  <2>3. CASE q.op = "del"
    <3> DEFINE back == q.pspeer
               r == [q EXCEPT !.pc = "next", !.speer = back]
    <3>1. Call(w, r)
      BY <2>1, <2>3 DEF AfterUnlock, MakesGroup
    <3>2. /\ r.pc = "next" /\ r.op = "del" /\ r.group = q.group
          /\ r.speer = q.pspeer /\ r.pspeer = q.pspeer
      BY <1>1, <2>3 DEF CallsOf
    <3> HIDE DEF r
    <3>3. Owns(r) <=> FALSE
      BY <3>2 DEF Owns
    <3>4. Mine(r)
      BY <1>1, <2>1, <2>3, <3>2, <3>3
         DEF Mine, OwnsIt, EditsIt, DelsIt, Searching
    <3> QED  BY <1>2, <3>1, <3>3, <3>4
  <2>4. CASE q.op = "edit"
    <3> DEFINE r == [q EXCEPT !.pc = "next"]
    <3>1. Call(w, r)
      BY <2>1, <2>4 DEF AfterUnlock, MakesGroup
    <3>2. /\ r.pc = "next" /\ r.op = "edit" /\ r.group = q.group
          /\ r.speer = q.speer
      BY <1>1, <2>4 DEF CallsOf
    <3> HIDE DEF r
    <3>3. Owns(r) <=> FALSE
      BY <3>2 DEF Owns
    <3>4. Mine(r)
      BY <1>1, <2>1, <2>4, <3>2, <3>3 DEF Mine, OwnsIt, EditsIt, DelsIt
    <3> QED  BY <1>2, <3>1, <3>3, <3>4
  <2> QED  BY <2>1, <2>2, <2>3, <2>4
<1> QED  BY <1>3, <1>4, <1>5, <1>6, <1>7, <1>8, <1>9, <1>10

-----------------------------------------------------------------------------
\* The calls of the other workers, after a step of w on the chunk c that
\* left the heads of the lists.
LEMMA OthersStay ==
    ASSUME SInv, LInv, OneAtATime, Regime, NEW w \in Worker,
           run[w].op \in Changing, NEW c \in Chunk,
           \A d \in Chunk \ {c} : mem'[d] = mem[d],
           \A v \in Worker \ {w} : run'[v] = run[v],
           used \subseteq used', SameHeads,
           AllLinked' = AllLinked, \A g \in Group : Linked(g)' = Linked(g),
           NEW v \in Worker, v # w, Owns(run[v]) => run[v].speer # c
    PROVE  Mine(run[v])'
<1>1. /\ Mine(run[v]) /\ run[v] \in CallsOf /\ run[v].group \in Group
      /\ run[v].op # "del" /\ run'[v] = run[v]
      /\ run[v].speer \in Chunk \cup {Null}
  BY DelIsAlone, AtCall, Fields DEF LInv
<1>2. PICK q \in CallsOf : q = run[v]
  BY <1>1
<1>3. OwnsIt(run[v])'
  <2>1. Owns(q) => q.speer \in Chunk \ {c}
    BY <1>1, <1>2 DEF Owns
  <2>2. Owns(q) => mem'[q.speer] = mem[q.speer]
    BY <2>1
  <2> QED  BY <1>1, <1>2, <2>2 DEF Mine, OwnsIt, Owns, SameHeads
<1>4. EditsIt(run[v])' /\ DelsIt(run[v])'
  BY <1>1 DEF Mine, EditsIt, DelsIt
<1> QED  BY <1>3, <1>4 DEF Mine

\* A step of an add on its own chunk, which is in no list yet.
LEMMA OffListKeeps ==
    ASSUME SInv, LInv, OneAtATime, Regime, NEW w \in Worker,
           run[w].op = "add", NEW r \in CallsOf, run' = [run EXCEPT ![w] = r],
           NEW c \in Chunk, c \notin AllLinked, c \in used',
           \A d \in Chunk \ {c} : mem'[d] = mem[d],
           used \subseteq used', SameHeads,
           \A v \in Worker \ {w} : Owns(run[v]) => run[v].speer # c,
           Owns(r), r.speer = c, r.group \in Group,
           r.pc # "fill" => mem'[c].weight = r.weight,
           r.pc = "link" => mem'[c].next = peers[r.group].peer
    PROVE  LInv' /\ \A g \in Group : Linked(g)' = Linked(g)
<1>1. /\ run \in [Worker -> CallsOf] /\ Lists /\ Sound /\ Distinct
      /\ AllLinked \subseteq Chunk
  BY ListsHave DEF SInv, Types, LInv
<1>2. SameNexts
  BY <1>1 DEF SameNexts
<1>3. Lists' /\ AllLinked' = AllLinked /\ \A g \in Group : Linked(g)' = Linked(g)
  BY <1>1, <1>2, SameLists
<1>4. Sound'
  BY <1>1, <1>3 DEF Sound
<1>5. run'[w] = r /\ \A v \in Worker \ {w} : run'[v] = run[v]
  BY <1>1
<1>6. Distinct'
  <2>1. \A v \in Worker : Owns(run[v])' <=> Owns(run'[v])
    BY DEF Owns
  <2>2. \A v \in Worker \ {w} : Owns(run[v])' => Owns(run[v]) /\ run'[v].speer # c
    BY <1>5, <2>1
  <2> QED  BY <1>1, <1>5, <2>2 DEF Distinct
<1>7. Mine(run[w])'
  <2>1. OwnsIt(run[w])'
    BY <1>3, <1>5 DEF OwnsIt, Owns, SameHeads
  <2>2. EditsIt(run[w])' /\ DelsIt(run[w])'
    BY <1>5 DEF EditsIt, DelsIt, Owns
  <2> QED  BY <2>1, <2>2 DEF Mine
<1>8. ASSUME NEW v \in Worker, v # w PROVE Mine(run[v])'
  BY <1>3, <1>5, <1>8, OthersStay DEF Changing
<1> QED  BY <1>3, <1>4, <1>6, <1>7, <1>8 DEF LInv

LEMMA AllocLists ==
    ASSUME SInv, LInv, OneAtATime, Regime, NEW w \in Worker, Alloc(w)
    PROVE  LInv' /\ \A g \in Group : Linked(g)' = Linked(g)
<1>1. PICK c \in Chunk \ used :
         /\ used' = used \cup {c}
         /\ mem' = [mem EXCEPT ![c] = [next |-> Null, name |-> NoName,
                                       weight |-> 0]]
         /\ Call(w, [run[w] EXCEPT !.pc = "fill", !.speer = c])
  BY DEF Alloc
<1> DEFINE r == [run[w] EXCEPT !.pc = "fill", !.speer = c]
<1>2. /\ run[w] \in CallsOf /\ run[w].op = "add" /\ SameHeads
      /\ run' = [run EXCEPT ![w] = r] /\ run[w].group \in Group
      /\ mem \in [Chunk -> PeersOf]
  BY <1>1, AtCall, Fields DEF Alloc, At, AtHand, SameHeads, Call, SInv, Types
<1>3. /\ r \in CallsOf /\ r.pc = "fill" /\ r.op = "add"
      /\ r.speer = c /\ r.group = run[w].group
  BY <1>2 DEF CallsOf, Pcs
<1> HIDE DEF r
<1>4. Owns(r)
  BY <1>3, ChunkFacts DEF Owns
<1>5. c \notin AllLinked /\ \A v \in Worker : Owns(run[v]) => run[v].speer # c
  BY DEF LInv, Sound, Mine, OwnsIt
<1>6. c \in used' /\ used \subseteq used' /\ \A d \in Chunk \ {c} : mem'[d] = mem[d]
  BY <1>1, <1>2
<1> QED  BY <1>2, <1>3, <1>4, <1>5, <1>6, OffListKeeps

LEMMA FillLists ==
    ASSUME SInv, LInv, OneAtATime, Regime, NEW w \in Worker,
           Fill(w) \/ Point(w)
    PROVE  LInv' /\ \A g \in Group : Linked(g)' = Linked(g)
<1> DEFINE c == run[w].speer
<1>1. /\ run[w] \in CallsOf /\ run[w].op = "add" /\ SameHeads
      /\ run[w].pc \in {"fill", "point"} /\ c \in Chunk
      /\ run[w].group \in Group /\ used' = used
      /\ mem \in [Chunk -> PeersOf]
  <2>1. run[w].pc \in {"fill", "point"} /\ used' = used /\ peers' = peers
    BY DEF Fill, Point, At
  <2> QED  BY <2>1, AtCall, Fields DEF AtHand, SameHeads, SInv, Types
<1>2. Owns(run[w]) /\ OwnsIt(run[w])
  BY <1>1, ChunkFacts DEF Owns, LInv, Mine
<1>3. PICK pc \in {"lock", "link"} :
         /\ run' = [run EXCEPT ![w] = [run[w] EXCEPT !.pc = pc]]
         /\ pc = "lock" => Fill(w)
         /\ pc = "link" => Point(w)
  BY DEF Fill, Point, Goto
<1> DEFINE r == [run[w] EXCEPT !.pc = pc]
<1>4. pc \in Pcs
  BY DEF Pcs, Section
<1>5. /\ r \in CallsOf /\ r.pc = pc /\ r.op = "add" /\ r.speer = c
      /\ r.group = run[w].group /\ r.weight = run[w].weight
  BY <1>1, <1>4, GotoFields
<1>6. /\ \A d \in Chunk \ {c} : mem'[d] = mem[d]
      /\ mem'[c].weight = run[w].weight
      /\ pc = "link" => mem'[c].next = peers[run[w].group].peer
  <2> HIDE DEF c, r
  <2>1. CASE pc = "lock"
    <3>1. mem' = [mem EXCEPT ![c].name = run[w].want,
                             ![c].weight = run[w].weight]
      BY <1>3, <2>1 DEF Fill, c
    <3>2. mem[c] \in PeersOf
      BY <1>1
    <3>3. mem'[c].weight = run[w].weight
      BY <1>1, <3>1, <3>2 DEF PeersOf
    <3> QED  BY <1>1, <2>1, <3>1, <3>3
  <2>2. CASE pc = "link"
    <3>1. mem' = [mem EXCEPT ![c].next = peers[run[w].group].peer]
          /\ run[w].pc = "point"
      BY <1>3, <2>2 DEF Point, At, c
    <3>2. mem[c] \in PeersOf /\ mem[c].weight = run[w].weight
      BY <1>1, <1>2, <3>1 DEF OwnsIt, c
    <3>3. mem'[c].next = peers[run[w].group].peer
          /\ mem'[c].weight = mem[c].weight
      BY <1>1, <3>1, <3>2 DEF PeersOf
    <3> QED  BY <1>1, <3>1, <3>2, <3>3
  <2> QED  BY <1>3, <2>1, <2>2
<1>7. /\ c \notin AllLinked /\ c \in used'
      /\ \A v \in Worker \ {w} : Owns(run[v]) => run[v].speer # c
  BY <1>1, <1>2 DEF LInv, Distinct, OwnsIt
<1> HIDE DEF c, r
<1>8. Owns(r)
  BY <1>1, <1>5, ChunkFacts DEF Owns
<1>9. used \subseteq used' /\ run' = [run EXCEPT ![w] = r]
  BY <1>1, <1>3 DEF r
<1> QED  BY <1>1, <1>5, <1>6, <1>7, <1>8, <1>9, OffListKeeps

\* edit gives a peer of the list another weight.
LEMMA SetWeightLists ==
    ASSUME SInv, LInv, OneAtATime, Regime, NEW w \in Worker, SetWeight(w)
    PROVE  LInv' /\ \A g \in Group : Linked(g)' = Linked(g)
<1> DEFINE c == run[w].speer
           q == run[w]
           r == [q EXCEPT !.pc = "unlock"]
<1>1. /\ q \in CallsOf /\ q.op = "edit" /\ q.pc = "set" /\ SameHeads
      /\ c \in Chunk /\ q.group \in Group /\ used' = used
      /\ mem' = [mem EXCEPT ![c].weight = q.weight]
      /\ run' = [run EXCEPT ![w] = r] /\ q.weight \in Weights
      /\ mem \in [Chunk -> PeersOf] /\ run \in [Worker -> CallsOf]
  BY AtCall, Fields
     DEF SetWeight, At, Goto, AtHand, SameHeads, SInv, Types
<1>2. Mine(q) /\ Lists /\ Sound /\ Distinct
  BY DEF LInv
<1>3. "unlock" \in Pcs
  BY DEF Pcs, Section
<1>4. /\ r \in CallsOf /\ r.pc = "unlock" /\ r.op = "edit" /\ r.speer = c
      /\ r.group = q.group
  BY <1>1, <1>3, GotoFields
<1>5. c \in Linked(q.group) /\ c \in AllLinked /\ AllLinked \subseteq Chunk
  BY <1>1, <1>2, ChunkFacts, ListsHave DEF Mine, EditsIt
<1> HIDE DEF c, r, q
<1>6. /\ \A d \in Chunk \ {c} : mem'[d] = mem[d]
      /\ mem'[c].next = mem[c].next /\ mem'[c].weight = q.weight
  BY <1>1 DEF PeersOf
<1>7. SameNexts
  BY <1>5, <1>6 DEF SameNexts
<1>8. Lists' /\ AllLinked' = AllLinked /\ \A g \in Group : Linked(g)' = Linked(g)
  BY <1>2, <1>7, <1>1, SameLists
<1>9. Sound'
  <2>1. q.weight > 0
    BY <1>1, Constants
  <2>2. ASSUME NEW d \in AllLinked PROVE mem'[d].weight > 0
    BY <1>2, <1>5, <1>6, <2>1, <2>2 DEF Sound
  <2> QED  BY <1>1, <1>2, <1>8, <2>2 DEF Sound
<1>10. run'[w] = r /\ \A v \in Worker \ {w} : run'[v] = run[v]
  BY <1>1
<1>11. Distinct'
  <2>1. \A v \in Worker : Owns(run[v])' <=> Owns(run'[v])
    BY DEF Owns
  <2>2. ~Owns(r)
    BY <1>4 DEF Owns
  <2> QED  BY <1>2, <1>10, <2>1, <2>2 DEF Distinct
<1>12. Mine(run[w])'
  <2>1. PICK g \in Group : g = q.group
    BY <1>1
  <2>2. PICK cc \in Chunk : cc = c
    BY <1>1
  <2>3. cc \in Linked(g)'
    BY <1>5, <1>8, <2>1, <2>2
  <2>4. /\ run'[w].op = "edit" /\ run'[w].pc = "unlock"
        /\ run'[w].speer = cc /\ run'[w].group = g
    BY <1>4, <1>10, <2>1, <2>2
  <2>5. EditsIt(run[w])'
    BY <2>3, <2>4 DEF EditsIt
  <2> QED  BY <2>4, <2>5 DEF Mine, OwnsIt, Owns, DelsIt
<1>13. ASSUME NEW v \in Worker, v # w PROVE Mine(run[v])'
  <2>1. Owns(run[v]) => run[v].speer # c
    BY <1>5 DEF LInv, Mine, OwnsIt
  <2>2. run[w].op \in Changing /\ used \subseteq used'
    BY <1>1 DEF Changing, q
  <2> QED  BY <1>1, <1>6, <1>8, <1>10, <1>13, <2>1, <2>2, OthersStay
<1> QED  BY <1>8, <1>9, <1>11, <1>12, <1>13 DEF LInv

\* add puts its peer in front of the list of its group.
LEMMA LinkLists ==
    ASSUME SInv, LInv, OneAtATime, Regime, NEW w \in Worker, Link(w),
           NEW g \in Group, g = run[w].group,
           NEW c \in Chunk, c = run[w].speer
    PROVE  /\ LInv' /\ c \notin AllLinked /\ Linked(g)' = Linked(g) \cup {c}
           /\ \A h \in Group \ {g} : Linked(h)' = Linked(h)
<1> DEFINE q == run[w]
           r == [q EXCEPT !.pc = "unlock"]
<1>1. /\ q \in CallsOf /\ q.op = "add" /\ q.pc = "link" /\ mutex = w
      /\ mem' = mem /\ used' = used /\ q.weight \in Weights
      /\ peers' = [peers EXCEPT ![g].peer = c]
      /\ run' = [run EXCEPT ![w] = r] /\ run \in [Worker -> CallsOf]
      /\ peers \in [Group -> GroupsOf]
  BY AtCall DEF Link, At, Goto, AtHand, SInv, Types, Section
<1>2. Owns(q) /\ OwnsIt(q) /\ Lists /\ Sound /\ Distinct
  BY <1>1, ChunkFacts DEF LInv, Mine, Owns
<1>3. /\ c \in used \ AllLinked /\ mem[c].weight = q.weight
      /\ mem[c].next = peers[g].peer
  BY <1>1, <1>2 DEF OwnsIt
<1>4. "unlock" \in Pcs
  BY DEF Pcs, Section
<1>5. r.pc = "unlock" /\ r.op = "add"
  BY <1>1, <1>4, GotoFields
<1> HIDE DEF r
<1>6. run'[w] = r /\ \A v \in Worker \ {w} : run'[v] = run[v]
  BY <1>1
<1>7. Linked(g)' = Linked(g) \cup {c} /\ IsList(Linked(g)', peers'[g].peer, mem')
  <2>1. IsList(Linked(g), peers[g].peer, mem) /\ c \notin Linked(g)
    BY <1>2, <1>3, ListsHave DEF Lists
  <2>2. IsList(Linked(g) \cup {c}, c, mem)
    BY <1>3, <2>1, ListPush
  <2>3. peers'[g].peer = c
    BY <1>1 DEF GroupsOf
  <2> QED  BY <1>1, <2>2, <2>3, NewList
<1>8. ASSUME NEW h \in Group \ {g}
      PROVE  Linked(h)' = Linked(h) /\ IsList(Linked(h)', peers'[h].peer, mem')
  <2>1. IsList(Linked(h), peers[h].peer, mem) /\ peers'[h] = peers[h]
    BY <1>1, <1>2 DEF Lists
  <2> QED  BY <1>1, <2>1, NewList
<1>9. Lists'
  BY <1>7, <1>8 DEF Lists
<1>10. AllLinked' = AllLinked \cup {c}
  BY <1>7, <1>8 DEF AllLinked
<1>11. Sound'
  <2>1. mem[c].weight > 0
    BY <1>1, <1>3, Constants
  <2>2. AllLinked' \subseteq used' /\ \A d \in AllLinked' : mem'[d].weight > 0
    BY <1>1, <1>2, <1>3, <1>10, <2>1 DEF Sound
  <2>3. \A h \in Group : Linked(h) \subseteq AllLinked
    BY <1>2, ListsHave
  <2>4. \A h, k \in Group : h # k => Linked(h)' \cap Linked(k)' = {}
    BY <1>2, <1>3, <1>7, <1>8, <2>3 DEF Sound
  <2> QED  BY <2>2, <2>4 DEF Sound
<1>12. Distinct'
  <2>1. \A v \in Worker : Owns(run[v])' <=> Owns(run'[v])
    BY DEF Owns
  <2>2. ~Owns(r)
    BY <1>5 DEF Owns
  <2> QED  BY <1>2, <1>6, <2>1, <2>2 DEF Distinct
<1>13. Mine(run[w])'
  <2>1. run'[w].op = "add" /\ run'[w].pc = "unlock"
    BY <1>5, <1>6
  <2> QED  BY <2>1 DEF Mine, OwnsIt, Owns, EditsIt, DelsIt
<1>14. ASSUME NEW v \in Worker, v # w PROVE Mine(run[v])'
  <2>1. /\ Mine(run[v]) /\ run[v] \in CallsOf /\ run[v].group \in Group
        /\ run[v].op # "del" /\ run[v].pc # "link" /\ run'[v] = run[v]
    BY <1>1, <1>6, <1>14, DelIsAlone, AtCall, Fields
       DEF LInv, Changing, Section
  <2>2. Owns(run[v]) => run[v].speer # c
    BY <1>2, <1>14 DEF Distinct
  <2>3. OwnsIt(run[v])'
    BY <1>1, <1>10, <2>1, <2>2 DEF Mine, OwnsIt, Owns
  <2>4. \A h \in Group : Linked(h) \subseteq Linked(h)'
    BY <1>7, <1>8
  <2>5. EditsIt(run[v])' /\ DelsIt(run[v])'
    BY <2>1, <2>4 DEF Mine, EditsIt, DelsIt
  <2> QED  BY <2>3, <2>5 DEF Mine
<1> QED  BY <1>3, <1>7, <1>8, <1>9, <1>11, <1>12, <1>13, <1>14 DEF LInv

\* del takes the peer it has found out of the list of its group.
LEMMA UnlinkLists ==
    ASSUME SInv, LInv, OneAtATime, Regime, NEW w \in Worker,
           UnlinkFirst(w) \/ UnlinkOther(w),
           NEW g \in Group, g = run[w].group,
           NEW c \in Chunk, c = run[w].speer
    PROVE  /\ LInv' /\ c \in Linked(g) /\ Linked(g)' = Linked(g) \ {c}
           /\ \A h \in Group \ {g} : Linked(h)' = Linked(h)
<1> DEFINE q == run[w]
<1>1. /\ q \in CallsOf /\ q.op = "del" /\ q.pc = "unlink" /\ used' = used
      /\ run \in [Worker -> CallsOf] /\ peers \in [Group -> GroupsOf]
      /\ mem \in [Chunk -> PeersOf]
  <2>1. q.pc = "unlink" /\ used' = used
    BY DEF UnlinkFirst, UnlinkOther, At
  <2> QED  BY <2>1, AtCall DEF AtHand, SInv, Types
<1>2. DelsIt(q) /\ Lists /\ Sound /\ Distinct
  BY DEF LInv, Mine
<1>3. /\ c \in Linked(g) /\ c # Null
      /\ q.pspeer \in Linked(g) \cup {Null}
      /\ c = peers[g].peer \/ (q.pspeer # Null /\ mem[q.pspeer].next = c)
  BY <1>1, <1>2, ChunkFacts DEF DelsIt, Searching
<1>4. /\ Linked(g) \subseteq Chunk
      /\ mem[c].next \in Linked(g) \cup {Null} /\ mem[c].next # c
      /\ \A h \in Group \ {g} : Linked(h) \cap Linked(g) = {}
      /\ \A h \in Group : Linked(h) \subseteq AllLinked
  BY <1>2, <1>3, ListsHave DEF Sound
<1>5. PICK b \in Chunk \cup {Null} :
         /\ run' = [run EXCEPT ![w] = [q EXCEPT !.pc = "free", !.pspeer = b]]
         /\ b \in (Linked(g) \ {c}) \cup {Null}
         /\ Linked(g)' = Linked(g) \ {c}
         /\ IsList(Linked(g)', peers'[g].peer, mem')
         /\ \A h \in Group \ {g} :
               /\ peers'[h] = peers[h]
               /\ \A d \in Linked(h) : mem'[d].next = mem[d].next
         /\ \A d \in Chunk : mem'[d].weight = mem[d].weight
  <2>1. CASE UnlinkFirst(w)
    <3>1. /\ c = peers[g].peer /\ mem' = mem
          /\ peers' = [peers EXCEPT ![g].peer = mem[c].next]
          /\ run' = [run EXCEPT ![w] = [q EXCEPT !.pc = "free",
                                                 !.pspeer = mem[c].next]]
      BY <2>1 DEF UnlinkFirst, Call
    <3>2. IsList(Linked(g) \ {c}, mem[c].next, mem)
      BY <1>2, <1>3, <3>1, ListPop DEF Lists
    <3>3. /\ peers'[g].peer = mem[c].next
          /\ \A h \in Group \ {g} : peers'[h] = peers[h]
      BY <1>1, <3>1 DEF GroupsOf
    <3>4. /\ Linked(g)' = Linked(g) \ {c}
          /\ IsList(Linked(g)', peers'[g].peer, mem')
      BY <3>1, <3>2, <3>3, NewList
    <3>5. mem[c].next \in Chunk \cup {Null}
      BY <1>4
    <3> QED  BY <1>4, <3>1, <3>3, <3>4, <3>5
  <2>2. CASE UnlinkOther(w)
    <3> DEFINE a == q.pspeer
               next == mem[c].next
    <3>1. /\ c # peers[g].peer /\ peers' = peers
          /\ mem' = [mem EXCEPT ![a].next = next]
          /\ run' = [run EXCEPT ![w] = [q EXCEPT !.pc = "free"]]
      BY <2>2 DEF UnlinkOther, Goto
    <3>2. a \in Linked(g) /\ a \in Chunk /\ mem[a].next = c /\ a # c
      BY <1>3, <1>4, <3>1
    <3>3. [q EXCEPT !.pc = "free"] = [q EXCEPT !.pc = "free", !.pspeer = a]
      BY <1>1 DEF CallsOf
    <3> HIDE DEF a, next
    <3>4. /\ mem'[a].next = next
          /\ \A d \in Chunk \ {a} : mem'[d] = mem[d]
          /\ \A d \in Chunk : mem'[d].weight = mem[d].weight
      BY <1>1, <3>1, <3>2 DEF PeersOf
    <3>5. /\ c = mem[a].next /\ mem'[a].next = mem[c].next
          /\ \A d \in Linked(g) \ {a} : mem'[d].next = mem[d].next
          /\ \A h \in Group \ {g} : \A d \in Linked(h) :
                mem'[d].next = mem[d].next
      <4>1. \A h \in Group \ {g} : \A d \in Linked(h) : d \in Chunk \ {a}
        BY <1>2, <1>4, <3>2, ListsHave
      <4> QED  BY <1>4, <3>2, <3>4, <4>1 DEF next
    <3>6. IsList(Linked(g) \ {c}, peers[g].peer, mem')
      BY <1>2, <1>3, <3>2, <3>5, ListCut DEF Lists
    <3>7. /\ Linked(g)' = Linked(g) \ {c}
          /\ IsList(Linked(g)', peers'[g].peer, mem')
      BY <3>1, <3>6, NewList
    <3> QED  BY <3>1, <3>2, <3>3, <3>4, <3>5, <3>7
  <2> QED  BY <2>1, <2>2
<1> DEFINE r == [q EXCEPT !.pc = "free", !.pspeer = b]
<1>6. r.pc = "free" /\ r.op = "del" /\ r.speer = c /\ r.group = g /\ r.pspeer = b
  BY <1>1 DEF CallsOf
<1> HIDE DEF r
<1>7. run'[w] = r /\ \A v \in Worker \ {w} : run'[v] = run[v]
  BY <1>1, <1>5 DEF r
<1>8. ASSUME NEW h \in Group \ {g}
      PROVE  Linked(h)' = Linked(h) /\ IsList(Linked(h)', peers'[h].peer, mem')
  <2>1. IsList(Linked(h), peers[h].peer, mem) /\ peers'[h] = peers[h]
    BY <1>2, <1>5 DEF Lists
  <2>2. IsList(Linked(h), peers'[h].peer, mem')
    BY <1>5, <2>1, ListStays
  <2> QED  BY <2>2, NewList
<1>9. Lists'
  BY <1>5, <1>8 DEF Lists
<1>10. AllLinked' = AllLinked \ {c}
  <2>1. \A h \in Group \ {g} : c \notin Linked(h)
    BY <1>3, <1>4
  <2> QED  BY <1>5, <1>8, <2>1 DEF AllLinked
<1>11. Sound'
  <2>1. \A h \in Group : Linked(h)' \subseteq Linked(h)
    BY <1>5, <1>8
  <2>2. AllLinked' \subseteq used' /\ \A d \in AllLinked' : mem'[d].weight > 0
    <3>1. AllLinked \subseteq Chunk
      BY <1>2, ListsHave
    <3> QED  BY <1>1, <1>2, <1>5, <1>10, <3>1 DEF Sound
  <2>3. \A h, k \in Group : h # k => Linked(h)' \cap Linked(k)' = {}
    BY <1>2, <2>1 DEF Sound
  <2> QED  BY <2>2, <2>3 DEF Sound
<1>12. \A v \in Worker \ {w} : run[v].op \notin Changing /\ run'[v] = run[v]
  BY <1>1, <1>7, DelIsAlone
<1>13. Distinct'
  <2>1. \A v \in Worker : ~Owns(run[v])'
    BY <1>6, <1>7, <1>12 DEF Owns, Changing
  <2> QED  BY <2>1 DEF Distinct
<1>14. Mine(run[w])'
  <2>1. /\ run'[w].pc = "free" /\ run'[w].op = "del" /\ run'[w].speer = c
        /\ run'[w].group = g /\ run'[w].pspeer = b
    BY <1>6, <1>7
  <2>2. b \in Linked(g)' \cup {Null} /\ c \notin AllLinked'
    BY <1>5, <1>10
  <2>3. DelsIt(run[w])'
    BY <2>1, <2>2 DEF DelsIt, Searching
  <2> QED  BY <2>1, <2>3 DEF Mine, OwnsIt, Owns, EditsIt
<1>15. ASSUME NEW v \in Worker, v # w PROVE Mine(run[v])'
  BY <1>12, <1>15 DEF Mine, OwnsIt, Owns, EditsIt, DelsIt, Changing
<1> QED  BY <1>3, <1>5, <1>8, <1>9, <1>11, <1>13, <1>14, <1>15 DEF LInv

\* del frees the peer once no list has it.
LEMMA FreeLists ==
    ASSUME SInv, LInv, OneAtATime, Regime, NEW w \in Worker, Free(w)
    PROVE  LInv' /\ \A g \in Group : Linked(g)' = Linked(g)
<1> DEFINE q == run[w]
           r == [q EXCEPT !.pc = "unlock"]
<1>1. /\ q \in CallsOf /\ q.op = "del" /\ q.pc = "free" /\ SameHeads
      /\ mem' = mem /\ used' = used \ {q.speer} /\ q.group \in Group
      /\ run' = [run EXCEPT ![w] = r] /\ run \in [Worker -> CallsOf]
  BY AtCall, Fields DEF Free, At, Goto, AtHand, SameHeads, SInv, Types
<1>2. DelsIt(q) /\ Lists /\ Sound
  BY DEF LInv, Mine
<1>3. q.speer \notin AllLinked /\ q.pspeer \in Linked(q.group) \cup {Null}
  BY <1>1, <1>2 DEF DelsIt
<1>4. Lists' /\ AllLinked' = AllLinked /\ \A g \in Group : Linked(g)' = Linked(g)
  BY <1>1, <1>2, SameLists DEF SameNexts
<1>5. Sound'
  BY <1>1, <1>2, <1>3, <1>4 DEF Sound
<1>6. "unlock" \in Pcs
  BY DEF Pcs, Section
<1>7. /\ r.pc = "unlock" /\ r.op = "del" /\ r.group = q.group
      /\ r.pspeer = q.pspeer
  BY <1>1, <1>6, GotoFields
<1> HIDE DEF r
<1>8. run'[w] = r /\ \A v \in Worker \ {w} : run'[v] = run[v]
  BY <1>1
<1>9. \A v \in Worker \ {w} : run[v].op \notin Changing /\ run'[v] = run[v]
  BY <1>1, <1>8, DelIsAlone
<1>10. Distinct'
  <2>1. \A v \in Worker : ~Owns(run[v])'
    BY <1>7, <1>8, <1>9 DEF Owns, Changing
  <2> QED  BY <2>1 DEF Distinct
<1>11. Mine(run[w])'
  <2>1. PICK g \in Group : g = q.group
    BY <1>1
  <2>2. PICK b : b = q.pspeer
    OBVIOUS
  <2>3. /\ run'[w].pc = "unlock" /\ run'[w].op = "del"
        /\ run'[w].group = g /\ run'[w].pspeer = b
    BY <1>7, <1>8, <2>1, <2>2
  <2>4. b \in Linked(g)' \cup {Null}
    BY <1>3, <1>4, <2>1, <2>2
  <2>5. DelsIt(run[w])'
    BY <2>3, <2>4 DEF DelsIt, Searching
  <2> QED  BY <2>3, <2>5 DEF Mine, OwnsIt, Owns, EditsIt
<1>12. ASSUME NEW v \in Worker, v # w PROVE Mine(run[v])'
  BY <1>9, <1>12 DEF Mine, OwnsIt, Owns, EditsIt, DelsIt, Changing
<1> QED  BY <1>4, <1>5, <1>10, <1>11, <1>12 DEF LInv

-----------------------------------------------------------------------------
LEMMA TheList ==
    ASSUME NEW g \in Group, NEW L, IsList(L, peers[g].peer, mem)
    PROVE  Linked(g) = L
BY ListIsFollowed DEF Linked

\* nginx.conf's peers are the lists to begin with.
LEMMA ListsInit ==
    ASSUME Init
    PROVE  /\ LInv
           /\ Linked(0) = 1 .. Len(Configured)
           /\ Linked(1) = Len(Configured) + 1 .. Len(Configured) + Len(Backups)
           /\ \A g \in Group \ {0, 1} : Linked(g) = {}
<1> DEFINE n == Len(Configured)
           b == Len(Backups)
<1>1. /\ n \in Nat /\ b \in Nat /\ n > 0 /\ n + b <= Chunks /\ Chunks \in Nat
      /\ Null \notin Chunk
  BY ShmAssumption
<1>2. /\ peers[0].peer = 1
      /\ peers[1].peer = IF b = 0 THEN Null ELSE n + 1
      /\ \A g \in Group \ {0, 1} : peers[g].peer = Null
      /\ 0 \in Group /\ 1 \in Group
  <2>1. 0 \in Group /\ 1 \in Group
    BY Constants
  <2>2. /\ [peer |-> 1, number |-> n, total_weight |-> n,
            next |-> IF b = 0 THEN Null ELSE 1].peer = 1
        /\ [NoPeers EXCEPT !.peer = n + 1, !.number = b,
                           !.total_weight = b].peer = n + 1
        /\ NoPeers.peer = Null
    BY DEF NoPeers
  <2>3. b > 0 <=> b # 0
    BY <1>1
  <2> QED  BY <2>1, <2>2, <2>3 DEF Init
<1>3. ASSUME NEW c \in 1 .. n + b
      PROVE  /\ c \in Chunk /\ c \in used /\ mem[c].weight = 1
             /\ mem[c].next = IF c \in {n, n + b} THEN Null ELSE c + 1
  <2>1. c \in Chunk /\ ~(c > n + b)
    BY <1>1 DEF Chunk
  <2>2. used = 1 .. n + b
    BY DEF Init
  <2>3. mem[c] = [next |-> IF c \in {n, n + b} THEN Null ELSE c + 1,
                  name |-> (Configured \o Backups)[c], weight |-> 1]
    BY <2>1 DEF Init
  <2> QED  BY <2>1, <2>2, <2>3
<1>4. \A w \in Worker : run[w] = Idle
  BY DEF Init
<1> HIDE DEF n, b
<1>5. IsList(1 .. n, peers[0].peer, mem)
  <2> DEFINE s == [i \in 1 .. n |-> i]
  <2>1. s \in [1 .. n -> Chunk] /\ n \in 0 .. Chunks
    <3>1. \A i \in 1 .. n : i \in Chunk
      BY <1>1 DEF Chunk
    <3> QED  BY <1>1, <3>1
  <2>2. ASSUME NEW i \in 1 .. n
        PROVE  mem[s[i]].next = IF i = n THEN Null ELSE s[i + 1]
    <3>1. s[i] = i /\ i \in 1 .. n + b /\ (i \in {n, n + b} <=> i = n)
      BY <1>1
    <3>2. i # n => i + 1 \in 1 .. n
      BY <1>1
    <3> QED  BY <1>3, <3>1, <3>2
  <2>3. 1 .. n = { s[i] : i \in 1 .. n }
    OBVIOUS
  <2>4. Chain(n, s, peers[0].peer, mem)
    BY <1>1, <1>2, <2>2 DEF Chain
  <2> QED  BY <2>1, <2>3, <2>4 DEF IsList
<1>6. IsList(n + 1 .. n + b, peers[1].peer, mem)
  <2> DEFINE s == [i \in 1 .. b |-> n + i]
  <2>1. s \in [1 .. b -> Chunk] /\ b \in 0 .. Chunks
    <3>1. \A i \in 1 .. b : n + i \in Chunk
      BY <1>1 DEF Chunk
    <3> QED  BY <1>1, <3>1
  <2>2. ASSUME NEW i \in 1 .. b
        PROVE  mem[s[i]].next = IF i = b THEN Null ELSE s[i + 1]
    <3>1. /\ s[i] = n + i /\ n + i \in 1 .. n + b
          /\ n + i \in {n, n + b} <=> i = b
      BY <1>1
    <3>2. i # b => i + 1 \in 1 .. b /\ n + (i + 1) = (n + i) + 1
      BY <1>1
    <3> QED  BY <1>3, <3>1, <3>2
  <2>3. n + 1 .. n + b = { s[i] : i \in 1 .. b }
    <3>1. ASSUME NEW x \in n + 1 .. n + b PROVE \E i \in 1 .. b : x = s[i]
      <4>1. x - n \in 1 .. b /\ n + (x - n) = x
        BY <1>1
      <4> QED  BY <4>1
    <3>2. ASSUME NEW i \in 1 .. b PROVE s[i] \in n + 1 .. n + b
      BY <1>1
    <3> QED  BY <3>1, <3>2
  <2>4. peers[1].peer = IF b = 0 THEN Null ELSE s[1]
    BY <1>1, <1>2
  <2>5. \A i, j \in 1 .. b : s[i] = s[j] => i = j
    BY <1>1
  <2>6. Chain(b, s, peers[1].peer, mem)
    BY <2>2, <2>4, <2>5 DEF Chain
  <2> QED  BY <2>1, <2>3, <2>6 DEF IsList
<1>7. ASSUME NEW g \in Group \ {0, 1} PROVE IsList({}, peers[g].peer, mem)
  <2> DEFINE s == [i \in 1 .. 0 |-> 0]
  <2>1. /\ s \in [1 .. 0 -> Chunk] /\ 0 \in 0 .. Chunks
        /\ {} = { s[i] : i \in 1 .. 0 }
    BY <1>1
  <2>2. Chain(0, s, peers[g].peer, mem)
    BY <1>2 DEF Chain
  <2> QED  BY <2>1, <2>2 DEF IsList
<1>8. /\ Linked(0) = 1 .. n /\ Linked(1) = n + 1 .. n + b
      /\ \A g \in Group \ {0, 1} : Linked(g) = {}
  BY <1>2, <1>5, <1>6, <1>7, TheList
<1>9. Lists
  BY <1>5, <1>6, <1>7, <1>8 DEF Lists
<1>10. Sound
  <2>1. AllLinked \subseteq 1 .. n + b
    BY <1>1, <1>8 DEF AllLinked
  <2>2. 1 .. n \cap (n + 1 .. n + b) = {}
    BY <1>1
  <2>3. ASSUME NEW g \in Group, NEW h \in Group, g # h
        PROVE  Linked(g) \cap Linked(h) = {}
    <3>1. CASE g \notin {0, 1} \/ h \notin {0, 1}
      BY <1>8, <3>1
    <3>2. CASE g = 0 /\ h = 1
      BY <1>8, <2>2, <3>2
    <3>3. CASE g = 1 /\ h = 0
      BY <1>8, <2>2, <3>3
    <3> QED  BY <2>3, <3>1, <3>2, <3>3
  <2>4. AllLinked \subseteq used /\ \A c \in AllLinked : mem[c].weight > 0
    <3>1. 1 > 0
      OBVIOUS
    <3> QED  BY <1>3, <2>1, <3>1
  <2> QED  BY <2>3, <2>4 DEF Sound
<1>11. Distinct /\ \A w \in Worker : Mine(run[w])
  BY <1>4, Unowned DEF Distinct
<1> QED  BY <1>8, <1>9, <1>10, <1>11 DEF LInv, n, b

\* Every step keeps the lists, and takes out only what was asked for.
LEMMA ListsKeep ==
    ASSUME SInv, SInv', LInv, OneAtATime, Regime, [Next]_vars
    PROVE  LInv' /\ Asked
<1>1. CASE UNCHANGED vars
  <2>1. /\ UNCHANGED << peers, mem, used, run >> /\ SameHeads /\ SameNexts
        /\ Lists /\ Sound /\ Distinct
    BY <1>1 DEF vars, SameHeads, SameNexts, LInv
  <2>2. Lists' /\ AllLinked' = AllLinked /\ \A g \in Group : Linked(g)' = Linked(g)
    BY <2>1, SameLists
  <2>3. Sound' /\ Distinct'
    BY <2>1, <2>2 DEF Sound, Distinct, Owns
  <2>4. ASSUME NEW v \in Worker PROVE Mine(run[v])'
    <3>1. Mine(run[v]) /\ run'[v] = run[v] /\ run[v].group \in Group
      BY <2>1, AtCall, Fields DEF LInv
    <3>2. OwnsIt(run[v])' /\ EditsIt(run[v])'
      BY <2>1, <2>2, <3>1 DEF Mine, OwnsIt, Owns, EditsIt
    <3>3. DelsIt(run[v])'
      BY <2>1, <2>2, <3>1 DEF Mine, DelsIt, Matches
    <3> QED  BY <3>2, <3>3 DEF Mine
  <2>5. LInv' /\ AllLinked' = AllLinked
    BY <2>2, <2>3, <2>4 DEF LInv
  <2> QED  BY <2>5 DEF Asked
<1>2. (\A g \in Group : Linked(g)' = Linked(g)) => Asked
  BY DEF Asked, AllLinked
<1>3. ASSUME NEW w \in Worker, Begin(w) \/ Crash(w) PROVE LInv' /\ Asked
  BY <1>2, <1>3, BeginQuiet, EndsQuiet
<1>4. ASSUME NEW w \in Worker, CallStep(w) PROVE LInv' /\ Asked
  <2>1. run[w].speer \in Chunk \cup {Null} /\ run[w].group \in Group
    BY AtCall, Fields
  <2>2. CASE \/ Walk(w) \/ Check(w) \/ Lock(w) \/ NoGroup(w)
             \/ NextGroup(w) \/ Count(w) \/ Weigh(w)
    BY <1>2, <2>2, GoesQuiet
  <2>3. CASE \/ SlabFull(w) \/ FillFails(w) \/ UnlockUnheld(w)
             \/ Segv(w) \/ Respawn(w)
    BY <1>2, <2>3, EndsQuiet
  <2>4. CASE \/ Unlock(w) \/ FoundGroup(w) \/ NewGroup(w)
             \/ NewGroupFails(w) \/ Advance(w) \/ Size(w) \/ First(w)
             \/ Copy(w) \/ Copied(w)
    BY <1>2, <2>4, LocalQuiet
  <2>5. CASE Alloc(w) \/ Fill(w) \/ Point(w) \/ SetWeight(w) \/ Free(w)
    BY <1>2, <2>5, AllocLists, FillLists, SetWeightLists, FreeLists
  <2>6. CASE Link(w)
    <3>1. run[w].speer # Null
      BY <2>6, AtCall DEF Link, At, AtHand
    <3>2. PICK g \in Group, c \in Chunk : g = run[w].group /\ c = run[w].speer
      BY <2>1, <3>1
    <3>3. /\ LInv' /\ Linked(g)' = Linked(g) \cup {c}
          /\ \A h \in Group \ {g} : Linked(h)' = Linked(h)
      BY <2>6, <3>2, LinkLists
    <3>4. AllLinked \subseteq AllLinked'
      BY <3>3 DEF AllLinked
    <3> QED  BY <3>3, <3>4 DEF Asked
  <2>7. CASE UnlinkFirst(w) \/ UnlinkOther(w)
    <3>1. run[w].pc = "unlink"
      BY <2>7 DEF UnlinkFirst, UnlinkOther, At
    <3>2. run[w].speer # Null /\ run[w].op = "del" /\ mutex = w
      BY <3>1, AtCall DEF AtHand, Section
    <3>3. PICK g \in Group, c \in Chunk : g = run[w].group /\ c = run[w].speer
      BY <2>1, <3>2
    <3>4. /\ LInv' /\ Linked(g)' = Linked(g) \ {c}
          /\ \A h \in Group \ {g} : Linked(h)' = Linked(h)
      BY <2>7, <3>3, UnlinkLists
    <3>5. AllLinked \ AllLinked' \subseteq {c}
      BY <3>4 DEF AllLinked
    <3>6. Matches(run[w])
      BY <3>1, <3>2 DEF LInv, Mine, DelsIt, Searching
    <3> QED  BY <3>2, <3>3, <3>4, <3>5, <3>6 DEF Asked
  <2> QED
    BY <1>4, <2>2, <2>3, <2>4, <2>5, <2>6, <2>7 DEF CallStep
<1> QED  BY <1>1, <1>3, <1>4 DEF Next

LEMMA ListsAreSound == SInv /\ LInv => ListSound
<1> SUFFICES ASSUME SInv, LInv PROVE ListSound
  OBVIOUS
<1>1. \A g \in Group : ListEnds(g)
  BY ListIsFollowed DEF LInv, Lists, ListEnds
<1> QED  BY <1>1 DEF LInv, Sound, ListSound

\* What every reachable state satisfies.
THEOREM ListsInvariant ==
    Regime => (Spec => [](SInv /\ OneAtATime /\ LInv))
<1> SUFFICES ASSUME Regime PROVE Spec => [](SInv /\ OneAtATime /\ LInv)
  OBVIOUS
<1>1. Init => SInv /\ OneAtATime /\ LInv
  BY InitHolds, OpsInit, ListsInit
<1>2. SInv /\ OneAtATime /\ LInv /\ [Next]_vars
        => (SInv /\ OneAtATime /\ LInv)'
  BY NextKeeps, OpsKeep, ListsKeep
<1> QED  BY <1>1, <1>2, PTL DEF Spec

\* With one change of the list at a time, or without del, also when workers
\* die in the middle of theirs: who walks a list without the mutex comes to
\* its end, and meets allocated peers of its group with a weight only.
THEOREM ListsStaySound == Regime => (Spec => []ListSound)
<1> SUFFICES ASSUME Regime PROVE Spec => []ListSound
  OBVIOUS
<1>1. SInv /\ LInv => ListSound
  BY ListsAreSound
<1> QED  BY <1>1, ListsInvariant, PTL

\* In the same regimes no peer disappears from a list except the one that
\* the del that holds the mutex was asked for.
THEOREM OnlyAskedIsUnlinked == Regime => (Spec => OnlyAskedUnlinked)
<1> SUFFICES ASSUME Regime PROVE Spec => OnlyAskedUnlinked
  OBVIOUS
<1>1. SInv /\ SInv' /\ OneAtATime /\ LInv /\ [Next]_vars => [Asked]_vars
  BY ListsKeep
<1> QED  BY <1>1, ListsInvariant, PTL DEF Spec, OnlyAskedUnlinked, Asked

-----------------------------------------------------------------------------
(***************************************************************************)
(* The backup group.                                                       *)
(***************************************************************************)
\* The statements of lst.
Listing == {"size", "first", "copy"}

\* An add works on the primary group or on the one that next leads to, unless
\* it is about to make next lead to its own.  p is peers.
Reached(r, p) ==
    /\ Making(r) => p[0].next = Null
    /\ r.op = "add" /\ ~Making(r) => r.group = 0 \/ p[0].next = r.group
    /\ r.op = "add" => r.pc \notin Listing

GInv ==
    /\ BackupReached
    /\ \A w \in Worker : Reached(run[w], peers)

SameNext == peers'[0].next = peers[0].next

\* A step of worker w that leaves next as it is.
LEMMA GroupsStay ==
    ASSUME SInv, GInv, NEW w \in Worker, NEW r,
           run' = [run EXCEPT ![w] = r], SameNext, SameHeads \/ BackupReached',
           Reached(r, peers)
    PROVE  GInv'
<1>1. run'[w] = r /\ \A v \in Worker \ {w} : run'[v] = run[v]
  BY DEF SInv, Types
<1>2. ASSUME NEW v \in Worker PROVE Reached(run'[v], peers')
  <2>1. Reached(run'[v], peers)
    BY <1>1 DEF GInv
  <2> QED  BY <2>1 DEF Reached, SameNext
<1>3. BackupReached'
  BY DEF GInv, BackupReached, SameHeads, SameNext
<1> QED  BY <1>2, <1>3 DEF GInv

LEMMA GroupsEnd ==
    ASSUME SInv, GInv, NEW w \in Worker, Finish(w) \/ Call(w, Dead),
           SameHeads, SameNext
    PROVE  GInv'
<1>1. ASSUME NEW r \in {Idle, Dead} PROVE Reached(r, peers)
  <2>1. r.op = "none"
    BY <1>1 DEF Idle, Dead
  <2> QED  BY <2>1 DEF Reached, Making, MakesGroup
<1>2. PICK r \in {Idle, Dead} : run' = [run EXCEPT ![w] = r]
  BY DEF Finish, Call
<1> QED  BY <1>1, <1>2, GroupsStay

\* A call that goes on in the same group.
LEMMA StaysReached ==
    ASSUME NEW q, NEW r, NEW p, Reached(q, p), r.op = q.op, r.group = q.group,
           Making(r) <=> Making(q), r.pc \notin Listing
    PROVE  Reached(r, p)
BY DEF Reached

\* Of the statements that a call goes on to, only the assignment of next is
\* one of a call that makes a group.
LEMMA GroupsGo ==
    ASSUME SInv, GInv, NEW w \in Worker, NEW pc \in Pcs \ Listing, Goto(w, pc),
           Making([run[w] EXCEPT !.pc = pc]) <=> Making(run[w]),
           SameHeads, SameNext
    PROVE  GInv'
<1> DEFINE r == [run[w] EXCEPT !.pc = pc]
<1>1. run[w] \in CallsOf /\ run' = [run EXCEPT ![w] = r]
  BY AtCall DEF Goto, SInv, Types
<1>2. /\ r.op = run[w].op /\ r.group = run[w].group /\ r.pc = pc
      /\ Making(r) <=> Making(run[w])
  BY <1>1, GotoFields
<1> HIDE DEF r
<1>3. Reached(r, peers)
  BY <1>2, StaysReached DEF GInv
<1> QED  BY <1>1, <1>3, GroupsStay

LEMMA GroupsInit == Init => GInv
<1> SUFFICES ASSUME Init PROVE GInv
  OBVIOUS
<1> DEFINE b == Len(Backups)
<1>1. b \in Nat /\ Group \subseteq Nat /\ 0 \in Group /\ 1 \in Group
  BY ShmAssumption, Constants
<1>2. /\ peers[0].next = IF b = 0 THEN Null ELSE 1
      /\ b = 0 => peers[1].peer = Null
      /\ \A g \in Group \ {0, 1} : peers[g].peer = Null
  <2>1. /\ [peer |-> 1, number |-> Len(Configured),
            total_weight |-> Len(Configured),
            next |-> IF b = 0 THEN Null ELSE 1].next
              = IF b = 0 THEN Null ELSE 1
        /\ NoPeers.peer = Null
    BY DEF NoPeers
  <2>2. b > 0 <=> b # 0
    BY <1>1
  <2> QED  BY <1>1, <2>1, <2>2 DEF Init
<1> HIDE DEF b
<1>3. \A w \in Worker : run[w] = Idle
  BY DEF Init
<1>4. Idle.op = "none"
  BY DEF Idle
<1>5. Reached(Idle, peers)
  BY <1>4 DEF Reached, Making, MakesGroup
<1>6. BackupReached
  BY <1>2 DEF BackupReached
<1> QED  BY <1>3, <1>5, <1>6 DEF GInv

\* The steps that do not touch the groups.
LEMMA GroupsQuiet ==
    ASSUME SInv, GInv, NEW w \in Worker,
           \/ Walk(w) \/ Check(w) \/ Lock(w) \/ NoGroup(w) \/ Fill(w)
           \/ Point(w) \/ UnlinkOther(w) \/ Free(w) \/ SetWeight(w)
           \/ SlabFull(w) \/ FillFails(w) \/ UnlockUnheld(w)
           \/ Crash(w) \/ Segv(w) \/ Respawn(w) \/ Count(w) \/ Weigh(w)
    PROVE  GInv'
<1>1. peers \in [Group -> GroupsOf] /\ run[w] \in CallsOf /\ AtHand(run[w])
  BY Memory, AtCall DEF SInv, Types
<1>2. SameHeads /\ SameNext
  <2>1. CASE Count(w)
    <3>1. PICK n : peers' = [peers EXCEPT ![run[w].group].number = n]
      BY <2>1 DEF Count
    <3> QED  BY <1>1, <3>1 DEF SameHeads, SameNext, GroupsOf
  <2>2. CASE Weigh(w)
    <3>1. PICK n : peers' = [peers EXCEPT ![run[w].group].total_weight = n]
      BY <2>2 DEF Weigh
    <3> QED  BY <1>1, <3>1 DEF SameHeads, SameNext, GroupsOf
  <2>3. CASE ~Count(w) /\ ~Weigh(w)
    <3>1. peers' = peers
      BY <2>3 DEF Walk, Check, Lock, NoGroup, Fill, Point, UnlinkOther, Free,
                  SetWeight, SlabFull, FillFails, UnlockUnheld, Crash, Segv,
                  Respawn
    <3> QED  BY <3>1 DEF SameHeads, SameNext
  <2> QED  BY <2>1, <2>2, <2>3
<1>3. ASSUME NEW pc \in Pcs \ Listing, Goto(w, pc),
             \/ run[w].op # "add" \/ run[w].speer # Null
             \/ pc = "next group" /\ run[w].pc = "lock"
      PROVE  GInv'
  <2> DEFINE r == [run[w] EXCEPT !.pc = pc]
  <2>1. r.op = run[w].op /\ r.speer = run[w].speer /\ r.pc = pc
    BY <1>1, GotoFields
  <2> HIDE DEF r
  <2>2. Making(r) <=> Making(run[w])
    BY <1>3, <2>1 DEF Making, MakesGroup
  <2> QED  BY <1>2, <1>3, <2>2, GroupsGo DEF r
<1>4. CASE Finish(w) \/ Call(w, Dead)
  BY <1>2, <1>4, GroupsEnd
<1>5. CASE NoGroup(w) /\ ~Finish(w)
  <2> DEFINE r == [run[w] EXCEPT !.pc = "new group"]
  <2>1. run' = [run EXCEPT ![w] = r] /\ peers[0].next = Null
    BY <1>5 DEF NoGroup, Goto
  <2>2. run[w].pc = "group" /\ run[w].op = "add" /\ run[w].speer = Null
    BY <1>1, <1>5 DEF NoGroup, At, AtHand
  <2>3. r.op = "add" /\ r.speer = Null /\ r.pc = "new group"
    BY <1>1, <2>2, GotoFields DEF Pcs
  <2> HIDE DEF r
  <2>4. Reached(r, peers)
    BY <2>1, <2>3 DEF Reached, Listing, Making, MakesGroup
  <2> QED  BY <1>2, <2>1, <2>4, GroupsStay
<1>6. CASE Walk(w) \/ Check(w) \/ UnlinkOther(w) \/ Free(w) \/ SetWeight(w)
  <2>1. run[w].op # "add"
    BY <1>1, <1>6
       DEF Walk, Check, UnlinkOther, Free, SetWeight, At, AtHand
  <2>2. Finish(w) \/ \E pc \in {"next", "check", "lock", "free", "unlock"} :
           Goto(w, pc)
    BY <1>6 DEF Walk, Check, UnlinkOther, Free, SetWeight
  <2> QED  BY <1>3, <1>4, <2>1, <2>2 DEF Pcs, Section, Listing
<1>7. CASE Fill(w) \/ Point(w) \/ Count(w) \/ Weigh(w)
  <2>1. run[w].speer # Null /\ run[w].op \in {"add", "del", "edit"}
    BY <1>1, <1>7 DEF Fill, Point, Count, Weigh, At, AtHand
  <2>2. \E pc \in {"lock", "link", "weigh", "point", "unlink", "set"} :
           Goto(w, pc)
    <3>1. CASE Weigh(w)
      BY <2>1, <3>1 DEF Weigh
    <3>2. CASE Fill(w) \/ Point(w) \/ Count(w)
      BY <3>2 DEF Fill, Point, Count
    <3> QED  BY <1>7, <3>1, <3>2
  <2> QED  BY <1>3, <2>1, <2>2 DEF Pcs, Section, Listing
<1>8. CASE Lock(w)
  <2>1. /\ run[w].pc = "lock"
        /\ \E pc \in {"weigh", "next group", "count"} : Goto(w, pc)
        /\ MakesGroup(run[w]) => Goto(w, "next group")
    BY <1>8 DEF Lock, At, MakesGroup
  <2>2. CASE MakesGroup(run[w])
    BY <1>3, <2>1, <2>2 DEF Pcs, Section, Listing
  <2>3. CASE ~MakesGroup(run[w])
    BY <1>3, <2>1, <2>3 DEF Pcs, Section, Listing, MakesGroup
  <2> QED  BY <2>2, <2>3
<1>9. CASE \/ NoGroup(w) \/ SlabFull(w) \/ FillFails(w) \/ UnlockUnheld(w)
           \/ Crash(w) \/ Segv(w) \/ Respawn(w)
  <2>1. CASE \/ SlabFull(w) \/ FillFails(w) \/ UnlockUnheld(w)
             \/ Crash(w) \/ Segv(w) \/ Respawn(w)
    BY <1>4, <2>1
       DEF SlabFull, FillFails, UnlockUnheld, Crash, Segv, Respawn
  <2> QED  BY <1>4, <1>5, <1>9, <2>1
<1> QED  BY <1>6, <1>7, <1>8, <1>9

LEMMA GroupsBegin ==
    ASSUME SInv, GInv, NEW w \in Worker, Begin(w)
    PROVE  GInv'
<1>1. SameHeads /\ SameNext
  BY DEF Begin, SameHeads, SameNext
<1>2. ASSUME NEW r, Call(w, r), r.group = 0,
             r.pc \in {"alloc", "group", "walk"} \/ r.op = "lst"
      PROVE  GInv'
  <2>1. run' = [run EXCEPT ![w] = r]
    BY <1>2 DEF Call
  <2>2. Reached(r, peers)
    BY <1>2 DEF Reached, Listing, Making, MakesGroup
  <2> QED  BY <1>1, <2>1, <2>2, GroupsStay
<1>3. CASE CallAdd(w)
  <2>1. PICK n \in Name, k \in Weights, pc \in {"alloc", "group"} :
           Call(w, [Idle EXCEPT !.pc = pc, !.op = "add", !.want = n,
                                !.weight = k])
    BY <1>3 DEF CallAdd
  <2> DEFINE r == [Idle EXCEPT !.pc = pc, !.op = "add", !.want = n,
                               !.weight = k]
  <2>2. r.group = 0 /\ r.pc = pc
    BY DEF Idle
  <2> HIDE DEF r
  <2> QED  BY <1>2, <2>1, <2>2 DEF r
<1>4. ASSUME NEW q \in CallsOf, q.group = 0, q.pc = "group",
             Call(w, q) \/ Call(w, Start(q, 0))
      PROVE  GInv'
  <2>1. CASE Call(w, q)
    BY <1>2, <1>4, <2>1
  <2>2. CASE Call(w, Start(q, 0))
    <3> DEFINE h == peers[0].peer
               b == IF q.op = "del" THEN h ELSE Null
               r == [q EXCEPT !.pc = "walk", !.group = 0, !.speer = h,
                              !.pspeer = b]
    <3>1. Call(w, r)
      BY <2>2 DEF Start
    <3>2. r.pc = "walk" /\ r.group = 0
      <4> HIDE DEF h, b
      <4> QED  BY <1>4 DEF CallsOf
    <3> HIDE DEF r
    <3> QED  BY <1>2, <3>1, <3>2
  <2> QED  BY <1>4, <2>1, <2>2
<1>5. CASE CallDel(w)
  <2>1. PICK n \in Wants :
           LET r == [Idle EXCEPT !.pc = "group", !.op = "del", !.want = n] IN
           Call(w, r) \/ Call(w, Start(r, 0))
    BY <1>5 DEF CallDel
  <2> DEFINE r == [Idle EXCEPT !.pc = "group", !.op = "del", !.want = n]
  <2>2. r \in CallsOf /\ r.group = 0 /\ r.pc = "group"
    BY IdleCall, Constants DEF CallsOf, Pcs
  <2> QED  BY <1>4, <2>1, <2>2
<1>6. CASE CallEdit(w)
  <2>1. PICK n \in Wants, k \in Weights :
           LET r == [Idle EXCEPT !.pc = "group", !.op = "edit", !.want = n,
                                 !.weight = k] IN
           Call(w, r) \/ Call(w, Start(r, 0))
    BY <1>6 DEF CallEdit
  <2> DEFINE r == [Idle EXCEPT !.pc = "group", !.op = "edit", !.want = n,
                               !.weight = k]
  <2>2. r \in CallsOf /\ r.group = 0 /\ r.pc = "group"
    BY IdleCall, Constants DEF CallsOf, Pcs
  <2> QED  BY <1>4, <2>1, <2>2
<1>7. CASE CallLst(w)
  <2>1. PICK n : Call(w, [Idle EXCEPT !.pc = "size", !.op = "lst", !.size = n])
    BY <1>7 DEF CallLst
  <2> DEFINE r == [Idle EXCEPT !.pc = "size", !.op = "lst", !.size = n]
  <2>2. r.op = "lst" /\ r.group = 0
    BY DEF Idle
  <2> HIDE DEF r
  <2> QED  BY <1>2, <2>1, <2>2 DEF r
<1> QED  BY <1>3, <1>5, <1>6, <1>7 DEF Begin

\* The steps on local variables that may look at the groups.
LEMMA GroupsLocal ==
    ASSUME SInv, GInv, NEW w \in Worker,
           \/ Unlock(w) \/ FoundGroup(w) \/ NewGroupFails(w) \/ Advance(w)
           \/ Size(w) \/ First(w) \/ Copy(w) \/ Copied(w) \/ Alloc(w)
    PROVE  GInv'
<1> DEFINE q == run[w]
<1>1. /\ SameHeads /\ SameNext
      /\ q \in CallsOf /\ AtHand(q) /\ Reached(q, peers)
  <2>1. UNCHANGED peers
    BY DEF Unlock, FoundGroup, NewGroupFails, Advance, Size, First, Copy,
           Copied, Alloc
  <2> QED  BY <2>1, AtCall DEF SameHeads, SameNext, GInv
<1>2. ASSUME NEW r, Call(w, r), Reached(r, peers)
      PROVE  GInv'
  BY <1>1, <1>2, GroupsStay DEF Call
<1>3. ASSUME NEW r, Call(w, r), r.op # "add"
      PROVE  GInv'
  <2>1. Reached(r, peers)
    BY <1>3 DEF Reached, Making, MakesGroup
  <2> QED  BY <1>2, <1>3, <2>1
<1>4. CASE q.op # "add" /\ Unlock(w)
  <2>1. q.op \in {"del", "edit"}
    BY <1>1, <1>4 DEF Unlock, At, AtHand
  <2>2. PICK s : AfterUnlock(q) = [q EXCEPT !.pc = "next", !.speer = s]
    <3>1. q.op = "edit" =>
             [q EXCEPT !.pc = "next"] =
             [q EXCEPT !.pc = "next", !.speer = q.speer]
      BY <1>1 DEF CallsOf
    <3> QED  BY <2>1, <3>1 DEF AfterUnlock, MakesGroup
  <2>3. [q EXCEPT !.pc = "next", !.speer = s].op # "add"
    BY <1>1, <2>1 DEF CallsOf
  <2> QED  BY <1>3, <1>4, <2>2, <2>3 DEF Unlock
<1>5. CASE q.op = "add" /\ Unlock(w)
  <2>1. CASE ~MakesGroup(q)
    <3>1. Finish(w)
      BY <1>5, <2>1 DEF Unlock, AfterUnlock, Finish
    <3> QED  BY <1>1, <3>1, GroupsEnd
  <2>2. CASE MakesGroup(q)
    <3> DEFINE r == [q EXCEPT !.pc = "group"]
    <3>1. Call(w, r) /\ q.pc = "unlock"
      BY <1>5, <2>2 DEF Unlock, AfterUnlock, At
    <3>2. /\ r.op = q.op /\ r.group = q.group /\ r.pc = "group"
      BY <1>1 DEF CallsOf
    <3> HIDE DEF r
    <3>3. Reached(r, peers)
      BY <1>1, <3>1, <3>2, StaysReached DEF Making, Listing
    <3> QED  BY <1>2, <3>1, <3>3
  <2> QED  BY <2>1, <2>2
<1>6. CASE q.op # "add" /\ FoundGroup(w)
  <2>1. PICK n, h, b : Call(w, [q EXCEPT !.pc = "walk", !.group = n,
                                         !.speer = h, !.pspeer = b])
    BY <1>6 DEF FoundGroup, Start
  <2>2. [q EXCEPT !.pc = "walk", !.group = n, !.speer = h, !.pspeer = b].op
          # "add"
    BY <1>1, <1>6 DEF CallsOf
  <2> QED  BY <1>3, <2>1, <2>2
<1>7. CASE q.op = "add" /\ FoundGroup(w)
  <2> DEFINE r == [q EXCEPT !.pc = "alloc", !.group = peers[0].next]
  <2>1. Call(w, r)
    BY <1>7 DEF FoundGroup
  <2>2. r.pc = "alloc" /\ r.group = peers[0].next
    BY <1>1 DEF CallsOf
  <2> HIDE DEF r
  <2>3. Reached(r, peers)
    BY <2>2 DEF Reached, Listing, Making
  <2> QED  BY <1>2, <2>1, <2>3
<1>8. CASE NewGroupFails(w)
  <2> DEFINE r == [Idle EXCEPT !.pc = "unlock unheld", !.op = "add"]
  <2>1. Call(w, r) /\ r.pc = "unlock unheld" /\ r.group = 0
    BY <1>8 DEF NewGroupFails, Idle
  <2> HIDE DEF r
  <2>2. Reached(r, peers)
    BY <2>1 DEF Reached, Listing, Making
  <2> QED  BY <1>2, <2>1, <2>2
<1>9. CASE Advance(w)
  <2>1. q.op # "add"
    BY <1>1, <1>9 DEF Advance, At, AtHand
  <2>2. PICK s, b : Call(w, [q EXCEPT !.pc = "walk", !.speer = s, !.pspeer = b])
    BY <1>9 DEF Advance
  <2>3. [q EXCEPT !.pc = "walk", !.speer = s, !.pspeer = b].op # "add"
    BY <1>1, <2>1 DEF CallsOf
  <2> QED  BY <1>3, <2>2, <2>3
<1>10. CASE Alloc(w)
  <2>1. PICK s : Call(w, [q EXCEPT !.pc = "fill", !.speer = s])
    BY <1>10 DEF Alloc
  <2> DEFINE r == [q EXCEPT !.pc = "fill", !.speer = s]
  <2>2. r.op = q.op /\ r.group = q.group /\ r.pc = "fill" /\ q.pc = "alloc"
    BY <1>1, <1>10 DEF CallsOf, Alloc, At
  <2>3. Call(w, r)
    BY <2>1
  <2> HIDE DEF r
  <2>4. Reached(r, peers)
    BY <1>1, <2>2, StaysReached DEF Making, Listing
  <2> QED  BY <1>2, <2>3, <2>4
<1>11. CASE Size(w) \/ First(w) \/ Copy(w) \/ Copied(w)
  <2>1. q.op # "add"
    BY <1>1, <1>11 DEF Size, First, Copy, Copied, At, Reached, Listing
  <2>2. CASE Size(w)
    <3>1. PICK x : Call(w, [q EXCEPT !.pc = "first", !.size = x])
      BY <2>2 DEF Size
    <3>2. [q EXCEPT !.pc = "first", !.size = x].op # "add"
      BY <1>1, <2>1 DEF CallsOf
    <3> QED  BY <1>3, <3>1, <3>2
  <2>3. CASE First(w)
    <3>1. PICK x : Call(w, [q EXCEPT !.pc = "copy", !.speer = x])
      BY <2>3 DEF First
    <3>2. [q EXCEPT !.pc = "copy", !.speer = x].op # "add"
      BY <1>1, <2>1 DEF CallsOf
    <3> QED  BY <1>3, <3>1, <3>2
  <2>4. CASE Copy(w)
    <3>1. PICK y, x : Call(w, [q EXCEPT !.rows = y, !.speer = x])
      BY <2>4 DEF Copy
    <3>2. [q EXCEPT !.rows = y, !.speer = x].op # "add"
      BY <1>1, <2>1 DEF CallsOf
    <3> QED  BY <1>3, <3>1, <3>2
  <2>5. CASE Copied(w) /\ ~Finish(w)
    <3>1. PICK g : Call(w, [q EXCEPT !.pc = "first", !.group = g,
                                     !.speer = Null])
      BY <2>5 DEF Copied
    <3>2. [q EXCEPT !.pc = "first", !.group = g, !.speer = Null].op # "add"
      BY <1>1, <2>1 DEF CallsOf
    <3> QED  BY <1>3, <3>1, <3>2
  <2>6. CASE Finish(w)
    BY <1>1, <2>6, GroupsEnd
  <2> QED  BY <1>11, <2>2, <2>3, <2>4, <2>5, <2>6
<1> QED
  BY <1>4, <1>5, <1>6, <1>7, <1>8, <1>9, <1>10, <1>11

\* The steps that make a group or change the head of one.
LEMMA GroupsMade ==
    ASSUME SInv, GInv, NEW w \in Worker,
           NewGroup(w) \/ Link(w) \/ UnlinkFirst(w)
    PROVE  GInv'
<1> DEFINE q == run[w]
<1>1. /\ q \in CallsOf /\ AtHand(q) /\ q.group \in Group
      /\ Reached(q, peers) /\ peers \in [Group -> GroupsOf] /\ BackupReached
  BY AtCall, Fields DEF SInv, Types, GInv
<1>2. CASE NewGroup(w)
  <2> DEFINE r == [q EXCEPT !.pc = "lock", !.group = made + 1]
  <2>1. run' = [run EXCEPT ![w] = r] /\ peers' = peers /\ q.pc = "new group"
    BY <1>2 DEF NewGroup, Call, At
  <2>2. r.pc = "lock" /\ r.op = q.op /\ r.speer = q.speer
    BY <1>1 DEF CallsOf
  <2>3. q.op = "add" /\ q.speer = Null
    BY <1>1, <2>1 DEF AtHand
  <2> HIDE DEF r
  <2>4. Reached(r, peers)
    BY <1>1, <2>1, <2>2, <2>3 DEF Reached, Listing, Making, MakesGroup
  <2>5. SameHeads /\ SameNext
    BY <2>1 DEF SameHeads, SameNext
  <2> QED  BY <2>1, <2>4, <2>5, GroupsStay
<1>3. ASSUME NEW h, peers' = [peers EXCEPT ![q.group].peer = h],
             \/ q.group = 0 \/ peers[0].next = q.group
      PROVE  SameNext /\ BackupReached'
  <2>1. /\ peers'[0].next = peers[0].next
        /\ \A g \in Group \ {q.group} : peers'[g].peer = peers[g].peer
    BY <1>1, <1>3, Memory DEF GroupsOf
  <2> QED  BY <1>1, <1>3, <2>1 DEF SameNext, BackupReached
<1>4. CASE Link(w)
  <2> DEFINE r == [q EXCEPT !.pc = "unlock"]
  <2>1. /\ peers' = [peers EXCEPT ![q.group].peer = q.speer]
        /\ run' = [run EXCEPT ![w] = r] /\ q.pc = "link"
    BY <1>4 DEF Link, Goto, At
  <2>2. r.pc = "unlock" /\ r.group = q.group /\ r.op = q.op
    BY <1>1 DEF CallsOf
  <2> HIDE DEF r
  <2>3. ~Making(q) /\ ~Making(r) /\ q.op = "add"
    BY <1>1, <2>1, <2>2 DEF Making, AtHand
  <2>4. SameNext /\ BackupReached'
    BY <1>1, <1>3, <2>1, <2>3 DEF Reached
  <2>5. Reached(r, peers)
    BY <1>1, <2>2, <2>3, StaysReached DEF Listing
  <2> QED  BY <2>1, <2>4, <2>5, GroupsStay
<1>5. CASE UnlinkFirst(w)
  <2>1. PICK s : /\ peers' = [peers EXCEPT ![q.group].peer = s]
                 /\ run' = [run EXCEPT ![w] = [q EXCEPT !.pc = "free",
                                                        !.pspeer = s]]
                 /\ q.pc = "unlink" /\ q.speer = peers[q.group].peer
    BY <1>5 DEF UnlinkFirst, Call, At
  <2> DEFINE r == [q EXCEPT !.pc = "free", !.pspeer = s]
  <2>2. r.op = q.op /\ q.op = "del" /\ q.speer # Null
    BY <1>1, <2>1 DEF CallsOf, AtHand
  <2> HIDE DEF r
  <2>3. q.group = 0 \/ peers[0].next = q.group
    BY <1>1, <2>1, <2>2 DEF BackupReached
  <2>4. SameNext /\ BackupReached'
    BY <1>3, <2>1, <2>3
  <2>5. Reached(r, peers)
    BY <2>2 DEF Reached, Making, MakesGroup
  <2> QED  BY <2>1, <2>4, <2>5, GroupsStay DEF r
<1> QED  BY <1>2, <1>4, <1>5

\* A group is put in the place of none: the call that found next NULL is the
\* only one, and no group has peers yet.
LEMMA GroupsNext ==
    ASSUME SInv, GInv, OneMaker, NEW w \in Worker, NextGroup(w)
    PROVE  GInv'
<1> DEFINE q == run[w]
           r == [q EXCEPT !.pc = "unlock"]
<1>1. /\ q \in CallsOf /\ AtHand(q) /\ q.group \in Group
      /\ peers \in [Group -> GroupsOf] /\ 0 \in Group
      /\ \A v \in Worker : Reached(run[v], peers) /\ run[v].group \in Group
  BY AtCall, Fields, Memory DEF SInv, Types, GInv
<1>2. /\ peers' = [peers EXCEPT ![0].next = q.group]
      /\ run' = [run EXCEPT ![w] = r] /\ q.pc = "next group"
  BY DEF NextGroup, Goto, At
<1>3. /\ peers'[0].next = q.group
      /\ \A g \in Group : peers'[g].peer = peers[g].peer
  BY <1>1, <1>2 DEF GroupsOf
<1>4. /\ run'[w] = r /\ \A v \in Worker \ {w} : run'[v] = run[v]
      /\ r.pc = "unlock" /\ r.group = q.group
  BY <1>1, <1>2 DEF SInv, Types, CallsOf
<1> HIDE DEF r
<1>5. Making(q) /\ peers[0].next = Null
  <2>1. Making(q)
    BY <1>1, <1>2 DEF AtHand, Making, MakesGroup
  <2> QED  BY <1>1, <2>1 DEF Reached
<1>6. BackupReached'
  <2>1. \A g \in Group \ {0} : peers[g].peer = Null
    BY <1>5, Constants DEF GInv, BackupReached
  <2> QED  BY <1>3, <2>1 DEF BackupReached
<1>7. ASSUME NEW v \in Worker PROVE Reached(run'[v], peers')
  <2>1. CASE v = w
    BY <1>3, <1>4, <2>1 DEF Reached, Listing, Making
  <2>2. CASE v # w
    <3>1. ~Making(run[v])
      BY <1>5, <2>2 DEF OneMaker
    <3>2. run[v].op = "add" => run[v].group = 0
      BY <1>1, <1>5, <3>1, Constants DEF Reached
    <3> QED  BY <1>1, <1>4, <2>2, <3>1, <3>2 DEF Reached
  <2> QED  BY <2>1, <2>2
<1> QED  BY <1>6, <1>7 DEF GInv

LEMMA GroupsKeep ==
    ASSUME SInv, GInv, OneMaker, [Next]_vars
    PROVE  GInv'
<1>1. CASE UNCHANGED vars
  BY <1>1 DEF vars, GInv, BackupReached, Reached, Making, MakesGroup
<1>2. ASSUME NEW w \in Worker, Begin(w) \/ Crash(w) \/ CallStep(w)
      PROVE  GInv'
  BY <1>2, GroupsBegin, GroupsQuiet, GroupsLocal, GroupsMade, GroupsNext
     DEF CallStep
<1> QED  BY <1>1, <1>2 DEF Next

\* A group that has peers stays the one that next leads to, for any number of
\* workers that change the list and wherever they die, unless two calls make a
\* group at once.
THEOREM BackupStaysReached == Spec => BackupLostByRaceOnly
<1>1. Init => SInv /\ GInv
  BY InitHolds, GroupsInit
<1>2. SInv /\ [Next]_vars => SInv'
  BY NextKeeps
<1>3. SInv /\ GInv /\ OneMaker /\ [Next]_vars => GInv'
  BY GroupsKeep
<1>4. GInv => BackupReached
  BY DEF GInv
<1> QED  BY <1>1, <1>2, <1>3, <1>4, PTL DEF Spec, BackupLostByRaceOnly

-----------------------------------------------------------------------------
(***************************************************************************)
(* number and total_weight.                                                *)
(***************************************************************************)
\* The call that holds the mutex, if one does.
Holding == IF mutex = Null THEN Idle ELSE run[mutex]

\* What a call in its critical section has already added to number and to
\* total_weight of group g, but not to the list.  m is mem.
CountedIn(r, g) ==
    IF r.group # g THEN 0
    ELSE IF r.op = "add" /\ r.pc \in {"weigh", "point", "link"} THEN 1
    ELSE IF r.op = "del" /\ r.pc \in {"weigh", "unlink"} THEN -1
    ELSE 0

WeighedIn(r, g, m) ==
    IF r.group # g THEN 0
    ELSE IF r.pc \in {"point", "link"} THEN r.weight
    ELSE IF r.pc = "unlink" THEN -m[r.speer].weight
    ELSE IF r.pc = "set" THEN r.weight - m[r.speer].weight
    ELSE 0

CountOf(g)  == Cardinality(Linked(g)) + CountedIn(Holding, g)
WeightOf(g) == SumOfWeights(g) + WeighedIn(Holding, g, mem)

HInv ==
    /\ \A g \in Group : \E i \in -crashes .. crashes :
          peers[g].number = Uint(CountOf(g) + i)
    /\ crashes = 0 =>
          \A g \in Group : peers[g].total_weight = Uint(WeightOf(g))

LEMMA UintFacts ==
    /\ \A i \in Int : Uint(i) \in 0 .. UintMod - 1
    /\ \A i \in 0 .. UintMod - 1 : Uint(i) = i
    /\ \A i, k \in Int : Uint(Uint(i) + k) = Uint(i + k)
BY Constants, DivMod, ModOfSmall, ModOfMod DEF Uint

LEMMA HoldingIs ==
    ASSUME SInv
    PROVE  /\ Holding \in CallsOf /\ AtHand(Holding)
           /\ mutex = Null => Holding = Idle
           /\ \A w \in Worker : mutex = w => Holding = run[w]
           /\ \A w \in Worker : mutex' = w => Holding' = run'[w]
           /\ mutex' = Null => Holding' = Idle
<1>1. mutex \in Worker \cup {Null} /\ Null \notin Worker
  BY Constants DEF SInv, Types
<1>2. Holding \in CallsOf /\ AtHand(Holding)
  BY <1>1, AtCall, IdleCall DEF Holding
<1>3. /\ mutex = Null => Holding = Idle
      /\ \A w \in Worker : mutex = w => Holding = run[w]
      /\ \A w \in Worker : mutex' = w => Holding' = run'[w]
      /\ mutex' = Null => Holding' = Idle
  BY <1>1 DEF Holding
<1> QED  BY <1>2, <1>3

WeightsIn(m) == [c \in Chunk |-> m[c].weight]

LEMMA SumTypes ==
    ASSUME SInv, Lists, NEW g \in Group
    PROVE  /\ IsFiniteSet(Linked(g)) /\ Linked(g) \subseteq Chunk
           /\ SumOfWeights(g) = SumFunctionOnSet(WeightsIn(mem), Linked(g))
           /\ \A c \in Chunk : WeightsIn(mem)[c] \in Int
                               /\ WeightsIn(mem)[c] = mem[c].weight
           /\ SumOfWeights(g) \in Int
           /\ CountOf(g) \in Int /\ WeightOf(g) \in Int
<1>1. IsFiniteSet(Linked(g)) /\ Linked(g) \subseteq Chunk
      /\ Cardinality(Linked(g)) \in Int
  BY ListsHave, ChunkFacts
<1>2. SumOfWeights(g) = SumFunctionOnSet(WeightsIn(mem), Linked(g))
  BY DEF SumOfWeights, WeightsIn
<1>3. ASSUME NEW c \in Chunk
      PROVE  WeightsIn(mem)[c] \in Int /\ WeightsIn(mem)[c] = mem[c].weight
  <2>1. mem[c].weight \in Weights \cup {0, 1}
    BY DEF SInv, Types, PeersOf
  <2>2. Weights \cup {0, 1} \subseteq Int
    BY Constants
  <2>3. mem[c].weight \in Int
    BY <2>1, <2>2
  <2> QED  BY <2>3 DEF WeightsIn
<1>4. SumOfWeights(g) \in Int
  BY <1>1, <1>2, <1>3, SumEquation
<1>5. /\ Holding.weight \in Int
      /\ Holding.speer # Null => mem[Holding.speer].weight \in Int
      /\ Holding.pc \in {"unlink", "set"} => Holding.speer # Null
  <2>1. Holding \in CallsOf /\ AtHand(Holding)
    BY HoldingIs
  <2>2. Holding.weight \in Weights \cup {0} /\ Holding.speer \in Chunk \cup {Null}
    BY <2>1, Fields
  <2>3. Weights \cup {0} \subseteq Int
    BY Constants
  <2>4. Holding.pc \in {"unlink", "set"} => Holding.speer # Null
    BY <2>1 DEF AtHand
  <2>5. Holding.speer # Null => mem[Holding.speer].weight \in Int
    BY <1>3, <2>2
  <2> QED  BY <2>2, <2>3, <2>4, <2>5
<1>6. CountOf(g) \in Int
  BY <1>1 DEF CountOf, CountedIn
<1>7. WeighedIn(Holding, g, mem) \in Int
  BY <1>5 DEF WeighedIn
<1>8. WeightOf(g) \in Int
  BY <1>4, <1>7 DEF WeightOf
<1> QED  BY <1>1, <1>2, <1>3, <1>4, <1>6, <1>8

SameWeights == \A c \in AllLinked : mem'[c].weight = mem[c].weight
SameLinked  == \A g \in Group : Linked(g)' = Linked(g)

LEMMA SumsStay ==
    ASSUME SInv, Lists, SameWeights, NEW g \in Group, Linked(g)' = Linked(g)
    PROVE  SumOfWeights(g)' = SumOfWeights(g)
<1>1. /\ IsFiniteSet(Linked(g)) /\ Linked(g) \subseteq Chunk
      /\ Linked(g) \subseteq AllLinked
      /\ SumOfWeights(g) = SumFunctionOnSet(WeightsIn(mem), Linked(g))
      /\ \A c \in Chunk : WeightsIn(mem)[c] \in Int
                          /\ WeightsIn(mem)[c] = mem[c].weight
  BY SumTypes, ListsHave
<1>2. SumOfWeights(g)' = SumFunctionOnSet(WeightsIn(mem'), Linked(g)')
  BY DEF SumOfWeights, WeightsIn
<1>3. \A c \in Linked(g) : WeightsIn(mem')[c] = WeightsIn(mem)[c]
  BY <1>1 DEF SameWeights, WeightsIn
<1>4. \A c \in Linked(g) : WeightsIn(mem)[c] \in Int
  BY <1>1
<1> QED  BY <1>1, <1>2, <1>3, <1>4, SumSame

\* A step that changes neither the lists nor what was added in advance.
LEMMA NothingAdded ==
    ASSUME SInv, Lists, SameLinked, SameWeights, NEW h, Holding' = h,
           \A g \in Group :
              /\ CountedIn(h, g) = CountedIn(Holding, g)
              /\ WeighedIn(h, g, mem') = WeighedIn(Holding, g, mem),
           NEW g \in Group
    PROVE  CountOf(g)' = CountOf(g) /\ WeightOf(g)' = WeightOf(g)
<1>1. Linked(g)' = Linked(g) /\ SumOfWeights(g)' = SumOfWeights(g)
  BY SumsStay DEF SameLinked
<1>2. /\ CountOf(g)' = Cardinality(Linked(g)') + CountedIn(h, g)
      /\ WeightOf(g)' = SumOfWeights(g)' + WeighedIn(h, g, mem')
  BY DEF CountOf, WeightOf, CountedIn, WeighedIn
<1> QED  BY <1>1, <1>2 DEF CountOf, WeightOf

SameSummaries ==
    /\ crashes' = crashes
    /\ \A g \in Group : /\ peers'[g].number = peers[g].number
                        /\ peers'[g].total_weight = peers[g].total_weight

LEMMA SummariesStay ==
    ASSUME HInv, SameSummaries,
           \A g \in Group : CountOf(g)' = CountOf(g) /\ WeightOf(g)' = WeightOf(g)
    PROVE  HInv'
BY DEF HInv, SameSummaries

\* A step of a worker that does not hold the mutex.
LEMMA AsideKeeps ==
    ASSUME SInv, LInv, HInv, NEW w \in Worker,
           \A v \in Worker \ {w} : run'[v] = run[v],
           mutex # w, UNCHANGED << mutex, peers, crashes >>,
           SameLinked, SameWeights
    PROVE  HInv'
<1>1. Lists /\ mutex \in Worker \cup {Null} /\ SameSummaries
  BY DEF LInv, SInv, Types, SameSummaries
<1>2. PICK h : h = Holding
  OBVIOUS
<1>3. Holding' = h
  BY <1>1, <1>2 DEF Holding
<1>4. h.pc \in {"unlink", "set"} => mem'[h.speer].weight = mem[h.speer].weight
  <2> SUFFICES ASSUME h.pc \in {"unlink", "set"}
               PROVE  h.speer \in AllLinked
    BY DEF SameWeights
  <2>1. mutex # Null
    BY <1>2, IdleCall, HoldingIs
  <2>2. PICK v \in Worker : mutex = v /\ h = run[v]
    BY <1>1, <1>2, <2>1, HoldingIs
  <2>3. /\ h \in CallsOf /\ AtHand(h) /\ Mine(h) /\ h.group \in Group
    BY <2>2, AtCall, Fields DEF LInv
  <2>4. h.speer # Null /\ h.speer \in Linked(h.group) \cup {Null}
    BY <2>3 DEF AtHand, Mine, EditsIt, DelsIt, Searching
  <2> QED  BY <2>3, <2>4 DEF AllLinked
<1>5. \A g \in Group : /\ CountedIn(h, g) = CountedIn(Holding, g)
                       /\ WeighedIn(h, g, mem') = WeighedIn(Holding, g, mem)
  BY <1>2, <1>4 DEF WeighedIn
<1> QED  BY <1>1, <1>3, <1>5, NothingAdded, SummariesStay

\* Such steps are all those outside the critical sections.
LEMMA OutsideKeeps ==
    ASSUME SInv, SInv', LInv, OneAtATime, Regime, HInv, NEW w \in Worker,
           \/ Begin(w) \/ Walk(w) \/ Advance(w) \/ Check(w) \/ Alloc(w)
           \/ SlabFull(w) \/ Fill(w) \/ FillFails(w) \/ FoundGroup(w)
           \/ NoGroup(w) \/ NewGroup(w) \/ NewGroupFails(w)
           \/ UnlockUnheld(w) \/ Size(w) \/ First(w) \/ Copy(w)
           \/ Copied(w) \/ Segv(w) \/ (Respawn(w) /\ mutex # w)
    PROVE  HInv'
<1>1. \A v \in Worker \ {w} : run'[v] = run[v]
  BY StepIsOwn DEF CallStep
<1>2. mutex # w
  <2>1. \/ Respawn(w) /\ mutex # w
        \/ run[w].pc \notin Section \cup {"dead"}
    BY DEF Begin, Walk, Advance, Check, Alloc, SlabFull, Fill, FillFails,
           FoundGroup, NoGroup, NewGroup, NewGroupFails, UnlockUnheld, Size,
           First, Copy, Copied, Segv, At, Section
  <2> QED  BY <2>1, AtCall
<1>3. UNCHANGED << mutex, peers, crashes >>
  BY <1>2 DEF Begin, Walk, Advance, Check, Alloc, SlabFull, Fill, FillFails,
              FoundGroup, NoGroup, NewGroup, NewGroupFails, UnlockUnheld,
              Size, First, Copy, Copied, Segv, Respawn
<1>4. SameLinked
  BY BeginQuiet, GoesQuiet, EndsQuiet, LocalQuiet, AllocLists, FillLists
     DEF SameLinked
<1>5. SameWeights
  <2>1. CASE Alloc(w)
    <3>1. PICK c \in Chunk \ used : \E m : mem' = [mem EXCEPT ![c] = m]
      BY <2>1 DEF Alloc
    <3>2. c \notin AllLinked /\ AllLinked \subseteq Chunk
      BY ListsHave DEF LInv, Sound
    <3> QED  BY <3>1, <3>2 DEF SameWeights, SInv, Types
  <2>2. CASE Fill(w)
    <3> DEFINE c == run[w].speer
    <3>1. run[w].pc = "fill" /\ AtHand(run[w]) /\ OwnsIt(run[w])
      BY <2>2, AtCall DEF Fill, At, LInv, Mine
    <3>2. c \notin AllLinked /\ AllLinked \subseteq Chunk
      BY <3>1, ListsHave DEF AtHand, Owns, OwnsIt, LInv
    <3>3. \A d \in Chunk \ {c} : mem'[d] = mem[d]
      <4>1. mem \in [Chunk -> PeersOf]
        BY DEF SInv, Types
      <4>2. PICK x, y : mem' = [mem EXCEPT ![c].name = x, ![c].weight = y]
        BY <2>2 DEF Fill
      <4> QED  BY <4>1, <4>2
    <3> QED  BY <3>2, <3>3 DEF SameWeights
  <2>3. CASE ~Alloc(w) /\ ~Fill(w)
    <3>1. mem' = mem
      BY <2>3 DEF Begin, Walk, Advance, Check, SlabFull, FillFails,
              FoundGroup, NoGroup, NewGroup, NewGroupFails, UnlockUnheld,
              Size, First, Copy, Copied, Segv, Respawn
    <3> QED  BY <3>1 DEF SameWeights
  <2> QED  BY <2>1, <2>2, <2>3
<1> QED  BY <1>1, <1>2, <1>3, <1>4, <1>5, AsideKeeps

\* The steps of a worker in its critical section, and into and out of it,
\* that write no summary and link nothing.
LEMMA SectionGoes ==
    ASSUME SInv, LInv, HInv, NEW w \in Worker, NEW pc \in Pcs, Goto(w, pc),
           mutex = w \/ (mutex = Null /\ run[w].pc = "lock"), mutex' = w,
           SameSummaries, SameLinked, SameWeights,
           \/ {run[w].pc, pc} \subseteq {"point", "link"}
           \/ /\ run[w].pc \in {"lock", "next group", "free"}
              /\ pc \in {"count", "next group", "unlock"}
           \/ run[w].pc = "lock" /\ pc = "weigh" /\ run[w].op = "edit"
    PROVE  HInv'
<1> DEFINE r == [run[w] EXCEPT !.pc = pc]
<1>1. run[w] \in CallsOf /\ Lists /\ run' = [run EXCEPT ![w] = r]
      /\ run \in [Worker -> CallsOf]
  BY AtCall DEF LInv, Goto, SInv, Types
<1>2. /\ r.pc = pc /\ r.op = run[w].op /\ r.group = run[w].group
      /\ r.speer = run[w].speer /\ r.weight = run[w].weight
  BY <1>1, GotoFields
<1>3. Holding' = r
  <2>1. Holding' = run'[w] /\ run'[w] = r
    BY <1>1, HoldingIs
  <2> QED  BY <2>1
<1> HIDE DEF r
<1>4. ASSUME NEW g \in Group
      PROVE  /\ CountedIn(r, g) = CountedIn(Holding, g)
             /\ WeighedIn(r, g, mem') = WeighedIn(Holding, g, mem)
  <2>1. CASE mutex = w
    <3>1. Holding = run[w] /\ run[w].pc # "lock"
      BY <2>1, AtCall, HoldingIs DEF Section
    <3> QED  BY <1>2, <2>1, <3>1 DEF CountedIn, WeighedIn
  <2>2. CASE mutex = Null /\ run[w].pc = "lock"
    <3>1. Holding.op = "none" /\ Holding.pc = "idle"
      BY <2>2, HoldingIs, IdleCall
    <3> QED  BY <1>2, <2>2, <3>1 DEF CountedIn, WeighedIn
  <2> QED  BY <2>1, <2>2
<1> QED  BY <1>1, <1>3, <1>4, NothingAdded, SummariesStay

LEMMA SectionKeeps ==
    ASSUME SInv, SInv', LInv, OneAtATime, Regime, HInv, NEW w \in Worker,
           Lock(w) \/ NextGroup(w) \/ Point(w) \/ Free(w)
    PROVE  HInv'
<1>1. /\ run[w] \in CallsOf /\ AtHand(run[w]) /\ peers \in [Group -> GroupsOf]
      /\ 0 \in Group
  BY AtCall, Memory DEF SInv, Types
<1>2. SameLinked
  BY GoesQuiet, FillLists, FreeLists DEF SameLinked
<1>3. SameSummaries
  <2>1. CASE NextGroup(w)
    <3>1. crashes' = crashes /\ peers' = [peers EXCEPT ![0].next = run[w].group]
      BY <2>1 DEF NextGroup
    <3> QED  BY <1>1, <3>1 DEF SameSummaries, GroupsOf
  <2>2. CASE Lock(w) \/ Point(w) \/ Free(w)
    <3>1. crashes' = crashes /\ peers' = peers
      BY <2>2 DEF Lock, Point, Free
    <3> QED  BY <3>1 DEF SameSummaries
  <2> QED  BY <2>1, <2>2
<1>4. SameWeights
  <2>1. CASE Point(w)
    <3>1. PICK x : mem' = [mem EXCEPT ![run[w].speer].next = x]
      BY <2>1 DEF Point
    <3>2. AllLinked \subseteq Chunk /\ mem \in [Chunk -> PeersOf]
      BY ListsHave DEF LInv, SInv, Types
    <3> QED  BY <3>1, <3>2 DEF SameWeights, PeersOf
  <2>2. CASE Lock(w) \/ NextGroup(w) \/ Free(w)
    <3>1. mem' = mem
      BY <2>2 DEF Lock, NextGroup, Free
    <3> QED  BY <3>1 DEF SameWeights
  <2> QED  BY <2>1, <2>2
<1>5. CASE NextGroup(w) \/ Point(w) \/ Free(w)
  <2>1. PICK pc \in {"unlock", "link"} :
           /\ Goto(w, pc)
           /\ \/ run[w].pc \in {"next group", "free"} /\ pc = "unlock"
              \/ run[w].pc = "point" /\ pc = "link"
    <3>1. CASE NextGroup(w) \/ Free(w)
      BY <3>1 DEF NextGroup, Free, At
    <3>2. CASE Point(w)
      BY <3>2 DEF Point, At
    <3> QED  BY <1>5, <3>1, <3>2
  <2>2. pc \in Pcs /\ mutex = w /\ mutex' = w
    BY <1>5, <2>1, AtCall DEF Pcs, Section, NextGroup, Point, Free
  <2> QED  BY <1>2, <1>3, <1>4, <2>1, <2>2, SectionGoes
<1>6. CASE Lock(w)
  <2>1. PICK pc \in {"weigh", "next group", "count"} :
           Goto(w, pc) /\ (pc = "weigh" => run[w].op = "edit")
    BY <1>6 DEF Lock
  <2>2. pc \in Pcs /\ mutex = Null /\ mutex' = w /\ run[w].pc = "lock"
    BY <1>6, <2>1 DEF Pcs, Section, Lock, CanLock, At
  <2> QED  BY <1>2, <1>3, <1>4, <2>1, <2>2, SectionGoes
<1> QED  BY <1>5, <1>6

\* The mutex is given back.
LEMMA LeaveKeeps ==
    ASSUME SInv, SInv', LInv, HInv, NEW w \in Worker, mutex = w,
           Unlock(w) \/ Respawn(w)
    PROVE  HInv'
<1>1. /\ UNCHANGED << peers, mem, crashes >> /\ mutex' = Null
      /\ run[w].pc \in {"unlock", "dead"} /\ SameLinked /\ Lists
  BY LocalQuiet, EndsQuiet DEF Unlock, Respawn, At, SameLinked, LInv
<1>2. Holding = run[w] /\ Holding' = Idle
  BY <1>1, HoldingIs
<1>3. SameSummaries /\ SameWeights
  BY <1>1 DEF SameSummaries, SameWeights
<1>4. Idle.pc = "idle" /\ Idle.op = "none"
  BY IdleCall
<1>5. ASSUME NEW g \in Group
      PROVE  /\ CountedIn(Idle, g) = CountedIn(Holding, g)
             /\ WeighedIn(Idle, g, mem') = WeighedIn(Holding, g, mem)
  BY <1>1, <1>2, <1>4 DEF CountedIn, WeighedIn
<1> QED  BY <1>1, <1>2, <1>3, <1>5, NothingAdded, SummariesStay

\* A worker that dies may leave number one too high or too low.
LEMMA DeathKeeps ==
    ASSUME SInv, LInv, HInv, NEW w \in Worker, Crash(w)
    PROVE  HInv'
<1>1. /\ UNCHANGED << peers, mem >> /\ mutex = w /\ mutex' = w
      /\ crashes' = crashes + 1 /\ SameLinked /\ Lists /\ crashes \in Nat
      /\ run' = [run EXCEPT ![w] = Dead]
  <2>1. crashes \in Nat
    BY ShmAssumption DEF SInv, Types
  <2>2. SameLinked
    BY EndsQuiet DEF SameLinked
  <2> QED  BY <2>1, <2>2 DEF Crash, Call, LInv
<1>2. Holding' = Dead
  <2>1. run'[w] = Dead
    BY <1>1 DEF SInv, Types
  <2> QED  BY <1>1, <2>1, HoldingIs
<1>3. Dead.op = "none"
  BY DEF Dead, Idle
<1>4. ASSUME NEW g \in Group
      PROVE  \E i \in -(crashes + 1) .. crashes + 1 :
                peers[g].number = Uint(CountOf(g)' + i)
  <2>1. CountOf(g)' = Cardinality(Linked(g)) + 0
    <3>1. CountOf(g)' = Cardinality(Linked(g)') + CountedIn(Dead, g)
      BY <1>2 DEF CountOf, CountedIn
    <3>2. CountedIn(Dead, g) = 0
      BY <1>3 DEF CountedIn
    <3> QED  BY <1>1, <3>1, <3>2 DEF SameLinked
  <2>2. CountOf(g) = Cardinality(Linked(g)) + CountedIn(Holding, g)
    BY DEF CountOf
  <2>3. CountedIn(Holding, g) \in -1 .. 1
    BY DEF CountedIn
  <2>4. PICK i \in -crashes .. crashes : peers[g].number = Uint(CountOf(g) + i)
    BY DEF HInv
  <2>5. Cardinality(Linked(g)) \in Int
    BY <1>1, ListsHave, ChunkFacts
  <2>6. PICK k \in -1 .. 1 : k = CountedIn(Holding, g)
    BY <2>3
  <2>7. PICK n \in Int : n = Cardinality(Linked(g))
    BY <2>5
  <2>8. CountOf(g) + i = CountOf(g)' + (i + k)
    BY <1>1, <2>1, <2>2, <2>6, <2>7
  <2>9. i + k \in -(crashes + 1) .. crashes + 1
    BY <1>1
  <2> QED  BY <2>4, <2>8, <2>9
<1>5. crashes' # 0
  BY <1>1
<1> QED  BY <1>1, <1>4, <1>5 DEF HInv

\* A summary and what it stands for change by the same amount.
LEMMA MovesKeep ==
    ASSUME SInv, Lists, HInv, crashes' = crashes,
           \A g \in Group : \E a \in Int :
              /\ peers'[g].number = Uint(peers[g].number + a)
              /\ CountOf(g)' = CountOf(g) + a,
           \A g \in Group : \E b \in Int :
              /\ peers'[g].total_weight = Uint(peers[g].total_weight + b)
              /\ WeightOf(g)' = WeightOf(g) + b
    PROVE  HInv'
<1>1. ASSUME NEW g \in Group
      PROVE  \E i \in -crashes .. crashes :
                peers'[g].number = Uint(CountOf(g)' + i)
  <2>1. PICK a \in Int : /\ peers'[g].number = Uint(peers[g].number + a)
                         /\ CountOf(g)' = CountOf(g) + a
    OBVIOUS
  <2>2. PICK i \in -crashes .. crashes : peers[g].number = Uint(CountOf(g) + i)
    BY DEF HInv
  <2>3. PICK n \in Int : n = CountOf(g)
    BY SumTypes
  <2>4. i \in Int /\ n + i \in Int
    OBVIOUS
  <2>5. Uint(Uint(n + i) + a) = Uint((n + i) + a)
    BY <2>4, UintFacts
  <2>6. (n + i) + a = (n + a) + i
    BY <2>4
  <2> QED  BY <2>1, <2>2, <2>3, <2>5, <2>6
<1>2. ASSUME crashes = 0, NEW g \in Group
      PROVE  peers'[g].total_weight = Uint(WeightOf(g)')
  <2>1. PICK b \in Int :
           /\ peers'[g].total_weight = Uint(peers[g].total_weight + b)
           /\ WeightOf(g)' = WeightOf(g) + b
    OBVIOUS
  <2>2. peers[g].total_weight = Uint(WeightOf(g)) /\ WeightOf(g) \in Int
    BY <1>2, SumTypes DEF HInv
  <2> QED  BY <2>1, <2>2, UintFacts
<1> QED  BY <1>1, <1>2 DEF HInv

\* What a group has of the two stays as it is.
LEMMA SummaryTypes ==
    ASSUME SInv, NEW g \in Group
    PROVE  /\ peers[g].number \in Int /\ peers[g].total_weight \in Int
           /\ peers[g].number = Uint(peers[g].number + 0)
           /\ peers[g].total_weight = Uint(peers[g].total_weight + 0)
<1>1. /\ peers[g].number \in 0 .. UintMod - 1
      /\ peers[g].total_weight \in 0 .. UintMod - 1
  BY DEF SInv, Types, GroupsOf
<1>2. \A i \in 0 .. UintMod - 1 : i \in Int /\ i + 0 = i /\ Uint(i) = i
  BY UintFacts
<1> QED  BY <1>1, <1>2

LEMMA CountSums ==
    ASSUME SInv, SInv', LInv, HInv, NEW w \in Worker, Count(w)
    PROVE  HInv'
<1> DEFINE q == run[w]
           r == [q EXCEPT !.pc = "weigh"]
<1>1. /\ q \in CallsOf /\ q.group \in Group /\ q.op \in {"add", "del"}
      /\ q.pc = "count" /\ mutex = w /\ mutex' = w /\ Lists
      /\ mem' = mem /\ crashes' = crashes /\ run' = [run EXCEPT ![w] = r]
      /\ SameLinked /\ SameWeights /\ "weigh" \in Pcs
      /\ peers \in [Group -> GroupsOf] /\ run \in [Worker -> CallsOf]
  <2>1. SameLinked
    BY GoesQuiet DEF SameLinked
  <2>2. q.pc = "count" /\ q \in CallsOf /\ AtHand(q) /\ mutex = w
    BY AtCall DEF Count, At, Section
  <2> QED  BY <2>1, <2>2, Fields DEF Count, AtHand, Goto, Pcs, Section, LInv,
                                     SameWeights, SInv, Types
<1>2. r.pc = "weigh" /\ r.op = q.op /\ r.group = q.group
  BY <1>1, GotoFields
<1> HIDE DEF r
<1>3. Holding = q /\ Holding' = r
  <2>1. run'[w] = r
    BY <1>1
  <2> QED  BY <1>1, <2>1, HoldingIs
<1> DEFINE a(g) == IF q.group # g THEN 0 ELSE IF q.op = "add" THEN 1 ELSE -1
<1>4. ASSUME NEW g \in Group
      PROVE  /\ a(g) \in Int
             /\ CountOf(g)' = CountOf(g) + a(g) /\ WeightOf(g)' = WeightOf(g) + 0
  <2>1. /\ CountedIn(r, g) = CountedIn(q, g) + a(g)
        /\ WeighedIn(r, g, mem) = WeighedIn(q, g, mem)
    BY <1>1, <1>2 DEF CountedIn, WeighedIn
  <2>2. /\ CountOf(g)' = Cardinality(Linked(g)') + CountedIn(r, g)
        /\ WeightOf(g)' = SumOfWeights(g)' + WeighedIn(r, g, mem')
    BY <1>3 DEF CountOf, WeightOf, CountedIn, WeighedIn
  <2>3. Linked(g)' = Linked(g) /\ SumOfWeights(g)' = SumOfWeights(g)
    BY <1>1, SumsStay DEF SameLinked
  <2>4. /\ CountOf(g) = Cardinality(Linked(g)) + CountedIn(q, g)
        /\ WeightOf(g) = SumOfWeights(g) + WeighedIn(q, g, mem)
    BY <1>3 DEF CountOf, WeightOf
  <2>5. /\ Cardinality(Linked(g)) \in Int /\ WeightOf(g) \in Int
        /\ CountedIn(q, g) \in Int /\ a(g) \in Int
    BY <1>1, ListsHave, SumTypes, ChunkFacts DEF CountedIn
  <2>6. WeightOf(g)' = WeightOf(g) + 0
    BY <1>1, <2>1, <2>2, <2>3, <2>4, <2>5
  <2>7. PICK n \in Int, k \in Int, d \in Int :
           n = Cardinality(Linked(g)) /\ k = CountedIn(q, g) /\ d = a(g)
    BY <2>5
  <2>8. CountOf(g)' = CountOf(g) + a(g)
    BY <2>1, <2>2, <2>3, <2>4, <2>7
  <2> QED  BY <2>5, <2>6, <2>8
<1>5. ASSUME NEW g \in Group
      PROVE  /\ peers'[g].number = Uint(peers[g].number + a(g))
             /\ peers'[g].total_weight = Uint(peers[g].total_weight + 0)
  <2>1. CASE g = q.group
    <3> DEFINE n == Uint(IF q.op = "add" THEN peers[g].number + 1
                         ELSE peers[g].number - 1)
    <3>1. peers' = [peers EXCEPT ![g].number = n]
      BY <2>1 DEF Count
    <3>2. n = Uint(peers[g].number + a(g))
      BY <2>1, SummaryTypes
    <3> HIDE DEF n, a
    <3>3. peers'[g].number = n /\ peers'[g].total_weight = peers[g].total_weight
      BY <1>1, <3>1 DEF GroupsOf
    <3> QED  BY <3>2, <3>3, SummaryTypes
  <2>2. CASE g # q.group
    <3>1. peers'[g] = peers[g]
      BY <1>1, <2>2 DEF Count
    <3> QED  BY <2>2, <3>1, SummaryTypes
  <2> QED  BY <2>1, <2>2
<1> HIDE DEF a
<1> QED  BY <1>1, <1>4, <1>5, MovesKeep

\* The weights of a call and of its peer are numbers.
LEMMA CallWeights ==
    ASSUME SInv, NEW w \in Worker
    PROVE  /\ run[w].weight \in Int
           /\ run[w].speer # Null => mem[run[w].speer].weight \in Int
<1>1. run[w].weight \in Weights \cup {0} /\ run[w].speer \in Chunk \cup {Null}
  BY AtCall, Fields
<1>2. Weights \cup {0} \subseteq Int /\ Weights \cup {0, 1} \subseteq Int
  BY Constants
<1>3. run[w].speer # Null => mem[run[w].speer].weight \in Weights \cup {0, 1}
  BY <1>1 DEF SInv, Types, PeersOf
<1> QED  BY <1>1, <1>2, <1>3

LEMMA WeighSums ==
    ASSUME SInv, SInv', LInv, HInv, NEW w \in Worker, Weigh(w)
    PROVE  HInv'
<1> DEFINE q == run[w]
<1>1. /\ q \in CallsOf /\ q.group \in Group /\ q.op \in {"add", "del", "edit"}
      /\ q.pc = "weigh" /\ mutex = w /\ mutex' = w /\ Lists
      /\ mem' = mem /\ crashes' = crashes /\ q.speer # Null
      /\ SameLinked /\ SameWeights
      /\ peers \in [Group -> GroupsOf] /\ run \in [Worker -> CallsOf]
  <2>1. SameLinked
    BY GoesQuiet DEF SameLinked
  <2>2. q.pc = "weigh" /\ q \in CallsOf /\ AtHand(q) /\ mutex = w
    BY AtCall DEF Weigh, At, Section
  <2> QED  BY <2>1, <2>2, Fields DEF Weigh, AtHand, LInv,
                                     SameWeights, SInv, Types
<1>2. PICK pc \in {"point", "unlink", "set"} :
         /\ run' = [run EXCEPT ![w] = [q EXCEPT !.pc = pc]]
         /\ q.op = "add" <=> pc = "point"
         /\ q.op = "del" <=> pc = "unlink"
         /\ q.op = "edit" <=> pc = "set"
  BY <1>1 DEF Weigh, Goto
<1> DEFINE r == [q EXCEPT !.pc = pc]
<1>3. "point" \in Pcs /\ "unlink" \in Pcs /\ "set" \in Pcs
  BY DEF Pcs, Section
<1>4. /\ r.pc = pc /\ r.op = q.op /\ r.group = q.group /\ r.speer = q.speer
      /\ r.weight = q.weight
  BY <1>1, <1>3, GotoFields
<1> HIDE DEF r
<1>5. Holding = q /\ Holding' = r
  <2>1. run'[w] = r
    BY <1>1, <1>2 DEF r
  <2> QED  BY <1>1, <2>1, HoldingIs
<1> DEFINE old == mem[q.speer].weight
<1>6. q.weight \in Int /\ old \in Int
  BY <1>1, CallWeights
<1> HIDE DEF old
<1> DEFINE b(g) == IF q.group # g THEN 0
                   ELSE IF q.op = "add" THEN q.weight
                   ELSE IF q.op = "del" THEN -old
                   ELSE q.weight - old
<1>7. ASSUME NEW g \in Group
      PROVE  /\ b(g) \in Int
             /\ CountOf(g)' = CountOf(g) + 0 /\ WeightOf(g)' = WeightOf(g) + b(g)
  <2>1. /\ CountedIn(r, g) = CountedIn(q, g) /\ WeighedIn(q, g, mem) = 0
        /\ WeighedIn(r, g, mem) = b(g)
    BY <1>1, <1>2, <1>4 DEF CountedIn, WeighedIn, old
  <2>2. /\ CountOf(g)' = Cardinality(Linked(g)') + CountedIn(r, g)
        /\ WeightOf(g)' = SumOfWeights(g)' + WeighedIn(r, g, mem')
    BY <1>5 DEF CountOf, WeightOf, CountedIn, WeighedIn
  <2>3. Linked(g)' = Linked(g) /\ SumOfWeights(g)' = SumOfWeights(g)
    BY <1>1, SumsStay DEF SameLinked
  <2>4. /\ CountOf(g) = Cardinality(Linked(g)) + CountedIn(q, g)
        /\ WeightOf(g) = SumOfWeights(g) + WeighedIn(q, g, mem)
    BY <1>5 DEF CountOf, WeightOf
  <2>5. CountOf(g) \in Int /\ SumOfWeights(g) \in Int /\ b(g) \in Int
    BY <1>1, <1>6, SumTypes
  <2>6. CountOf(g)' = CountOf(g) + 0
    BY <2>1, <2>2, <2>3, <2>4, <2>5
  <2>7. WeightOf(g)' = WeightOf(g) + b(g)
    <3> HIDE DEF b
    <3> QED  BY <1>1, <2>1, <2>2, <2>3, <2>4, <2>5
  <2> QED  BY <2>5, <2>6, <2>7
<1>8. ASSUME NEW g \in Group
      PROVE  /\ peers'[g].number = Uint(peers[g].number + 0)
             /\ peers'[g].total_weight = Uint(peers[g].total_weight + b(g))
  <2>1. CASE g = q.group
    <3> DEFINE total == peers[g].total_weight
               n == Uint(Weight(q, total))
    <3>1. peers' = [peers EXCEPT ![g].total_weight = n]
      BY <2>1 DEF Weigh
    <3>2. n = Uint(total + b(g))
      <4>1. total \in Int
        BY SummaryTypes
      <4> HIDE DEF total
      <4>2. Weight(q, total) = total + b(g)
        <5>1. CASE q.op = "add"
          BY <1>1, <1>6, <2>1, <4>1, <5>1 DEF Weight, old
        <5>2. CASE q.op = "del"
          BY <1>1, <1>6, <2>1, <4>1, <5>2 DEF Weight, old
        <5>3. CASE q.op = "edit"
          <6>1. Weight(q, total) = total - old + q.weight
            BY <5>3 DEF Weight, old
          <6>2. b(g) = q.weight - old
            BY <2>1, <5>3
          <6> QED  BY <1>6, <4>1, <6>1, <6>2
        <5> QED  BY <1>1, <5>1, <5>2, <5>3
      <4> QED  BY <4>2
    <3> HIDE DEF n, b
    <3>3. peers'[g].number = peers[g].number /\ peers'[g].total_weight = n
      BY <1>1, <3>1 DEF GroupsOf
    <3> QED  BY <3>2, <3>3, SummaryTypes
  <2>2. CASE g # q.group
    <3>1. peers'[g] = peers[g]
      BY <1>1, <2>2 DEF Weigh
    <3> QED  BY <2>2, <3>1, SummaryTypes
  <2> QED  BY <2>1, <2>2
<1> HIDE DEF b
<1> QED  BY <1>1, <1>7, <1>8, MovesKeep

\* The list catches up with the summaries.
LEMMA LinkSums ==
    ASSUME SInv, SInv', LInv, OneAtATime, Regime, HInv, NEW w \in Worker, Link(w)
    PROVE  HInv'
<1> DEFINE q == run[w]
           r == [q EXCEPT !.pc = "unlock"]
<1>1. /\ q \in CallsOf /\ q.op = "add" /\ q.pc = "link" /\ q.speer # Null
      /\ mutex = w /\ mutex' = w /\ Lists /\ mem' = mem /\ crashes' = crashes
      /\ run' = [run EXCEPT ![w] = r] /\ "unlock" \in Pcs
      /\ peers \in [Group -> GroupsOf] /\ run \in [Worker -> CallsOf]
      /\ OwnsIt(q)
  <2>1. q.pc = "link" /\ q \in CallsOf /\ AtHand(q) /\ mutex = w
    BY AtCall DEF Link, At, Section
  <2> QED  BY <2>1 DEF Link, AtHand, Goto, Pcs, Section, LInv, Mine, SInv, Types
<1>2. PICK grp \in Group, c \in Chunk : grp = q.group /\ c = q.speer
  BY <1>1, Fields
<1>3. /\ Linked(grp)' = Linked(grp) \cup {c} /\ c \notin Linked(grp)
      /\ \A h \in Group \ {grp} : Linked(h)' = Linked(h)
      /\ mem[c].weight = q.weight
  <2>1. c \notin Linked(grp)
    BY <1>2, LinkLists DEF AllLinked
  <2>2. mem[c].weight = q.weight
    BY <1>1, <1>2 DEF OwnsIt, Owns
  <2> QED  BY <1>2, <2>1, <2>2, LinkLists
<1>4. r.pc = "unlock" /\ r.group = grp
  BY <1>1, <1>2, GotoFields
<1>5. SameSummaries
  <2>1. peers' = [peers EXCEPT ![grp].peer = c]
    BY <1>2 DEF Link
  <2> QED  BY <1>1, <2>1 DEF SameSummaries, GroupsOf
<1> HIDE DEF r
<1>6. Holding = q /\ Holding' = r
  <2>1. run'[w] = r
    BY <1>1
  <2> QED  BY <1>1, <2>1, HoldingIs
<1>7. ASSUME NEW g \in Group
      PROVE  /\ CountOf(g)' = Cardinality(Linked(g)') + 0
             /\ WeightOf(g)' = SumOfWeights(g)' + 0
             /\ CountOf(g) = Cardinality(Linked(g))
                                + (IF g = grp THEN 1 ELSE 0)
             /\ WeightOf(g) = SumOfWeights(g)
                                + (IF g = grp THEN mem[c].weight ELSE 0)
  <2>1. CountOf(g)' = Cardinality(Linked(g)') + CountedIn(r, g)
    BY <1>6 DEF CountOf, CountedIn
  <2>2. WeightOf(g)' = SumOfWeights(g)' + WeighedIn(r, g, mem')
    BY <1>6 DEF WeightOf, WeighedIn
  <2>3. CountedIn(r, g) = 0 /\ WeighedIn(r, g, mem') = 0
    BY <1>4 DEF CountedIn, WeighedIn
  <2>4. /\ CountedIn(q, g) = IF g = grp THEN 1 ELSE 0
        /\ WeighedIn(q, g, mem) = IF g = grp THEN mem[c].weight ELSE 0
    BY <1>1, <1>2, <1>3 DEF CountedIn, WeighedIn
  <2> QED  BY <1>6, <2>1, <2>2, <2>3, <2>4 DEF CountOf, WeightOf
<1>8. ASSUME NEW g \in Group
      PROVE  CountOf(g)' = CountOf(g) /\ WeightOf(g)' = WeightOf(g)
  <2>1. /\ IsFiniteSet(Linked(g)) /\ Linked(g) \subseteq Chunk
        /\ SumOfWeights(g) = SumFunctionOnSet(WeightsIn(mem), Linked(g))
        /\ \A d \in Chunk : WeightsIn(mem)[d] \in Int
                            /\ WeightsIn(mem)[d] = mem[d].weight
        /\ SumOfWeights(g) \in Int /\ Cardinality(Linked(g)) \in Int
    BY <1>1, SumTypes, ListsHave, ChunkFacts
  <2>2. SumOfWeights(g)' = SumFunctionOnSet(WeightsIn(mem), Linked(g)')
    BY <1>1 DEF SumOfWeights, WeightsIn
  <2>3. CASE g = grp
    <3> DEFINE L == Linked(g) \cup {c}
    <3>1. IsFiniteSet(L) /\ Cardinality(L) = Cardinality(Linked(g)) + 1
      BY <1>3, <2>1, <2>3, FS_AddElement
    <3>2. SumFunctionOnSet(WeightsIn(mem), L)
            = mem[c].weight + SumFunctionOnSet(WeightsIn(mem), L \ {c})
      <4>1. \A d \in L : WeightsIn(mem)[d] \in Int
        BY <2>1
      <4>2. c \in L
        OBVIOUS
      <4> HIDE DEF L
      <4> QED  BY <2>1, <3>1, <4>1, <4>2, SumRemove
    <3>3. L \ {c} = Linked(g) /\ Linked(g)' = L
      BY <1>3, <2>3
    <3> HIDE DEF L
    <3>4. /\ Cardinality(Linked(g)') = Cardinality(Linked(g)) + 1
          /\ SumOfWeights(g)' = mem[c].weight + SumOfWeights(g)
      BY <2>1, <2>2, <3>1, <3>2, <3>3
    <3>5. mem[c].weight \in Int
      BY <2>1
    <3> QED  BY <1>7, <2>1, <2>3, <3>4, <3>5
  <2>4. CASE g # grp
    <3>1. Linked(g)' = Linked(g)
      BY <1>3, <2>4
    <3> QED  BY <1>7, <2>1, <2>2, <2>4, <3>1
  <2> QED  BY <2>3, <2>4
<1> QED  BY <1>5, <1>8, SummariesStay

LEMMA UnlinkSums ==
    ASSUME SInv, SInv', LInv, OneAtATime, Regime, HInv, NEW w \in Worker,
           UnlinkFirst(w) \/ UnlinkOther(w)
    PROVE  HInv'
<1> DEFINE q == run[w]
<1>1. /\ q \in CallsOf /\ q.op = "del" /\ q.pc = "unlink" /\ q.speer # Null
      /\ mutex = w /\ mutex' = w /\ Lists /\ crashes' = crashes
      /\ peers \in [Group -> GroupsOf] /\ run \in [Worker -> CallsOf]
      /\ mem \in [Chunk -> PeersOf]
  <2>1. q.pc = "unlink" /\ mutex' = mutex /\ crashes' = crashes
    BY DEF UnlinkFirst, UnlinkOther, At
  <2>2. q \in CallsOf /\ AtHand(q) /\ mutex = w
    BY <2>1, AtCall DEF Section
  <2> QED  BY <2>1, <2>2 DEF AtHand, LInv, SInv, Types
<1>2. PICK grp \in Group, c \in Chunk : grp = q.group /\ c = q.speer
  BY <1>1, Fields
<1>3. /\ Linked(grp)' = Linked(grp) \ {c} /\ c \in Linked(grp)
      /\ \A h \in Group \ {grp} : Linked(h)' = Linked(h)
  BY <1>2, UnlinkLists
<1>4. /\ SameSummaries
      /\ \A d \in Chunk : mem'[d].weight = mem[d].weight
  <2>1. CASE UnlinkFirst(w)
    <3>1. PICK x : peers' = [peers EXCEPT ![grp].peer = x]
      BY <1>2, <2>1 DEF UnlinkFirst
    <3>2. mem' = mem
      BY <2>1 DEF UnlinkFirst
    <3> QED  BY <1>1, <3>1, <3>2 DEF SameSummaries, GroupsOf
  <2>2. CASE UnlinkOther(w)
    <3>1. PICK x, y : mem' = [mem EXCEPT ![x].next = y]
      BY <2>2 DEF UnlinkOther
    <3>2. peers' = peers
      BY <2>2 DEF UnlinkOther
    <3> QED  BY <1>1, <3>1, <3>2 DEF SameSummaries, PeersOf
  <2> QED  BY <2>1, <2>2
<1>5. PICK r : run' = [run EXCEPT ![w] = r] /\ r.pc = "free" /\ r.group = grp
  <2>1. CASE UnlinkFirst(w)
    <3>1. PICK x : run' = [run EXCEPT ![w] = [q EXCEPT !.pc = "free",
                                                       !.pspeer = x]]
      BY <2>1 DEF UnlinkFirst, Call
    <3>2. /\ [q EXCEPT !.pc = "free", !.pspeer = x].pc = "free"
          /\ [q EXCEPT !.pc = "free", !.pspeer = x].group = grp
      BY <1>1, <1>2 DEF CallsOf
    <3> QED  BY <3>1, <3>2
  <2>2. CASE UnlinkOther(w)
    <3>1. run' = [run EXCEPT ![w] = [q EXCEPT !.pc = "free"]]
      BY <2>2 DEF UnlinkOther, Goto
    <3>2. [q EXCEPT !.pc = "free"].pc = "free" /\ [q EXCEPT !.pc = "free"].group = grp
      BY <1>1, <1>2 DEF CallsOf
    <3> QED  BY <3>1, <3>2
  <2> QED  BY <2>1, <2>2
<1>6. Holding = q /\ Holding' = r
  <2>1. run'[w] = r
    BY <1>1, <1>5
  <2> QED  BY <1>1, <2>1, HoldingIs
<1>7. ASSUME NEW g \in Group
      PROVE  /\ CountOf(g)' = Cardinality(Linked(g)') + 0
             /\ WeightOf(g)' = SumOfWeights(g)' + 0
             /\ CountOf(g) = Cardinality(Linked(g))
                                + (IF g = grp THEN -1 ELSE 0)
             /\ WeightOf(g) = SumOfWeights(g)
                                + (IF g = grp THEN -mem[c].weight ELSE 0)
  <2>1. CountOf(g)' = Cardinality(Linked(g)') + CountedIn(r, g)
    BY <1>6 DEF CountOf, CountedIn
  <2>2. WeightOf(g)' = SumOfWeights(g)' + WeighedIn(r, g, mem')
    BY <1>6 DEF WeightOf, WeighedIn
  <2>3. CountedIn(r, g) = 0 /\ WeighedIn(r, g, mem') = 0
    BY <1>5 DEF CountedIn, WeighedIn
  <2>4. /\ CountedIn(q, g) = IF g = grp THEN -1 ELSE 0
        /\ WeighedIn(q, g, mem) = IF g = grp THEN -mem[c].weight ELSE 0
    BY <1>1, <1>2, <1>3 DEF CountedIn, WeighedIn
  <2> QED  BY <1>6, <2>1, <2>2, <2>3, <2>4 DEF CountOf, WeightOf
<1>8. ASSUME NEW g \in Group
      PROVE  CountOf(g)' = CountOf(g) /\ WeightOf(g)' = WeightOf(g)
  <2>1. /\ IsFiniteSet(Linked(g)) /\ Linked(g) \subseteq Chunk
        /\ SumOfWeights(g) = SumFunctionOnSet(WeightsIn(mem), Linked(g))
        /\ \A d \in Chunk : WeightsIn(mem)[d] \in Int
                            /\ WeightsIn(mem)[d] = mem[d].weight
        /\ SumOfWeights(g) \in Int /\ Cardinality(Linked(g)) \in Int
    BY <1>1, SumTypes, ListsHave, ChunkFacts
  <2>2. WeightsIn(mem') = WeightsIn(mem)
    BY <1>4 DEF WeightsIn
  <2>3. SumOfWeights(g)' = SumFunctionOnSet(WeightsIn(mem), Linked(g)')
    BY <2>2 DEF SumOfWeights, WeightsIn
  <2>4. CASE g = grp
    <3>1. c \in Linked(g) /\ Linked(g)' = Linked(g) \ {c}
      BY <1>3, <2>4
    <3>2. Cardinality(Linked(g)') = Cardinality(Linked(g)) - 1
      BY <2>1, <3>1, FS_RemoveElement
    <3>3. \A d \in Linked(g) : WeightsIn(mem)[d] \in Int
      BY <2>1
    <3>4. SumOfWeights(g) = mem[c].weight + SumOfWeights(g)'
      <4>1. SumFunctionOnSet(WeightsIn(mem), Linked(g))
              = WeightsIn(mem)[c]
                + SumFunctionOnSet(WeightsIn(mem), Linked(g) \ {c})
        BY <2>1, <3>1, <3>3, SumRemove
      <4> QED  BY <2>1, <2>3, <3>1, <4>1
    <3>5. mem[c].weight \in Int /\ SumOfWeights(g)' \in Int
      <4>1. IsFiniteSet(Linked(g)') /\ \A d \in Linked(g)' : WeightsIn(mem)[d] \in Int
        BY <2>1, <3>1, <3>3, FS_Subset
      <4>2. SumFunctionOnSet(WeightsIn(mem), Linked(g)') \in Int
        BY <4>1, SumEquation
      <4> QED  BY <2>1, <2>3, <4>2
    <3> QED  BY <1>7, <2>1, <2>4, <3>2, <3>4, <3>5
  <2>5. CASE g # grp
    <3>1. Linked(g)' = Linked(g)
      BY <1>3, <2>5
    <3> QED  BY <1>7, <2>1, <2>3, <2>5, <3>1
  <2> QED  BY <2>4, <2>5
<1> QED  BY <1>4, <1>8, SummariesStay

LEMMA SetSums ==
    ASSUME SInv, SInv', LInv, OneAtATime, Regime, HInv, NEW w \in Worker,
           SetWeight(w)
    PROVE  HInv'
<1> DEFINE q == run[w]
           r == [q EXCEPT !.pc = "unlock"]
<1>1. /\ q \in CallsOf /\ q.op = "edit" /\ q.pc = "set" /\ q.speer # Null
      /\ mutex = w /\ mutex' = w /\ Lists /\ Sound /\ crashes' = crashes
      /\ mem' = [mem EXCEPT ![q.speer].weight = q.weight]
      /\ run' = [run EXCEPT ![w] = r] /\ "unlock" \in Pcs
      /\ run \in [Worker -> CallsOf] /\ mem \in [Chunk -> PeersOf]
      /\ EditsIt(q)
  <2>1. q.pc = "set" /\ q \in CallsOf /\ AtHand(q) /\ mutex = w
    BY AtCall DEF SetWeight, At, Section
  <2> QED  BY <2>1 DEF SetWeight, AtHand, Goto, Pcs, Section, LInv, Mine,
                       SInv, Types
<1>2. SameLinked /\ SameSummaries
  <2>1. SameLinked
    BY SetWeightLists DEF SameLinked
  <2> QED  BY <2>1 DEF SetWeight, SameSummaries
<1>3. PICK grp \in Group, c \in Chunk : grp = q.group /\ c = q.speer
  BY <1>1, Fields
<1>4. c \in Linked(grp) /\ \A h \in Group \ {grp} : c \notin Linked(h)
  <2>1. c \in Linked(grp)
    BY <1>1, <1>3, ChunkFacts DEF EditsIt
  <2> QED  BY <1>1, <2>1 DEF Sound
<1>5. r.pc = "unlock" /\ r.group = grp
  BY <1>1, <1>3, GotoFields
<1> HIDE DEF r
<1>6. Holding = q /\ Holding' = r
  <2>1. run'[w] = r
    BY <1>1
  <2> QED  BY <1>1, <2>1, HoldingIs
<1>7. /\ mem'[c].weight = q.weight
      /\ \A d \in Chunk \ {c} : mem'[d] = mem[d]
  BY <1>1, <1>3 DEF PeersOf
<1>8. q.weight \in Int /\ mem[c].weight \in Int
  BY <1>1, <1>3, CallWeights
<1>9. ASSUME NEW g \in Group
      PROVE  /\ CountOf(g)' = Cardinality(Linked(g)')
             /\ WeightOf(g)' = SumOfWeights(g)' + 0
             /\ CountOf(g) = Cardinality(Linked(g))
             /\ WeightOf(g) = SumOfWeights(g)
                      + (IF g = grp THEN q.weight - mem[c].weight ELSE 0)
  <2>1. CountOf(g)' = Cardinality(Linked(g)') + CountedIn(r, g)
    BY <1>6 DEF CountOf, CountedIn
  <2>2. WeightOf(g)' = SumOfWeights(g)' + WeighedIn(r, g, mem')
    BY <1>6 DEF WeightOf, WeighedIn
  <2>3. CountedIn(r, g) = 0 /\ WeighedIn(r, g, mem') = 0
    BY <1>5 DEF CountedIn, WeighedIn
  <2>4. /\ CountedIn(q, g) = 0
        /\ WeighedIn(q, g, mem) = IF g = grp THEN q.weight - mem[c].weight ELSE 0
    BY <1>1, <1>3 DEF CountedIn, WeighedIn
  <2>5. Cardinality(Linked(g)) \in Int /\ Linked(g)' = Linked(g)
    BY <1>1, <1>2, ListsHave, ChunkFacts DEF SameLinked
  <2>6. CountOf(g) = Cardinality(Linked(g))
    BY <1>6, <2>4, <2>5 DEF CountOf
  <2>7. CountOf(g)' = Cardinality(Linked(g)')
    BY <2>1, <2>3, <2>5
  <2>8. WeightOf(g) = SumOfWeights(g)
                      + (IF g = grp THEN q.weight - mem[c].weight ELSE 0)
    BY <1>6, <2>4 DEF WeightOf
  <2> QED  BY <2>2, <2>3, <2>6, <2>7, <2>8
<1>10. ASSUME NEW g \in Group
      PROVE  CountOf(g)' = CountOf(g) /\ WeightOf(g)' = WeightOf(g)
  <2>1. /\ IsFiniteSet(Linked(g)) /\ Linked(g) \subseteq Chunk
        /\ SumOfWeights(g) = SumFunctionOnSet(WeightsIn(mem), Linked(g))
        /\ \A d \in Chunk : WeightsIn(mem)[d] \in Int
                            /\ WeightsIn(mem)[d] = mem[d].weight
        /\ SumOfWeights(g) \in Int /\ Linked(g)' = Linked(g)
    BY <1>1, <1>2, SumTypes DEF SameLinked
  <2>2. SumOfWeights(g)' = SumFunctionOnSet(WeightsIn(mem'), Linked(g))
    BY <2>1 DEF SumOfWeights, WeightsIn
  <2>3. /\ WeightsIn(mem')[c] = q.weight
        /\ \A d \in Chunk \ {c} : WeightsIn(mem')[d] = WeightsIn(mem)[d]
    BY <1>7 DEF WeightsIn
  <2>4. CASE g = grp
    <3>1. \A d \in Linked(g) : WeightsIn(mem)[d] \in Int
                               /\ WeightsIn(mem')[d] \in Int
      BY <1>8, <2>1, <2>3
    <3>2. \A d \in Linked(g) \ {c} : WeightsIn(mem')[d] = WeightsIn(mem)[d]
      BY <2>1, <2>3
    <3>3. c \in Linked(g)
      BY <1>4, <2>4
    <3>4. SumFunctionOnSet(WeightsIn(mem'), Linked(g))
            = SumFunctionOnSet(WeightsIn(mem), Linked(g))
                - WeightsIn(mem)[c] + WeightsIn(mem')[c]
      <4>1. PICK S, f, h : /\ S = Linked(g) /\ f = WeightsIn(mem)
                           /\ h = WeightsIn(mem')
        OBVIOUS
      <4>2. /\ IsFiniteSet(S) /\ c \in S
            /\ \A d \in S : f[d] \in Int /\ h[d] \in Int
            /\ \A d \in S \ {c} : h[d] = f[d]
        BY <2>1, <3>1, <3>2, <3>3, <4>1
      <4>3. ASSUME NEW a \in S, \A d \in S \ {a} : h[d] = f[d]
            PROVE  SumFunctionOnSet(h, S)
                     = SumFunctionOnSet(f, S) - f[a] + h[a]
        BY <4>2, <4>3, SumChange
      <4>4. SumFunctionOnSet(h, S) = SumFunctionOnSet(f, S) - f[c] + h[c]
        BY <4>2, <4>3
      <4> QED  BY <4>1, <4>4
    <3>5. SumOfWeights(g)' = SumOfWeights(g) - mem[c].weight + q.weight
      BY <2>1, <2>2, <2>3, <3>4
    <3> QED  BY <1>8, <1>9, <2>1, <2>4, <3>5
  <2>5. CASE g # grp
    <3>1. \A d \in Linked(g) : WeightsIn(mem)[d] \in Int
                               /\ WeightsIn(mem')[d] = WeightsIn(mem)[d]
      BY <1>4, <2>1, <2>3, <2>5
    <3>2. SumOfWeights(g)' = SumOfWeights(g)
      BY <2>1, <2>2, <3>1, SumSame
    <3> QED  BY <1>9, <2>1, <2>5, <3>2
  <2> QED  BY <2>4, <2>5
<1> QED  BY <1>2, <1>10, SummariesStay

\* The step as a whole.
LEMMA SumsInit == Init => HInv
<1> SUFFICES ASSUME Init PROVE HInv
  OBVIOUS
<1> DEFINE n == Len(Configured)
           b == Len(Backups)
<1>1. /\ n \in Nat /\ b \in Nat /\ n > 0 /\ n + b <= Chunks /\ Chunks \in Nat
      /\ UintMod \in Nat /\ UintMod > Chunks
  BY ShmAssumption
<1>2. SInv /\ LInv /\ Lists
  BY InitHolds, ListsInit DEF LInv
<1>3. crashes = 0 /\ Holding = Idle
  BY DEF Init, Holding
<1>4. ASSUME NEW g \in Group
      PROVE  CountOf(g) = Cardinality(Linked(g)) /\ WeightOf(g) = SumOfWeights(g)
  <2>1. CountedIn(Idle, g) = 0 /\ WeighedIn(Idle, g, mem) = 0
    BY IdleCall DEF CountedIn, WeighedIn
  <2>2. Cardinality(Linked(g)) \in Int /\ SumOfWeights(g) \in Int
    BY <1>2, SumTypes, ListsHave, ChunkFacts
  <2> QED  BY <1>3, <2>1, <2>2 DEF CountOf, WeightOf
<1>5. ASSUME NEW g \in Group PROVE SumOfWeights(g) = Cardinality(Linked(g))
  <2>1. /\ IsFiniteSet(Linked(g)) /\ Linked(g) \subseteq AllLinked
        /\ SumOfWeights(g) = SumFunctionOnSet(WeightsIn(mem), Linked(g))
        /\ \A c \in Linked(g) : WeightsIn(mem)[c] = mem[c].weight
    BY <1>2, SumTypes, ListsHave
  <2>2. AllLinked \subseteq 1 .. n + b
    <3>1. \A c \in Linked(0) \cup Linked(1) : c \in 1 .. n + b
      BY <1>1, ListsInit
    <3>2. \A h \in Group : Linked(h) \subseteq Linked(0) \cup Linked(1)
      BY ListsInit
    <3> QED  BY <3>1, <3>2 DEF AllLinked
  <2>3. \A c \in Linked(g) : mem[c].weight = 1
    <3>1. \A c \in 1 .. n + b : c \in Chunk /\ ~(c > n + b)
      BY <1>1 DEF Chunk
    <3>2. \A c \in 1 .. n + b : mem[c].weight = 1
      BY <3>1 DEF Init
    <3> QED  BY <2>1, <2>2, <3>2
  <2>4. \A c \in Linked(g) : WeightsIn(mem)[c] = 1
    BY <2>1, <2>3
  <2> QED  BY <2>1, <2>4, SumOfOnes
<1>6. ASSUME NEW g \in Group
      PROVE  /\ Cardinality(Linked(g)) \in 0 .. UintMod - 1
             /\ peers[g].number = Cardinality(Linked(g))
             /\ peers[g].total_weight = Cardinality(Linked(g))
  <2>1. Cardinality(Linked(g)) \in 0 .. UintMod - 1
    BY <1>1, <1>2, ListsHave
  <2>2. peers[g] = IF g = 0
                   THEN [peer |-> 1, number |-> n, total_weight |-> n,
                         next |-> IF b = 0 THEN Null ELSE 1]
                   ELSE IF g = 1 /\ b > 0
                   THEN [NoPeers EXCEPT !.peer = n + 1, !.number = b,
                                        !.total_weight = b]
                   ELSE NoPeers
    BY DEF Init
  <2>3. CASE g = 0
    <3>1. Cardinality(Linked(0)) = n
      <4>1. 1 \in Int /\ n \in Int /\ ~(1 > n) /\ n - 1 + 1 = n
        BY <1>1
      <4>2. Linked(0) = 1 .. n
        BY ListsInit
      <4> HIDE DEF n, b
      <4> QED  BY <4>1, <4>2, FS_Interval
    <3> QED  BY <2>1, <2>2, <2>3, <3>1
  <2>4. CASE g = 1
    <3>1. Cardinality(Linked(1)) = b
      <4>1. n + 1 \in Int /\ n + b \in Int /\ (n + 1 > n + b <=> b = 0)
            /\ (n + b) - (n + 1) + 1 = b
        BY <1>1
      <4>2. Linked(1) = n + 1 .. n + b
        BY ListsInit
      <4> HIDE DEF n, b
      <4> QED  BY <4>1, <4>2, FS_Interval
    <3>2. CASE b > 0
      BY <2>1, <2>2, <2>4, <3>1, <3>2 DEF NoPeers
    <3>3. CASE ~(b > 0)
      BY <1>1, <2>1, <2>2, <2>4, <3>1, <3>3 DEF NoPeers
    <3> QED  BY <3>2, <3>3
  <2>5. CASE g \notin {0, 1}
    <3>1. Cardinality(Linked(g)) = 0
      BY <2>5, ListsInit, FS_EmptySet
    <3> QED  BY <2>1, <2>2, <2>5, <3>1 DEF NoPeers
  <2> QED  BY <2>3, <2>4, <2>5
<1>7. ASSUME NEW g \in Group
      PROVE  /\ \E i \in -crashes .. crashes : peers[g].number = Uint(CountOf(g) + i)
             /\ peers[g].total_weight = Uint(WeightOf(g))
  <2>1. PICK k \in 0 .. UintMod - 1 : k = Cardinality(Linked(g))
    BY <1>6
  <2>2. Uint(k) = k /\ Uint(k + 0) = k /\ 0 \in -crashes .. crashes
    <3>1. k + 0 = k /\ 0 \in -crashes .. crashes
      BY <1>3
    <3> QED  BY <3>1, UintFacts
  <2> QED  BY <1>4, <1>5, <1>6, <2>1, <2>2
<1> QED  BY <1>7 DEF HInv

LEMMA SumsKeep ==
    ASSUME SInv, SInv', LInv, OneAtATime, Regime, HInv, [Next]_vars
    PROVE  HInv'
<1>1. CASE UNCHANGED vars
  BY <1>1 DEF vars, HInv, CountOf, WeightOf, CountedIn, WeighedIn, Holding,
              Linked, SumOfWeights
<1>2. ASSUME NEW w \in Worker, Begin(w) \/ Crash(w) PROVE HInv'
  BY <1>2, OutsideKeeps, DeathKeeps
<1>3. ASSUME NEW w \in Worker, CallStep(w) PROVE HInv'
  <2>1. CASE \/ Walk(w) \/ Advance(w) \/ Check(w) \/ Alloc(w)
             \/ SlabFull(w) \/ Fill(w) \/ FillFails(w) \/ FoundGroup(w)
             \/ NoGroup(w) \/ NewGroup(w) \/ NewGroupFails(w)
             \/ UnlockUnheld(w) \/ Size(w) \/ First(w) \/ Copy(w)
             \/ Copied(w) \/ Segv(w) \/ (Respawn(w) /\ mutex # w)
    BY <2>1, OutsideKeeps
  <2>2. CASE Lock(w) \/ NextGroup(w) \/ Point(w) \/ Free(w)
    BY <2>2, SectionKeeps
  <2>3. CASE Unlock(w) \/ (Respawn(w) /\ mutex = w)
    <3>1. mutex = w
      BY <2>3, AtCall DEF Unlock, At, Section
    <3> QED  BY <2>3, <3>1, LeaveKeeps
  <2>4. CASE Count(w) \/ Weigh(w) \/ SetWeight(w)
    BY <2>4, CountSums, WeighSums, SetSums
  <2>5. CASE Link(w) \/ UnlinkFirst(w) \/ UnlinkOther(w)
    BY <2>5, LinkSums, UnlinkSums
  <2> QED  BY <1>3, <2>1, <2>2, <2>3, <2>4, <2>5 DEF CallStep
<1> QED  BY <1>1, <1>2, <1>3 DEF Next

\* When nobody holds the mutex, nothing is counted in advance.
LEMMA SummariesAreRight == SInv /\ LInv /\ HInv => SummaryDrift
<1> SUFFICES ASSUME SInv, LInv, HInv, mutex = Null, NEW g \in Group
             PROVE  /\ \E i \in -crashes .. crashes :
                          peers[g].number = Uint(Cardinality(Linked(g)) + i)
                    /\ crashes = 0 =>
                          peers[g].total_weight = Uint(SumOfWeights(g))
  BY DEF SummaryDrift
<1>1. Holding = Idle
  BY HoldingIs
<1>2. CountedIn(Idle, g) = 0 /\ WeighedIn(Idle, g, mem) = 0
  BY IdleCall DEF CountedIn, WeighedIn
<1>3. Cardinality(Linked(g)) \in Int /\ SumOfWeights(g) \in Int
  BY SumTypes, ListsHave, ChunkFacts DEF LInv
<1>4. CountOf(g) = Cardinality(Linked(g)) /\ WeightOf(g) = SumOfWeights(g)
  BY <1>1, <1>2, <1>3 DEF CountOf, WeightOf
<1> QED  BY <1>4 DEF HInv

\* What every reachable state satisfies of the summaries.
LEMMA SummariesInvariant ==
    Regime => (Spec => [](SInv /\ OneAtATime /\ LInv /\ HInv))
<1> SUFFICES ASSUME Regime
             PROVE  Spec => [](SInv /\ OneAtATime /\ LInv /\ HInv)
  OBVIOUS
<1>1. Init => HInv
  BY SumsInit
<1>2. SInv /\ SInv' /\ OneAtATime /\ LInv /\ HInv /\ [Next]_vars => HInv'
  BY SumsKeep
<1> QED  BY <1>1, <1>2, ListsInvariant, PTL DEF Spec

\* In the same regimes number is off by at most one for each worker that died
\* in its critical section whenever nobody holds the mutex, and total_weight
\* is the sum of the weights in the list if none did.
THEOREM SummariesDriftLittle == Regime => (Spec => []SummaryDrift)
<1> SUFFICES ASSUME Regime PROVE Spec => []SummaryDrift
  OBVIOUS
<1>1. SInv /\ LInv /\ HInv => SummaryDrift
  BY SummariesAreRight
<1> QED  BY <1>1, SummariesInvariant, PTL

-----------------------------------------------------------------------------
(***************************************************************************)
(* Each change of a list is made at one statement.                         *)
(***************************************************************************)
\* From "lock" to its change, a call of add has its peer's name in place and
\* a call of edit stands on a peer that it asked for.
Later == {"lock", "count", "weigh", "point", "link", "set"}

Named(r) ==
    /\ Owns(r) /\ r.pc # "fill" => mem[r.speer].name = r.want
    /\ r.op = "edit" /\ r.pc \in Later => Matches(r)
    /\ r.pc = "idle" => r.op = "none"

NInv == \A w \in Worker : Named(run[w])

LEMMA NamesInit == Init => NInv
BY IdleCall DEF Init, NInv, Named, Owns

\* How the call q goes on as r.
Follows(q, r) ==
    \/ r.op = "none"
    \/ r.pc = "unlock unheld" /\ r.op = "add"
    \/ /\ r.pc # "idle" /\ r.op = q.op /\ r.want = q.want
       /\ r.weight = q.weight /\ (Done(q) => Done(r))
       /\ r.op # "del" /\ r.pc \in Later =>
             /\ r.speer = q.speer
             /\ \/ r.speer = Null \/ q.pc \in Later \cup {"fill"}
                \/ q.pc = "walk" /\ Matches(q)

LEMMA OpEnds ==
    ASSUME SInv, NEW w \in Worker, Finish(w) \/ Call(w, Dead)
    PROVE  Follows(run[w], run'[w])
<1>1. \A r : run' = [run EXCEPT ![w] = r] => run'[w] = r
  BY DEF SInv, Types
<1>2. Dead.op = "none"
  BY DEF Dead, Idle
<1> QED  BY <1>1, <1>2, IdleCall DEF Finish, Call, Follows

\* Where the call has not ended, only its pc, group and cursors change.
Alike(r, q, pc) ==
    r.pc = pc /\ r.op = q.op /\ r.want = q.want /\ r.weight = q.weight

LEMMA OpGoesOn ==
    ASSUME SInv, NEW w \in Worker, NEW r, run' = [run EXCEPT ![w] = r],
           NEW pc, pc \notin Later \cup {"idle"}, Alike(r, run[w], pc),
           run[w].pc # "unlock unheld",
           run[w].op = "add" => run[w].pc # "unlock" \/ run[w].speer = Null
    PROVE  Follows(run[w], run'[w])
<1>1. run'[w] = r
  BY DEF SInv, Types
<1>2. Done(run[w]) => Done(r)
  BY DEF Done, Alike
<1> QED  BY <1>1, <1>2 DEF Follows, Alike

LEMMA GotoFollows ==
    ASSUME SInv, NEW w \in Worker, NEW pc \in Pcs \ {"idle"}, Goto(w, pc),
           run[w].pc \notin {"unlock", "unlock unheld"},
           run[w].op # "del" /\ pc \in Later =>
              \/ run[w].pc \in Later \cup {"fill"}
              \/ run[w].pc = "walk" /\ Matches(run[w])
    PROVE  Follows(run[w], run'[w])
<1> DEFINE q == run[w]
           r == [q EXCEPT !.pc = pc]
<1>1. q \in CallsOf /\ run' = [run EXCEPT ![w] = r] /\ run'[w] = r
  BY AtCall DEF Goto, SInv, Types
<1>2. /\ r.pc = pc /\ r.op = q.op /\ r.want = q.want
      /\ r.weight = q.weight /\ r.speer = q.speer
  BY <1>1, GotoFields
<1> HIDE DEF r
<1>3. Done(q) => Done(r)
  BY <1>2 DEF Done
<1> QED  BY <1>1, <1>2, <1>3 DEF Follows

\* The call of a worker in its step.
LEMMA CallFollows ==
    ASSUME SInv, NEW w \in Worker, CallStep(w) \/ Crash(w)
    PROVE  Follows(run[w], run'[w])
<1> DEFINE q == run[w]
<1>1. q \in CallsOf /\ AtHand(q) /\ run \in [Worker -> CallsOf]
  BY AtCall DEF SInv, Types
<1>4. CASE \/ SlabFull(w) \/ FillFails(w) \/ UnlockUnheld(w)
           \/ Crash(w) \/ Segv(w) \/ Respawn(w)
  BY <1>4, OpEnds
     DEF SlabFull, FillFails, UnlockUnheld, Crash, Segv, Respawn
<1>5. CASE \/ Walk(w) \/ Check(w) \/ NoGroup(w)
  <2>1. q.pc \in {"walk", "check", "group"} /\ (Check(w) => q.op = "del")
    BY <1>1, <1>5 DEF Walk, Check, NoGroup, At, AtHand
  <2>2. \/ Finish(w)
        \/ \E pc \in {"next", "check", "lock", "new group"} :
              /\ Goto(w, pc)
              /\ pc = "lock" =>
                    q.op = "del" \/ (q.pc = "walk" /\ Matches(q))
    <3>1. CASE Walk(w)
      <4>1. q.pc = "walk"
        BY <3>1 DEF Walk, At
      <4>2. \/ Finish(w) \/ Goto(w, "next")
            \/ Matches(q) /\ (Goto(w, "check") \/ Goto(w, "lock"))
        BY <3>1 DEF Walk
      <4> QED  BY <4>1, <4>2
    <3>2. CASE Check(w)
      BY <2>1, <3>2 DEF Check
    <3>3. CASE NoGroup(w)
      BY <3>3 DEF NoGroup
    <3> QED  BY <1>5, <3>1, <3>2, <3>3
  <2>3. {"next", "check", "lock", "new group"} \subseteq Pcs \ {"idle"}
    BY DEF Pcs
  <2>4. {"next", "check", "new group"} \cap Later = {}
    BY DEF Later
  <2> QED  BY <2>1, <2>2, <2>3, <2>4, OpEnds, GotoFollows
<1>6. CASE \/ Lock(w) \/ NextGroup(w) \/ Count(w) \/ Weigh(w) \/ Fill(w)
           \/ Point(w) \/ Link(w) \/ UnlinkOther(w) \/ Free(w) \/ SetWeight(w)
  <2>1. /\ q.pc \in Section \cup {"lock", "fill"} /\ q.pc # "unlock"
        /\ \/ q.pc \in Later \cup {"fill"} \/ q.op = "del"
           \/ NextGroup(w)
    BY <1>1, <1>6
       DEF Lock, NextGroup, Count, Weigh, Fill, Point, Link, UnlinkOther,
           Free, SetWeight, At, AtHand, Section, Later
  <2>2. \E pc \in Section \cup {"lock"} :
           Goto(w, pc) /\ (NextGroup(w) => pc = "unlock")
    <3>1. CASE Lock(w)
      <4>1. ~NextGroup(w)
        BY <3>1 DEF Lock, NextGroup, At
      <4> QED  BY <3>1, <4>1 DEF Lock, Section
    <3>2. CASE Weigh(w)
      <4>1. ~NextGroup(w) /\ q.op \in {"add", "del", "edit"}
        BY <1>1, <3>2 DEF Weigh, NextGroup, At, AtHand
      <4> QED  BY <3>2, <4>1 DEF Weigh, Section
    <3>3. CASE NextGroup(w)
      BY <3>3 DEF NextGroup, Section
    <3>4. CASE \/ Count(w) \/ Fill(w) \/ Point(w) \/ Link(w)
               \/ UnlinkOther(w) \/ Free(w) \/ SetWeight(w)
      <4>1. ~NextGroup(w)
        BY <3>4 DEF Count, Fill, Point, Link, UnlinkOther, Free, SetWeight,
                    NextGroup, At
      <4> QED
        BY <3>4, <4>1 DEF Count, Fill, Point, Link, UnlinkOther, Free,
                          SetWeight, Section
    <3> QED  BY <1>6, <3>1, <3>2, <3>3, <3>4
  <2>3. PICK pc \in Section \cup {"lock"} :
           Goto(w, pc) /\ (NextGroup(w) => pc = "unlock")
    BY <2>2
  <2>4. pc \in Pcs \ {"idle"} /\ "unlock" \notin Later
    BY DEF Pcs, Section, Later
  <2>5. q.pc \notin {"unlock", "unlock unheld"}
    BY <2>1 DEF Section
  <2> HIDE DEF q
  <2> QED  BY <2>1, <2>3, <2>4, <2>5, GotoFollows DEF q
<1>2. ASSUME NEW r, run' = [run EXCEPT ![w] = r],
             NEW pc \in {"fill", "walk", "free", "first", "copy", "alloc",
                         "group", "next"},
             Alike(r, q, pc), q.pc # "unlock unheld",
             q.op = "add" => q.pc # "unlock" \/ q.speer = Null
      PROVE  Follows(q, run'[w])
  <2>1. pc \notin Later \cup {"idle"}
    BY DEF Later
  <2> QED  BY <1>2, <2>1, OpGoesOn
<1>7. CASE Alloc(w)
  <2>1. PICK c : run' = [run EXCEPT ![w] = [q EXCEPT !.pc = "fill",
                                                     !.speer = c]]
    BY <1>7 DEF Alloc, Call
  <2> DEFINE r == [q EXCEPT !.pc = "fill", !.speer = c]
  <2>2. run' = [run EXCEPT ![w] = r] /\ Alike(r, q, "fill") /\ q.pc = "alloc"
    BY <1>1, <1>7, <2>1 DEF Alike, CallsOf, Alloc, At
  <2> HIDE DEF r
  <2> QED  BY <1>2, <2>2
<1>8. CASE Advance(w)
  <2>1. PICK x, y : run' = [run EXCEPT ![w] = [q EXCEPT !.pc = "walk",
                                               !.speer = x, !.pspeer = y]]
    BY <1>8 DEF Advance, Call
  <2> DEFINE r == [q EXCEPT !.pc = "walk", !.speer = x, !.pspeer = y]
  <2>2. run' = [run EXCEPT ![w] = r] /\ Alike(r, q, "walk") /\ q.pc = "next"
    BY <1>1, <1>8, <2>1 DEF Alike, CallsOf, Advance, At
  <2> HIDE DEF r
  <2> QED  BY <1>2, <2>2
<1>9. CASE UnlinkFirst(w)
  <2>1. PICK x : run' = [run EXCEPT ![w] = [q EXCEPT !.pc = "free",
                                                     !.pspeer = x]]
    BY <1>9 DEF UnlinkFirst, Call
  <2> DEFINE r == [q EXCEPT !.pc = "free", !.pspeer = x]
  <2>2. run' = [run EXCEPT ![w] = r] /\ Alike(r, q, "free") /\ q.pc = "unlink"
    BY <1>1, <1>9, <2>1 DEF Alike, CallsOf, UnlinkFirst, At
  <2> HIDE DEF r
  <2> QED  BY <1>2, <2>2
<1>10. CASE Size(w)
  <2>1. PICK x : run' = [run EXCEPT ![w] = [q EXCEPT !.pc = "first",
                                                     !.size = x]]
    BY <1>10 DEF Size, Call
  <2> DEFINE r == [q EXCEPT !.pc = "first", !.size = x]
  <2>2. run' = [run EXCEPT ![w] = r] /\ Alike(r, q, "first") /\ q.pc = "size"
    BY <1>1, <1>10, <2>1 DEF Alike, CallsOf, Size, At
  <2> HIDE DEF r
  <2> QED  BY <1>2, <2>2
<1>11. CASE First(w)
  <2>1. PICK x : run' = [run EXCEPT ![w] = [q EXCEPT !.pc = "copy",
                                                     !.speer = x]]
    BY <1>11 DEF First, Call
  <2> DEFINE r == [q EXCEPT !.pc = "copy", !.speer = x]
  <2>2. run' = [run EXCEPT ![w] = r] /\ Alike(r, q, "copy") /\ q.pc = "first"
    BY <1>1, <1>11, <2>1 DEF Alike, CallsOf, First, At
  <2> HIDE DEF r
  <2> QED  BY <1>2, <2>2
<1>12. CASE Copy(w)
  <2>1. PICK x, y : run' = [run EXCEPT ![w] = [q EXCEPT !.rows = x,
                                                        !.speer = y]]
    BY <1>12 DEF Copy, Call
  <2> DEFINE r == [q EXCEPT !.rows = x, !.speer = y]
  <2>2. run' = [run EXCEPT ![w] = r] /\ Alike(r, q, "copy") /\ q.pc = "copy"
    BY <1>1, <1>12, <2>1 DEF Alike, CallsOf, Copy, At
  <2> HIDE DEF r
  <2> QED  BY <1>2, <2>2
<1>13. CASE Copied(w)
  <2>1. CASE ~Finish(w)
    <3>1. PICK x : run' = [run EXCEPT ![w] = [q EXCEPT !.pc = "first",
                                              !.group = x, !.speer = Null]]
      BY <1>13, <2>1 DEF Copied, Call
    <3> DEFINE r == [q EXCEPT !.pc = "first", !.group = x, !.speer = Null]
    <3>2. run' = [run EXCEPT ![w] = r] /\ Alike(r, q, "first") /\ q.pc = "copy"
      BY <1>1, <1>13, <3>1 DEF Alike, CallsOf, Copied, At
    <3> HIDE DEF r
    <3> QED  BY <1>2, <3>2
  <2> QED  BY <2>1, OpEnds
<1>14. CASE FoundGroup(w)
  <2>1. q.pc = "group"
    BY <1>14 DEF FoundGroup, At
  <2>2. CASE q.op = "add"
    <3>1. PICK x : run' = [run EXCEPT ![w] = [q EXCEPT !.pc = "alloc",
                                                       !.group = x]]
      BY <1>14, <2>2 DEF FoundGroup, Call
    <3> DEFINE r == [q EXCEPT !.pc = "alloc", !.group = x]
    <3>2. run' = [run EXCEPT ![w] = r] /\ Alike(r, q, "alloc")
      BY <1>1, <3>1 DEF Alike, CallsOf
    <3> HIDE DEF r
    <3> QED  BY <1>2, <2>1, <3>2
  <2>3. CASE q.op # "add"
    <3>1. PICK g : run' = [run EXCEPT ![w] = Start(q, g)]
      BY <1>14, <2>3 DEF FoundGroup, Call
    <3> DEFINE r == Start(q, g)
    <3>2. run' = [run EXCEPT ![w] = r] /\ Alike(r, q, "walk")
      BY <1>1, <3>1 DEF Alike, Start, CallsOf
    <3> HIDE DEF r
    <3> QED  BY <1>2, <2>1, <3>2
  <2> QED  BY <2>2, <2>3
<1>15. CASE NewGroup(w)
  <2>1. PICK x : run' = [run EXCEPT ![w] = [q EXCEPT !.pc = "lock",
                                                     !.group = x]]
    BY <1>15 DEF NewGroup, Call
  <2>2. q.pc = "new group" /\ q.op = "add" /\ q.speer = Null
    BY <1>1, <1>15 DEF NewGroup, At, AtHand
  <2> DEFINE r == [q EXCEPT !.pc = "lock", !.group = x]
  <2>3. Alike(r, q, "lock") /\ r.speer = q.speer /\ run'[w] = r
    BY <1>1, <2>1 DEF Alike, CallsOf
  <2> HIDE DEF r
  <2>4. ~Done(q)
    BY <2>2 DEF Done
  <2> HIDE DEF q
  <2> QED  BY <2>2, <2>3, <2>4 DEF Follows, Alike, q
<1>16. CASE NewGroupFails(w)
  <2> DEFINE r == [Idle EXCEPT !.pc = "unlock unheld", !.op = "add"]
  <2>1. r.pc = "unlock unheld" /\ r.op = "add"
    BY DEF Idle
  <2>2. run'[w] = r
    BY <1>1, <1>16 DEF NewGroupFails, Call
  <2> HIDE DEF r
  <2> QED  BY <2>1, <2>2 DEF Follows
<1>17. CASE Unlock(w)
  <2>1. /\ q.pc = "unlock" /\ q.op \in {"add", "del", "edit"}
        /\ run' = [run EXCEPT ![w] = AfterUnlock(q)]
    BY <1>1, <1>17 DEF Unlock, At, AtHand, Call
  <2>2. CASE q.op = "add" /\ q.speer # Null
    <3>1. AfterUnlock(q) = Idle
      BY <2>2 DEF AfterUnlock, MakesGroup
    <3> QED  BY <2>1, <3>1, OpEnds DEF Finish, Call
  <2>3. CASE ~(q.op = "add" /\ q.speer # Null)
    <3> DEFINE r == AfterUnlock(q)
    <3>1. PICK pc \in {"group", "next"} : Alike(r, q, pc)
      <4>1. CASE q.op = "add"
        <5>1. r = [q EXCEPT !.pc = "group"]
          BY <2>3, <4>1 DEF AfterUnlock, MakesGroup
        <5>2. Alike(r, q, "group")
          BY <1>1, <5>1 DEF Alike, CallsOf
        <5> QED  BY <5>2
      <4>2. CASE q.op = "edit"
        <5>1. r = [q EXCEPT !.pc = "next"]
          BY <4>2 DEF AfterUnlock, MakesGroup
        <5>2. Alike(r, q, "next")
          BY <1>1, <5>1 DEF Alike, CallsOf
        <5> QED  BY <5>2
      <4>3. CASE q.op = "del"
        <5>1. r = [q EXCEPT !.pc = "next", !.speer = q.pspeer]
          BY <4>3 DEF AfterUnlock, MakesGroup
        <5>2. Alike(r, q, "next")
          BY <1>1, <5>1 DEF Alike, CallsOf
        <5> QED  BY <5>2
      <4> QED  BY <2>1, <4>1, <4>2, <4>3
    <3>2. run' = [run EXCEPT ![w] = r] /\ q.pc # "unlock unheld"
      BY <2>1
    <3> HIDE DEF r
    <3> QED  BY <1>2, <2>3, <3>1, <3>2
  <2> QED  BY <2>2, <2>3
<1> QED
  BY <1>4, <1>5, <1>6, <1>7, <1>8, <1>9, <1>10, <1>11, <1>12, <1>13, <1>14,
     <1>15, <1>16, <1>17 DEF CallStep

\* What a call begins with.
LEMMA BeginsAt ==
    ASSUME SInv, NEW w \in Worker, Begin(w)
    PROVE  run'[w].pc \in {"alloc", "group", "walk", "size"}
<1>1. \A r : Call(w, r) => run'[w] = r
  BY DEF SInv, Types, Call
<1>2. 0 \in Group /\ peers[0].peer \in Chunk \cup {Null}
  BY Memory
<1>3. CASE CallAdd(w)
  <2>1. PICK n \in Name, k \in Weights, pc \in {"alloc", "group"} :
           Call(w, [Idle EXCEPT !.pc = pc, !.op = "add", !.want = n,
                                !.weight = k])
    BY <1>3 DEF CallAdd
  <2> DEFINE q == [Idle EXCEPT !.pc = pc, !.op = "add", !.want = n,
                               !.weight = k]
  <2>2. q.pc = pc /\ Call(w, q)
    BY <2>1 DEF Idle
  <2> HIDE DEF q
  <2>3. run'[w] = q
    BY <1>1, <2>2
  <2> QED  BY <2>2, <2>3, Zenon
<1>4. ASSUME NEW q \in CallsOf, q.pc = "group",
             Call(w, q) \/ Call(w, Start(q, 0))
      PROVE  run'[w].pc \in {"alloc", "group", "walk", "size"}
  <2>1. Start(q, 0).pc = "walk"
    BY <1>2, StartCall
  <2> QED  BY <1>1, <1>4, <2>1
<1>5. CASE CallDel(w)
  <2>1. PICK n \in Wants :
           LET q == [Idle EXCEPT !.pc = "group", !.op = "del", !.want = n] IN
           Call(w, q) \/ Call(w, Start(q, 0))
    BY <1>5 DEF CallDel
  <2> DEFINE q == [Idle EXCEPT !.pc = "group", !.op = "del", !.want = n]
  <2>2. q \in CallsOf /\ q.pc = "group"
    BY IdleCall, Constants DEF CallsOf, Pcs
  <2>3. Call(w, q) \/ Call(w, Start(q, 0))
    BY <2>1
  <2> HIDE DEF q
  <2> QED  BY <1>4, <2>2, <2>3
<1>6. CASE CallEdit(w)
  <2>1. PICK n \in Wants, k \in Weights :
           LET q == [Idle EXCEPT !.pc = "group", !.op = "edit", !.want = n,
                                 !.weight = k] IN
           Call(w, q) \/ Call(w, Start(q, 0))
    BY <1>6 DEF CallEdit
  <2> DEFINE q == [Idle EXCEPT !.pc = "group", !.op = "edit", !.want = n,
                               !.weight = k]
  <2>2. q \in CallsOf /\ q.pc = "group"
    BY IdleCall, Constants DEF CallsOf, Pcs
  <2>3. Call(w, q) \/ Call(w, Start(q, 0))
    BY <2>1
  <2> HIDE DEF q
  <2> QED  BY <1>4, <2>2, <2>3
<1>7. CASE CallLst(w)
  <2>1. PICK n : Call(w, [Idle EXCEPT !.pc = "size", !.op = "lst", !.size = n])
    BY <1>7 DEF CallLst
  <2> DEFINE q == [Idle EXCEPT !.pc = "size", !.op = "lst", !.size = n]
  <2>2. q.pc = "size" /\ Call(w, q)
    BY <2>1 DEF Idle
  <2> HIDE DEF q
  <2> QED  BY <1>1, <2>2
<1> QED  BY <1>3, <1>5, <1>6, <1>7 DEF Begin

\* The names of peers stay, but for the one of a chunk that is in no list.
LEMMA NamesStay ==
    ASSUME SInv, LInv, NInv, NEW w \in Worker,
           \A v \in Worker \ {w} : run'[v] = run[v],
           NEW c, c \notin AllLinked,
           \A d \in Chunk \ {c} : mem'[d].name = mem[d].name,
           \A v \in Worker \ {w} : Owns(run[v]) => run[v].speer # c,
           NEW r, run'[w] = r, r.op = "none" \/ r.pc # "idle",
           Owns(r) /\ r.pc # "fill" => mem'[r.speer].name = r.want,
           r.op = "edit" /\ r.pc \in Later =>
              r.want \in {NoName, mem'[r.speer].name}
    PROVE  NInv'
<1>1. ASSUME NEW v \in Worker, NEW q, run'[v] = q, q.op = "none" \/ q.pc # "idle",
             Owns(q) /\ q.pc # "fill" => mem'[q.speer].name = q.want,
             q.op = "edit" /\ q.pc \in Later =>
                q.want \in {NoName, mem'[q.speer].name}
      PROVE  Named(run[v])'
  BY <1>1 DEF Named, Owns, Matches
<1>2. ASSUME NEW v \in Worker \ {w} PROVE Named(run[v])'
  <2> DEFINE q == run[v]
  <2>1. q \in CallsOf /\ AtHand(q) /\ Mine(q) /\ Named(q) /\ run'[v] = q
    BY AtCall DEF LInv, NInv
  <2>2. q.speer \in Chunk \cup {Null} /\ q.group \in Group
    BY <2>1, Fields
  <2>3. Owns(q) => q.speer # c
    OBVIOUS
  <2> HIDE DEF q
  <2>4. Owns(q) => mem'[q.speer].name = mem[q.speer].name
    BY <2>2, <2>3 DEF Owns
  <2>5. ASSUME q.op = "edit", q.pc \in Later
        PROVE  mem'[q.speer].name = mem[q.speer].name
    <3>1. q.pc \in {"lock", "weigh", "set"} /\ q.speer # Null
      BY <2>1, <2>5 DEF AtHand, Later
    <3>2. q.speer \in Linked(q.group)
      BY <2>1, <2>5, <3>1 DEF Mine, EditsIt
    <3>3. q.speer \in AllLinked
      BY <2>2, <3>2 DEF AllLinked
    <3> QED  BY <2>2, <3>1, <3>3
  <2> QED  BY <1>1, <2>1, <2>4, <2>5 DEF Named, Matches
<1>3. Named(run[w])'
  BY <1>1
<1> QED  BY <1>2, <1>3 DEF NInv

\* What the steps leave of names and weights.
LEMMA MemoryStays ==
    ASSUME SInv, NEW w \in Worker, Begin(w) \/ CallStep(w) \/ Crash(w)
    PROVE  /\ ~Alloc(w) /\ ~Fill(w) =>
                 \A d \in Chunk : mem'[d].name = mem[d].name
           /\ ~Alloc(w) /\ ~Fill(w) /\ ~SetWeight(w) =>
                 \A d \in Chunk : mem'[d].weight = mem[d].weight
<1>1. mem \in [Chunk -> PeersOf] /\ run[w] \in CallsOf
  BY AtCall DEF SInv, Types
<1>2. ASSUME NEW c, NEW x, mem' = [mem EXCEPT ![c].next = x]
      PROVE  \A d \in Chunk : /\ mem'[d].name = mem[d].name
                              /\ mem'[d].weight = mem[d].weight
  BY <1>1, <1>2 DEF PeersOf
<1>3. CASE \/ Begin(w) \/ Crash(w) \/ Walk(w) \/ Advance(w) \/ Check(w)
           \/ Lock(w) \/ Unlock(w) \/ SlabFull(w) \/ FillFails(w)
           \/ Count(w) \/ Weigh(w) \/ Link(w) \/ UnlinkFirst(w) \/ Free(w)
  <2>1. mem' = mem
    BY <1>3 DEF Begin, Crash, Walk, Advance, Check, Lock, Unlock, SlabFull,
                FillFails, Count, Weigh, Link, UnlinkFirst, Free
  <2> QED  BY <2>1
<1>4. CASE \/ FoundGroup(w) \/ NoGroup(w) \/ NewGroup(w) \/ NewGroupFails(w)
           \/ UnlockUnheld(w) \/ NextGroup(w) \/ Size(w) \/ First(w)
           \/ Copy(w) \/ Copied(w) \/ Segv(w) \/ Respawn(w)
  <2>1. mem' = mem
    BY <1>4 DEF FoundGroup, NoGroup, NewGroup, NewGroupFails, UnlockUnheld,
                NextGroup, Size, First, Copy, Copied, Segv, Respawn
  <2> QED  BY <2>1
<1>5. CASE Point(w) \/ UnlinkOther(w)
  <2>1. PICK c, x : mem' = [mem EXCEPT ![c].next = x]
    BY <1>5 DEF Point, UnlinkOther
  <2> QED  BY <1>2, <2>1
<1>6. CASE SetWeight(w)
  <2>1. PICK c, x : mem' = [mem EXCEPT ![c].weight = x]
    BY <1>6 DEF SetWeight
  <2>2. \A d \in Chunk : mem'[d].name = mem[d].name
    BY <1>1, <2>1 DEF PeersOf
  <2> QED  BY <1>6, <2>2
<1> QED  BY <1>3, <1>4, <1>5, <1>6 DEF CallStep

\* The call that makes the step keeps what it knows of its peer.
LEMMA KnowsItsPeer ==
    ASSUME SInv, SInv', LInv, NInv, NEW w \in Worker,
           CallStep(w) \/ Crash(w), run[w].pc # "fill",
           \A d \in Chunk : mem'[d].name = mem[d].name,
           NEW r, run'[w] = r
    PROVE  /\ r.op = "none" \/ r.pc # "idle"
           /\ Owns(r) /\ r.pc # "fill" => mem'[r.speer].name = r.want
           /\ r.op = "edit" /\ r.pc \in Later =>
                 r.want \in {NoName, mem'[r.speer].name}
<1> DEFINE q == run[w]
<1>1. q \in CallsOf /\ AtHand(q) /\ Named(q) /\ q.pc # "fill"
  BY AtCall DEF NInv
<1>2. Follows(q, r) /\ q.speer \in Chunk \cup {Null}
  BY <1>1, CallFollows, Fields
<1>3. r \in CallsOf /\ AtHand(r)
  BY DEF SInv, Types, AtHand
<1> HIDE DEF q
<1>4. r.op = "none" \/ r.pc # "idle"
  BY <1>2 DEF Follows
<1>5. ASSUME r.op \in {"add", "edit"}, r.pc \in Later, r.speer # Null
      PROVE  /\ r.op = q.op /\ r.want = q.want /\ r.speer = q.speer
             /\ q.pc \in Later \/ (q.pc = "walk" /\ Matches(q))
             /\ mem'[r.speer].name = mem[q.speer].name
  <2>1. /\ r.op = q.op /\ r.want = q.want /\ r.speer = q.speer
        /\ q.pc \in Later \/ (q.pc = "walk" /\ Matches(q))
    BY <1>1, <1>2, <1>5 DEF Follows, Later
  <2> QED  BY <1>2, <1>5, <2>1
<1>6. ASSUME Owns(r), r.pc # "fill" PROVE mem'[r.speer].name = r.want
  <2>1. r.op = "add" /\ r.pc \in Later /\ r.speer # Null
    BY <1>6 DEF Owns, Later
  <2>2. q.pc \in {"lock", "count", "weigh", "point", "link"}
    BY <1>1, <1>5, <2>1 DEF AtHand, Later
  <2>3. Owns(q)
    BY <1>5, <2>1, <2>2 DEF Owns
  <2> QED  BY <1>1, <1>5, <2>1, <2>2, <2>3 DEF Named
<1>7. ASSUME r.op = "edit", r.pc \in Later
      PROVE  r.want \in {NoName, mem'[r.speer].name}
  <2>1. r.speer # Null
    BY <1>3, <1>7 DEF AtHand, Later
  <2> QED  BY <1>1, <1>5, <1>7, <2>1 DEF Named, Matches
<1> QED  BY <1>4, <1>6, <1>7

LEMMA NamesKeep ==
    ASSUME SInv, SInv', LInv, NInv, [Next]_vars
    PROVE  NInv'
<1>1. CASE UNCHANGED vars
  BY <1>1 DEF vars, NInv, Named, Owns, Matches
<1>2. ASSUME NEW w \in Worker, Begin(w) \/ CallStep(w) \/ Crash(w)
      PROVE  NInv'
  <2> DEFINE r == run'[w]
  <2>1. /\ \A v \in Worker \ {w} : run'[v] = run[v]
        /\ run[w] \in CallsOf /\ AtHand(run[w]) /\ r \in CallsOf
        /\ mem \in [Chunk -> PeersOf] /\ AllLinked \subseteq Chunk
        /\ Null \notin AllLinked
    BY <1>2, StepIsOwn, AtCall, ListsHave DEF SInv, Types, LInv
  <2>2. CASE ~Alloc(w) /\ ~Fill(w)
    <3>1. \A d \in Chunk : mem'[d].name = mem[d].name
      BY <1>2, <2>2, MemoryStays
    <3>2. /\ r.op = "none" \/ r.pc # "idle"
          /\ Owns(r) /\ r.pc # "fill" => mem'[r.speer].name = r.want
          /\ r.op = "edit" /\ r.pc \in Later =>
                r.want \in {NoName, mem'[r.speer].name}
      <4>1. CASE Begin(w)
        <5>1. r.pc \in {"alloc", "group", "walk", "size"}
          BY <4>1, BeginsAt
        <5> HIDE DEF r
        <5> QED  BY <5>1 DEF Owns, Later
      <4>2. CASE FillFails(w) \/ Crash(w)
        <5>1. run' = [run EXCEPT ![w] = Idle] \/ run' = [run EXCEPT ![w] = Dead]
          BY <4>2 DEF FillFails, Crash, Finish, Call
        <5>2. r = Idle \/ r = Dead
          BY <5>1 DEF SInv, Types
        <5>3. r.op = "none"
          BY <5>2, IdleCall DEF Dead, Idle
        <5> HIDE DEF r
        <5> QED  BY <5>3 DEF Owns
      <4>3. CASE ~Begin(w) /\ ~FillFails(w) /\ ~Crash(w)
        <5>1. run[w].pc # "fill"
          <6> SUFFICES ASSUME run[w].pc = "fill" PROVE FALSE
            OBVIOUS
          <6> QED
            BY <1>2, <2>2, <4>3
               DEF CallStep, At, Walk, Advance, Check, Lock, Unlock,
                   SlabFull, FillFails, Count, Weigh, Point, Link,
                   UnlinkFirst, UnlinkOther, Free, SetWeight, FoundGroup,
                   NoGroup, NewGroup, NewGroupFails, UnlockUnheld, NextGroup,
                   Size, First, Copy, Copied, Segv, Respawn
        <5> QED  BY <1>2, <3>1, <4>3, <5>1, KnowsItsPeer
      <4> QED  BY <4>1, <4>2, <4>3
    <3>3. \A v \in Worker \ {w} : Owns(run[v]) => run[v].speer # Null
      BY DEF Owns
    <3> HIDE DEF r
    <3> QED  BY <2>1, <3>1, <3>2, <3>3, NamesStay DEF r
  <2>3. CASE Alloc(w)
    <3>1. PICK c \in Chunk \ used :
             /\ mem' = [mem EXCEPT ![c] = [next |-> Null, name |-> NoName,
                                           weight |-> 0]]
             /\ run' = [run EXCEPT ![w] =
                           [run[w] EXCEPT !.pc = "fill", !.speer = c]]
      BY <2>3 DEF Alloc, Call
    <3>2. run[w].op = "add"
      BY <2>1, <2>3 DEF Alloc, At, AtHand
    <3>3. r.pc = "fill" /\ r.op = "add"
      BY <2>1, <3>1, <3>2 DEF CallsOf, SInv, Types
    <3>4. c \notin AllLinked /\ \A v \in Worker : Owns(run[v]) => run[v].speer # c
      BY DEF LInv, Sound, Mine, OwnsIt
    <3>5. \A d \in Chunk \ {c} : mem'[d].name = mem[d].name
      BY <2>1, <3>1
    <3> HIDE DEF r
    <3> QED  BY <2>1, <3>3, <3>4, <3>5, NamesStay DEF r
  <2>4. CASE Fill(w)
    <3> DEFINE q == run[w]
    <3>1. /\ q.pc = "fill" /\ q.op = "add" /\ q.speer \in Chunk
          /\ mem' = [mem EXCEPT ![q.speer].name = q.want,
                                ![q.speer].weight = q.weight]
          /\ run' = [run EXCEPT ![w] = [q EXCEPT !.pc = "lock"]]
      BY <2>1, <2>4, Fields DEF Fill, At, AtHand, Goto
    <3>2. Owns(q) /\ OwnsIt(q)
      BY <3>1, ChunkFacts DEF Owns, LInv, Mine
    <3>3. r = [q EXCEPT !.pc = "lock"]
      BY <3>1 DEF SInv, Types
    <3>4. "lock" \in Pcs
      BY DEF Pcs
    <3>5. /\ r.pc = "lock" /\ r.op = "add" /\ r.want = q.want
          /\ r.speer = q.speer
      <4> HIDE DEF r, q
      <4> QED  BY <2>1, <3>1, <3>3, <3>4, GotoFields DEF q
    <3>6. q.speer \notin AllLinked
      BY <3>2 DEF OwnsIt
    <3>7. \A v \in Worker \ {w} : Owns(run[v]) => run[v].speer # q.speer
      BY <3>2 DEF LInv, Distinct
    <3> HIDE DEF q, r
    <3>8. /\ mem'[q.speer].name = q.want
          /\ \A d \in Chunk \ {q.speer} : mem'[d].name = mem[d].name
      BY <2>1, <3>1 DEF PeersOf
    <3> QED  BY <2>1, <3>5, <3>6, <3>7, <3>8, NamesStay DEF r
  <2> QED  BY <2>2, <2>3, <2>4
<1> QED  BY <1>1, <1>2 DEF Next

LEMMA NamesInvariant ==
    Regime => (Spec => [](SInv /\ OneAtATime /\ LInv /\ NInv))
<1> SUFFICES ASSUME Regime PROVE Spec => [](SInv /\ OneAtATime /\ LInv /\ NInv)
  OBVIOUS
<1>1. Init => NInv
  BY NamesInit
<1>2. SInv /\ SInv' /\ LInv /\ NInv /\ [Next]_vars => NInv'
  BY NamesKeep
<1> QED  BY <1>1, <1>2, ListsInvariant, PTL DEF Spec

\* A step that leaves the tables as they are.
LEMMA TablesStay ==
    ASSUME \A g \in Group : Linked(g)' = Linked(g),
           \A c \in AllLinked : /\ mem'[c].name = mem[c].name
                                /\ mem'[c].weight = mem[c].weight
    PROVE  Tables' = Tables
<1>1. ASSUME NEW g \in Group PROVE Entries(g)' = Entries(g)
  <2>1. Linked(g)' = Linked(g) /\ Linked(g) \subseteq AllLinked
    BY DEF AllLinked
  <2>2. Entries(g)' = [c \in Linked(g) |-> [name |-> mem'[c].name,
                                            weight |-> mem'[c].weight]]
    BY <2>1 DEF Entries
  <2>3. \A c \in Linked(g) : [name |-> mem'[c].name, weight |-> mem'[c].weight]
                               = [name |-> mem[c].name, weight |-> mem[c].weight]
    BY <2>1
  <2> QED  BY <2>2, <2>3 DEF Entries
<1> QED  BY <1>1 DEF Tables

\* What the calls have to do, when one of them makes a step.
LEMMA AsksAre ==
    ASSUME NEW w \in Worker, \A v \in Worker \ {w} : run'[v] = run[v]
    PROVE  /\ Askings' = [Askings EXCEPT ![w] = Asking(run'[w])]
           /\ Askings[w] = Asking(run[w])
           /\ Askings' = [v \in Worker |-> Asking(run'[v])]
<1>1. Askings' = [v \in Worker |-> Asking(run'[v])]
  BY DEF Askings, Asking, Done, Idle
<1> QED  BY <1>1 DEF Askings

LEMMA AskKinds ==
    ASSUME NEW r \in CallsOf
    PROVE  /\ Done(r) => Asking(r) = Table!Nothing
           /\ ~Done(r) => /\ Asking(r) \in Table!Asks
                          /\ Asking(r).op = r.op /\ Asking(r).want = r.want
                          /\ Asking(r).weight = r.weight
<1>1. Done(r) => Asking(r) = Table!Nothing
  BY DEF Asking, Idle, Table!Nothing
<1>2. ASSUME ~Done(r)
      PROVE  /\ Asking(r) \in Table!Asks
             /\ Asking(r).op = r.op /\ Asking(r).want = r.want
             /\ Asking(r).weight = r.weight
  <2>1. Asking(r) = [op |-> r.op, want |-> r.want, weight |-> r.weight]
    BY <1>2 DEF Asking
  <2>2. r.op \in {"add", "del", "edit"} /\ r.want \in Name \cup {NoName}
    BY <1>2, Fields DEF Done
  <2>3. r.weight \in Nat
    <3>1. r.weight \in Weights \cup {0}
      BY Fields
    <3>2. Weights \subseteq Nat \ {0} /\ 0 \in Nat
      BY Constants
    <3>3. Weights \cup {0} \subseteq Nat
      BY <3>2
    <3> QED  BY <3>1, <3>3
  <2> QED  BY <2>1, <2>2, <2>3 DEF Table!Asks
<1> QED  BY <1>1, <1>2

\* A call goes on with what it was asked for, or has nothing to do any more.
LEMMA AsksOn ==
    ASSUME SInv, SInv', NEW w \in Worker, CallStep(w) \/ Crash(w)
    PROVE  Asking(run'[w]) \in {Asking(run[w]), Table!Nothing}
<1> DEFINE q == run[w]
           r == run'[w]
<1>1. q \in CallsOf /\ r \in CallsOf /\ Follows(q, r)
  BY AtCall, CallFollows DEF SInv, Types
<1> HIDE DEF q, r
<1>2. CASE Done(r)
  BY <1>1, <1>2, AskKinds DEF q, r
<1>3. CASE ~Done(r)
  <2>1. /\ r.op = q.op /\ r.want = q.want /\ r.weight = q.weight /\ ~Done(q)
    BY <1>1, <1>3 DEF Follows, Done
  <2>2. Asking(r) = Asking(q)
    BY <1>3, <2>1 DEF Asking
  <2> QED  BY <2>2 DEF q, r
<1> QED  BY <1>2, <1>3

LEMMA StepPasses ==
    ASSUME SInv, SInv', NEW w \in Worker, CallStep(w) \/ Crash(w),
           Tables' = Tables
    PROVE  [Table!Next]_(Table!vars)
<1>1. /\ Askings' = [Askings EXCEPT ![w] = Asking(run'[w])]
      /\ Askings[w] = Asking(run[w])
  BY StepIsOwn, AsksAre
<1>2. Asking(run'[w]) \in {Asking(run[w]), Table!Nothing}
  BY AsksOn
<1>3. CASE Asking(run'[w]) = Table!Nothing
  <2>1. Table!GiveUp(w)
    BY <1>1, <1>3 DEF Table!GiveUp, Table!Stop
  <2> QED  BY <2>1 DEF Table!Next
<1>4. CASE Asking(run'[w]) = Asking(run[w])
  <2>1. Askings' = [Askings EXCEPT ![w] = Askings[w]]
    BY <1>1, <1>4
  <2>2. Askings' = Askings
    BY <2>1 DEF Askings
  <2> QED  BY <2>2 DEF Table!vars
<1> QED  BY <1>2, <1>3, <1>4

LEMMA BeginAsks ==
    ASSUME SInv, SInv', LInv, NInv, NEW w \in Worker, Begin(w)
    PROVE  [Table!Next]_(Table!vars)
<1>1. Tables' = Tables
  <2>1. \A g \in Group : Linked(g)' = Linked(g)
    BY BeginQuiet
  <2>2. mem' = mem
    BY DEF Begin
  <2> QED  BY <2>1, <2>2, TablesStay
<1>2. /\ Askings' = [Askings EXCEPT ![w] = Asking(run'[w])]
      /\ Askings[w] = Asking(run[w])
      /\ Askings' = [v \in Worker |-> Asking(run'[v])]
  BY StepIsOwn, AsksAre
<1>3. run[w] \in CallsOf /\ run'[w] \in CallsOf /\ run[w].op = "none"
  BY AtCall DEF Begin, At, NInv, Named, SInv, Types
<1>4. Askings[w] = Table!Nothing
  BY <1>2, <1>3, AskKinds DEF Done
<1>5. CASE Done(run'[w])
  <2>1. Askings' = [Askings EXCEPT ![w] = Table!Nothing]
    BY <1>2, <1>3, <1>5, AskKinds
  <2>2. Table!GiveUp(w)
    BY <1>1, <2>1 DEF Table!GiveUp, Table!Stop
  <2> QED  BY <2>2 DEF Table!Next
<1>6. CASE ~Done(run'[w])
  <2>1. Asking(run'[w]) \in Table!Asks
    BY <1>3, <1>6, AskKinds
  <2>2. Askings'[w] = Asking(run'[w])
    BY <1>2
  <2>3. Table!Ask(w)
    BY <1>1, <1>2, <1>4, <2>1, <2>2 DEF Table!Ask
  <2> QED  BY <2>3 DEF Table!Next
<1> QED  BY <1>5, <1>6

\* add: the new peer is in the table as it was asked for, at once.
LEMMA LinkAdds ==
    ASSUME SInv, LInv, NInv, OneAtATime, Regime, NEW w \in Worker, Link(w)
    PROVE  Table!Add(w)
<1> DEFINE q == run[w]
           r == run'[w]
<1>1. /\ q \in CallsOf /\ q.op = "add" /\ q.pc = "link" /\ q.speer # Null
      /\ q.speer \in Chunk \cup {Null} /\ q.group \in Group
      /\ Mine(q) /\ Named(q) /\ mem' = mem
      /\ run' = [run EXCEPT ![w] = [q EXCEPT !.pc = "unlock"]]
  BY AtCall, Fields DEF Link, At, AtHand, Goto, LInv, NInv
<1>2. PICK g \in Group, c \in Chunk : g = q.group /\ c = q.speer
  BY <1>1
<1>3. Owns(q)
  BY <1>1 DEF Owns
<1>4. mem[c].name = q.want /\ mem[c].weight = q.weight
  BY <1>1, <1>2, <1>3 DEF Mine, OwnsIt, Named
<1>5. /\ c \notin AllLinked /\ Linked(g)' = Linked(g) \cup {c}
      /\ \A h \in Group \ {g} : Linked(h)' = Linked(h)
  BY <1>2, LinkLists
<1>6. ~Done(q)
  BY <1>1 DEF Done
<1>7. Done(r)
  <2>1. r = [q EXCEPT !.pc = "unlock"]
    BY <1>1 DEF SInv, Types
  <2>2. r.pc = "unlock" /\ r.op = "add" /\ r.speer # Null
    BY <1>1, <2>1 DEF CallsOf
  <2> HIDE DEF r
  <2> QED  BY <2>2 DEF Done
<1>8. r \in CallsOf
  <2>1. "unlock" \in Pcs /\ r = [q EXCEPT !.pc = "unlock"]
    BY <1>1 DEF SInv, Types, Pcs, Section
  <2> QED  BY <1>1, <2>1, GotoFields
<1> HIDE DEF q, r
<1>9. Table!Stop(w)
  <2>1. Askings' = [Askings EXCEPT ![w] = Asking(r)]
    BY StepIsOwn, AsksAre DEF CallStep, r
  <2> QED  BY <1>7, <1>8, <2>1, AskKinds DEF Table!Stop
<1>10. /\ Askings[w].op = "add" /\ Askings[w].want = q.want
       /\ Askings[w].weight = q.weight
  <2>1. Askings[w] = Asking(q)
    BY DEF Askings, q
  <2> QED  BY <1>1, <1>6, <2>1, AskKinds
<1> DEFINE new == [name |-> Askings[w].want, weight |-> Askings[w].weight]
           T == [d \in DOMAIN Tables[g] \cup {c} |->
                   IF d = c THEN new ELSE Tables[g][d]]
<1>11. Tables' = [Tables EXCEPT ![g] = T]
  <2>1. Tables[g] = Entries(g) /\ DOMAIN Entries(g) = Linked(g)
    BY DEF Tables, Entries
  <2>2. Entries(g)' = T
    <3>1. Entries(g)' = [d \in Linked(g) \cup {c} |->
                           [name |-> mem[d].name, weight |-> mem[d].weight]]
      BY <1>1, <1>5 DEF Entries
    <3>2. \A d \in Linked(g) \cup {c} :
             [name |-> mem[d].name, weight |-> mem[d].weight]
               = IF d = c THEN new ELSE Tables[g][d]
      BY <1>4, <1>10, <2>1 DEF Entries
    <3> HIDE DEF new
    <3> QED  BY <2>1, <3>1, <3>2
  <2>3. \A h \in Group \ {g} : Entries(h)' = Entries(h)
    BY <1>1, <1>5 DEF Entries
  <2> HIDE DEF T
  <2>4. Tables' = [h \in Group |-> Entries(h)']
    BY DEF Tables
  <2> QED  BY <2>2, <2>3, <2>4 DEF Tables
<1>12. c \in Chunk \ Table!Present
  <2>1. \A h \in Group : DOMAIN Tables[h] = Linked(h)
    BY DEF Tables, Entries
  <2>2. Table!Present = AllLinked
    BY <2>1 DEF Table!Present, AllLinked
  <2> QED  BY <1>5, <2>2
<1> QED  BY <1>9, <1>10, <1>11, <1>12 DEF Table!Add

\* The call of a del or edit that changes a list stays as it is.
LEMMA AsksStay ==
    ASSUME SInv, NEW w \in Worker, CallStep(w),
           run[w].op \in {"del", "edit"}, run'[w].op = run[w].op,
           run'[w].want = run[w].want, run'[w].weight = run[w].weight
    PROVE  /\ Askings' = Askings
           /\ Askings[w].op = run[w].op /\ Askings[w].want = run[w].want
           /\ Askings[w].weight = run[w].weight
<1> DEFINE q == run[w]
           r == run'[w]
<1>1. Askings' = [Askings EXCEPT ![w] = Asking(r)] /\ Askings[w] = Asking(q)
  BY StepIsOwn, AsksAre
<1>2. ~Done(q) /\ ~Done(r)
  BY DEF Done
<1>3. Asking(r) = Asking(q)
  BY <1>2 DEF Asking
<1>4. q \in CallsOf
  BY AtCall
<1> HIDE DEF q, r
<1>5. Askings' = [Askings EXCEPT ![w] = Askings[w]]
  BY <1>1, <1>3
<1>6. Askings' = Askings
  BY <1>5 DEF Askings
<1> QED  BY <1>1, <1>2, <1>4, <1>6, AskKinds DEF q

\* del: one peer that it asked for leaves the table, at once.
LEMMA UnlinkDels ==
    ASSUME SInv, LInv, OneAtATime, Regime, NEW w \in Worker,
           UnlinkFirst(w) \/ UnlinkOther(w)
    PROVE  Table!Del(w)
<1> DEFINE q == run[w]
           r == run'[w]
<1>1. /\ q \in CallsOf /\ q.op = "del" /\ q.pc = "unlink" /\ q.speer # Null
      /\ q.speer \in Chunk \cup {Null} /\ q.group \in Group /\ Mine(q)
  <2>1. q.pc = "unlink"
    BY DEF UnlinkFirst, UnlinkOther, At
  <2> QED  BY <2>1, AtCall, Fields DEF AtHand, LInv
<1>2. PICK g \in Group, c \in Chunk : g = q.group /\ c = q.speer
  BY <1>1
<1>3. q.want \in {NoName, mem[c].name}
  BY <1>1, <1>2 DEF Mine, DelsIt, Searching, Matches
<1>4. /\ c \in Linked(g) /\ Linked(g)' = Linked(g) \ {c}
      /\ \A h \in Group \ {g} : Linked(h)' = Linked(h)
  BY <1>2, UnlinkLists
<1>5. r.op = q.op /\ r.want = q.want /\ r.weight = q.weight
  <2>1. \E x : r = [q EXCEPT !.pc = "free", !.pspeer = x]
    <3>1. CASE UnlinkFirst(w)
      BY <3>1 DEF UnlinkFirst, Call, SInv, Types
    <3>2. CASE UnlinkOther(w)
      <4>1. r = [q EXCEPT !.pc = "free"]
        BY <3>2 DEF UnlinkOther, Goto, SInv, Types
      <4>2. r = [q EXCEPT !.pc = "free", !.pspeer = q.pspeer]
        BY <1>1, <4>1 DEF CallsOf
      <4> QED  BY <4>2
    <3> QED  BY <3>1, <3>2
  <2> HIDE DEF r
  <2>2. PICK x : r = [q EXCEPT !.pc = "free", !.pspeer = x]
    BY <2>1
  <2> QED  BY <1>1, <2>2 DEF CallsOf
<1>6. Askings' = Askings /\ Askings[w].op = "del" /\ Askings[w].want = q.want
  BY <1>1, <1>5, AsksStay DEF CallStep
<1>7. \A d \in Chunk : mem'[d].name = mem[d].name /\ mem'[d].weight = mem[d].weight
  <2>1. ~Alloc(w) /\ ~Fill(w) /\ ~SetWeight(w)
    BY <1>1 DEF Alloc, Fill, SetWeight, At
  <2> QED  BY <2>1, MemoryStays DEF CallStep
<1>8. \A h \in Group : Linked(h) \subseteq Chunk
  BY ListsHave DEF LInv
<1>9. /\ Tables[g] = Entries(g) /\ DOMAIN Tables[g] = Linked(g)
      /\ Tables[g][c].name = mem[c].name
  BY <1>4 DEF Tables, Entries
<1> HIDE DEF q, r
<1> DEFINE T == Table!Restrict(Tables[g], DOMAIN Tables[g] \ {c})
<1>10. Tables' = [Tables EXCEPT ![g] = T]
  <2>1. Entries(g)' = T
    <3>1. Entries(g)' = [d \in Linked(g) \ {c} |->
                           [name |-> mem'[d].name, weight |-> mem'[d].weight]]
      BY <1>4 DEF Entries
    <3>2. T = [d \in Linked(g) \ {c} |-> Tables[g][d]]
      BY <1>9 DEF Table!Restrict
    <3>3. \A d \in Linked(g) \ {c} :
             [name |-> mem'[d].name, weight |-> mem'[d].weight] = Tables[g][d]
      BY <1>7, <1>8, <1>9 DEF Entries
    <3> HIDE DEF T
    <3> QED  BY <3>1, <3>2, <3>3
  <2>2. ASSUME NEW h \in Group \ {g} PROVE Entries(h)' = Entries(h)
    <3>1. \A d \in Linked(h) :
             [name |-> mem'[d].name, weight |-> mem'[d].weight]
               = [name |-> mem[d].name, weight |-> mem[d].weight]
      BY <1>7, <1>8
    <3>2. Entries(h)' = [d \in Linked(h) |-> [name |-> mem'[d].name,
                                              weight |-> mem'[d].weight]]
      BY <1>4 DEF Entries
    <3> QED  BY <3>1, <3>2 DEF Entries
  <2> HIDE DEF T
  <2>3. Tables' = [h \in Group |-> Entries(h)']
    BY DEF Tables
  <2> QED  BY <2>1, <2>2, <2>3 DEF Tables
<1>11. Table!Wanted(w, c, g)
  BY <1>3, <1>6, <1>9 DEF Table!Wanted
<1> QED  BY <1>4, <1>6, <1>9, <1>10, <1>11 DEF Table!Del

\* edit: a peer that it asked for has the new weight, at once.
LEMMA SetWeightEdits ==
    ASSUME SInv, LInv, NInv, OneAtATime, Regime, NEW w \in Worker, SetWeight(w)
    PROVE  Table!Edit(w)
<1> DEFINE q == run[w]
           r == run'[w]
<1>1. /\ q \in CallsOf /\ q.op = "edit" /\ q.pc = "set" /\ q.speer # Null
      /\ q.speer \in Chunk \cup {Null} /\ q.group \in Group
      /\ Mine(q) /\ Named(q)
      /\ mem' = [mem EXCEPT ![q.speer].weight = q.weight]
      /\ mem \in [Chunk -> PeersOf]
      /\ run' = [run EXCEPT ![w] = [q EXCEPT !.pc = "unlock"]]
  BY AtCall, Fields
     DEF SetWeight, At, AtHand, Goto, LInv, NInv, SInv, Types
<1>2. PICK g \in Group, c \in Chunk : g = q.group /\ c = q.speer
  BY <1>1
<1>3. q.want \in {NoName, mem[c].name} /\ c \in Linked(g)
  BY <1>1, <1>2, ChunkFacts DEF Named, Later, Matches, Mine, EditsIt
<1>4. \A h \in Group : Linked(h)' = Linked(h)
  BY SetWeightLists
<1>5. \A h \in Group : Linked(h) \subseteq Chunk /\ (h # g => c \notin Linked(h))
  BY <1>3, ListsHave DEF LInv, Sound
<1>6. r.op = q.op /\ r.want = q.want /\ r.weight = q.weight
  <2>1. r = [q EXCEPT !.pc = "unlock"]
    BY <1>1 DEF SInv, Types
  <2> QED  BY <1>1, <2>1 DEF CallsOf
<1>7. /\ Askings' = Askings /\ Askings[w].op = "edit"
      /\ Askings[w].want = q.want /\ Askings[w].weight = q.weight
  BY <1>1, <1>6, AsksStay DEF CallStep
<1>8. /\ mem'[c].name = mem[c].name /\ mem'[c].weight = q.weight
      /\ \A d \in Chunk \ {c} : mem'[d] = mem[d]
  <2> HIDE DEF q, r
  <2> QED  BY <1>1, <1>2 DEF PeersOf
<1>9. /\ \A h \in Group : Tables[h] = Entries(h)
      /\ DOMAIN Tables[g] = Linked(g)
      /\ \A d \in Linked(g) :
            Tables[g][d] = [name |-> mem[d].name, weight |-> mem[d].weight]
  BY DEF Tables, Entries
<1> HIDE DEF q, r
<1> DEFINE T == [Tables[g] EXCEPT ![c].weight = Askings[w].weight]
<1>10. Tables' = [Tables EXCEPT ![g] = T]
  <2>1. Entries(g)' = T
    <3>1. Entries(g)' = [d \in Linked(g) |-> [name |-> mem'[d].name,
                                              weight |-> mem'[d].weight]]
      BY <1>4 DEF Entries
    <3> DEFINE e == [Tables[g][c] EXCEPT !.weight = Askings[w].weight]
    <3>2. T = [d \in Linked(g) |-> IF d = c THEN e ELSE Tables[g][d]]
      BY <1>3, <1>9 DEF Entries
    <3>3. e = [name |-> mem'[c].name, weight |-> mem'[c].weight]
      <4>1. \A x, y, k : [[name |-> x, weight |-> y] EXCEPT !.weight = k]
                           = [name |-> x, weight |-> k]
        OBVIOUS
      <4>2. Tables[g][c] = [name |-> mem[c].name, weight |-> mem[c].weight]
        BY <1>3, <1>9
      <4>3. e = [name |-> mem[c].name, weight |-> Askings[w].weight]
        BY <4>1, <4>2
      <4> HIDE DEF e
      <4> QED  BY <1>7, <1>8, <4>3
    <3>4. \A d \in Linked(g) :
             [name |-> mem'[d].name, weight |-> mem'[d].weight]
               = IF d = c THEN e ELSE Tables[g][d]
      <4> HIDE DEF e
      <4> QED  BY <1>5, <1>8, <1>9, <3>3
    <3> HIDE DEF T, e
    <3> QED  BY <3>1, <3>2, <3>4
  <2>2. ASSUME NEW h \in Group \ {g} PROVE Entries(h)' = Entries(h)
    <3>1. \A d \in Linked(h) :
             [name |-> mem'[d].name, weight |-> mem'[d].weight]
               = [name |-> mem[d].name, weight |-> mem[d].weight]
      BY <1>5, <1>8
    <3>2. Entries(h)' = [d \in Linked(h) |-> [name |-> mem'[d].name,
                                              weight |-> mem'[d].weight]]
      BY <1>4 DEF Entries
    <3> QED  BY <3>1, <3>2 DEF Entries
  <2> HIDE DEF T
  <2>3. Tables' = [h \in Group |-> Entries(h)']
    BY DEF Tables
  <2> QED  BY <2>1, <2>2, <2>3 DEF Tables
<1>11. Table!Wanted(w, c, g)
  <2>1. Tables[g][c] = [name |-> mem[c].name, weight |-> mem[c].weight]
    BY <1>3, <1>9
  <2>2. Tables[g][c].name = mem[c].name
    <3>1. \A x, y : [name |-> x, weight |-> y].name = x
      OBVIOUS
    <3> QED  BY <2>1, <3>1
  <2> QED  BY <1>3, <1>7, <2>2 DEF Table!Wanted
<1> QED  BY <1>3, <1>7, <1>9, <1>10, <1>11 DEF Table!Edit

LEMMA TableInit == ASSUME Init PROVE Table!Init
<1>1. LInv
  BY ListsInit
<1>2. \A g \in Group : DOMAIN Tables[g] = Linked(g)
  BY DEF Tables, Entries
<1>3. \A g, h \in Group : g # h => DOMAIN Tables[g] \cap DOMAIN Tables[h] = {}
  BY <1>1, <1>2 DEF LInv, Sound
<1>4. Asking(Idle) = Table!Nothing
  BY IdleCall, AskKinds DEF Done
<1>5. Askings = [w \in Worker |-> Table!Nothing]
  <2>1. \A w \in Worker : run[w] = Idle
    BY DEF Init
  <2> QED  BY <1>4, <2>1 DEF Askings
<1> QED  BY <1>3, <1>5 DEF Table!Init

LEMMA TableKeeps ==
    ASSUME SInv, SInv', OneAtATime, LInv, NInv, Regime, [Next]_vars
    PROVE  [Table!Next]_(Table!vars)
<1>1. CASE UNCHANGED vars
  <2>1. Tables' = Tables /\ Askings' = Askings
    BY <1>1 DEF vars, Tables, Entries, Linked, Follow, Askings, Asking, Done,
                Idle
  <2> QED  BY <2>1 DEF Table!vars
<1>2. ASSUME NEW w \in Worker, Begin(w) PROVE [Table!Next]_(Table!vars)
  BY <1>2, BeginAsks
<1>3. ASSUME NEW w \in Worker, CallStep(w) \/ Crash(w)
      PROVE  [Table!Next]_(Table!vars)
  <2>1. CASE Link(w)
    BY <2>1, LinkAdds DEF Table!Next
  <2>2. CASE UnlinkFirst(w) \/ UnlinkOther(w)
    BY <2>2, UnlinkDels DEF Table!Next
  <2>3. CASE SetWeight(w)
    BY <2>3, SetWeightEdits DEF Table!Next
  <2>4. CASE ~(Link(w) \/ UnlinkFirst(w) \/ UnlinkOther(w) \/ SetWeight(w))
    <3>1. \A g \in Group : Linked(g)' = Linked(g)
      <4>1. CASE \/ Walk(w) \/ Check(w) \/ Lock(w) \/ NoGroup(w)
                 \/ NextGroup(w) \/ Count(w) \/ Weigh(w)
        BY <4>1, GoesQuiet
      <4>2. CASE \/ SlabFull(w) \/ FillFails(w) \/ UnlockUnheld(w)
                 \/ Crash(w) \/ Segv(w) \/ Respawn(w)
        BY <4>2, EndsQuiet
      <4>3. CASE \/ Unlock(w) \/ FoundGroup(w) \/ NewGroup(w)
                 \/ NewGroupFails(w) \/ Advance(w) \/ Size(w) \/ First(w)
                 \/ Copy(w) \/ Copied(w)
        BY <4>3, LocalQuiet
      <4>4. CASE Alloc(w) \/ Fill(w) \/ Point(w) \/ Free(w)
        BY <4>4, AllocLists, FillLists, FreeLists
      <4> QED  BY <1>3, <2>4, <4>1, <4>2, <4>3, <4>4 DEF CallStep
    <3>2. \A d \in AllLinked : /\ mem'[d].name = mem[d].name
                               /\ mem'[d].weight = mem[d].weight
      <4>1. AllLinked \subseteq Chunk
        BY ListsHave DEF LInv
      <4>2. CASE Alloc(w)
        <5>1. PICK c \in Chunk \ used :
                 \E e : mem' = [mem EXCEPT ![c] = e]
          BY <4>2 DEF Alloc
        <5>2. c \notin AllLinked
          BY DEF LInv, Sound
        <5> QED  BY <4>1, <5>1, <5>2 DEF SInv, Types
      <4>3. CASE Fill(w)
        <5>1. /\ run[w].pc = "fill" /\ run[w].speer # Null
              /\ run[w].op = "add"
          BY <4>3, AtCall DEF Fill, At, AtHand
        <5>2. run[w].speer \notin AllLinked
          BY <5>1 DEF LInv, Mine, OwnsIt, Owns
        <5>3. \A d \in Chunk \ {run[w].speer} : mem'[d] = mem[d]
          BY <4>3 DEF Fill, SInv, Types
        <5> QED  BY <4>1, <5>2, <5>3
      <4>4. CASE ~Alloc(w) /\ ~Fill(w)
        BY <1>3, <2>4, <4>1, <4>4, MemoryStays
      <4> QED  BY <4>2, <4>3, <4>4
    <3>3. Tables' = Tables
      BY <3>1, <3>2, TablesStay
    <3> QED  BY <1>3, <3>3, StepPasses
  <2> QED  BY <2>1, <2>2, <2>3, <2>4
<1> QED  BY <1>1, <1>2, <1>3 DEF Next

\* With one change of the list at a time, or without del, every change is
\* made at one statement, by the call that was asked for it and on a peer it
\* was asked for, wherever other workers are in theirs and wherever they die.
THEOREM EveryChangeIsAtomic == Regime => (Spec => ChangesAreAtomic)
<1> SUFFICES ASSUME Regime PROVE Spec => ChangesAreAtomic
  OBVIOUS
<1>1. Init => Table!Init
  BY TableInit
<1>2. SInv /\ SInv' /\ OneAtATime /\ LInv /\ NInv /\ [Next]_vars
        => [Table!Next]_(Table!vars)
  BY TableKeeps
<1> QED
  BY <1>1, <1>2, NamesInvariant, PTL DEF Spec, Table!Spec, ChangesAreAtomic

=============================================================================
