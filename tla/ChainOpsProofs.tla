--------------------------- MODULE ChainOpsProofs ---------------------------
(***************************************************************************)
(* What unlinking preserves: Keep(s, K) is a sequence over the same set,   *)
(* its nodes are the nodes of s at the positions K, in the same order.     *)
(***************************************************************************)
EXTENDS ChainOps, Functions, FiniteSetTheorems, SequenceTheorems,
        WellFoundedInduction, TLAPS

Rank(K, k) == Cardinality({j \in K : j <= k})

\* Positions have ranks 1..Cardinality(K), which grow with the position.
LEMMA RankProperties ==
  ASSUME NEW n \in Nat, NEW K \in SUBSET (1..n)
  PROVE  /\ IsFiniteSet(K)
         /\ Cardinality(K) \in Nat
         /\ Cardinality(K) <= n
         /\ \A k \in K : Rank(K, k) \in 1..Cardinality(K)
         /\ \A k, m \in K : k < m => Rank(K, k) < Rank(K, m)
<1>1. IsFiniteSet(1..n) /\ Cardinality(1..n) = n
  BY FS_Interval
<1>2. /\ IsFiniteSet(K)
      /\ Cardinality(K) \in Nat
      /\ Cardinality(K) <= n
  BY <1>1, FS_Subset, FS_CardinalityType
<1>3. ASSUME NEW k \in K
      PROVE  /\ IsFiniteSet({j \in K : j <= k})
             /\ Rank(K, k) \in 1..Cardinality(K)
  <2>1. {j \in K : j <= k} \in SUBSET K
    OBVIOUS
  <2>2. /\ IsFiniteSet({j \in K : j <= k})
        /\ Cardinality({j \in K : j <= k}) <= Cardinality(K)
    BY <1>2, <2>1, FS_Subset
  <2>3. {j \in K : j <= k} # {}
    BY k \in 1..n
  <2>4. /\ Cardinality({j \in K : j <= k}) \in Nat
        /\ Cardinality({j \in K : j <= k}) # 0
    BY <2>2, <2>3, FS_CardinalityType, FS_EmptySet
  <2> QED
    BY <1>2, <2>2, <2>4 DEF Rank
<1>4. ASSUME NEW k \in K, NEW m \in K, k < m
      PROVE  Rank(K, k) < Rank(K, m)
  <2>0. \A j \in K : j \in Nat
    OBVIOUS
  <2>1. {j \in K : j <= k} \in SUBSET {j \in K : j <= m}
    <3>1. \A j \in K : j <= k => j <= m
      BY <1>4, <2>0
    <3> QED
      BY <3>1
  <2>2. m \in {j \in K : j <= m} /\ m \notin {j \in K : j <= k}
    BY <1>4
  <2>3. /\ Cardinality({j \in K : j <= k}) <= Cardinality({j \in K : j <= m})
        /\ Cardinality({j \in K : j <= k}) # Cardinality({j \in K : j <= m})
    BY <1>3, <2>1, <2>2, FS_Subset
  <2> QED
    BY <1>2, <1>3, <2>3 DEF Rank
<1> QED
  BY <1>2, <1>3, <1>4

\* Nth enumerates K in increasing order.
LEMMA NthProperties ==
  ASSUME NEW n \in Nat, NEW K \in SUBSET (1..n)
  PROVE  /\ \A i \in 1..Cardinality(K) : Nth(K, i) \in K
         /\ \A k \in K : \E i \in 1..Cardinality(K) : Nth(K, i) = k
         /\ \A i, j \in 1..Cardinality(K) : i < j <=> Nth(K, i) < Nth(K, j)
<1> DEFINE c == Cardinality(K)
           f == [k \in K |-> Rank(K, k)]
<1>1. c \in Nat /\ IsFiniteSet(K)
  BY RankProperties
<1>2. f \in Injection(K, 1..c)
  <2>1. f \in [K -> 1..c]
    BY RankProperties
  <2>2. \A k, m \in K : f[k] = f[m] => k = m
    <3> SUFFICES ASSUME NEW k \in K, NEW m \in K, Rank(K, k) = Rank(K, m)
                 PROVE  k = m
      OBVIOUS
    <3>0. /\ Rank(K, k) \in 1..c
          /\ k < m => Rank(K, k) < Rank(K, m)
          /\ m < k => Rank(K, m) < Rank(K, k)
      BY RankProperties
    <3>1. ~(k < m) /\ ~(m < k)
      <4> HIDE DEF c, f
      <4>1. Rank(K, k) \in Int
        BY <1>1, <3>0
      <4> QED
        BY <3>0, <4>1
    <3>2. k \in 1..n /\ m \in 1..n
      OBVIOUS
    <3> QED
      BY <3>1, <3>2
  <2> QED
    BY <2>1, <2>2 DEF Injection, IsInjective
<1>3. IsFiniteSet(1..c) /\ Cardinality(1..c) = c
  BY <1>1, FS_Interval
<1>4. f \in Surjection(K, 1..c)
  BY <1>1, <1>2, <1>3, FS_Injection
<1>5. ASSUME NEW i \in 1..c
      PROVE  Nth(K, i) \in K /\ Rank(K, Nth(K, i)) = i
  <2>1. \E k \in K : Rank(K, k) = i
    BY <1>4 DEF Surjection
  <2> QED
    BY <2>1 DEF Nth, Rank
<1>6. ASSUME NEW k \in K
      PROVE  \E i \in 1..c : Nth(K, i) = k
  <2>1. Rank(K, k) \in 1..c
    BY RankProperties
  <2>2. /\ Nth(K, Rank(K, k)) \in K
        /\ Rank(K, Nth(K, Rank(K, k))) = Rank(K, k)
    BY <1>5, <2>1
  <2>3. Nth(K, Rank(K, k)) = k
    BY <1>2, <2>2 DEF Injection, IsInjective
  <2> QED
    BY <2>1, <2>3
<1>7. ASSUME NEW i \in 1..c, NEW j \in 1..c
      PROVE  i < j <=> Nth(K, i) < Nth(K, j)
  <2>1. /\ Nth(K, i) \in K /\ Rank(K, Nth(K, i)) = i
        /\ Nth(K, j) \in K /\ Rank(K, Nth(K, j)) = j
    BY <1>5
  <2>2. /\ Nth(K, i) < Nth(K, j) => i < j
        /\ Nth(K, j) < Nth(K, i) => j < i
    BY <2>1, RankProperties
  <2>3. Nth(K, i) \in 1..n /\ Nth(K, j) \in 1..n
    BY <2>1
  <2> QED
    BY <2>1, <2>2, <2>3
<1> QED
  BY <1>5, <1>6, <1>7

\* The nodes that are kept are nodes of the list, all those of K are kept, and
\* their order does not change.
LEMMA KeepProperties ==
  ASSUME NEW S, NEW s \in Seq(S), NEW K \in SUBSET (DOMAIN s)
  PROVE  /\ Keep(s, K) \in Seq(S)
         /\ Len(Keep(s, K)) = Cardinality(K)
         /\ DOMAIN Keep(s, K) = 1..Cardinality(K)
         /\ Len(Keep(s, K)) <= Len(s)
         /\ \A i \in DOMAIN Keep(s, K) :
              Nth(K, i) \in K /\ Keep(s, K)[i] = s[Nth(K, i)]
         /\ \A k \in K : \E i \in DOMAIN Keep(s, K) : Nth(K, i) = k
         /\ \A i, j \in DOMAIN Keep(s, K) : i < j <=> Nth(K, i) < Nth(K, j)
         /\ Range(Keep(s, K)) = {s[k] : k \in K}
<1>1. Len(s) \in Nat /\ DOMAIN s = 1..Len(s) /\ s \in [1..Len(s) -> S]
  BY LenProperties
<1>2. Cardinality(K) \in Nat /\ Cardinality(K) <= Len(s)
  BY <1>1, RankProperties
<1>3. /\ \A i \in 1..Cardinality(K) : Nth(K, i) \in K
      /\ \A k \in K : \E i \in 1..Cardinality(K) : Nth(K, i) = k
      /\ \A i, j \in 1..Cardinality(K) : i < j <=> Nth(K, i) < Nth(K, j)
  BY <1>1, NthProperties
<1>4. Keep(s, K) \in [1..Cardinality(K) -> S]
  BY <1>1, <1>3 DEF Keep
<1>5. Keep(s, K) \in Seq(S)
  BY <1>2, <1>4, SeqDef
<1>6. /\ Len(Keep(s, K)) = Cardinality(K)
      /\ DOMAIN Keep(s, K) = 1..Cardinality(K)
  <2>1. DOMAIN Keep(s, K) = 1..Cardinality(K)
    BY <1>4
  <2>2. /\ Len(Keep(s, K)) \in Nat
        /\ DOMAIN Keep(s, K) = 1..Len(Keep(s, K))
    BY <1>5, LenProperties
  <2> QED
    BY <1>2, <2>1, <2>2
<1>7. \A i \in 1..Cardinality(K) : Keep(s, K)[i] = s[Nth(K, i)]
  BY DEF Keep
<1>8. Range(Keep(s, K)) = {s[k] : k \in K}
  <2>1. \A x \in Range(Keep(s, K)) : x \in {s[k] : k \in K}
    BY <1>3, <1>6, <1>7 DEF Range
  <2>2. \A k \in K : s[k] \in Range(Keep(s, K))
    BY <1>3, <1>6, <1>7 DEF Range
  <2> QED
    BY <2>1, <2>2
<1> QED
  BY <1>2, <1>3, <1>5, <1>6, <1>7, <1>8

\* Unlinking creates no second node of a list that had none.
LEMMA KeepInjective ==
  ASSUME NEW S, NEW s \in Seq(S), NEW K \in SUBSET (DOMAIN s), IsInjective(s)
  PROVE  IsInjective(Keep(s, K))
<1> SUFFICES ASSUME NEW i \in DOMAIN Keep(s, K), NEW j \in DOMAIN Keep(s, K),
                    Keep(s, K)[i] = Keep(s, K)[j]
             PROVE  i = j
  BY DEF IsInjective
<1>1. Nth(K, i) = Nth(K, j)
  BY KeepProperties DEF IsInjective
<1>2. /\ i < j <=> Nth(K, i) < Nth(K, j)
      /\ j < i <=> Nth(K, j) < Nth(K, i)
  BY KeepProperties
<1>3. i \in Nat /\ j \in Nat /\ Nth(K, i) \in Nat
  <2>1. i \in 1..Cardinality(K) /\ j \in 1..Cardinality(K)
    BY KeepProperties
  <2>2. Nth(K, i) \in DOMAIN s /\ DOMAIN s = 1..Len(s)
    BY KeepProperties, LenProperties
  <2> QED
    BY <2>1, <2>2
<1> QED
  BY <1>1, <1>2, <1>3
-----------------------------------------------------------------------------
(***************************************************************************)
(* Linked lists: the walk along next pointers that go up in rank, so that  *)
(* they cannot come back, visits every node it should.                     *)
(***************************************************************************)

\* The least-number principle, for sets.
LEMMA LeastElement ==
  ASSUME NEW S \in SUBSET Nat, S # {}
  PROVE  \E m \in S : \A n \in S : m <= n
<1> DEFINE R == OpToRel(<, Nat)
<1>1. \A i, j \in Nat : i < j => <<i, j>> \in R
  BY DEF OpToRel
<1>2. IsWellFoundedOn(R, Nat)
  BY NatLessThanWellFounded
<1> HIDE DEF R
<1>3. PICK m \in S : \A n \in S : ~(<<n, m>> \in R)
  BY <1>2, WFMin
<1>4. \A n \in S : ~(n < m)
  BY <1>1, <1>3
<1>5. \A n \in S : m <= n
  BY <1>4
<1> QED
  BY <1>5

\* The walk of ListFrom, and the recursion that defines it.
Walk(h, nxt, nil) ==
  LET nth[i \in 0..Cardinality(DOMAIN nxt)] ==
        IF i = 0 THEN h
        ELSE IF nth[i - 1] = nil THEN nil ELSE nxt[nth[i - 1]]
  IN  nth

Steps(g, k, h, nxt, nil) ==
  g = [i \in 0..k |-> IF i = 0 THEN h
                      ELSE IF g[i - 1] = nil THEN nil ELSE nxt[g[i - 1]]]

\* w solves the recursion over 0..n that begins with b and has the steps g.
Solution(w, n, b, g) == w[0] = b /\ \A i \in 1..n : w[i] = g[i][w[i - 1]]

\* A recursion over 0..n has a solution: were there a first k without one, the
\* solution for k - 1 would extend.
LEMMA RecursionExists ==
  ASSUME NEW n \in Nat, NEW T, NEW b \in T, NEW g \in [1..n -> [T -> T]]
  PROVE  \E w \in [0..n -> T] : Solution(w, n, b, g)
<1> DEFINE Solves(w, k) == Solution(w, k, b, g)
           S == {k \in 0..n : ~\E w \in [0..k -> T] : Solves(w, k)}
<1>1. S = {}
  <2>1. SUFFICES ASSUME S # {} PROVE FALSE
    OBVIOUS
  <2>2. PICK m \in S : \A k \in S : m <= k
    <3>1. S \in SUBSET Nat
      OBVIOUS
    <3> HIDE DEF S
    <3> QED
      BY <2>1, <3>1, LeastElement
  <2>3. m \in 0..n /\ ~\E w \in [0..m -> T] : Solves(w, m)
    OBVIOUS
  <2>4. m # 0
    <3>1. [i \in 0..0 |-> b] \in [0..0 -> T] /\ Solves([i \in 0..0 |-> b], 0)
      BY DEF Solution
    <3> HIDE DEF Solves
    <3> QED
      BY <2>3, <3>1
  <2>5. m - 1 \in 0..n /\ m - 1 \notin S
    <3>1. m \in 0..n /\ m - 1 \in 0..n /\ ~(m <= m - 1)
      BY <2>3, <2>4
    <3> HIDE DEF S
    <3> QED
      BY <2>2, <3>1
  <2>6. PICK w \in [0..(m - 1) -> T] : Solves(w, m - 1)
    BY <2>5
  <2> DEFINE f == [i \in 0..m |-> IF i = m THEN g[m][w[m - 1]] ELSE w[i]]
  <2>7. f \in [0..m -> T]
    BY <2>3, <2>4
  <2>8. Solves(f, m)
    <3>1. f[0] = b
      BY <2>3, <2>4, <2>6 DEF Solution
    <3>2. ASSUME NEW i \in 1..m
          PROVE  f[i] = g[i][f[i - 1]]
      <4>1. f[i - 1] = w[i - 1]
        BY <2>3, <2>4
      <4>2. CASE i = m
        BY <2>3, <4>1, <4>2
      <4>3. CASE i # m
        BY <2>3, <2>6, <4>1, <4>3 DEF Solution
      <4> QED
        BY <4>2, <4>3
    <3> QED
      BY <3>1, <3>2 DEF Solution
  <2> HIDE DEF f, Solves
  <2> QED
    BY <2>3, <2>7, <2>8
<1> QED
  BY <1>1

LEMMA WalkExists ==
  ASSUME NEW N, NEW nil, NEW nxt \in [N -> N \cup {nil}], NEW h \in N \cup {nil},
         NEW n \in Nat
  PROVE  \E g \in [0..n -> N \cup {nil}] : Steps(g, n, h, nxt, nil)
<1> DEFINE T == N \cup {nil}
           s == [i \in 1..n |-> [x \in T |-> IF x = nil THEN nil ELSE nxt[x]]]
<1>1. h \in T /\ s \in [1..n -> [T -> T]]
  <2>1. [x \in T |-> IF x = nil THEN nil ELSE nxt[x]] \in [T -> T]
    OBVIOUS
  <2> QED
    BY <2>1
<1>2. PICK w \in [0..n -> T] : Solution(w, n, h, s)
  <2> HIDE DEF s, T
  <2> QED
    BY <1>1, RecursionExists
<1>3. \A i \in 0..n : w[i] = IF i = 0 THEN h
                             ELSE IF w[i - 1] = nil THEN nil ELSE nxt[w[i - 1]]
  <2>1. \A x \in T : \A i \in 1..n : s[i][x] = IF x = nil THEN nil ELSE nxt[x]
    OBVIOUS
  <2> HIDE DEF s
  <2>2. \A i \in 1..n : i - 1 \in 0..n /\ w[i - 1] \in T
    OBVIOUS
  <2> HIDE DEF T
  <2> QED
    BY <1>2, <2>1, <2>2 DEF Solution
<1>4. Steps(w, n, h, nxt, nil)
  BY <1>3 DEF Steps
<1> QED
  BY <1>4

LEMMA WalkDef ==
  ASSUME NEW N, IsFiniteSet(N), NEW nil, NEW nxt \in [N -> N \cup {nil}],
         NEW h \in N \cup {nil}
  PROVE  LET n == Cardinality(N)
             w == Walk(h, nxt, nil)
         IN  /\ n \in Nat /\ DOMAIN w = 0..n
             /\ w[0] = h
             /\ \A i \in 1..n : w[i] = IF w[i - 1] = nil THEN nil
                                       ELSE nxt[w[i - 1]]
<1> DEFINE n == Cardinality(N)
           w == CHOOSE nth : Steps(nth, n, h, nxt, nil)
<1>1. n \in Nat
  BY FS_CardinalityType
<1>2. Walk(h, nxt, nil) = w
  <2>1. DOMAIN nxt = N
    OBVIOUS
  <2> QED
    BY <2>1 DEF Walk, Steps
<1>3. \E g : Steps(g, n, h, nxt, nil)
  <2> HIDE DEF n
  <2> QED
    BY <1>1, WalkExists
<1>4. Steps(w, n, h, nxt, nil)
  <2> HIDE DEF n
  <2> QED
    BY <1>3
<1> HIDE DEF w, n
<1>5. /\ DOMAIN w = 0..n /\ w[0] = h
      /\ \A i \in 1..n : w[i] = IF w[i - 1] = nil THEN nil ELSE nxt[w[i - 1]]
  BY <1>1, <1>4 DEF Steps
<1> QED
  BY <1>1, <1>2, <1>5 DEF n

\* Next pointers go up in rank.
Ascending(N, nxt, nil, rank) ==
  /\ rank \in [N -> Nat]
  /\ \A x \in N : nxt[x] # nil => rank[x] < rank[nxt[x]]

\* The walk comes to the end of the list after m nodes, as many as there are at
\* the most: it cannot visit a node twice, since the rank goes up.
LEMMA WalkEnds ==
  ASSUME NEW N, IsFiniteSet(N), NEW nil, nil \notin N,
         NEW nxt \in [N -> N \cup {nil}], NEW h \in N \cup {nil},
         NEW rank, Ascending(N, nxt, nil, rank)
  PROVE  LET w == Walk(h, nxt, nil)
         IN  \E m \in 0..Cardinality(N) : \A i \in 0..Cardinality(N) :
               (w[i] = nil <=> m <= i) /\ (i < m => w[i] \in N)
<1> DEFINE n == Cardinality(N)
           w == Walk(h, nxt, nil)
<1>1. /\ n \in Nat /\ DOMAIN w = 0..n /\ w[0] = h
      /\ \A i \in 1..n : w[i] = IF w[i - 1] = nil THEN nil ELSE nxt[w[i - 1]]
  BY WalkDef
<1>2. IsFiniteSet(0..n) /\ Cardinality(0..n) = n + 1
  <2> HIDE DEF n
  <2> QED
    BY <1>1, FS_Interval
<1> HIDE DEF n, w
<1>3. \A i \in 0..n : w[i] \in N \cup {nil}
  <2> DEFINE S == {i \in 0..n : w[i] \notin N \cup {nil}}
  <2>1. SUFFICES ASSUME S # {} PROVE FALSE
    OBVIOUS
  <2>2. PICK m \in S : \A k \in S : m <= k
    <3>1. S \in SUBSET Nat
      BY <1>1
    <3> HIDE DEF S
    <3> QED
      BY <2>1, <3>1, LeastElement
  <2>3. m \in 1..n /\ m - 1 \in 0..n
    BY <1>1
  <2>4. m - 1 \notin S
    <3>1. ~(m <= m - 1)
      BY <1>1, <2>3
    <3> HIDE DEF S
    <3> QED
      BY <2>2, <3>1
  <2>5. w[m - 1] \in N \cup {nil}
    BY <2>3, <2>4
  <2>6. w[m] \in N \cup {nil}
    BY <1>1, <2>3, <2>5
  <2> QED
    BY <2>6
<1>4. \A j \in 0..n : w[j] # nil =>
        \A i \in 0..(j - 1) : w[i] # nil /\ rank[w[i]] < rank[w[j]]
  <2> DEFINE Up(j) == w[j] # nil =>
               \A i \in 0..(j - 1) : w[i] # nil /\ rank[w[i]] < rank[w[j]]
             S == {j \in 0..n : ~Up(j)}
  <2>1. SUFFICES ASSUME S # {} PROVE FALSE
    OBVIOUS
  <2>2. PICK j \in S : \A k \in S : j <= k
    <3>1. S \in SUBSET Nat
      BY <1>1
    <3> HIDE DEF S
    <3> QED
      BY <2>1, <3>1, LeastElement
  <2>3. j \in 1..n /\ j - 1 \in 0..n
    BY <1>1
  <2>4. Up(j - 1)
    <3>1. ~(j <= j - 1)
      BY <1>1, <2>3
    <3>2. j - 1 \notin S
      <4> HIDE DEF S
      <4> QED
        BY <2>2, <3>1
    <3> HIDE DEF Up
    <3> QED
      BY <2>3, <3>2
  <2>5. SUFFICES ASSUME w[j] # nil, NEW i \in 0..(j - 1)
                 PROVE  w[i] # nil /\ rank[w[i]] < rank[w[j]]
    BY <2>2
  <2>6. w[j - 1] # nil /\ w[j] = nxt[w[j - 1]]
    BY <1>1, <2>3, <2>5
  <2>7. w[j - 1] \in N /\ w[j] \in N
    BY <1>3, <2>3, <2>5, <2>6
  <2>8. rank[w[j - 1]] < rank[w[j]] /\ rank[w[j - 1]] \in Nat /\ rank[w[j]] \in Nat
    BY <2>5, <2>6, <2>7 DEF Ascending
  <2>9. CASE i = j - 1
    BY <2>6, <2>8, <2>9
  <2>10. CASE i # j - 1
    <3>1. i \in 0..((j - 1) - 1) /\ i \in 0..n
      BY <1>1, <2>3, <2>10
    <3>2. w[i] # nil /\ rank[w[i]] < rank[w[j - 1]]
      BY <2>4, <2>6, <3>1
    <3>3. rank[w[i]] \in Nat
      BY <1>3, <3>1, <3>2 DEF Ascending
    <3> QED
      BY <2>8, <3>2, <3>3
  <2> QED
    BY <2>9, <2>10
<1> DEFINE E == {i \in 0..n : w[i] = nil}
<1>5. E # {}
  <2>1. SUFFICES ASSUME E = {} PROVE FALSE
    OBVIOUS
  <2>2. \A i \in 0..n : w[i] \in N /\ w[i] # nil
    BY <1>3, <2>1
  <2>3. Cardinality(N) < Cardinality(0..n)
    BY <1>1, <1>2 DEF n
  <2> DEFINE f == [i \in 0..n |-> w[i]]
  <2>4. f \in [0..n -> N] /\ \A i \in 0..n : f[i] = w[i]
    BY <2>2
  <2> HIDE DEF f
  <2>5. PICK i \in 0..n, j \in 0..n : i # j /\ w[i] = w[j]
    <3> DEFINE D == 0..n
    <3>1. /\ IsFiniteSet(D) /\ Cardinality(N) < Cardinality(D)
          /\ f \in [D -> N]
      BY <1>2, <2>3, <2>4
    <3> HIDE DEF D
    <3>2. \E i, j \in D : i # j /\ f[i] = f[j]
      BY <3>1, FS_PigeonHole
    <3> QED
      BY <2>4, <3>2 DEF D
  <2>6. \A k, l \in 0..n : k < l => w[k] # w[l]
    <3> SUFFICES ASSUME NEW k \in 0..n, NEW l \in 0..n, k < l
                 PROVE  w[k] # w[l]
      OBVIOUS
    <3>1. k \in 0..(l - 1)
      BY <1>1
    <3>2. rank[w[k]] < rank[w[l]] /\ rank[w[k]] \in Nat
      BY <1>4, <2>2, <3>1 DEF Ascending
    <3> QED
      BY <3>2
  <2>7. i < j \/ j < i
    BY <1>1, <2>5
  <2> QED
    BY <2>5, <2>6, <2>7
<1>6. PICK m \in E : \A k \in E : m <= k
  <2>1. E \in SUBSET Nat
    BY <1>1
  <2> HIDE DEF E
  <2> QED
    BY <1>5, <2>1, LeastElement
<1>7. ASSUME NEW i \in 0..n
      PROVE  (w[i] = nil <=> m <= i) /\ (i < m => w[i] \in N)
  <2>1. w[i] = nil => m <= i
    BY <1>6
  <2>2. ASSUME m <= i PROVE w[i] = nil
    <3>1. w[m] = nil
      OBVIOUS
    <3>2. m # i => m \in 0..(i - 1)
      BY <1>1, <2>2
    <3> QED
      BY <1>4, <3>1, <3>2
  <2>3. i < m => ~(m <= i)
    BY <1>1
  <2> QED
    BY <1>3, <2>1, <2>2, <2>3
<1> QED
  BY <1>7 DEF n, w

\* ListFrom(h, nxt, nil) is the linked list that starts at h: its nodes, from h
\* to the first whose next pointer is NULL.
LEMMA ListFromProperties ==
  ASSUME NEW N, IsFiniteSet(N), NEW nil, nil \notin N,
         NEW nxt \in [N -> N \cup {nil}], NEW h \in N \cup {nil},
         NEW rank, Ascending(N, nxt, nil, rank)
  PROVE  LET l == ListFrom(h, nxt, nil)
         IN  /\ l \in Seq(N)
             /\ h # nil => Len(l) > 0 /\ l[1] = h
             /\ h = nil => l = <<>>
             /\ \A i \in DOMAIN l :
                  nxt[l[i]] # nil => i + 1 \in DOMAIN l /\ l[i + 1] = nxt[l[i]]
             /\ \A i \in DOMAIN l : i # 1 =>
                  i - 1 \in DOMAIN l /\ nxt[l[i - 1]] = l[i]
<1> DEFINE n == Cardinality(N)
           w == Walk(h, nxt, nil)
           E == {i \in DOMAIN w : w[i] = nil}
           l == [i \in 1..(Cardinality(DOMAIN w) - Cardinality(E)) |-> w[i - 1]]
<1>1. ListFrom(h, nxt, nil) = l
  BY DEF ListFrom, Walk
<1>2. /\ n \in Nat /\ DOMAIN w = 0..n /\ w[0] = h
      /\ \A i \in 1..n : w[i] = IF w[i - 1] = nil THEN nil ELSE nxt[w[i - 1]]
  BY WalkDef
<1>3. PICK m \in 0..n : \A i \in 0..n :
        (w[i] = nil <=> m <= i) /\ (i < m => w[i] \in N)
  BY WalkEnds
<1> HIDE DEF n, w
<1>4. E = m..n
  BY <1>2, <1>3
<1>5. Cardinality(DOMAIN w) - Cardinality(E) = m
  <2>1. n \in Nat /\ m \in 0..n
    BY <1>2, <1>3
  <2>2. Cardinality(0..n) = n + 1
    BY <2>1, FS_Interval
  <2>3. Cardinality(m..n) = (n - m) + 1
    BY <2>1, FS_Interval
  <2>4. Cardinality(DOMAIN w) = n + 1
    BY <1>2, <2>2
  <2>5. Cardinality(E) = (n - m) + 1
    BY <1>4, <2>3
  <2> HIDE DEF E
  <2> QED
    BY <2>1, <2>4, <2>5
<1>6. l = [i \in 1..m |-> w[i - 1]]
  BY <1>5
<1>7. m \in Nat
  BY <1>2, <1>3
<1> HIDE DEF l
<1>8. /\ DOMAIN l = 1..m
      /\ \A i \in 1..m : l[i] = w[i - 1] /\ i - 1 \in 0..n /\ i - 1 < m
  BY <1>2, <1>3, <1>6
<1>9. l \in Seq(N) /\ Len(l) = m
  <2>1. l \in [1..m -> N]
    BY <1>3, <1>6, <1>8
  <2> QED
    BY <1>7, <2>1, SeqDef, LenProperties, <1>8
<1>10. ASSUME h # nil PROVE Len(l) > 0 /\ l[1] = h
  <2>1. ~(m <= 0)
    BY <1>2, <1>3, <1>10
  <2> QED
    BY <1>2, <1>7, <1>8, <1>9, <2>1
<1>11. ASSUME h = nil PROVE l = <<>>
  <2>1. m <= 0
    BY <1>2, <1>3, <1>11
  <2>2. Len(l) = 0
    BY <1>7, <1>9, <2>1
  <2>3. m = 0 /\ DOMAIN l = {}
    BY <1>7, <1>8, <2>1
  <2> QED
    BY <1>9, <2>2, <2>3
<1>12. ASSUME NEW i \in DOMAIN l, nxt[l[i]] # nil
       PROVE  i + 1 \in DOMAIN l /\ l[i + 1] = nxt[l[i]]
  <2>1. l[i] = w[i - 1] /\ w[i - 1] # nil /\ i \in 1..n
    <3>1. i \in 1..m /\ i - 1 \in 0..n /\ i - 1 < m /\ l[i] = w[i - 1]
      BY <1>8
    <3> QED
      BY <1>2, <1>3, <1>7, <3>1
  <2>2. w[i] = nxt[l[i]]
    BY <1>2, <2>1
  <2>3. i < m
    <3>1. w[i] # nil
      BY <1>12, <2>2
    <3>2. ~(m <= i)
      BY <1>2, <1>3, <2>1, <3>1
    <3> QED
      BY <1>2, <1>7, <2>1, <3>2
  <2>4. i + 1 \in 1..m /\ (i + 1) - 1 = i
    BY <1>2, <1>7, <2>1, <2>3
  <2> QED
    BY <1>8, <2>2, <2>4
<1>13. ASSUME NEW i \in DOMAIN l, i # 1
       PROVE  i - 1 \in DOMAIN l /\ nxt[l[i - 1]] = l[i]
  <2>1. /\ i \in 1..m /\ i - 1 \in 1..m /\ i - 1 \in 1..n
        /\ (i - 1) - 1 \in 0..n /\ (i - 1) - 1 < m
    BY <1>2, <1>3, <1>7, <1>8, <1>13
  <2>2. l[i] = w[i - 1] /\ l[i - 1] = w[(i - 1) - 1]
    BY <1>8, <2>1
  <2>3. w[(i - 1) - 1] # nil
    <3>1. ~(m <= (i - 1) - 1)
      BY <1>7, <2>1
    <3> QED
      BY <1>3, <2>1, <3>1
  <2> QED
    BY <1>2, <1>8, <2>1, <2>2, <2>3
<1> QED
  BY <1>1, <1>9, <1>10, <1>11, <1>12, <1>13

\* The list has no other nodes than those of a set its pointers stay in.
LEMMA ListFromWithin ==
  ASSUME NEW N, IsFiniteSet(N), NEW nil, nil \notin N,
         NEW nxt \in [N -> N \cup {nil}], NEW h \in N \cup {nil},
         NEW rank, Ascending(N, nxt, nil, rank),
         NEW S \in SUBSET N, h \in S \cup {nil},
         \A x \in S : nxt[x] \in S \cup {nil}
  PROVE  \A i \in DOMAIN ListFrom(h, nxt, nil) : ListFrom(h, nxt, nil)[i] \in S
<1> DEFINE l == ListFrom(h, nxt, nil)
           B == {i \in DOMAIN l : l[i] \notin S}
<1>1. /\ l \in Seq(N)
      /\ h # nil => Len(l) > 0 /\ l[1] = h
      /\ h = nil => l = <<>>
      /\ \A i \in DOMAIN l :
           i # 1 => i - 1 \in DOMAIN l /\ nxt[l[i - 1]] = l[i]
  BY ListFromProperties
<1> HIDE DEF l
<1>2. Len(l) \in Nat /\ DOMAIN l = 1..Len(l) /\ \A i \in DOMAIN l : l[i] \in N
  BY <1>1, LenProperties
<1>3. SUFFICES ASSUME B # {} PROVE FALSE
  BY DEF l
<1>4. PICK m \in B : \A k \in B : m <= k
  <2>1. B \in SUBSET Nat
    BY <1>2
  <2> HIDE DEF B
  <2> QED
    BY <1>3, <2>1, LeastElement
<1>5. m \in DOMAIN l /\ l[m] \notin S /\ l[m] \in N
  BY <1>2
<1>6. CASE m = 1
  <2>1. h # nil
    BY <1>1, <1>2, <1>5
  <2> QED
    BY <1>1, <1>5, <1>6, <2>1
<1>7. CASE m # 1
  <2>1. m - 1 \in DOMAIN l /\ nxt[l[m - 1]] = l[m]
    BY <1>1, <1>5, <1>7
  <2>2. m - 1 \notin B
    <3>1. ~(m <= m - 1)
      BY <1>2, <1>5
    <3> HIDE DEF B
    <3> QED
      BY <1>4, <3>1
  <2>3. l[m - 1] \in S
    BY <2>1, <2>2
  <2> QED
    BY <1>5, <2>1, <2>3
<1> QED
  BY <1>6, <1>7

\* The list has every node of a set in which each is its first or comes next
\* after another.
LEMMA ListFromReaches ==
  ASSUME NEW N, IsFiniteSet(N), NEW nil, nil \notin N,
         NEW nxt \in [N -> N \cup {nil}], NEW h \in N \cup {nil},
         NEW rank, Ascending(N, nxt, nil, rank),
         NEW S \in SUBSET N,
         \A x \in S : x = h \/ \E y \in S : nxt[y] = x
  PROVE  \A x \in S : \E i \in DOMAIN ListFrom(h, nxt, nil) :
                        ListFrom(h, nxt, nil)[i] = x
<1> DEFINE l == ListFrom(h, nxt, nil)
           Missed(x) == ~\E i \in DOMAIN l : l[i] = x
           R == {rank[x] : x \in {y \in S : Missed(y)}}
<1>1. /\ l \in Seq(N)
      /\ h # nil => Len(l) > 0 /\ l[1] = h
      /\ \A i \in DOMAIN l : nxt[l[i]] # nil =>
           i + 1 \in DOMAIN l /\ l[i + 1] = nxt[l[i]]
  BY ListFromProperties
<1> HIDE DEF l
<1>2. Len(l) \in Nat /\ DOMAIN l = 1..Len(l)
  BY <1>1, LenProperties
<1>3. SUFFICES ASSUME \E x \in S : Missed(x) PROVE FALSE
  BY DEF l
<1>4. R \in SUBSET Nat /\ R # {}
  BY <1>3 DEF Ascending
<1>5. PICK r \in R : \A k \in R : r <= k
  <2> HIDE DEF R
  <2> QED
    BY <1>4, LeastElement
<1>6. PICK x \in S : Missed(x) /\ rank[x] = r
  BY <1>5
<1>7. x # nil /\ x \in N
  BY <1>6
<1>8. x # h
  <2>1. x = h => 1 \in DOMAIN l /\ l[1] = x
    BY <1>1, <1>2, <1>7
  <2> QED
    BY <1>6, <2>1
<1>9. PICK y \in S : nxt[y] = x
  BY <1>6, <1>8
<1>10. rank[y] < rank[x] /\ rank[y] \in Nat /\ rank[x] \in Nat
  BY <1>7, <1>9 DEF Ascending
<1>11. ~Missed(y)
  <2>1. Missed(y) => rank[y] \in R
    BY <1>9
  <2>2. ~(r <= rank[y])
    BY <1>6, <1>10
  <2> HIDE DEF R
  <2> QED
    BY <1>5, <2>1, <2>2
<1>12. PICK i \in DOMAIN l : l[i] = y
  BY <1>11
<1>13. i + 1 \in DOMAIN l /\ l[i + 1] = x
  BY <1>1, <1>7, <1>9, <1>12
<1> QED
  BY <1>6, <1>13

=============================================================================
