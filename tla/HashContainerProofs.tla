------------------------- MODULE HashContainerProofs -------------------------
(***************************************************************************)
(* Proofs about HashContainer for any keys, hashes and values.             *)
(***************************************************************************)
EXTENDS HashContainer, FiniteSetTheorems, WellFoundedInduction, TLAPS

-----------------------------------------------------------------------------
(* Induction, for want of a theorem that can be instantiated: a set of     *)
(* numbers that is not empty has a smallest one.                           *)

LEMMA Smallest ==
  ASSUME NEW T, T \subseteq Nat, T # {}
  PROVE  \E x \in T : \A y \in T : x <= y
PROOF
  <1> DEFINE R == OpToRel(<, Nat)
  <1>1. IsWellFoundedOn(R, Nat)
    BY NatLessThanWellFounded
  <1>2. PICK x \in T : \A y \in T : ~ (<<y, x>> \in R)
    <2> HIDE DEF R
    <2> QED BY <1>1, WFMin
  <1>3. \A y \in T : ~ (y < x)
    BY <1>2 DEF OpToRel
  <1> QED BY <1>3

LEMMA MinIsMember ==
  ASSUME NEW S, S \subseteq Nat, S # {}
  PROVE  Min(S) \in S /\ \A s \in S : Min(S) <= s
PROOF
  <1>1. PICK x \in S : \A y \in S : x <= y
    BY Smallest
  <1> QED BY <1>1 DEF Min

(***************************************************************************)
(* The values of a recursive function on 0 .. n, with step g[m] at m, lie  *)
(* in the sets that every step leads to.                                   *)
(***************************************************************************)
LEMMA RecursionStays ==
  ASSUME NEW n \in Nat, NEW T, NEW g, NEW f,
         f[0] \in T[0],
         \A m \in 1 .. n : \A x \in T[m - 1] : g[m][x] \in T[m],
         \A m \in 1 .. n : f[m] = g[m][f[m - 1]]
  PROVE  \A m \in 0 .. n : f[m] \in T[m]
PROOF
  <1> DEFINE Bad == {m \in 0 .. n : f[m] \notin T[m]}
  <1> SUFFICES ASSUME Bad # {} PROVE FALSE
    OBVIOUS
  <1>1. PICK m \in Bad : \A k \in Bad : m <= k
    <2>1. Bad \subseteq Nat
      OBVIOUS
    <2> HIDE DEF Bad
    <2> QED BY <2>1, Smallest
  <1>2. m \in 1 .. n /\ m - 1 \in 0 .. n /\ m - 1 < m
    OBVIOUS
  <1>3. f[m - 1] \in T[m - 1]
    BY <1>1, <1>2
  <1> QED BY <1>2, <1>3

(* The recursive function f on 0 .. n with first value a and step g[m] at m. *)
Recursion(f, n, a, g) ==
  /\ \E values : f \in [0 .. n -> values]
  /\ f[0] = a /\ \A m \in 1 .. n : f[m] = g[m][f[m - 1]]

(* There is such a function, for every first value and steps. *)
LEMMA RecursionExists ==
  ASSUME NEW n \in Nat, NEW a, NEW g
  PROVE  \E f : Recursion(f, n, a, g)
PROOF
  <1> DEFINE Solves(f, k) == f = [m \in 0 .. k |-> IF m = 0 THEN a ELSE g[m][f[m - 1]]]
             Bad == {k \in 0 .. n : ~ \E f : Solves(f, k)}
  <1>0. ASSUME Bad = {}
        PROVE  \E f : Recursion(f, n, a, g)
    <2>0. n \in 0 .. n
      OBVIOUS
    <2>1. PICK f : Solves(f, n)
      <3> HIDE DEF Solves
      <3> QED BY <1>0, <2>0
    <2>2. f \in [0 .. n -> {f[m] : m \in 0 .. n}]
      BY <2>1
    <2>3. f[0] = a /\ \A m \in 1 .. n : f[m] = g[m][f[m - 1]]
      BY <2>1
    <2> HIDE DEF Bad
    <2> QED BY <2>2, <2>3 DEF Recursion
  <1> SUFFICES ASSUME Bad # {} PROVE FALSE
    BY <1>0
  <1>1. PICK k \in Bad : \A j \in Bad : k <= j
    <2>1. Bad \subseteq Nat
      OBVIOUS
    <2> HIDE DEF Bad
    <2> QED BY <2>1, Smallest
  <1>2. CASE k = 0
    <2> DEFINE f == [m \in 0 .. 0 |-> a]
    <2>1. Solves(f, 0)
      OBVIOUS
    <2> QED BY <1>1, <1>2, <2>1
  <1>3. CASE k # 0
    <2>1. k \in 1 .. n /\ k - 1 \in 0 .. n /\ k - 1 < k
      BY <1>3
    <2>2. PICK f : Solves(f, k - 1)
      <3>1. k - 1 \notin Bad /\ k - 1 \in 0 .. n
        <4> HIDE DEF Bad
        <4> QED BY <1>1, <2>1
      <3> HIDE DEF Solves
      <3> QED BY <3>1
    <2> DEFINE h == [m \in 0 .. k |-> IF m = k THEN g[k][f[k - 1]] ELSE f[m]]
    <2>3. \A m \in 0 .. k - 1 : h[m] = f[m] /\ f[m] = IF m = 0 THEN a ELSE g[m][f[m - 1]]
      BY <2>1, <2>2
    <2>4. h[k] = g[k][h[k - 1]]
      BY <2>1, <2>3
    <2>5. \A m \in 0 .. k : h[m] = IF m = 0 THEN a ELSE g[m][h[m - 1]]
      <3> SUFFICES ASSUME NEW m \in 0 .. k PROVE h[m] = IF m = 0 THEN a ELSE g[m][h[m - 1]]
        OBVIOUS
      <3>1. CASE m = k
        BY <2>1, <2>4, <3>1
      <3>2. CASE m # k
        <4>1. m \in 0 .. k - 1 /\ (m # 0 => m - 1 \in 0 .. k - 1)
          BY <2>1, <3>2
        <4> HIDE DEF h
        <4> QED BY <2>3, <4>1
      <3> QED BY <3>1, <3>2
    <2>6. Solves(h, k)
      <3>1. h = [m \in 0 .. k |-> h[m]]
        OBVIOUS
      <3> HIDE DEF h
      <3> QED BY <2>5, <3>1
    <2> QED BY <1>1, <2>1, <2>6
  <1> QED BY <1>2, <1>3

-----------------------------------------------------------------------------
(***************************************************************************)
(* Chains, described without walking along them.  Each linked item has a   *)
(* rank: the first of its bucket has rank 1, the next one of an item has   *)
(* the rank after, and no two of a bucket have the same.                   *)
(***************************************************************************)
Chained(linked, bucketOf, next, first, rank) ==
  /\ 0 \notin linked
  /\ \A i \in linked : rank[i] \in Nat \ {0} /\ bucketOf[i] \in DOMAIN first
  /\ \A b \in DOMAIN first :
       first[b] = 0 \/ (first[b] \in linked /\ bucketOf[first[b]] = b /\ rank[first[b]] = 1)
  /\ \A i \in linked :
       next[i] = 0 \/ (/\ next[i] \in linked /\ bucketOf[next[i]] = bucketOf[i]
                       /\ rank[next[i]] = rank[i] + 1)
  /\ \A i \in linked : rank[i] = 1 => first[bucketOf[i]] = i
  /\ \A i \in linked : rank[i] # 1 => \E j \in linked : next[j] = i
  /\ \A i, j \in linked : bucketOf[i] = bucketOf[j] /\ rank[i] = rank[j] => i = j

(* The link that leads to item i is that of prev, or of the bucket. *)
LinkedFrom(linked, next, rank, i, prev) ==
  IF rank[i] = 1 THEN prev = 0 ELSE prev \in linked /\ next[prev] = i

(* Only the link of item prev, or of the bucket, is new: it leads to x. *)
OneLink(items, next, first, b, prev, x, newNext, newFirst) ==
  /\ DOMAIN newFirst = DOMAIN first
  /\ \A j \in items : newNext[j] = IF j = prev THEN x ELSE next[j]
  /\ \A c \in DOMAIN first : newFirst[c] = IF prev = 0 /\ c = b THEN x ELSE first[c]

(* An item that no link leads to is put behind the last one of its bucket. *)
LEMMA PutLast ==
  ASSUME NEW linked, NEW bucketOf, NEW next, NEW first, NEW rank,
         Chained(linked, bucketOf, next, first, rank),
         NEW i, i \notin linked, i # 0, bucketOf[i] \in DOMAIN first, next[i] = 0,
         NEW tail,
         \/ tail = 0 /\ \A j \in linked : bucketOf[j] # bucketOf[i]
         \/ tail \in linked /\ bucketOf[tail] = bucketOf[i] /\ next[tail] = 0,
         NEW newNext, NEW newFirst,
         OneLink(linked \union {i}, next, first, bucketOf[i], tail, i, newNext, newFirst)
  PROVE  \E newRank : Chained(linked \union {i}, bucketOf, newNext, newFirst, newRank)
PROOF
  <1>0. /\ DOMAIN newFirst = DOMAIN first
        /\ \A j \in linked \union {i} : newNext[j] = IF j = tail THEN i ELSE next[j]
        /\ \A c \in DOMAIN first : newFirst[c] = IF tail = 0 /\ c = bucketOf[i] THEN i ELSE first[c]
    BY DEF OneLink
  <1> USE <1>0
  <1> DEFINE new == linked \union {i}
             r == [j \in new |-> IF j = i THEN (IF tail = 0 THEN 1 ELSE rank[tail] + 1) ELSE rank[j]]
  <1>1. /\ \A j \in linked : r[j] = rank[j] /\ rank[j] \in Nat \ {0}
        /\ r[i] = IF tail = 0 THEN 1 ELSE rank[tail] + 1
        /\ r[i] \in Nat \ {0}
    BY DEF Chained
  <1> HIDE DEF r
  <1>2. \A j \in linked : bucketOf[j] = bucketOf[i] => r[j] # r[i]
    <2> SUFFICES ASSUME NEW j \in linked, bucketOf[j] = bucketOf[i], r[j] = r[i] PROVE FALSE
      OBVIOUS
    <2>1. tail \in linked /\ bucketOf[tail] = bucketOf[i] /\ next[tail] = 0 /\ tail # 0
      BY DEF Chained
    <2>2. rank[j] = rank[tail] + 1 /\ rank[j] # 1
      BY <1>1, <2>1
    <2>3. PICK k \in linked : next[k] = j
      BY <2>2 DEF Chained
    <2>4. bucketOf[k] = bucketOf[j] /\ rank[j] = rank[k] + 1
      BY <2>3 DEF Chained
    <2>5. rank[k] = rank[tail]
      BY <1>1, <2>1, <2>2, <2>4
    <2>6. k = tail
      BY <2>1, <2>4, <2>5 DEF Chained
    <2> QED BY <2>1, <2>3, <2>6 DEF Chained
  <1>3. \A j, k \in new : bucketOf[j] = bucketOf[k] /\ r[j] = r[k] => j = k
    BY <1>1, <1>2 DEF Chained
  <1>4. \A b \in DOMAIN newFirst :
          newFirst[b] = 0 \/ (newFirst[b] \in new /\ bucketOf[newFirst[b]] = b /\ r[newFirst[b]] = 1)
    BY <1>1 DEF Chained
  <1>5. \A j \in new :
          newNext[j] = 0 \/ (/\ newNext[j] \in new /\ bucketOf[newNext[j]] = bucketOf[j]
                             /\ r[newNext[j]] = r[j] + 1)
    BY <1>1 DEF Chained
  <1>6. \A j \in new : r[j] = 1 => newFirst[bucketOf[j]] = j
    <2> SUFFICES ASSUME NEW j \in new, r[j] = 1 PROVE newFirst[bucketOf[j]] = j
      OBVIOUS
    <2>1. CASE j = i
      <3>1. tail = 0
        BY <1>1, <2>1 DEF Chained
      <3> QED BY <2>1, <3>1
    <2>2. CASE j # i
      <3>1. j \in linked /\ rank[j] = 1 /\ bucketOf[j] \in DOMAIN first /\ first[bucketOf[j]] = j
        BY <1>1, <2>2 DEF Chained
      <3>2. tail = 0 => bucketOf[j] # bucketOf[i]
        BY <3>1 DEF Chained
      <3> QED BY <3>1, <3>2
    <2> QED BY <2>1, <2>2
  <1>7. \A j \in new : r[j] # 1 => \E k \in new : newNext[k] = j
    <2> SUFFICES ASSUME NEW j \in new, r[j] # 1 PROVE \E k \in new : newNext[k] = j
      OBVIOUS
    <2>1. CASE j = i
      BY <1>1, <2>1
    <2>2. CASE j # i
      <3>1. PICK k \in linked : next[k] = j
        BY <1>1, <2>2 DEF Chained
      <3>2. k # tail
        BY <2>2, <3>1 DEF Chained
      <3> QED BY <3>1, <3>2
    <2> QED BY <2>1, <2>2
  <1>8. \A j \in new : r[j] \in Nat \ {0} /\ bucketOf[j] \in DOMAIN newFirst
    BY <1>1 DEF Chained
  <1>9. 0 \notin new
    BY DEF Chained
  <1> HIDE DEF new
  <1> QED BY <1>3, <1>4, <1>5, <1>6, <1>7, <1>8, <1>9 DEF Chained, new

(* An item is taken out of its chain. *)
LEMMA TakeOut ==
  ASSUME NEW linked, NEW bucketOf, NEW next, NEW first, NEW rank,
         Chained(linked, bucketOf, next, first, rank),
         NEW i \in linked, NEW prev, LinkedFrom(linked, next, rank, i, prev),
         NEW newNext, NEW newFirst,
         OneLink(linked, next, first, bucketOf[i], prev, next[i], newNext, newFirst)
  PROVE  \E newRank : Chained(linked \ {i}, bucketOf, newNext, newFirst, newRank)
PROOF
  <1>0. /\ DOMAIN newFirst = DOMAIN first
        /\ \A j \in linked : newNext[j] = IF j = prev THEN next[i] ELSE next[j]
        /\ \A c \in DOMAIN first : newFirst[c] = IF prev = 0 /\ c = bucketOf[i] THEN next[i] ELSE first[c]
    BY DEF OneLink
  <1> USE <1>0
  <1> DEFINE new == linked \ {i}
             After(j) == bucketOf[j] = bucketOf[i] /\ rank[j] > rank[i]
             r == [j \in new |-> IF After(j) THEN rank[j] - 1 ELSE rank[j]]
  <1>1. /\ \A j \in linked : rank[j] \in Nat \ {0}
        /\ \A j \in new : r[j] = IF After(j) THEN rank[j] - 1 ELSE rank[j]
    BY DEF Chained
  <1> HIDE DEF r
  <1>2. rank[i] # 1 => /\ prev \in new /\ next[prev] = i /\ prev # 0
                       /\ bucketOf[prev] = bucketOf[i] /\ rank[i] = rank[prev] + 1
    BY <1>1 DEF Chained, LinkedFrom
  <1>3. \A j \in linked : next[j] = i => j = prev
    <2> SUFFICES ASSUME NEW j \in linked, next[j] = i PROVE j = prev
      OBVIOUS
    <2>1. bucketOf[j] = bucketOf[i] /\ rank[i] = rank[j] + 1
      BY DEF Chained
    <2>2. rank[i] # 1
      BY <1>1, <2>1
    <2>3. rank[j] = rank[prev] /\ bucketOf[j] = bucketOf[prev]
      BY <1>1, <1>2, <2>1, <2>2
    <2> QED BY <1>2, <2>2, <2>3 DEF Chained
  <1>4. next[i] # 0 => /\ next[i] \in new /\ bucketOf[next[i]] = bucketOf[i]
                       /\ rank[next[i]] = rank[i] + 1 /\ r[next[i]] = rank[i]
    <2> SUFFICES ASSUME next[i] # 0
                 PROVE  /\ next[i] \in new /\ bucketOf[next[i]] = bucketOf[i]
                        /\ rank[next[i]] = rank[i] + 1 /\ r[next[i]] = rank[i]
      OBVIOUS
    <2>1. next[i] \in linked /\ bucketOf[next[i]] = bucketOf[i] /\ rank[next[i]] = rank[i] + 1
      BY DEF Chained
    <2>2. next[i] \in new /\ After(next[i])
      BY <1>1, <2>1
    <2>3. r[next[i]] = rank[next[i]] - 1
      BY <1>1, <2>2
    <2> QED BY <1>1, <2>1, <2>2, <2>3
  <1>5. \A j \in new : r[j] \in Nat \ {0} /\ bucketOf[j] \in DOMAIN newFirst
    BY <1>1 DEF Chained
  <1>6. \A b \in DOMAIN newFirst :
          newFirst[b] = 0 \/ (newFirst[b] \in new /\ bucketOf[newFirst[b]] = b /\ r[newFirst[b]] = 1)
    <2> SUFFICES ASSUME NEW b \in DOMAIN first
                 PROVE  \/ newFirst[b] = 0
                        \/ newFirst[b] \in new /\ bucketOf[newFirst[b]] = b /\ r[newFirst[b]] = 1
      OBVIOUS
    <2>1. CASE prev = 0 /\ b = bucketOf[i]
      <3>1. rank[i] = 1 /\ newFirst[b] = next[i]
        BY <1>2, <2>1
      <3> QED BY <1>4, <2>1, <3>1
    <2>2. CASE ~ (prev = 0 /\ b = bucketOf[i])
      <3>1. newFirst[b] = first[b]
        BY <2>2
      <3>2. CASE first[b] = 0
        BY <3>1, <3>2
      <3>3. CASE first[b] # 0
        <4>1. first[b] \in linked /\ bucketOf[first[b]] = b /\ rank[first[b]] = 1
          BY <3>3 DEF Chained
        <4>2. first[b] # i
          BY <2>2, <4>1 DEF LinkedFrom
        <4>3. ~ After(first[b])
          BY <1>1, <4>1
        <4> QED BY <1>1, <3>1, <4>1, <4>2, <4>3
      <3> QED BY <3>2, <3>3
    <2> QED BY <2>1, <2>2
  <1>7. \A j \in new :
          newNext[j] = 0 \/ (/\ newNext[j] \in new /\ bucketOf[newNext[j]] = bucketOf[j]
                             /\ r[newNext[j]] = r[j] + 1)
    <2> SUFFICES ASSUME NEW j \in new, newNext[j] # 0
                 PROVE  /\ newNext[j] \in new /\ bucketOf[newNext[j]] = bucketOf[j]
                        /\ r[newNext[j]] = r[j] + 1
      OBVIOUS
    <2>0. j # 0
      BY DEF Chained
    <2>1. CASE j = prev
      <3>1. newNext[j] = next[i] /\ next[i] # 0 /\ rank[i] # 1
        BY <2>0, <2>1 DEF LinkedFrom
      <3>2. ~ After(j)
        BY <1>1, <1>2, <2>1, <3>1
      <3>3. r[j] = rank[j]
        BY <1>1, <3>2
      <3> QED BY <1>2, <1>4, <2>1, <3>1, <3>3
    <2>2. CASE j # prev
      <3>1. newNext[j] = next[j] /\ next[j] # i
        BY <1>3, <2>2
      <3>2. next[j] \in new /\ bucketOf[next[j]] = bucketOf[j] /\ rank[next[j]] = rank[j] + 1
        BY <3>1 DEF Chained
      <3>3. After(j) <=> After(next[j])
        <4>1. bucketOf[j] = bucketOf[i] => rank[j] # rank[i] /\ rank[next[j]] # rank[i]
          BY <3>1, <3>2 DEF Chained
        <4> QED BY <1>1, <3>2, <4>1
      <3> QED BY <1>1, <3>1, <3>2, <3>3
    <2> QED BY <2>1, <2>2
  <1>8. \A j \in new : r[j] = 1 => newFirst[bucketOf[j]] = j
    <2> SUFFICES ASSUME NEW j \in new, r[j] = 1 PROVE newFirst[bucketOf[j]] = j
      OBVIOUS
    <2>1. CASE After(j)
      <3>1. rank[j] = 2 /\ rank[i] = 1 /\ prev = 0
        BY <1>1, <2>1 DEF LinkedFrom
      <3>2. PICK k \in linked : next[k] = j
        BY <3>1 DEF Chained
      <3>3. bucketOf[k] = bucketOf[j] /\ rank[j] = rank[k] + 1
        BY <3>2 DEF Chained
      <3>4. k = i
        BY <1>1, <2>1, <3>1, <3>3 DEF Chained
      <3> QED BY <2>1, <3>1, <3>2, <3>4 DEF Chained
    <2>2. CASE ~ After(j)
      <3>1. rank[j] = 1 /\ first[bucketOf[j]] = j /\ bucketOf[j] \in DOMAIN first
        BY <1>1, <2>2 DEF Chained
      <3>2. ~ (prev = 0 /\ bucketOf[j] = bucketOf[i])
        <4>1. ASSUME prev = 0, bucketOf[j] = bucketOf[i] PROVE FALSE
          <5>1. rank[i] = 1
            BY <1>2, <4>1
          <5> QED BY <3>1, <4>1, <5>1 DEF Chained
        <4> QED BY <4>1
      <3> QED BY <3>1, <3>2
    <2> QED BY <2>1, <2>2
  <1>9. \A j \in new : r[j] # 1 => \E k \in new : newNext[k] = j
    <2> SUFFICES ASSUME NEW j \in new, r[j] # 1 PROVE \E k \in new : newNext[k] = j
      OBVIOUS
    <2>1. rank[j] # 1
      BY <1>1
    <2>2. PICK k \in linked : next[k] = j
      BY <2>1 DEF Chained
    <2>3. CASE k = i
      <3>1. rank[j] = rank[i] + 1 /\ bucketOf[j] = bucketOf[i]
        BY <2>2, <2>3 DEF Chained
      <3>2. rank[i] # 1
        BY <1>1, <3>1
      <3> QED BY <1>2, <2>2, <2>3, <3>2
    <2>4. CASE k # i
      <3>1. k # prev
        <4>1. ASSUME k = prev PROVE FALSE
          <5>1. prev # 0
            BY <4>1 DEF Chained
          <5> QED BY <1>2, <2>2, <4>1, <5>1 DEF LinkedFrom
        <4> QED BY <4>1
      <3> QED BY <2>2, <2>4, <3>1
    <2> QED BY <2>3, <2>4
  <1>10. \A j, k \in new : bucketOf[j] = bucketOf[k] /\ r[j] = r[k] => j = k
    <2> SUFFICES ASSUME NEW j \in new, NEW k \in new, bucketOf[j] = bucketOf[k], r[j] = r[k] PROVE j = k
      OBVIOUS
    <2>1. \A x \in new : bucketOf[x] = bucketOf[i] => rank[x] # rank[i]
      BY DEF Chained
    <2>2. rank[j] = rank[k]
      BY <1>1, <2>1
    <2> QED BY <2>2 DEF Chained
  <1>11. 0 \notin new
    BY DEF Chained
  <1> HIDE DEF new
  <1> QED BY <1>5, <1>6, <1>7, <1>8, <1>9, <1>10, <1>11 DEF Chained, new

(* The last item gets another index. *)
LEMMA Renamed ==
  ASSUME NEW linked, NEW bucketOf, NEW next, NEW first, NEW rank,
         Chained(linked, bucketOf, next, first, rank),
         NEW last \in linked, NEW i, i \notin linked, i # 0,
         NEW prev, LinkedFrom(linked, next, rank, last, prev),
         NEW newBucketOf, NEW newNext, NEW newFirst,
         \A j \in linked \ {last} : newBucketOf[j] = bucketOf[j],
         newBucketOf[i] = bucketOf[last], newNext[i] = next[last],
         OneLink(linked \ {last}, next, first, bucketOf[last], prev, i, newNext, newFirst)
  PROVE  \E newRank :
           Chained((linked \ {last}) \union {i}, newBucketOf, newNext, newFirst, newRank)
PROOF
  <1>0. /\ DOMAIN newFirst = DOMAIN first
        /\ \A j \in linked \ {last} : newNext[j] = IF j = prev THEN i ELSE next[j]
        /\ \A c \in DOMAIN first : newFirst[c] = IF prev = 0 /\ c = bucketOf[last] THEN i ELSE first[c]
    BY DEF OneLink
  <1> USE <1>0
  <1> DEFINE old == linked \ {last}
             new == old \union {i}
             r == [j \in new |-> IF j = i THEN rank[last] ELSE rank[j]]
  <1>1. /\ r[i] = rank[last] /\ \A j \in old : r[j] = rank[j]
        /\ \A j \in linked : rank[j] \in Nat \ {0} /\ bucketOf[j] \in DOMAIN first
        /\ i \notin old /\ 0 \notin linked
    BY DEF Chained
  <1> HIDE DEF r
  <1>2. next[last] # last
    BY <1>1 DEF Chained
  <1>3. rank[last] # 1 => prev \in old /\ next[prev] = last /\ bucketOf[prev] = bucketOf[last]
                          /\ rank[last] = rank[prev] + 1 /\ prev # 0
    BY <1>1, <1>2 DEF Chained, LinkedFrom
  <1>4. \A j \in linked : next[j] = last => j = prev
    <2> SUFFICES ASSUME NEW j \in linked, next[j] = last PROVE j = prev
      OBVIOUS
    <2>1. bucketOf[j] = bucketOf[last] /\ rank[last] = rank[j] + 1
      BY <1>1 DEF Chained
    <2>2. rank[last] # 1
      BY <1>1, <2>1
    <2>3. rank[j] = rank[prev] /\ bucketOf[j] = bucketOf[prev]
      BY <1>1, <1>3, <2>1, <2>2
    <2> QED BY <1>3, <2>2, <2>3 DEF Chained
  <1>5. rank[last] = 1 => prev = 0
    BY DEF LinkedFrom
  <1>6. \A j \in new : r[j] \in Nat \ {0} /\ newBucketOf[j] \in DOMAIN newFirst
    BY <1>1
  <1>7. \A b \in DOMAIN newFirst :
          newFirst[b] = 0 \/ (newFirst[b] \in new /\ newBucketOf[newFirst[b]] = b /\ r[newFirst[b]] = 1)
    <2> SUFFICES ASSUME NEW b \in DOMAIN first, newFirst[b] # 0
                 PROVE  newFirst[b] \in new /\ newBucketOf[newFirst[b]] = b /\ r[newFirst[b]] = 1
      OBVIOUS
    <2>1. CASE prev = 0 /\ b = bucketOf[last]
      BY <1>1, <1>3, <2>1
    <2>2. CASE ~ (prev = 0 /\ b = bucketOf[last])
      <3>1. first[b] \in linked /\ bucketOf[first[b]] = b /\ rank[first[b]] = 1 /\ newFirst[b] = first[b]
        BY <2>2 DEF Chained
      <3>2. first[b] # last
        BY <1>5, <2>2, <3>1
      <3> QED BY <1>1, <3>1, <3>2
    <2> QED BY <2>1, <2>2
  <1>8. \A j \in new :
          newNext[j] = 0 \/ (/\ newNext[j] \in new /\ newBucketOf[newNext[j]] = newBucketOf[j]
                             /\ r[newNext[j]] = r[j] + 1)
    <2> SUFFICES ASSUME NEW j \in new, newNext[j] # 0
                 PROVE  /\ newNext[j] \in new /\ newBucketOf[newNext[j]] = newBucketOf[j]
                        /\ r[newNext[j]] = r[j] + 1
      OBVIOUS
    <2>1. CASE j = i
      <3>1. next[last] \in old /\ bucketOf[next[last]] = bucketOf[last] /\ rank[next[last]] = rank[last] + 1
        BY <1>2, <2>1 DEF Chained
      <3> QED BY <1>1, <2>1, <3>1
    <2>2. CASE j # i /\ j = prev
      <3>1. rank[last] # 1
        BY <1>1, <1>5, <2>2
      <3> QED BY <1>1, <1>3, <2>2, <3>1
    <2>3. CASE j # i /\ j # prev
      <3>1. j \in old /\ newNext[j] = next[j] /\ next[j] # last
        BY <1>4, <2>3
      <3>2. next[j] \in old /\ bucketOf[next[j]] = bucketOf[j] /\ rank[next[j]] = rank[j] + 1
        BY <3>1 DEF Chained
      <3> QED BY <1>1, <3>1, <3>2
    <2> QED BY <2>1, <2>2, <2>3
  <1>9. \A j \in new : r[j] = 1 => newFirst[newBucketOf[j]] = j
    <2> SUFFICES ASSUME NEW j \in new, r[j] = 1 PROVE newFirst[newBucketOf[j]] = j
      OBVIOUS
    <2>1. CASE j = i
      BY <1>1, <1>5, <2>1
    <2>2. CASE j # i
      <3>1. j \in old /\ rank[j] = 1 /\ first[bucketOf[j]] = j /\ newBucketOf[j] = bucketOf[j]
        BY <1>1, <2>2 DEF Chained
      <3>2. ~ (prev = 0 /\ bucketOf[j] = bucketOf[last])
        <4>1. ASSUME prev = 0, bucketOf[j] = bucketOf[last] PROVE FALSE
          <5>1. rank[last] = 1
            BY <1>3, <4>1
          <5> QED BY <3>1, <4>1, <5>1 DEF Chained
        <4> QED BY <4>1
      <3> QED BY <1>1, <3>1, <3>2
    <2> QED BY <2>1, <2>2
  <1>10. \A j \in new : r[j] # 1 => \E k \in new : newNext[k] = j
    <2> SUFFICES ASSUME NEW j \in new, r[j] # 1 PROVE \E k \in new : newNext[k] = j
      OBVIOUS
    <2>1. CASE j = i
      BY <1>1, <1>3, <2>1
    <2>2. CASE j # i
      <3>1. j \in old /\ rank[j] # 1
        BY <1>1, <2>2
      <3>2. PICK k \in linked : next[k] = j
        BY <3>1 DEF Chained
      <3>3. CASE k = last
        BY <3>2, <3>3
      <3>4. CASE k # last
        <4>1. k # prev
          <5>1. k = prev => rank[last] # 1
            BY <1>1, <1>5
          <5> QED BY <1>3, <3>1, <3>2, <5>1
        <4> QED BY <3>2, <3>4, <4>1
      <3> QED BY <3>3, <3>4
    <2> QED BY <2>1, <2>2
  <1>11. \A j, k \in new : newBucketOf[j] = newBucketOf[k] /\ r[j] = r[k] => j = k
    BY <1>1 DEF Chained
  <1>12. 0 \notin new
    BY <1>1
  <1> HIDE DEF new
  <1> QED BY <1>6, <1>7, <1>8, <1>9, <1>10, <1>11, <1>12 DEF Chained, new, old

(* With an item, its chain has one of each lower rank. *)
LEMMA RanksFull ==
  ASSUME NEW linked, NEW bucketOf, NEW next, NEW first, NEW rank,
         Chained(linked, bucketOf, next, first, rank),
         NEW i \in linked, NEW m \in 1 .. rank[i]
  PROVE  \E j \in linked : bucketOf[j] = bucketOf[i] /\ rank[j] = m
PROOF
  <1> DEFINE Bad == {d \in Nat : d < rank[i] /\ \A j \in linked : bucketOf[j] = bucketOf[i] => rank[j] # rank[i] - d}
  <1>1. \A j \in linked : rank[j] \in Nat \ {0}
    BY DEF Chained
  <1>2. Bad = {}
    <2> SUFFICES ASSUME Bad # {} PROVE FALSE
      OBVIOUS
    <2>1. PICK d \in Bad : \A e \in Bad : d <= e
      <3>1. Bad \subseteq Nat
        OBVIOUS
      <3> HIDE DEF Bad
      <3> QED BY <3>1, Smallest
    <2>2. d # 0
      BY <1>1, <2>1
    <2>3. d - 1 \in Nat /\ d - 1 < rank[i] /\ ~ (d <= d - 1) /\ rank[i] - (d - 1) = (rank[i] - d) + 1
      BY <1>1, <2>1, <2>2
    <2>4. PICK j \in linked : bucketOf[j] = bucketOf[i] /\ rank[j] = (rank[i] - d) + 1
      BY <2>1, <2>3
    <2>5. rank[j] # 1
      BY <1>1, <2>1, <2>4
    <2>6. PICK k \in linked : next[k] = j
      BY <2>5 DEF Chained
    <2>7. bucketOf[k] = bucketOf[j] /\ rank[j] = rank[k] + 1
      BY <2>6 DEF Chained
    <2>8. rank[k] = rank[i] - d
      BY <1>1, <2>1, <2>4, <2>7
    <2> QED BY <2>1, <2>4, <2>7, <2>8
  <1>3. rank[i] - m \in Nat /\ rank[i] - m < rank[i] /\ rank[i] - (rank[i] - m) = m
    BY <1>1
  <1> QED BY <1>2, <1>3

(* So no rank is larger than the number of items. *)
LEMMA RanksBounded ==
  ASSUME NEW linked, NEW bucketOf, NEW next, NEW first, NEW rank,
         Chained(linked, bucketOf, next, first, rank),
         NEW length \in Nat, linked \subseteq 1 .. length, NEW i \in linked
  PROVE  rank[i] <= length
PROOF
  <1> DEFINE f == [m \in 1 .. rank[i] |-> CHOOSE j \in linked : bucketOf[j] = bucketOf[i] /\ rank[j] = m]
  <1>1. rank[i] \in Nat
    BY DEF Chained
  <1>2. \A m \in 1 .. rank[i] : f[m] \in linked /\ rank[f[m]] = m
    BY RanksFull
  <1> HIDE DEF f
  <1>3. f \in Injection(1 .. rank[i], 1 .. length)
    <2>1. f = [m \in 1 .. rank[i] |-> f[m]]
      BY DEF f
    <2> QED BY <1>2, <2>1 DEF Injection, IsInjective
  <1>4. IsFiniteSet(1 .. length) /\ Cardinality(1 .. length) = length
    BY FS_Interval
  <1>5. Cardinality(1 .. rank[i]) = rank[i]
    BY <1>1, FS_Interval
  <1> QED BY <1>1, <1>3, <1>4, <1>5, FS_Injection

(***************************************************************************)
(* A walk along the chain of a bucket: its m-th item is that of rank m, or *)
(* none if there is none.                                                  *)
(***************************************************************************)
At(linked, bucketOf, rank, b, m, x) ==
  \/ x \in linked /\ bucketOf[x] = b /\ rank[x] = m
  \/ x = 0 /\ \A j \in linked : bucketOf[j] = b => rank[j] < m

LEMMA NoneLeft ==
  ASSUME NEW linked, NEW bucketOf, NEW next, NEW first, NEW rank,
         Chained(linked, bucketOf, next, first, rank),
         NEW b, NEW m \in Nat \ {0},
         ~ \E i \in linked : bucketOf[i] = b /\ rank[i] = m
  PROVE  At(linked, bucketOf, rank, b, m, 0)
PROOF
  <1> SUFFICES ASSUME NEW j \in linked, bucketOf[j] = b, ~ (rank[j] < m) PROVE FALSE
    BY DEF At
  <1>1. m \in 1 .. rank[j]
    BY DEF Chained
  <1>2. \E i \in linked : bucketOf[i] = bucketOf[j] /\ rank[i] = m
    BY <1>1, RanksFull
  <1> QED BY <1>2

LEMMA WalkStarts ==
  ASSUME NEW linked, NEW bucketOf, NEW next, NEW first, NEW rank,
         Chained(linked, bucketOf, next, first, rank), NEW b \in DOMAIN first
  PROVE  At(linked, bucketOf, rank, b, 1, first[b])
PROOF
  <1>1. CASE first[b] # 0
    BY <1>1 DEF Chained, At
  <1>2. CASE first[b] = 0
    <2>1. ~ \E i \in linked : bucketOf[i] = b /\ rank[i] = 1
      BY <1>2 DEF Chained
    <2> QED BY <1>2, <2>1, NoneLeft
  <1> QED BY <1>1, <1>2

LEMMA WalkContinues ==
  ASSUME NEW linked, NEW bucketOf, NEW next, NEW first, NEW rank,
         Chained(linked, bucketOf, next, first, rank), NEW b, NEW m \in Nat \ {0},
         NEW x, At(linked, bucketOf, rank, b, m, x)
  PROVE  At(linked, bucketOf, rank, b, m + 1, IF x = 0 THEN 0 ELSE next[x])
PROOF
  <1>1. CASE x = 0
    <2>1. \A j \in linked : bucketOf[j] = b => rank[j] < m /\ rank[j] \in Nat
      BY <1>1 DEF Chained, At
    <2> QED BY <1>1, <2>1 DEF At
  <1>2. CASE x # 0
    <2>1. x \in linked /\ bucketOf[x] = b /\ rank[x] = m
      BY <1>2 DEF At
    <2>2. CASE next[x] # 0
      BY <1>2, <2>1, <2>2 DEF Chained, At
    <2>3. CASE next[x] = 0
      <3>1. ASSUME NEW i \in linked, bucketOf[i] = b, rank[i] = m + 1 PROVE FALSE
        <4>1. PICK k \in linked : next[k] = i
          BY <3>1 DEF Chained
        <4>2. bucketOf[k] = b /\ rank[i] = rank[k] + 1 /\ rank[k] \in Nat /\ i # 0
          BY <3>1, <4>1 DEF Chained
        <4>3. rank[k] = m
          BY <3>1, <4>2
        <4>4. k = x
          BY <2>1, <4>2, <4>3 DEF Chained
        <4> QED BY <2>3, <4>1, <4>2, <4>4
      <3>2. At(linked, bucketOf, rank, b, m + 1, 0)
        BY <3>1, NoneLeft
      <3> QED BY <1>2, <2>3, <3>2
    <2> QED BY <2>2, <2>3
  <1> QED BY <1>1, <1>2

LEMMA WalkUnique ==
  ASSUME NEW linked, NEW bucketOf, NEW next, NEW first, NEW rank,
         Chained(linked, bucketOf, next, first, rank), NEW b, NEW m \in Nat \ {0},
         NEW x, NEW y,
         At(linked, bucketOf, rank, b, m, x), At(linked, bucketOf, rank, b, m, y)
  PROVE  x = y
PROOF
  <1>1. CASE x \in linked /\ y \in linked
    BY <1>1 DEF At, Chained
  <1>2. CASE x \in linked /\ y \notin linked
    <2>1. bucketOf[x] = b /\ rank[x] = m /\ rank[x] < m
      BY <1>2 DEF At, Chained
    <2> QED BY <2>1
  <1>3. CASE x \notin linked /\ y \in linked
    <2>1. bucketOf[y] = b /\ rank[y] = m /\ rank[y] < m
      BY <1>3 DEF At, Chained
    <2> QED BY <2>1
  <1>4. CASE x \notin linked /\ y \notin linked
    BY <1>4 DEF At
  <1> QED BY <1>1, <1>2, <1>3, <1>4

LEMMA WalkExact ==
  ASSUME NEW linked, NEW bucketOf, NEW next, NEW first, NEW rank,
         Chained(linked, bucketOf, next, first, rank), NEW b \in DOMAIN first,
         NEW items, Len(items) \in Nat, \A i \in linked : next[i] = items[i].next
  PROVE  /\ DOMAIN Visit(items, first[b]) = 1 .. Len(items) + 1
         /\ \A m \in 1 .. Len(items) + 1 :
              At(linked, bucketOf, rank, b, m, Visit(items, first[b])[m])
PROOF
  <1> DEFINE length == Len(items)
             A(m, x) == At(linked, bucketOf, rank, b, m, x)
             After(x) == Following(items, x)
             Solves(v) == v = [m \in 1 .. length + 1 |-> IF m = 1 THEN first[b] ELSE After(v[m - 1])]
             s == [m \in 1 .. length + 1 |->
                     IF \E x \in linked : bucketOf[x] = b /\ rank[x] = m
                     THEN CHOOSE x \in linked : bucketOf[x] = b /\ rank[x] = m ELSE 0]
             w == Visit(items, first[b])
  <1>0. length \in Nat
    OBVIOUS
  <1>1. ASSUME NEW m \in 1 .. length + 1 PROVE A(m, s[m])
    <2>1. CASE \E x \in linked : bucketOf[x] = b /\ rank[x] = m
      <3>1. s[m] \in linked /\ bucketOf[s[m]] = b /\ rank[s[m]] = m
        BY <2>1
      <3> QED BY <3>1 DEF At
    <2>2. CASE ~ \E x \in linked : bucketOf[x] = b /\ rank[x] = m
      <3>1. s[m] = 0
        BY <2>2
      <3>2. A(m, 0)
        BY <2>2, NoneLeft
      <3> QED BY <3>1, <3>2
    <2> QED BY <2>1, <2>2
  <1>2. A(1, first[b])
    BY WalkStarts
  <1>3. ASSUME NEW m \in 1 .. length, NEW x, A(m, x) PROVE A(m + 1, After(x))
    <2>1. At(linked, bucketOf, rank, b, m + 1, IF x = 0 THEN 0 ELSE next[x])
      BY <1>3, WalkContinues
    <2>2. After(x) = IF x = 0 THEN 0 ELSE next[x]
      BY <1>3 DEF At, Following, InvalidID
    <2> QED BY <2>1, <2>2
  <1>4. ASSUME NEW m \in 1 .. length + 1, NEW x, NEW y, A(m, x), A(m, y) PROVE x = y
    BY <1>4, WalkUnique
  <1>5. s = [m \in 1 .. length + 1 |-> s[m]]
    OBVIOUS
  <1>6. w = CHOOSE v : Solves(v)
    BY DEF Visit
  <1> HIDE DEF A, After, s, w, length
  <1>7. \A m \in 1 .. length + 1 : s[m] = IF m = 1 THEN first[b] ELSE After(s[m - 1])
    <2> SUFFICES ASSUME NEW m \in 1 .. length + 1
                 PROVE  s[m] = IF m = 1 THEN first[b] ELSE After(s[m - 1])
      OBVIOUS
    <2>1. CASE m = 1
      BY <1>1, <1>2, <1>4, <2>1
    <2>2. CASE m # 1
      <3>1. m - 1 \in 1 .. length /\ m - 1 \in 1 .. length + 1 /\ (m - 1) + 1 = m
        BY <1>0, <2>2
      <3>2. A(m - 1, s[m - 1])
        BY <1>1, <3>1
      <3>3. A((m - 1) + 1, After(s[m - 1]))
        BY <1>3, <3>1, <3>2
      <3>4. A(m, After(s[m - 1]))
        BY <3>1, <3>3
      <3> QED BY <1>1, <1>4, <2>2, <3>4
    <2> QED BY <2>1, <2>2
  <1>8. Solves(s)
    BY <1>5, <1>7
  <1>9. Solves(w)
    <2> HIDE DEF Solves
    <2> QED BY <1>6, <1>8
  <1>10. /\ DOMAIN w = 1 .. length + 1
         /\ \A m \in 1 .. length + 1 : w[m] = IF m = 1 THEN first[b] ELSE After(w[m - 1])
    BY <1>9
  <1>11. \A m \in 1 .. length + 1 : A(m, w[m])
    <2> DEFINE Bad == {m \in 1 .. length + 1 : ~ A(m, w[m])}
    <2> SUFFICES ASSUME Bad # {} PROVE FALSE
      OBVIOUS
    <2>1. PICK m \in Bad : \A j \in Bad : m <= j
      <3>1. Bad \subseteq Nat
        OBVIOUS
      <3> HIDE DEF Bad
      <3> QED BY <3>1, Smallest
    <2>2. m # 1
      BY <1>2, <1>10, <2>1
    <2>3. m - 1 \in 1 .. length /\ m - 1 \in 1 .. length + 1 /\ (m - 1) + 1 = m /\ ~ (m <= m - 1)
      BY <1>0, <2>1, <2>2
    <2>4. A(m - 1, w[m - 1])
      BY <2>1, <2>3
    <2>5. A((m - 1) + 1, After(w[m - 1]))
      BY <1>3, <2>3, <2>4
    <2> QED BY <1>10, <2>1, <2>2, <2>3, <2>5
  <1> QED BY <1>10, <1>11 DEF A, w, length

-----------------------------------------------------------------------------
(* Tables. *)

Table(n) == [items : Seq(Item), buckets : [0 .. n - 1 -> Nat]]

BucketOf(h) == [i \in DOMAIN h.items |-> Bucket(h, h.items[i].key)]
NextOf(h) == [i \in DOMAIN h.items |-> h.items[i].next]

KeysDiffer(h) == \A i, j \in DOMAIN h.items : h.items[i].key = h.items[j].key => i = j

(* The items linked are in the chains of the table. *)
Threaded(h, linked, rank) ==
  /\ linked \subseteq DOMAIN h.items
  /\ Chained(linked, BucketOf(h), NextOf(h), h.buckets, rank)

LEMMA Remainder ==
  ASSUME NEW n \in Nat \ {0}, NEW m \in Nat
  PROVE  m % n \in 0 .. n - 1
OBVIOUS

LEMMA TableFacts ==
  ASSUME NEW n \in Nat \ {0}, NEW h \in Table(n)
  PROVE  /\ BucketCount(h) = n /\ DOMAIN h.buckets = 0 .. n - 1
         /\ Len(h.items) \in Nat /\ DOMAIN h.items = 1 .. Len(h.items)
         /\ \A i \in 1 .. Len(h.items) :
              /\ h.items[i] \in Item /\ h.items[i].key \in Key
              /\ h.items[i].value \in Value /\ h.items[i].next \in Nat
              /\ BucketOf(h)[i] = Bucket(h, h.items[i].key) /\ BucketOf(h)[i] \in 0 .. n - 1
              /\ NextOf(h)[i] = h.items[i].next
         /\ \A k \in Key : Bucket(h, k) = Hash[k] % n /\ Bucket(h, k) \in 0 .. n - 1
PROOF
  <1>1. h.items \in Seq(Item) /\ h.buckets \in [0 .. n - 1 -> Nat]
    BY DEF Table
  <1>2. DOMAIN h.buckets = 0 .. n - 1
    BY <1>1
  <1>3. BucketCount(h) = n
    BY <1>2, FS_Interval DEF BucketCount
  <1>4. Len(h.items) \in Nat /\ DOMAIN h.items = 1 .. Len(h.items)
    BY <1>1
  <1>5. \A k \in Key : Bucket(h, k) = Hash[k] % n /\ Bucket(h, k) \in 0 .. n - 1
    <2> SUFFICES ASSUME NEW k \in Key PROVE Bucket(h, k) = Hash[k] % n /\ Bucket(h, k) \in 0 .. n - 1
      OBVIOUS
    <2>1. Hash[k] \in Nat
      BY HashAssumption DEF HashAssumption
    <2> QED BY <1>3, <2>1, Remainder DEF Bucket
  <1>6. \A i \in 1 .. Len(h.items) :
          /\ h.items[i] \in Item /\ h.items[i].key \in Key
          /\ h.items[i].value \in Value /\ h.items[i].next \in Nat
    <2>1. \A i \in 1 .. Len(h.items) : h.items[i] \in Item
      BY <1>1
    <2> QED BY <2>1 DEF Item
  <1>7. \A i \in 1 .. Len(h.items) :
          /\ BucketOf(h)[i] = Bucket(h, h.items[i].key) /\ BucketOf(h)[i] \in 0 .. n - 1
          /\ NextOf(h)[i] = h.items[i].next
    BY <1>4, <1>5, <1>6 DEF BucketOf, NextOf
  <1> QED BY <1>2, <1>3, <1>4, <1>5, <1>6, <1>7

(* What a walk finds: the next item, or the end of the chain. *)
LEMMA WalkStops ==
  ASSUME NEW linked, NEW bucketOf, NEW next, NEW first, NEW rank,
         Chained(linked, bucketOf, next, first, rank), NEW b,
         NEW m \in Nat \ {0}, NEW x, NEW y,
         At(linked, bucketOf, rank, b, m, x), x # 0,
         At(linked, bucketOf, rank, b, m + 1, y)
  PROVE  x \in linked /\ bucketOf[x] = b /\ rank[x] = m /\ next[x] = y
PROOF
  <1>1. x \in linked /\ bucketOf[x] = b /\ rank[x] = m
    BY DEF At
  <1>2. At(linked, bucketOf, rank, b, m + 1, next[x])
    <2>1. At(linked, bucketOf, rank, b, m + 1, IF x = 0 THEN 0 ELSE next[x])
      BY WalkContinues
    <2> QED BY <2>1
  <1> QED BY <1>1, <1>2, WalkUnique

(***************************************************************************)
(* FindImpl finds the item of a key, and the link that leads to it, if the *)
(* item is linked and no other one has its key.                            *)
(***************************************************************************)
LEMMA FindExact ==
  ASSUME NEW n \in Nat \ {0}, NEW h \in Table(n), NEW linked, NEW rank,
         Threaded(h, linked, rank), NEW k \in Key
  PROVE  /\ \A i \in linked :
              h.items[i].key = k /\ (\A j \in linked : h.items[j].key = k => j = i)
              => /\ FindImpl(h, k).item = i
                 /\ LinkedFrom(linked, NextOf(h), rank, i, FindImpl(h, k).prev)
         /\ (\A j \in linked : h.items[j].key # k) => FindImpl(h, k).item = 0
PROOF
  <1> DEFINE bucketOf == BucketOf(h)
             next     == NextOf(h)
             first    == h.buckets
             b        == Bucket(h, k)
             length   == Len(h.items)
             key      == [i \in DOMAIN h.items |-> h.items[i].key]
             v        == Visit(h.items, h.buckets[Bucket(h, k)])
             stops    == {m \in DOMAIN v : v[m] = InvalidID \/ h.items[v[m]].key = k}
             steps    == Min(stops)
             A(m, x)  == At(linked, bucketOf, rank, b, m, x)
  <1>1. /\ Chained(linked, bucketOf, next, first, rank) /\ linked \subseteq DOMAIN h.items
        /\ b \in DOMAIN first /\ length \in Nat /\ linked \subseteq 1 .. length
        /\ \A i \in linked : next[i] = h.items[i].next
        /\ \A i \in linked : h.items[i].key = k => bucketOf[i] = b
    <2>1. linked \subseteq DOMAIN h.items /\ Chained(linked, bucketOf, next, first, rank)
      BY DEF Threaded
    <2>2. length \in Nat /\ DOMAIN h.items = 1 .. length /\ DOMAIN first = 0 .. n - 1
      BY TableFacts
    <2>3. b \in 0 .. n - 1
      BY TableFacts
    <2>4. \A i \in linked : next[i] = h.items[i].next
      BY <2>1 DEF NextOf
    <2>5. \A i \in linked : h.items[i].key = k => bucketOf[i] = b
      BY <2>1 DEF BucketOf
    <2> QED BY <2>1, <2>2, <2>3, <2>4, <2>5
  <1>2. DOMAIN v = 1 .. length + 1 /\ \A m \in 1 .. length + 1 : A(m, v[m])
    <2> HIDE DEF bucketOf, next, first, b
    <2>1. v = Visit(h.items, first[b])
      BY DEF first, b
    <2> HIDE DEF v
    <2> QED BY <1>1, <2>1, WalkExact
  <1>3. FindImpl(h, k).item = v[steps] /\ FindImpl(h, k).prev = IF steps = 1 THEN 0 ELSE v[steps - 1]
    BY DEF FindImpl, InvalidID
  <1> HIDE DEF bucketOf, next, first, b, v, A
  <1>4. /\ \A m \in 1 .. length + 1 :
             \/ v[m] = 0
             \/ v[m] \in linked /\ bucketOf[v[m]] = b /\ rank[v[m]] = m
        /\ \A i \in linked : rank[i] \in 1 .. length /\ i # 0
    <2>1. \A i \in linked : rank[i] <= length
      BY <1>1, RanksBounded
    <2> QED BY <1>1, <1>2, <2>1 DEF A, At, Chained
  <1>5. v[length + 1] = 0 /\ length + 1 \in 1 .. length + 1
    BY <1>1, <1>4
  <1>6. steps \in stops /\ \A m \in stops : steps <= m
    <2>1. stops \subseteq Nat /\ stops # {}
      BY <1>1, <1>2, <1>5 DEF InvalidID
    <2> HIDE DEF stops
    <2> QED BY <2>1, MinIsMember
  <1> HIDE DEF steps
  <1>7. /\ steps \in 1 .. length + 1
        /\ v[steps] = 0 \/ h.items[v[steps]].key = k
        /\ \A m \in 1 .. steps - 1 : v[m] # 0 /\ h.items[v[m]].key # k
    BY <1>1, <1>2, <1>6 DEF InvalidID
  <1> HIDE DEF stops, length
  <1>8. ASSUME NEW i \in linked, h.items[i].key = k PROVE v[rank[i]] = i
    <2>1. A(rank[i], i)
      BY <1>1, <1>8 DEF A, At
    <2>2. rank[i] \in 1 .. length + 1 /\ rank[i] \in Nat \ {0}
      BY <1>1, <1>4
    <2>3. A(rank[i], v[rank[i]])
      BY <1>2, <2>2
    <2> QED BY <1>1, <2>1, <2>2, <2>3, WalkUnique DEF A
  <1>9. ASSUME NEW i \in linked, h.items[i].key = k PROVE v[steps] # 0 /\ v[steps] \in linked
    <2>1. rank[i] \in 1 .. length /\ v[rank[i]] = i
      BY <1>4, <1>8, <1>9
    <2>2. rank[i] >= steps
      BY <1>1, <1>7, <1>9, <2>1
    <2>3. CASE rank[i] = steps
      BY <1>4, <1>9, <2>1, <2>3
    <2>4. CASE rank[i] > steps
      <3>1. A(steps, v[steps])
        BY <1>2, <1>7
      <3>2. ~ (rank[i] < steps) /\ bucketOf[i] = b
        BY <1>1, <1>7, <1>9, <2>1, <2>4
      <3> QED BY <1>4, <1>7, <3>1, <3>2 DEF A, At
    <2> QED BY <1>1, <1>7, <2>1, <2>2, <2>3, <2>4
  <1>10. ASSUME NEW i \in linked, h.items[i].key = k, \A j \in linked : h.items[j].key = k => j = i
         PROVE  FindImpl(h, k).item = i /\ LinkedFrom(linked, next, rank, i, FindImpl(h, k).prev)
    <2>1. v[steps] = i /\ rank[i] = steps
      BY <1>4, <1>7, <1>9, <1>10
    <2>2. CASE steps = 1
      BY <1>3, <2>1, <2>2 DEF LinkedFrom
    <2>3. CASE steps # 1
      <3>1. steps - 1 \in 1 .. length + 1 /\ steps - 1 \in Nat \ {0} /\ steps - 1 \in 1 .. steps - 1
            /\ (steps - 1) + 1 = steps
        BY <1>1, <1>7, <2>3
      <3>2. A(steps - 1, v[steps - 1]) /\ v[steps - 1] # 0 /\ A(steps, v[steps])
        BY <1>2, <1>7, <3>1
      <3>3. v[steps - 1] \in linked /\ next[v[steps - 1]] = v[steps]
        <4>1. At(linked, bucketOf, rank, b, (steps - 1) + 1, v[steps])
          BY <3>1, <3>2 DEF A
        <4> QED BY <1>1, <3>1, <3>2, <4>1, WalkStops DEF A
      <3> QED BY <1>3, <2>1, <2>3, <3>3 DEF LinkedFrom
    <2> QED BY <2>2, <2>3
  <1>11. ASSUME \A j \in linked : h.items[j].key # k PROVE FindImpl(h, k).item = 0
    BY <1>3, <1>4, <1>7, <1>11
  <1> QED BY <1>10, <1>11 DEF next

(* FindTail finds the last item of a chain. *)
LEMMA TailExact ==
  ASSUME NEW n \in Nat \ {0}, NEW h \in Table(n), NEW linked, NEW rank,
         Threaded(h, linked, rank), NEW b \in 0 .. n - 1
  PROVE  \/ FindTail(h, b) = 0 /\ \A j \in linked : BucketOf(h)[j] # b
         \/ /\ FindTail(h, b) \in linked /\ BucketOf(h)[FindTail(h, b)] = b
            /\ NextOf(h)[FindTail(h, b)] = 0
PROOF
  <1> DEFINE bucketOf == BucketOf(h)
             next     == NextOf(h)
             first    == h.buckets
             length   == Len(h.items)
             v        == Visit(h.items, h.buckets[b])
             stops    == {m \in DOMAIN v : v[m] = InvalidID}
             steps    == Min(stops)
             A(m, x)  == At(linked, bucketOf, rank, b, m, x)
  <1>1. /\ Chained(linked, bucketOf, next, first, rank) /\ linked \subseteq DOMAIN h.items
        /\ b \in DOMAIN first /\ length \in Nat /\ linked \subseteq 1 .. length
        /\ \A i \in linked : next[i] = h.items[i].next
    BY TableFacts DEF Threaded
  <1>2. DOMAIN v = 1 .. length + 1 /\ \A m \in 1 .. length + 1 : A(m, v[m])
    <2> HIDE DEF bucketOf, next, first
    <2>1. v = Visit(h.items, first[b])
      BY DEF first
    <2> HIDE DEF v
    <2> QED BY <1>1, <2>1, WalkExact
  <1>3. FindTail(h, b) = IF steps = 1 THEN 0 ELSE v[steps - 1]
    BY DEF FindTail, InvalidID
  <1> HIDE DEF bucketOf, next, first, v, A
  <1>4. /\ \A m \in 1 .. length + 1 :
             \/ v[m] = 0
             \/ v[m] \in linked /\ bucketOf[v[m]] = b /\ rank[v[m]] = m
        /\ \A i \in linked : rank[i] \in 1 .. length /\ i # 0
    <2>1. \A i \in linked : rank[i] <= length
      BY <1>1, RanksBounded
    <2> QED BY <1>1, <1>2, <2>1 DEF A, At, Chained
  <1>5. v[length + 1] = 0 /\ length + 1 \in 1 .. length + 1
    BY <1>1, <1>4
  <1>6. steps \in stops /\ \A m \in stops : steps <= m
    <2>1. stops \subseteq Nat /\ stops # {}
      BY <1>1, <1>2, <1>5 DEF InvalidID
    <2> HIDE DEF stops
    <2> QED BY <2>1, MinIsMember
  <1> HIDE DEF steps
  <1>7. /\ steps \in 1 .. length + 1 /\ v[steps] = 0
        /\ \A m \in 1 .. steps - 1 : v[m] # 0
    BY <1>1, <1>2, <1>6 DEF InvalidID
  <1> HIDE DEF stops, length
  <1>8. CASE steps = 1
    <2>1. A(1, 0)
      BY <1>2, <1>7, <1>8
    <2>2. \A j \in linked : bucketOf[j] = b => rank[j] < 1 /\ rank[j] \in 1 .. length
      BY <1>4, <2>1 DEF A, At
    <2>3. \A j \in linked : bucketOf[j] # b
      BY <1>1, <2>2
    <2> QED BY <1>3, <1>8, <2>3 DEF bucketOf
  <1>9. CASE steps # 1
    <2>1. steps - 1 \in 1 .. length + 1 /\ steps - 1 \in Nat \ {0} /\ steps - 1 \in 1 .. steps - 1
          /\ (steps - 1) + 1 = steps
      BY <1>1, <1>7, <1>9
    <2>2. A(steps - 1, v[steps - 1]) /\ v[steps - 1] # 0 /\ A(steps, 0)
      BY <1>2, <1>7, <2>1
    <2>3. /\ v[steps - 1] \in linked /\ bucketOf[v[steps - 1]] = b
          /\ next[v[steps - 1]] = 0
      <3>1. At(linked, bucketOf, rank, b, (steps - 1) + 1, 0)
        BY <2>1, <2>2 DEF A
      <3> QED BY <1>1, <2>1, <2>2, <3>1, WalkStops DEF A
    <2> QED BY <1>3, <1>9, <2>3 DEF bucketOf, next
  <1> QED BY <1>8, <1>9

-----------------------------------------------------------------------------
(* Links. *)

(* The items of g are those of h, except for the links of the linked ones. *)
SameItems(g, h, linked) ==
  /\ Len(g.items) = Len(h.items)
  /\ \A j \in 1 .. Len(h.items) :
       /\ g.items[j].key = h.items[j].key /\ g.items[j].value = h.items[j].value
       /\ j \notin linked => g.items[j].next = h.items[j].next

(* Link changes one link, of an item or of a bucket. *)
Relinked(g, h, b, prev, i) ==
  /\ \A j \in 1 .. Len(h.items) : NextOf(g)[j] = IF j = prev THEN i ELSE NextOf(h)[j]
  /\ \A c \in DOMAIN h.buckets : g.buckets[c] = IF prev = 0 /\ c = b THEN i ELSE h.buckets[c]

LEMMA LinkExact ==
  ASSUME NEW n \in Nat \ {0}, NEW h \in Table(n), NEW b \in 0 .. n - 1,
         NEW prev \in 0 .. Len(h.items), NEW i \in Nat
  PROVE  /\ Link(h, b, prev, i) \in Table(n)
         /\ SameItems(Link(h, b, prev, i), h, {prev})
         /\ Relinked(Link(h, b, prev, i), h, b, prev, i)
         /\ BucketOf(Link(h, b, prev, i)) = BucketOf(h)
PROOF
  <1> DEFINE g == Link(h, b, prev, i)
  <1>1. h.items \in Seq(Item) /\ h.buckets \in [0 .. n - 1 -> Nat]
        /\ h = [items |-> h.items, buckets |-> h.buckets]
    BY DEF Table
  <1>2. /\ Len(h.items) \in Nat /\ DOMAIN h.items = 1 .. Len(h.items)
        /\ BucketCount(h) = n /\ DOMAIN h.buckets = 0 .. n - 1
        /\ \A j \in 1 .. Len(h.items) :
             /\ h.items[j] \in Item /\ h.items[j].key \in Key
             /\ h.items[j].value \in Value /\ h.items[j].next \in Nat
             /\ NextOf(h)[j] = h.items[j].next
    BY TableFacts
  <1>3. CASE prev = 0
    <2>1. g = [h EXCEPT !.buckets[b] = i]
      BY <1>3 DEF Link, InvalidID
    <2>2. /\ g = [items |-> h.items, buckets |-> [h.buckets EXCEPT ![b] = i]]
      BY <1>1, <2>1
    <2>3. g.items = h.items /\ g.buckets = [h.buckets EXCEPT ![b] = i]
      BY <2>2
    <2>4. g.buckets \in [0 .. n - 1 -> Nat]
      BY <1>1, <2>3
    <2>5. g \in Table(n)
      BY <1>1, <2>2, <2>3, <2>4 DEF Table
    <2>6. BucketCount(g) = n
      BY <2>5, TableFacts
    <2>7. BucketOf(g) = BucketOf(h)
      BY <1>2, <2>3, <2>6 DEF BucketOf, Bucket
    <2>8. SameItems(g, h, {prev})
      BY <2>3 DEF SameItems
    <2>9. Relinked(g, h, b, prev, i)
      BY <1>1, <1>2, <1>3, <2>3 DEF Relinked, NextOf
    <2> QED BY <2>5, <2>7, <2>8, <2>9
  <1>4. CASE prev # 0
    <2> DEFINE changed == [h.items[prev] EXCEPT !.next = i]
    <2>0. prev \in 1 .. Len(h.items)
      BY <1>2, <1>4
    <2>1. g = [h EXCEPT !.items[prev].next = i]
      BY <1>4 DEF Link, InvalidID
    <2>2. g = [items |-> [h.items EXCEPT ![prev] = changed], buckets |-> h.buckets]
      BY <1>1, <2>1
    <2>3. g.items = [h.items EXCEPT ![prev] = changed] /\ g.buckets = h.buckets
      BY <2>2
    <2>4. /\ changed \in Item /\ changed.next = i
          /\ changed.key = h.items[prev].key /\ changed.value = h.items[prev].value
      BY <1>2, <2>0 DEF Item
    <2> HIDE DEF changed
    <2>5. g.items \in Seq(Item) /\ Len(g.items) = Len(h.items)
          /\ \A j \in 1 .. Len(h.items) : g.items[j] = IF j = prev THEN changed ELSE h.items[j]
      BY <1>1, <1>2, <2>0, <2>3, <2>4
    <2>6. g \in Table(n)
      BY <1>1, <2>2, <2>3, <2>5 DEF Table
    <2>7. BucketCount(g) = n /\ DOMAIN g.items = 1 .. Len(g.items)
      BY <2>6, TableFacts
    <2>8. \A j \in 1 .. Len(h.items) :
            /\ g.items[j].key = h.items[j].key /\ g.items[j].value = h.items[j].value
            /\ g.items[j].next = IF j = prev THEN i ELSE h.items[j].next
      BY <2>4, <2>5
    <2>9. BucketOf(g) = BucketOf(h)
      <3>1. DOMAIN g.items = DOMAIN h.items
        BY <1>2, <2>5, <2>7
      <3>2. \A j \in DOMAIN h.items : Bucket(g, g.items[j].key) = Bucket(h, h.items[j].key)
        BY <1>2, <2>7, <2>8 DEF Bucket
      <3> QED BY <3>1, <3>2 DEF BucketOf
    <2>10. SameItems(g, h, {prev})
      BY <2>5, <2>8 DEF SameItems
    <2>11. Relinked(g, h, b, prev, i)
      BY <1>2, <1>4, <2>3, <2>5, <2>7, <2>8 DEF Relinked, NextOf
    <2> QED BY <2>6, <2>9, <2>10, <2>11
  <1> QED BY <1>3, <1>4

(* An item without successor is linked behind the last one of its bucket. *)
LEMMA LinkLastExact ==
  ASSUME NEW n \in Nat \ {0}, NEW h \in Table(n), NEW linked, NEW rank,
         Threaded(h, linked, rank),
         NEW i \in 1 .. Len(h.items), i \notin linked, h.items[i].next = 0
  PROVE  /\ LinkLast(h, i) \in Table(n)
         /\ SameItems(LinkLast(h, i), h, linked)
         /\ \E newRank : Threaded(LinkLast(h, i), linked \union {i}, newRank)
PROOF
  <1> DEFINE b    == Bucket(h, h.items[i].key)
             tail == FindTail(h, b)
             g    == LinkLast(h, i)
             bucketOf == BucketOf(h)
             next     == NextOf(h)
             first    == h.buckets
             newNext  == NextOf(g)
             newFirst == g.buckets
  <1>1. /\ g = Link(h, b, tail, i)
        /\ linked \subseteq 1 .. Len(h.items) /\ Chained(linked, bucketOf, next, first, rank)
        /\ b \in 0 .. n - 1 /\ bucketOf[i] = b /\ DOMAIN first = 0 .. n - 1 /\ next[i] = 0
        /\ Len(h.items) \in Nat
    <2>1. g = Link(h, b, tail, i)
      BY DEF LinkLast
    <2>2. linked \subseteq DOMAIN h.items /\ Chained(linked, bucketOf, next, first, rank)
      BY DEF Threaded
    <2>3. /\ DOMAIN h.items = 1 .. Len(h.items) /\ DOMAIN first = 0 .. n - 1
          /\ h.items[i].key \in Key /\ next[i] = h.items[i].next /\ bucketOf[i] = b
          /\ bucketOf[i] \in 0 .. n - 1 /\ Len(h.items) \in Nat
      BY TableFacts
    <2> QED BY <2>1, <2>2, <2>3
  <1>2. \/ tail = 0 /\ \A j \in linked : bucketOf[j] # bucketOf[i]
        \/ tail \in linked /\ bucketOf[tail] = bucketOf[i] /\ next[tail] = 0
    BY <1>1, TailExact
  <1> HIDE DEF tail, b
  <1>3. tail \in 0 .. Len(h.items) /\ i \in Nat /\ (tail # 0 => tail \in linked)
    BY <1>1, <1>2
  <1>4. /\ g \in Table(n) /\ SameItems(g, h, {tail}) /\ Relinked(g, h, b, tail, i)
        /\ BucketOf(g) = bucketOf
    BY <1>1, <1>3, LinkExact
  <1> HIDE DEF g
  <1>5. SameItems(g, h, linked)
    BY <1>3, <1>4 DEF SameItems
  <1>6. /\ DOMAIN newFirst = DOMAIN first /\ DOMAIN g.items = 1 .. Len(h.items)
    BY <1>1, <1>4, TableFacts DEF SameItems
  <1>7. OneLink(linked \union {i}, next, first, bucketOf[i], tail, i, newNext, newFirst)
    BY <1>1, <1>3, <1>4, <1>6 DEF Relinked, OneLink
  <1> HIDE DEF bucketOf, next, first, newNext, newFirst
  <1>8. i # 0 /\ bucketOf[i] \in DOMAIN first
    BY <1>1
  <1>9. \E newRank : Chained(linked \union {i}, bucketOf, newNext, newFirst, newRank)
    BY <1>1, <1>2, <1>7, <1>8, PutLast
  <1>10. \E newRank : Threaded(g, linked \union {i}, newRank)
    BY <1>1, <1>4, <1>6, <1>9 DEF Threaded, bucketOf, newNext, newFirst
  <1> QED BY <1>4, <1>5, <1>10 DEF g

-----------------------------------------------------------------------------
(* Erasing. *)

(* Only the linked items' buckets and links matter. *)
LEMMA ChainedSame ==
  ASSUME NEW linked, NEW bucketOf, NEW next, NEW first, NEW rank,
         Chained(linked, bucketOf, next, first, rank), NEW newBucketOf, NEW newNext,
         \A j \in linked : newBucketOf[j] = bucketOf[j] /\ newNext[j] = next[j]
  PROVE  Chained(linked, newBucketOf, newNext, first, rank)
PROOF
  <1>1. \A b \in DOMAIN first :
          first[b] = 0 \/ (first[b] \in linked /\ newBucketOf[first[b]] = b /\ rank[first[b]] = 1)
    BY DEF Chained
  <1>2. \A i \in linked :
          newNext[i] = 0 \/ (/\ newNext[i] \in linked /\ newBucketOf[newNext[i]] = newBucketOf[i]
                             /\ rank[newNext[i]] = rank[i] + 1)
    BY DEF Chained
  <1>3. \A i \in linked : rank[i] # 1 => \E j \in linked : newNext[j] = i
    BY DEF Chained
  <1>4. /\ 0 \notin linked
        /\ \A i \in linked : rank[i] \in Nat \ {0} /\ newBucketOf[i] \in DOMAIN first
        /\ \A i \in linked : rank[i] = 1 => first[newBucketOf[i]] = i
        /\ \A i, j \in linked : newBucketOf[i] = newBucketOf[j] /\ rank[i] = rank[j] => i = j
    BY DEF Chained
  <1> QED BY <1>1, <1>2, <1>3, <1>4 DEF Chained

(* The table is in order: each key has one item, and all are in the chains. *)
Sound(h, n) ==
  /\ h \in Table(n) /\ KeysDiffer(h)
  /\ \E rank : Threaded(h, 1 .. Len(h.items), rank)

LEMMA MoveExact ==
  ASSUME NEW S, NEW items \in Seq(S), NEW i \in 1 .. Len(items)
  PROVE  /\ MoveToBackAndRemove(items, i) \in Seq(S)
         /\ Len(MoveToBackAndRemove(items, i)) = Len(items) - 1
         /\ \A j \in 1 .. Len(items) - 1 :
              MoveToBackAndRemove(items, i)[j] = IF j = i THEN items[Len(items)] ELSE items[j]
PROOF
  <1> DEFINE moved == [items EXCEPT ![i] = items[Len(items)]]
  <1>1. Len(items) \in Nat /\ items[Len(items)] \in S
    OBVIOUS
  <1>2. /\ moved \in Seq(S) /\ Len(moved) = Len(items)
        /\ \A j \in 1 .. Len(items) : moved[j] = IF j = i THEN items[Len(items)] ELSE items[j]
    BY <1>1
  <1>3. MoveToBackAndRemove(items, i) = SubSeq(moved, 1, Len(items) - 1)
    BY DEF MoveToBackAndRemove
  <1> HIDE DEF moved
  <1> QED BY <1>1, <1>2, <1>3

(* All but item i are in the chains of u. *)
Unlinked(u, h, n, i) ==
  /\ u \in Table(n) /\ SameItems(u, h, 1 .. Len(h.items))
  /\ \E rank : Threaded(u, 1 .. Len(h.items) \ {i}, rank)

(* The item of key k is taken out of its chain. *)
LEMMA UnlinkExact ==
  ASSUME NEW n \in Nat \ {0}, NEW h, Sound(h, n), NEW k \in Key,
         NEW i \in 1 .. Len(h.items), h.items[i].key = k
  PROVE  /\ FindImpl(h, k).item = i
         /\ Unlinked(Link(h, Bucket(h, k), FindImpl(h, k).prev,
                          h.items[FindImpl(h, k).item].next), h, n, i)
PROOF
  <1> DEFINE linked   == 1 .. Len(h.items)
             prev     == FindImpl(h, k).prev
             b        == Bucket(h, k)
             x        == h.items[i].next
             u        == Link(h, b, prev, x)
             bucketOf == BucketOf(h)
             next     == NextOf(h)
             first    == h.buckets
             newNext  == NextOf(u)
             newFirst == u.buckets
  <1>1. h \in Table(n) /\ KeysDiffer(h)
    BY DEF Sound
  <1>2. PICK rank : Threaded(h, linked, rank)
    BY DEF Sound
  <1>3. /\ Chained(linked, bucketOf, next, first, rank) /\ DOMAIN first = 0 .. n - 1
        /\ DOMAIN h.items = linked /\ Len(h.items) \in Nat
        /\ b \in 0 .. n - 1 /\ bucketOf[i] = b /\ next[i] = x /\ x \in Nat
    BY <1>1, <1>2, TableFacts DEF Threaded
  <1>4. \A j \in linked : h.items[j].key = k => j = i
    BY <1>1, <1>3 DEF KeysDiffer
  <1>5. FindImpl(h, k).item = i /\ LinkedFrom(linked, next, rank, i, prev)
    <2> HIDE DEF linked, next, prev
    <2>1. i \in linked
      BY DEF linked
    <2> QED BY <1>1, <1>2, <1>4, <2>1, FindExact DEF next, prev
  <1> HIDE DEF prev, b, x
  <1>6. prev \in 0 .. Len(h.items)
    BY <1>3, <1>5 DEF LinkedFrom
  <1>7. /\ u \in Table(n) /\ SameItems(u, h, {prev}) /\ Relinked(u, h, b, prev, x)
        /\ BucketOf(u) = bucketOf
    BY <1>1, <1>3, <1>6, LinkExact
  <1> HIDE DEF u
  <1>8. SameItems(u, h, linked)
    BY <1>7 DEF SameItems
  <1>9. DOMAIN newFirst = DOMAIN first /\ DOMAIN u.items = linked
    BY <1>3, <1>7, TableFacts DEF SameItems
  <1>10. OneLink(linked, next, first, bucketOf[i], prev, next[i], newNext, newFirst)
    BY <1>3, <1>7, <1>9 DEF Relinked, OneLink
  <1>11. i \in linked
    OBVIOUS
  <1> HIDE DEF linked, bucketOf, next, first, newNext, newFirst
  <1>12. PICK newRank : Chained(linked \ {i}, bucketOf, newNext, newFirst, newRank)
    BY <1>3, <1>5, <1>10, <1>11, TakeOut
  <1>13. Threaded(u, linked \ {i}, newRank)
    BY <1>7, <1>9, <1>12 DEF Threaded, bucketOf, newNext, newFirst
  <1> QED BY <1>5, <1>7, <1>8, <1>13 DEF Unlinked, u, x, b, prev, linked

(* Erase keeps the other items; the last one gets the place of the erased one. *)
LEMMA EraseExact ==
  ASSUME NEW n \in Nat \ {0}, NEW h, Sound(h, n), NEW k \in Key,
         NEW i \in 1 .. Len(h.items), h.items[i].key = k
  PROVE  /\ Sound(Erase(h, k), n)
         /\ Len(Erase(h, k).items) = Len(h.items) - 1
         /\ \A j \in 1 .. Len(h.items) - 1 :
              LET from == IF j = i THEN Len(h.items) ELSE j
              IN  /\ Erase(h, k).items[j].key = h.items[from].key
                  /\ Erase(h, k).items[j].value = h.items[from].value
PROOF
  <1> DEFINE length == Len(h.items)
             last   == h.items[length].key
             u      == Link(h, Bucket(h, k), FindImpl(h, k).prev, h.items[FindImpl(h, k).item].next)
             prev   == FindImpl(u, last).prev
             f      == IF i = length THEN u ELSE Link(u, Bucket(h, last), prev, i)
             g      == Erase(h, k)
             linked == 1 .. length \ {i}
  <1>1. h \in Table(n) /\ KeysDiffer(h)
    BY DEF Sound
  <1>2. /\ FindImpl(h, k).item = i
        /\ u \in Table(n) /\ SameItems(u, h, 1 .. length)
        /\ \E rank : Threaded(u, linked, rank)
    <2>1. FindImpl(h, k).item = i /\ Unlinked(u, h, n, i)
      BY UnlinkExact
    <2> HIDE DEF u
    <2> QED BY <2>1 DEF Unlinked
  <1>3. g = [f EXCEPT !.items = MoveToBackAndRemove(f.items, i)]
    BY <1>2 DEF Erase
  <1> HIDE DEF u
  <1>4. PICK rank : Threaded(u, linked, rank)
    BY <1>2
  <1>5. /\ length \in Nat \ {0} /\ length \in 1 .. length /\ DOMAIN h.items = 1 .. length
        /\ last \in Key /\ i \in Nat
        /\ Bucket(h, last) \in 0 .. n - 1
    BY <1>1, TableFacts
  <1>6. /\ Len(u.items) = length /\ DOMAIN u.items = 1 .. length
        /\ \A j \in 1 .. length : /\ u.items[j].key = h.items[j].key
                                  /\ u.items[j].value = h.items[j].value
    BY <1>2, TableFacts DEF SameItems
  <1>7. BucketCount(u) = n /\ BucketCount(h) = n
    BY <1>1, <1>2, TableFacts
  <1>8. /\ f \in Table(n) /\ Len(f.items) = length
        /\ \A j \in 1 .. length : /\ f.items[j].key = h.items[j].key
                                  /\ f.items[j].value = h.items[j].value
        /\ i # length =>
             /\ LinkedFrom(linked, NextOf(u), rank, length, prev)
             /\ Relinked(f, u, Bucket(h, last), prev, i)
        /\ i = length => f = u
    <2>1. CASE i = length
      BY <1>2, <1>6, <2>1
    <2>2. CASE i # length
      <3>1. length \in linked /\ \A j \in linked : u.items[j].key = last => j = length
        BY <1>1, <1>5, <1>6, <2>2 DEF KeysDiffer
      <3>2. u.items[length].key = last
        BY <1>5, <1>6
      <3> HIDE DEF linked, last, prev
      <3>3. LinkedFrom(linked, NextOf(u), rank, length, prev)
        BY <1>2, <1>4, <1>5, <3>1, <3>2, FindExact DEF prev
      <3>4. prev \in 0 .. length
        BY <1>5, <3>3 DEF LinkedFrom, linked
      <3>5. /\ f \in Table(n) /\ SameItems(f, u, {prev}) /\ Relinked(f, u, Bucket(h, last), prev, i)
        BY <1>2, <1>5, <1>6, <2>2, <3>4, LinkExact
      <3> HIDE DEF f
      <3>6. /\ Len(f.items) = length
            /\ \A j \in 1 .. length : /\ f.items[j].key = h.items[j].key
                                      /\ f.items[j].value = h.items[j].value
        BY <1>6, <3>5 DEF SameItems
      <3> QED BY <2>2, <3>3, <3>5, <3>6
    <2> QED BY <2>1, <2>2
  <1> HIDE DEF f, g, prev
  <1>9. f.items \in Seq(Item) /\ f.buckets \in [0 .. n - 1 -> Nat]
        /\ f = [items |-> f.items, buckets |-> f.buckets]
    BY <1>8 DEF Table
  <1>10. /\ MoveToBackAndRemove(f.items, i) \in Seq(Item)
         /\ Len(MoveToBackAndRemove(f.items, i)) = length - 1
         /\ \A j \in 1 .. length - 1 :
              MoveToBackAndRemove(f.items, i)[j] = IF j = i THEN f.items[length] ELSE f.items[j]
    <2>1. i \in 1 .. Len(f.items) /\ Len(f.items) = length
      BY <1>8
    <2> HIDE DEF length
    <2> QED BY <1>9, <2>1, MoveExact
  <1>11. /\ g.items = MoveToBackAndRemove(f.items, i) /\ g.buckets = f.buckets
         /\ g = [items |-> g.items, buckets |-> g.buckets]
    BY <1>3, <1>9
  <1>12. /\ g \in Table(n) /\ Len(g.items) = length - 1
         /\ \A j \in 1 .. length - 1 : g.items[j] = IF j = i THEN f.items[length] ELSE f.items[j]
    BY <1>9, <1>10, <1>11 DEF Table
  <1>13. \A j \in 1 .. length - 1 :
           /\ g.items[j].key = h.items[IF j = i THEN length ELSE j].key
           /\ g.items[j].value = h.items[IF j = i THEN length ELSE j].value
    <2> SUFFICES ASSUME NEW j \in 1 .. length - 1
                 PROVE  /\ g.items[j].key = h.items[IF j = i THEN length ELSE j].key
                        /\ g.items[j].value = h.items[IF j = i THEN length ELSE j].value
      OBVIOUS
    <2>1. j \in 1 .. length /\ g.items[j] = IF j = i THEN f.items[length] ELSE f.items[j]
      BY <1>5, <1>12
    <2> HIDE DEF length
    <2> QED BY <1>5, <1>8, <2>1
  <1>14. /\ BucketCount(f) = n /\ BucketCount(g) = n
         /\ DOMAIN f.items = 1 .. length /\ DOMAIN g.items = 1 .. length - 1
         /\ DOMAIN f.buckets = 0 .. n - 1 /\ DOMAIN u.buckets = 0 .. n - 1
    BY <1>2, <1>8, <1>12, TableFacts
  <1>15. KeysDiffer(g)
    <2> SUFFICES ASSUME NEW j \in 1 .. length - 1, NEW m \in 1 .. length - 1,
                        g.items[j].key = g.items[m].key
                 PROVE  j = m
      BY <1>14 DEF KeysDiffer
    <2> DEFINE From(x) == IF x = i THEN length ELSE x
    <2>1. From(j) \in 1 .. length /\ From(m) \in 1 .. length
      BY <1>5
    <2>2. From(j) = From(m)
      BY <1>1, <1>5, <1>13, <2>1 DEF KeysDiffer
    <2> QED BY <1>5, <2>2
  <1>16. \A j \in 1 .. length - 1 :
           /\ BucketOf(g)[j] = Bucket(h, h.items[IF j = i THEN length ELSE j].key)
           /\ NextOf(g)[j] = NextOf(f)[IF j = i THEN length ELSE j]
    <2> SUFFICES ASSUME NEW j \in 1 .. length - 1
                 PROVE  /\ BucketOf(g)[j] = Bucket(h, h.items[IF j = i THEN length ELSE j].key)
                        /\ NextOf(g)[j] = NextOf(f)[IF j = i THEN length ELSE j]
      OBVIOUS
    <2>1. j \in 1 .. length /\ g.items[j] = IF j = i THEN f.items[length] ELSE f.items[j]
      BY <1>5, <1>12
    <2>2. g.items[j].key = h.items[IF j = i THEN length ELSE j].key
      BY <1>13
    <2> HIDE DEF length
    <2>3. BucketOf(g)[j] = Bucket(h, h.items[IF j = i THEN length ELSE j].key)
      BY <1>7, <1>14, <2>2 DEF BucketOf, Bucket
    <2>4. NextOf(g)[j] = NextOf(f)[IF j = i THEN length ELSE j]
      BY <1>5, <1>14, <2>1 DEF NextOf
    <2> QED BY <2>3, <2>4
  <1>17. \A j \in 1 .. length : BucketOf(u)[j] = Bucket(h, h.items[j].key)
    BY <1>6, <1>7 DEF BucketOf, Bucket
  <1>18. Chained(linked, BucketOf(u), NextOf(u), u.buckets, rank)
    BY <1>4 DEF Threaded
  <1> DEFINE bucketOf == BucketOf(u)
             next     == NextOf(u)
             first    == u.buckets
             newBucketOf == BucketOf(g)
             newNext  == NextOf(g)
             newFirst == g.buckets
  <1>19. CASE i = length
    <2>1. linked = 1 .. length - 1 /\ newFirst = first
      BY <1>5, <1>8, <1>11, <1>19
    <2>2. \A j \in linked : newBucketOf[j] = bucketOf[j] /\ newNext[j] = next[j]
      BY <1>5, <1>8, <1>16, <1>17, <1>19, <2>1
    <2> HIDE DEF linked, bucketOf, next, first, newBucketOf, newNext, newFirst
    <2>3. Chained(linked, bucketOf, next, first, rank)
      BY <1>18 DEF bucketOf, next, first
    <2>4. Chained(linked, newBucketOf, newNext, first, rank)
      BY <2>2, <2>3, ChainedSame
    <2>5. Threaded(g, linked, rank)
      BY <1>14, <2>1, <2>4 DEF Threaded, newBucketOf, newNext, newFirst
    <2> QED BY <1>12, <1>13, <1>15, <2>1, <2>5 DEF Sound, g
  <1>20. CASE i # length
    <2>1. /\ length \in linked /\ i \notin linked /\ i # 0 /\ i \in 1 .. length - 1
          /\ \A j \in linked \ {length} : j \in 1 .. length - 1 /\ j # i
          /\ (linked \ {length}) \union {i} = 1 .. length - 1
      BY <1>5, <1>20
    <2>2. /\ \A j \in linked \ {length} : newBucketOf[j] = bucketOf[j]
          /\ newBucketOf[i] = bucketOf[length]
      BY <1>5, <1>16, <1>17, <2>1
    <2>3. /\ \A j \in 1 .. length : NextOf(f)[j] = IF j = prev THEN i ELSE next[j]
          /\ \A c \in 0 .. n - 1 : newFirst[c] = IF prev = 0 /\ c = Bucket(h, last) THEN i ELSE first[c]
      BY <1>6, <1>8, <1>11, <1>14, <1>20 DEF Relinked
    <2>4. bucketOf[length] = Bucket(h, last) /\ LinkedFrom(linked, next, rank, length, prev)
      BY <1>5, <1>8, <1>17, <1>20
    <2>5. prev # length
      <3>1. Chained(linked, bucketOf, next, first, rank)
        BY <1>18
      <3> HIDE DEF bucketOf, next, first, linked
      <3> QED BY <1>5, <2>1, <2>4, <3>1 DEF LinkedFrom, Chained
    <2>6. newNext[i] = next[length]
      BY <1>5, <1>16, <2>1, <2>3, <2>5
    <2>7. OneLink(linked \ {length}, next, first, bucketOf[length], prev, i, newNext, newFirst)
      BY <1>5, <1>11, <1>14, <1>16, <2>1, <2>3, <2>4 DEF OneLink
    <2> HIDE DEF linked, bucketOf, next, first, newBucketOf, newNext, newFirst, length
    <2>8. Chained(linked, bucketOf, next, first, rank)
      BY <1>18 DEF bucketOf, next, first
    <2>9. PICK newRank : Chained((linked \ {length}) \union {i}, newBucketOf, newNext, newFirst, newRank)
      BY <2>1, <2>2, <2>4, <2>6, <2>7, <2>8, Renamed
    <2>10. Threaded(g, 1 .. length - 1, newRank)
      BY <1>14, <2>1, <2>9 DEF Threaded, newBucketOf, newNext, newFirst
    <2> QED BY <1>12, <1>13, <1>15, <2>10 DEF Sound, g, length
  <1> QED BY <1>19, <1>20

-----------------------------------------------------------------------------
(* Powers of two. *)

(* The sequence of all powers, which the model enumerates up to a bound. *)
Doubling(power) == power[0] = 1 /\ \A e \in Nat \ {0} : power[e] = 2 * power[e - 1]

LEMMA PowersDouble ==
  \E power : Doubling(power) /\ \A n \in Nat : PowersOf2(n) = {power[e] : e \in 0 .. n}
PROOF
  <1> DEFINE Solves(f, n) == f = [e \in 0 .. n |-> IF e = 0 THEN 1 ELSE 2 * f[e - 1]]
             upTo(n)  == CHOOSE f : Solves(f, n)
             power    == [e \in Nat |-> upTo(e)[e]]
  <1>1. ASSUME NEW n \in Nat PROVE Solves(upTo(n), n)
    <2> DEFINE g == [m \in 1 .. n |-> [x \in Nat |-> 2 * x]]
               T == [m \in 0 .. n |-> Nat]
    <2>1. PICK f : Recursion(f, n, 1, g)
      <3> HIDE DEF g
      <3> QED BY RecursionExists
    <2>2. PICK values : f \in [0 .. n -> values]
      BY <2>1 DEF Recursion
    <2>3. f[0] = 1 /\ \A m \in 1 .. n : f[m] = g[m][f[m - 1]]
      BY <2>1 DEF Recursion
    <2>4. \A m \in 0 .. n : f[m] \in T[m]
      <3>1. f[0] \in T[0]
        BY <2>3
      <3>2. \A m \in 1 .. n : \A x \in T[m - 1] : g[m][x] \in T[m]
        OBVIOUS
      <3> HIDE DEF g, T
      <3> QED BY <2>3, <3>1, <3>2, RecursionStays
    <2>5. \A e \in 0 .. n : f[e] = IF e = 0 THEN 1 ELSE 2 * f[e - 1]
      <3> SUFFICES ASSUME NEW e \in 1 .. n PROVE f[e] = 2 * f[e - 1]
        BY <2>3
      <3>1. e - 1 \in 0 .. n
        OBVIOUS
      <3>2. f[e - 1] \in Nat
        BY <2>4, <3>1
      <3>3. g[e][f[e - 1]] = 2 * f[e - 1]
        BY <3>2
      <3> QED BY <2>3, <3>3
    <2>6. Solves(f, n)
      BY <2>2, <2>5
    <2> HIDE DEF Solves
    <2> QED BY <2>6
  <1> HIDE DEF upTo
  <1>2. ASSUME NEW n \in Nat
        PROVE  /\ upTo(n)[0] = 1 /\ \A e \in 1 .. n : upTo(n)[e] = 2 * upTo(n)[e - 1]
               /\ DOMAIN upTo(n) = 0 .. n
    BY <1>1
  <1>3. ASSUME NEW n \in Nat PROVE \A e \in 0 .. n : upTo(n)[e] = upTo(e)[e]
    <2> DEFINE Bad == {e \in 0 .. n : ~ \A m \in Nat : m >= e => upTo(m)[e] = upTo(e)[e]}
    <2>1. Bad = {}
      <3> SUFFICES ASSUME Bad # {} PROVE FALSE
        OBVIOUS
      <3>1. PICK e \in Bad : \A d \in Bad : e <= d
        <4>1. Bad \subseteq Nat
          OBVIOUS
        <4> HIDE DEF Bad
        <4> QED BY <4>1, Smallest
      <3>2. PICK m \in Nat : m >= e /\ upTo(m)[e] # upTo(e)[e]
        BY <3>1
      <3>3. e # 0
        BY <1>2, <3>2
      <3>4. e \in Nat /\ e \in 1 .. e /\ e \in 1 .. m /\ e - 1 \in 0 .. n /\ m >= e - 1 /\ e >= e - 1 /\ ~ (e <= e - 1)
        BY <3>1, <3>2, <3>3
      <3>5. upTo(m)[e - 1] = upTo(e - 1)[e - 1] /\ upTo(e)[e - 1] = upTo(e - 1)[e - 1]
        BY <3>1, <3>4
      <3>6. upTo(m)[e] = 2 * upTo(m)[e - 1] /\ upTo(e)[e] = 2 * upTo(e)[e - 1]
        BY <1>2, <3>4
      <3> QED BY <3>2, <3>5, <3>6
    <2> QED BY <2>1
  <1>4. Doubling(power)
    <2>1. power[0] = 1
      BY <1>2
    <2>2. ASSUME NEW e \in Nat \ {0} PROVE power[e] = 2 * power[e - 1]
      <3>1. e - 1 \in Nat /\ e - 1 \in 0 .. e /\ e \in 1 .. e
        OBVIOUS
      <3>2. power[e] = 2 * upTo(e)[e - 1]
        BY <1>2, <3>1
      <3>3. upTo(e)[e - 1] = upTo(e - 1)[e - 1]
        BY <1>3, <3>1
      <3> QED BY <3>1, <3>2, <3>3
    <2> HIDE DEF power
    <2> QED BY <2>1, <2>2 DEF Doubling
  <1>5. ASSUME NEW n \in Nat PROVE PowersOf2(n) = {power[e] : e \in 0 .. n}
    <2>1. PowersOf2(n) = {upTo(n)[e] : e \in 0 .. n}
      BY DEF PowersOf2, upTo
    <2>2. \A e \in 0 .. n : upTo(n)[e] = power[e]
      BY <1>3
    <2> HIDE DEF power
    <2> QED BY <2>1, <2>2
  <1> HIDE DEF power
  <1> QED BY <1>4, <1>5

IsPowerOf2(p) == p \in Nat \ {0} /\ p \in PowersOf2(p)

(* A power of two is one, two or four times a number. *)
LEMMA PowerFacts ==
  ASSUME NEW n \in Nat
  PROVE  /\ \A p \in PowersOf2(n) : IsPowerOf2(p)
         /\ \A p \in PowersOf2(n) : p < 4 \/ \E q \in Nat : p = 4 * q
         /\ \E p \in PowersOf2(n) : p >= n
         /\ IsPowerOf2(4) /\ IsPowerOf2(8) /\ IsPowerOf2(16)
PROOF
  <1>1. PICK power : Doubling(power) /\ \A m \in Nat : PowersOf2(m) = {power[e] : e \in 0 .. m}
    BY PowersDouble
  <1> DEFINE Good(e) == /\ power[e] \in Nat /\ power[e] >= e + 1
                        /\ power[e] < 4 \/ \E q \in Nat : power[e] = 4 * q
             Bad == {e \in Nat : ~ Good(e)}
  <1>2. power[0] = 1 /\ power[1] = 2 /\ power[2] = 4 /\ power[3] = 8 /\ power[4] = 16
    <2>1. \A e \in Nat \ {0} : power[e] = 2 * power[e - 1]
      BY <1>1 DEF Doubling
    <2>2. power[0] = 1
      BY <1>1 DEF Doubling
    <2>3. power[1] = 2 * power[0]
      BY <2>1, 1 - 1 = 0
    <2>4. power[2] = 2 * power[1]
      BY <2>1, 2 - 1 = 1
    <2>5. power[3] = 2 * power[2]
      BY <2>1, 3 - 1 = 2
    <2>6. power[4] = 2 * power[3]
      BY <2>1, 4 - 1 = 3
    <2> QED BY <2>2, <2>3, <2>4, <2>5, <2>6
  <1>3. Good(0) /\ Good(1)
    BY <1>2
  <1>4. Bad = {}
    <2> SUFFICES ASSUME Bad # {} PROVE FALSE
      OBVIOUS
    <2>1. PICK e \in Bad : \A d \in Bad : e <= d
      <3>1. Bad \subseteq Nat
        OBVIOUS
      <3> HIDE DEF Bad
      <3> QED BY <3>1, Smallest
    <2>2. e \in Nat /\ e # 0 /\ e # 1
      BY <1>3, <2>1
    <2>3. e - 1 \in Nat /\ ~ (e <= e - 1) /\ power[e] = 2 * power[e - 1]
      BY <1>1, <2>2 DEF Doubling
    <2>4. Good(e - 1)
      BY <2>1, <2>3
    <2>5. power[e] \in Nat /\ power[e] >= e + 1
      BY <2>2, <2>3, <2>4
    <2>6. CASE e = 2
      BY <1>2, <2>1, <2>6
    <2>7. CASE e # 2
      <3>1. e - 2 \in Nat /\ e - 1 \in Nat \ {0} /\ ~ (e <= e - 2) /\ (e - 1) - 1 = e - 2
        BY <2>2, <2>7
      <3>2. power[e - 1] = 2 * power[e - 2] /\ Good(e - 2)
        <4>1. power[e - 1] = 2 * power[(e - 1) - 1]
          BY <1>1, <3>1 DEF Doubling
        <4> QED BY <2>1, <3>1, <4>1
      <3>3. power[e] = 4 * power[e - 2] /\ power[e - 2] \in Nat
        BY <2>3, <3>2
      <3> QED BY <2>1, <2>5, <3>3
    <2> QED BY <2>6, <2>7
  <1>5. \A e \in Nat : Good(e)
    BY <1>4
  <1> HIDE DEF Good
  <1>6. \A e \in Nat : power[e] \in Nat /\ power[e] >= e + 1
    BY <1>5 DEF Good
  <1>7. \A e \in Nat : IsPowerOf2(power[e])
    <2> SUFFICES ASSUME NEW e \in Nat PROVE IsPowerOf2(power[e])
      OBVIOUS
    <2>1. power[e] \in Nat \ {0} /\ e \in 0 .. power[e]
      BY <1>6
    <2> QED BY <1>1, <2>1 DEF IsPowerOf2
  <1>8. PowersOf2(n) = {power[e] : e \in 0 .. n}
    BY <1>1
  <1>9. \A p \in PowersOf2(n) : p < 4 \/ \E q \in Nat : p = 4 * q
    BY <1>5, <1>8 DEF Good
  <1>10. power[n] \in PowersOf2(n) /\ power[n] >= n
    <2>1. n \in 0 .. n /\ power[n] >= n
      BY <1>6
    <2> QED BY <1>8, <2>1
  <1>11. IsPowerOf2(4) /\ IsPowerOf2(8) /\ IsPowerOf2(16)
    BY <1>2, <1>7
  <1> QED BY <1>7, <1>8, <1>9, <1>10, <1>11

(* The numbers of buckets a table can get. *)
LEMMA BucketFacts ==
  ASSUME NEW n \in Nat
  PROVE  /\ IsPowerOf2(NextPowerOf2(n)) /\ NextPowerOf2(n) >= n
         /\ IsPowerOf2(MinBuckets)
         /\ ComputeNumBuckets(n) \in Nat /\ ComputeNumBuckets(n) >= n
         /\ \E q \in Nat : ComputeNumBuckets(n) = 4 * q
         /\ NextPowerOf2(ComputeNumBuckets(n)) >= ComputeNumBuckets(n)
PROOF
  <1>1. ASSUME NEW m \in Nat
        PROVE  /\ IsPowerOf2(NextPowerOf2(m)) /\ NextPowerOf2(m) >= m
               /\ NextPowerOf2(m) < 4 \/ \E q \in Nat : NextPowerOf2(m) = 4 * q
    <2> DEFINE S == {p \in PowersOf2(m) : p >= m}
    <2>1. S \subseteq Nat /\ S # {}
      BY PowerFacts DEF IsPowerOf2
    <2>2. NextPowerOf2(m) = Min(S)
      BY DEF NextPowerOf2
    <2>3. NextPowerOf2(m) \in S
      <3> HIDE DEF S
      <3> QED BY <2>1, <2>2, MinIsMember
    <2> QED BY <2>3, PowerFacts
  <1>2. MinBuckets \in {4, 8, 16} /\ IsPowerOf2(MinBuckets)
    BY PowerFacts, HashAssumption DEF HashAssumption
  <1> DEFINE a == NextPowerOf2(n)
             c == ComputeNumBuckets(n)
  <1>3. a \in Nat /\ a >= n /\ IsPowerOf2(a) /\ (a < 4 \/ \E q \in Nat : a = 4 * q)
    BY <1>1 DEF IsPowerOf2
  <1>4. \/ c = a /\ a >= MinBuckets
        \/ c = MinBuckets /\ MinBuckets >= a
    <2>1. c = Max({a, MinBuckets})
      BY DEF ComputeNumBuckets
    <2> HIDE DEF a, c
    <2>2. a >= MinBuckets \/ MinBuckets >= a
      BY <1>2, <1>3
    <2>3. \E x \in {a, MinBuckets} : \A y \in {a, MinBuckets} : x >= y
      BY <1>2, <1>3, <2>2
    <2>4. Max({a, MinBuckets}) \in {a, MinBuckets} /\ \A y \in {a, MinBuckets} : Max({a, MinBuckets}) >= y
      BY <2>3 DEF Max
    <2> QED BY <2>1, <2>4
  <1> HIDE DEF a, c
  <1>5. c \in Nat /\ c >= n
    BY <1>2, <1>3, <1>4
  <1>6. \E q \in Nat : c = 4 * q
    <2>1. MinBuckets = 4 * 1 \/ MinBuckets = 4 * 2 \/ MinBuckets = 4 * 4
      BY <1>2
    <2>2. CASE c = MinBuckets
      BY <2>1, <2>2
    <2>3. CASE c = a /\ a >= MinBuckets
      <3>1. ~ (a < 4)
        BY <1>2, <1>3, <2>3
      <3> QED BY <1>3, <2>3, <3>1
    <2> QED BY <1>4, <2>2, <2>3
  <1> QED BY <1>1, <1>2, <1>3, <1>5, <1>6 DEF a, c

-----------------------------------------------------------------------------
(* Rehashing. *)

(* The items of h with their first m items in the chains of g. *)
Partly(g, h, m) ==
  /\ SameItems(g, h, 1 .. Len(h.items))
  /\ \E rank : Threaded(g, 1 .. m, rank)
  /\ \A j \in 1 .. Len(h.items) : j > m => g.items[j].next = 0

LEMMA RelinkStep ==
  ASSUME NEW n \in Nat \ {0}, NEW h, Len(h.items) \in Nat, NEW g \in Table(n),
         NEW m \in 1 .. Len(h.items), Partly(g, h, m - 1)
  PROVE  LinkLast(g, m) \in Table(n) /\ Partly(LinkLast(g, m), h, m)
PROOF
  <1> DEFINE linked == 1 .. m - 1
             u == LinkLast(g, m)
  <1>1. PICK rank : Threaded(g, linked, rank)
    BY DEF Partly
  <1>2. /\ Len(g.items) = Len(h.items) /\ m \in 1 .. Len(g.items) /\ m \notin linked
        /\ g.items[m].next = 0
    BY DEF Partly, SameItems
  <1>3. linked \union {m} = 1 .. m
    OBVIOUS
  <1> HIDE DEF linked
  <1>4. u \in Table(n) /\ SameItems(u, g, linked) /\ \E newRank : Threaded(u, linked \union {m}, newRank)
    BY <1>1, <1>2, LinkLastExact
  <1> HIDE DEF u
  <1>5. SameItems(u, h, 1 .. Len(h.items))
    BY <1>4 DEF Partly, SameItems
  <1>6. \A j \in 1 .. Len(h.items) : j > m => u.items[j].next = 0
    BY <1>2, <1>4 DEF Partly, SameItems, linked
  <1> QED BY <1>3, <1>4, <1>5, <1>6 DEF Partly, u

LEMMA RehashExact ==
  ASSUME NEW k \in Nat \ {0}, NEW h \in Table(k), KeysDiffer(h), NEW n \in Nat
  PROVE  /\ Sound(Rehash(h, n), NextPowerOf2(n))
         /\ SameItems(Rehash(h, n), h, 1 .. Len(h.items))
PROOF
  <1> DEFINE size   == NextPowerOf2(n)
             length == Len(h.items)
             empty  == [items   |-> [i \in DOMAIN h.items |-> [h.items[i] EXCEPT !.next = InvalidID]],
                        buckets |-> [b \in 0 .. size - 1 |-> InvalidID]]
             T      == [m \in 0 .. length |-> {g \in Table(size) : Partly(g, h, m)}]
             G      == [m \in 1 .. length |-> [g \in T[m - 1] |-> LinkLast(g, m)]]
             Solves(r) == r = [i \in 0 .. length |-> IF i = 0 THEN empty ELSE LinkLast(r[i - 1], i)]
             relinked == CHOOSE r : Solves(r)
  <1>1. Rehash(h, n) = relinked[length]
    BY DEF Rehash
  <1>2. /\ length \in Nat /\ DOMAIN h.items = 1 .. length
        /\ \A i \in 1 .. length : /\ h.items[i] \in Item /\ h.items[i].key \in Key
                                  /\ h.items[i].value \in Value
    BY TableFacts
  <1>3. size \in Nat \ {0}
    BY BucketFacts DEF IsPowerOf2
  <1> HIDE DEF size
  <1>4. empty \in Table(size) /\ Partly(empty, h, 0)
    <2>1. /\ empty.items = [i \in 1 .. length |-> [h.items[i] EXCEPT !.next = 0]]
          /\ empty.buckets = [b \in 0 .. size - 1 |-> 0]
          /\ empty = [items |-> empty.items, buckets |-> empty.buckets]
      BY <1>2 DEF InvalidID
    <2> HIDE DEF empty
    <2>0. \A x \in Item : LET y == [x EXCEPT !.next = 0]
                           IN  y \in Item /\ y.next = 0 /\ y.key = x.key /\ y.value = x.value
      BY DEF Item
    <2>2. \A i \in 1 .. length :
            /\ empty.items[i] \in Item /\ empty.items[i].next = 0
            /\ empty.items[i].key = h.items[i].key /\ empty.items[i].value = h.items[i].value
      BY <1>2, <2>0, <2>1
    <2>3. empty.items \in Seq(Item) /\ Len(empty.items) = length
      <3>1. empty.items \in [1 .. length -> Item]
        BY <2>1, <2>2
      <3> HIDE DEF length
      <3> QED BY <1>2, <3>1
    <2>4. empty \in Table(size)
      <3>1. empty.buckets \in [0 .. size - 1 -> Nat]
        BY <2>1
      <3> QED BY <2>1, <2>3, <3>1 DEF Table
    <2>5. SameItems(empty, h, 1 .. length)
      BY <2>2, <2>3 DEF SameItems
    <2>6. Threaded(empty, 1 .. 0, <<>>)
      <3>1. 1 .. 0 = {} /\ \A b \in DOMAIN empty.buckets : empty.buckets[b] = 0
        BY <2>1
      <3>2. Chained({}, BucketOf(empty), NextOf(empty), empty.buckets, <<>>)
        BY <3>1 DEF Chained
      <3> QED BY <3>1, <3>2 DEF Threaded
    <2> QED BY <2>2, <2>4, <2>5, <2>6 DEF Partly
  <1> HIDE DEF empty
  <1>5. ASSUME NEW m \in 1 .. length, NEW g \in T[m - 1]
        PROVE  LinkLast(g, m) \in T[m] /\ G[m][g] = LinkLast(g, m)
    <2>1. m - 1 \in 0 .. length /\ m \in 0 .. length
      BY <1>2
    <2>2. g \in Table(size) /\ Partly(g, h, m - 1)
      BY <2>1
    <2>3. LinkLast(g, m) \in Table(size) /\ Partly(LinkLast(g, m), h, m)
      BY <1>2, <1>3, <2>2, RelinkStep
    <2>4. G[m] = [x \in T[m - 1] |-> LinkLast(x, m)]
      OBVIOUS
    <2> QED BY <2>1, <2>3, <2>4
  <1>6. empty \in T[0]
    BY <1>2, <1>4
  <1>7. T[length] = {g \in Table(size) : Partly(g, h, length)}
    BY <1>2
  <1> HIDE DEF T, G
  <1>8. PICK f : Recursion(f, length, empty, G)
    BY <1>2, RecursionExists
  <1>9. Solves(f)
    <2>1. PICK values : f \in [0 .. length -> values]
      BY <1>8 DEF Recursion
    <2>2. f[0] = empty /\ \A m \in 1 .. length : f[m] = G[m][f[m - 1]]
      BY <1>8 DEF Recursion
    <2>3. \A m \in 0 .. length : f[m] \in T[m]
      <3>1. \A m \in 1 .. length : \A x \in T[m - 1] : G[m][x] \in T[m]
        BY <1>5
      <3> HIDE DEF length
      <3> QED BY <1>2, <1>6, <2>2, <3>1, RecursionStays
    <2>4. \A m \in 0 .. length : f[m] = IF m = 0 THEN empty ELSE LinkLast(f[m - 1], m)
      <3> SUFFICES ASSUME NEW m \in 1 .. length PROVE f[m] = LinkLast(f[m - 1], m)
        BY <1>2, <2>2
      <3>1. m - 1 \in 0 .. length
        BY <1>2
      <3> QED BY <1>5, <2>2, <2>3, <3>1
    <2> QED BY <2>1, <2>4
  <1>10. Solves(relinked)
    <2> HIDE DEF Solves
    <2> QED BY <1>9
  <1>11. relinked[0] = empty /\ \A m \in 1 .. length : relinked[m] = LinkLast(relinked[m - 1], m)
    <2> HIDE DEF relinked
    <2>1. \A i \in 0 .. length :
            relinked[i] = IF i = 0 THEN empty ELSE LinkLast(relinked[i - 1], i)
      BY <1>10
    <2> HIDE DEF length
    <2> QED BY <1>2, <2>1
  <1> HIDE DEF relinked
  <1>12. \A m \in 0 .. length : relinked[m] \in T[m]
    <2> DEFINE Bad == {m \in 0 .. length : relinked[m] \notin T[m]}
    <2> SUFFICES ASSUME Bad # {} PROVE FALSE
      OBVIOUS
    <2>1. PICK m \in Bad : \A j \in Bad : m <= j
      <3>1. Bad \subseteq Nat
        OBVIOUS
      <3> HIDE DEF Bad
      <3> QED BY <3>1, Smallest
    <2>2. m \in 1 .. length /\ m - 1 \in 0 .. length /\ ~ (m <= m - 1)
      BY <1>2, <1>6, <1>11, <2>1
    <2>3. relinked[m - 1] \in T[m - 1]
      BY <2>1, <2>2
    <2> QED BY <1>5, <1>11, <2>1, <2>2, <2>3
  <1> DEFINE result == relinked[length]
  <1>13. result \in Table(size) /\ Partly(result, h, length)
    BY <1>2, <1>7, <1>12
  <1> HIDE DEF result
  <1>14. Len(result.items) = length /\ DOMAIN result.items = 1 .. length
    BY <1>3, <1>13, TableFacts DEF Partly, SameItems
  <1>15. KeysDiffer(result)
    BY <1>2, <1>13, <1>14 DEF Partly, SameItems, KeysDiffer
  <1>16. Sound(result, size)
    BY <1>13, <1>14, <1>15 DEF Sound, Partly
  <1> QED BY <1>1, <1>13, <1>16 DEF result, size, Partly

(***************************************************************************)
(* Insert puts a new item behind the others, and rehashes only when there  *)
(* are more items than three quarters of the buckets.                      *)
(***************************************************************************)
LEMMA InsertExact ==
  ASSUME NEW n, IsPowerOf2(n), NEW h, Sound(h, n), NEW k \in Key, NEW v \in Value,
         \A i \in 1 .. Len(h.items) : h.items[i].key # k
  PROVE  /\ \E m : /\ IsPowerOf2(m) /\ Sound(Insert(h, k, v), m) /\ m >= n
                   /\ 4 * (Len(h.items) + 1) <= 3 * n => m = n
         /\ Len(Insert(h, k, v).items) = Len(h.items) + 1
         /\ \A j \in 1 .. Len(h.items) : /\ Insert(h, k, v).items[j].key = h.items[j].key
                                         /\ Insert(h, k, v).items[j].value = h.items[j].value
         /\ Insert(h, k, v).items[Len(h.items) + 1].key = k
         /\ Insert(h, k, v).items[Len(h.items) + 1].value = v
PROOF
  <1> DEFINE item   == [key |-> k, value |-> v, next |-> InvalidID]
             added  == [h EXCEPT !.items = Append(h.items, item)]
             length == Len(h.items)
             size   == Len(added.items)
             g      == Insert(h, k, v)
  <1>1. n \in Nat \ {0} /\ h \in Table(n) /\ KeysDiffer(h)
    BY DEF IsPowerOf2, Sound
  <1>2. h.items \in Seq(Item) /\ h.buckets \in [0 .. n - 1 -> Nat]
        /\ h = [items |-> h.items, buckets |-> h.buckets]
    BY <1>1 DEF Table
  <1>3. length \in Nat /\ DOMAIN h.items = 1 .. length /\ BucketCount(h) = n
    BY <1>1, TableFacts
  <1>4. item \in Item /\ item.key = k /\ item.value = v /\ item.next = 0
    BY DEF Item, InvalidID
  <1>5. g = IF 4 * size > 3 * BucketCount(added) THEN Rehash(added, 2 * BucketCount(h))
            ELSE LinkLast(added, size)
    <2>1. BucketCount(added) = BucketCount(h)
      BY <1>2 DEF BucketCount
    <2> QED BY <2>1 DEF Insert
  <1> HIDE DEF item
  <1>6. added.items = Append(h.items, item) /\ added.buckets = h.buckets
        /\ added = [items |-> added.items, buckets |-> added.buckets]
    <2> DEFINE longer == Append(h.items, item)
    <2>1. [h EXCEPT !.items = longer] = [items |-> longer, buckets |-> h.buckets]
      <3> HIDE DEF longer
      <3> QED BY <1>2
    <2>2. added = [h EXCEPT !.items = longer]
      OBVIOUS
    <2> HIDE DEF added, longer
    <2>3. added.items = longer /\ added.buckets = h.buckets
          /\ added = [items |-> added.items, buckets |-> added.buckets]
      BY <2>1, <2>2
    <2> QED BY <2>3 DEF longer
  <1> HIDE DEF added, g
  <1>7. /\ added.items \in Seq(Item) /\ size = length + 1
        /\ \A j \in 1 .. length : added.items[j] = h.items[j]
        /\ added.items[length + 1] = item
    BY <1>2, <1>3, <1>4, <1>6
  <1>8. added \in Table(n)
    BY <1>2, <1>6, <1>7 DEF Table
  <1>9. DOMAIN added.items = 1 .. length + 1 /\ BucketCount(added) = n
    BY <1>1, <1>7, <1>8, TableFacts
  <1>10. KeysDiffer(added)
    <2> SUFFICES ASSUME NEW i \in 1 .. length + 1, NEW j \in 1 .. length + 1,
                        added.items[i].key = added.items[j].key
                 PROVE  i = j
      BY <1>9 DEF KeysDiffer
    <2>1. CASE i \in 1 .. length /\ j \in 1 .. length
      BY <1>1, <1>3, <1>7, <2>1 DEF KeysDiffer
    <2>2. CASE i = length + 1 /\ j \in 1 .. length
      BY <1>4, <1>7, <2>2
    <2>3. CASE j = length + 1 /\ i \in 1 .. length
      BY <1>4, <1>7, <2>3
    <2> QED BY <1>3, <2>1, <2>2, <2>3
  <1> DEFINE Right(m) == /\ IsPowerOf2(m) /\ Sound(g, m) /\ m >= n
                         /\ 4 * (length + 1) <= 3 * n => m = n
  <1>11. (\E m : Right(m)) /\ SameItems(g, added, 1 .. length + 1)
    <2>1. CASE 4 * (length + 1) > 3 * n
      <3>1. g = Rehash(added, 2 * n)
        BY <1>3, <1>5, <1>7, <1>9, <2>1
      <3>2. 2 * n \in Nat /\ 2 * n >= n
        BY <1>1
      <3> DEFINE m == NextPowerOf2(2 * n)
      <3>3. Sound(g, m) /\ SameItems(g, added, 1 .. length + 1)
        <4>1. SameItems(g, added, 1 .. Len(added.items)) /\ Sound(g, m)
          BY <1>1, <1>8, <1>10, <3>1, <3>2, RehashExact
        <4> QED BY <1>7, <4>1
      <3>4. IsPowerOf2(m) /\ m >= 2 * n
        BY <3>2, BucketFacts
      <3> HIDE DEF m
      <3>5. m >= n
        BY <1>1, <3>4 DEF IsPowerOf2
      <3>6. Right(m)
        BY <1>1, <1>3, <2>1, <3>3, <3>4, <3>5
      <3> QED BY <3>3, <3>6
    <2>2. CASE ~ (4 * (length + 1) > 3 * n)
      <3>1. g = LinkLast(added, length + 1)
        BY <1>3, <1>5, <1>7, <1>9, <2>2
      <3> DEFINE linked == 1 .. length
      <3>2. PICK rank : Threaded(h, linked, rank)
        BY DEF Sound
      <3>3. Threaded(added, linked, rank)
        <4>1. Chained(linked, BucketOf(h), NextOf(h), h.buckets, rank)
          BY <3>2 DEF Threaded
        <4>2. \A j \in linked : /\ BucketOf(added)[j] = BucketOf(h)[j]
                                /\ NextOf(added)[j] = NextOf(h)[j]
          BY <1>3, <1>7, <1>9 DEF BucketOf, NextOf, Bucket
        <4>3. linked \subseteq DOMAIN added.items
          BY <1>3, <1>9
        <4> DEFINE bucketOf == BucketOf(h)
                   next     == NextOf(h)
                   newBucketOf == BucketOf(added)
                   newNext  == NextOf(added)
        <4> HIDE DEF linked, bucketOf, next, newBucketOf, newNext
        <4>4. Chained(linked, newBucketOf, newNext, h.buckets, rank)
          BY <4>1, <4>2, ChainedSame DEF bucketOf, next, newBucketOf, newNext
        <4> QED BY <1>6, <4>3, <4>4 DEF Threaded, newBucketOf, newNext
      <3>4. length + 1 \notin linked /\ length + 1 \in 1 .. Len(added.items)
            /\ added.items[length + 1].next = 0 /\ linked \union {length + 1} = 1 .. length + 1
        BY <1>3, <1>4, <1>7
      <3> HIDE DEF linked
      <3>5. /\ g \in Table(n) /\ SameItems(g, added, linked)
            /\ \E newRank : Threaded(g, linked \union {length + 1}, newRank)
        BY <1>1, <1>8, <3>1, <3>3, <3>4, LinkLastExact
      <3>6. Len(g.items) = length + 1 /\ DOMAIN g.items = 1 .. length + 1
        BY <1>1, <1>7, <3>5, TableFacts DEF SameItems
      <3>7. KeysDiffer(g)
        BY <1>7, <1>9, <1>10, <3>5, <3>6 DEF KeysDiffer, SameItems
      <3>8. Sound(g, n)
        BY <3>4, <3>5, <3>6, <3>7 DEF Sound
      <3>9. Right(n)
        BY <1>1, <3>8
      <3>10. SameItems(g, added, 1 .. length + 1)
        BY <1>7, <3>5 DEF SameItems
      <3> QED BY <3>9, <3>10
    <2> QED BY <1>1, <1>3, <2>1, <2>2
  <1>12. /\ Len(g.items) = length + 1
         /\ \A j \in 1 .. length : /\ g.items[j].key = h.items[j].key
                                   /\ g.items[j].value = h.items[j].value
         /\ g.items[length + 1].key = k /\ g.items[length + 1].value = v
    <2>1. /\ Len(g.items) = length + 1
          /\ \A j \in 1 .. length + 1 : /\ g.items[j].key = added.items[j].key
                                        /\ g.items[j].value = added.items[j].value
      BY <1>7, <1>11 DEF SameItems
    <2>2. length + 1 \in 1 .. length + 1 /\ \A j \in 1 .. length : j \in 1 .. length + 1
      BY <1>3
    <2> QED BY <1>4, <1>7, <2>1, <2>2
  <1> QED BY <1>11, <1>12 DEF g

-----------------------------------------------------------------------------
(* What a table holds. *)

(* Contents, as a function of the table. *)
ContentsOf(h) ==
  [k \in Key |->
     LET stored == {item \in ToSet(h.items) : item.key = k}
     IN  IF stored = {} THEN NoValue ELSE (CHOOSE item \in stored : TRUE).value]

(* The map c has the items of h, and no others. *)
Maps(c, h) ==
  /\ \A i \in 1 .. Len(h.items) : c[h.items[i].key] = h.items[i].value
  /\ \A k \in Key : (\A i \in 1 .. Len(h.items) : h.items[i].key # k) => c[k] = NoValue

LEMMA ContentsMap ==
  ASSUME NEW n \in Nat \ {0}, NEW h, Sound(h, n)
  PROVE  /\ Maps(ContentsOf(h), h)
         /\ \A c : (\E S : c \in [Key -> S]) /\ Maps(c, h) => ContentsOf(h) = c
PROOF
  <1>1. h \in Table(n) /\ KeysDiffer(h)
    BY DEF Sound
  <1>2. /\ DOMAIN h.items = 1 .. Len(h.items)
        /\ \A i \in 1 .. Len(h.items) : h.items[i].key \in Key
    BY <1>1, TableFacts
  <1> DEFINE stored(k) == {item \in ToSet(h.items) : item.key = k}
             all == ContentsOf(h)
  <1>3. ASSUME NEW k \in Key
        PROVE  all[k] = IF stored(k) = {} THEN NoValue ELSE (CHOOSE item \in stored(k) : TRUE).value
    BY DEF ContentsOf
  <1>4. all = [k \in Key |-> all[k]]
    BY DEF ContentsOf
  <1> HIDE DEF all
  <1>5. ASSUME NEW i \in 1 .. Len(h.items) PROVE all[h.items[i].key] = h.items[i].value
    <2> DEFINE k == h.items[i].key
    <2>1. k \in Key
      BY <1>2
    <2>2. \A item \in stored(k) : item = h.items[i]
      BY <1>1, <1>2 DEF ToSet, KeysDiffer
    <2>3. h.items[i] \in stored(k)
      BY <1>2 DEF ToSet
    <2> HIDE DEF stored
    <2>4. (CHOOSE item \in stored(k) : TRUE) = h.items[i] /\ stored(k) # {}
      BY <2>2, <2>3
    <2> QED BY <1>3, <2>1, <2>4
  <1>6. ASSUME NEW k \in Key, \A i \in 1 .. Len(h.items) : h.items[i].key # k
        PROVE  all[k] = NoValue
    <2>1. stored(k) = {}
      BY <1>2, <1>6 DEF ToSet
    <2> HIDE DEF stored
    <2> QED BY <1>3, <2>1
  <1>7. Maps(all, h)
    BY <1>5, <1>6 DEF Maps
  <1>8. ASSUME NEW c, NEW S, c \in [Key -> S], Maps(c, h) PROVE all = c
    <2>1. \A k \in Key : all[k] = c[k]
      <3> SUFFICES ASSUME NEW k \in Key PROVE all[k] = c[k]
        OBVIOUS
      <3>1. CASE \E i \in 1 .. Len(h.items) : h.items[i].key = k
        BY <1>7, <1>8, <3>1 DEF Maps
      <3>2. CASE \A i \in 1 .. Len(h.items) : h.items[i].key # k
        BY <1>7, <1>8, <3>2 DEF Maps
      <3> QED BY <3>1, <3>2
    <2>2. c = [k \in Key |-> c[k]]
      BY <1>8
    <2> QED BY <1>4, <2>1, <2>2
  <1> QED BY <1>7, <1>8 DEF all

LEMMA ContentsType ==
  ASSUME NEW h
  PROVE  \E S : ContentsOf(h) \in [Key -> S]
PROOF
  <1> DEFINE S == {ContentsOf(h)[k] : k \in Key}
  <1>1. ContentsOf(h) = [k \in Key |-> ContentsOf(h)[k]]
    BY DEF ContentsOf
  <1>2. ContentsOf(h) \in [Key -> S]
    BY <1>1
  <1> QED BY <1>2

(* FindImpl tells whether a key is in the map. *)
LEMMA FindState ==
  ASSUME NEW n \in Nat \ {0}, NEW h, Sound(h, n), NEW k \in Key
  PROVE  \/ /\ FindImpl(h, k).item \in 1 .. Len(h.items) /\ FindImpl(h, k).item # 0
            /\ h.items[FindImpl(h, k).item].key = k
            /\ ContentsOf(h)[k] = h.items[FindImpl(h, k).item].value
            /\ ContentsOf(h)[k] \in Value /\ ContentsOf(h)[k] # NoValue
         \/ /\ FindImpl(h, k).item = 0 /\ ContentsOf(h)[k] = NoValue
            /\ \A i \in 1 .. Len(h.items) : h.items[i].key # k
PROOF
  <1> DEFINE linked == 1 .. Len(h.items)
  <1>1. h \in Table(n) /\ KeysDiffer(h) /\ Maps(ContentsOf(h), h)
    BY ContentsMap DEF Sound
  <1>2. PICK rank : Threaded(h, linked, rank)
    BY DEF Sound
  <1>3. /\ DOMAIN h.items = linked /\ 0 \notin linked
        /\ \A i \in linked : h.items[i].value \in Value /\ h.items[i].value # NoValue
    BY <1>1, TableFacts, HashAssumption DEF HashAssumption
  <1> HIDE DEF linked
  <1>4. CASE \E i \in linked : h.items[i].key = k
    <2>1. PICK i \in linked : h.items[i].key = k
      BY <1>4
    <2>2. \A j \in linked : h.items[j].key = k => j = i
      BY <1>1, <1>3, <2>1 DEF KeysDiffer
    <2>3. FindImpl(h, k).item = i
      BY <1>1, <1>2, <2>1, <2>2, FindExact
    <2>4. ContentsOf(h)[k] = h.items[i].value
      BY <1>1, <2>1 DEF Maps, linked
    <2> QED BY <1>3, <2>1, <2>3, <2>4 DEF linked
  <1>5. CASE \A i \in linked : h.items[i].key # k
    <2>1. FindImpl(h, k).item = 0
      BY <1>1, <1>2, <1>5, FindExact
    <2>2. ContentsOf(h)[k] = NoValue
      BY <1>1, <1>5 DEF Maps, linked
    <2> QED BY <1>5, <2>1, <2>2 DEF linked
  <1> QED BY <1>4, <1>5

(* Tables with the same items hold the same. *)
LEMMA SameContents ==
  ASSUME NEW n \in Nat \ {0}, NEW h, Sound(h, n), NEW m \in Nat \ {0}, NEW g, Sound(g, m),
         SameItems(g, h, 1 .. Len(h.items))
  PROVE  ContentsOf(g) = ContentsOf(h)
PROOF
  <1>1. Maps(ContentsOf(h), h)
    BY ContentsMap
  <1>2. Maps(ContentsOf(h), g)
    BY <1>1 DEF Maps, SameItems
  <1>3. \E S : ContentsOf(h) \in [Key -> S]
    BY ContentsType
  <1> QED BY <1>2, <1>3, ContentsMap

-----------------------------------------------------------------------------
(***************************************************************************)
(* The inductive invariant: the table is in order, its number of buckets   *)
(* is a power of two, and they are enough for the room reserved.  TypeOK   *)
(* and ChainsExact follow; the ranks say where each item is in its chain.  *)
(***************************************************************************)
InvOf(h, r) ==
  /\ IsPowerOf2(BucketCount(h))
  /\ Sound(h, BucketCount(h))
  /\ r \in Sizes \union {0}
  /\ 4 * r <= 3 * BucketCount(h)

IInv == InvOf(table, reserved)

LEMMA InvFacts ==
  ASSUME NEW h, NEW n, Sound(h, n), IsPowerOf2(n)
  PROVE  BucketCount(h) = n /\ n \in Nat \ {0} /\ h \in Table(n) /\ Len(h.items) \in Nat
PROOF
  <1>1. n \in Nat \ {0} /\ h \in Table(n)
    BY DEF Sound, IsPowerOf2
  <1> QED BY <1>1, TableFacts

LEMMA SizesAreNumbers ==
  ASSUME NEW h, NEW r, InvOf(h, r)
  PROVE  r \in Nat
BY HashAssumption DEF HashAssumption, InvOf

(* What each operation on the table keeps, and how it changes the map. *)
LEMMA InsertKeeps ==
  ASSUME NEW h, NEW r, InvOf(h, r), NEW k \in Key, NEW v \in Value,
         \A i \in 1 .. Len(h.items) : h.items[i].key # k
  PROVE  /\ InvOf(Insert(h, k, v), r)
         /\ Len(Insert(h, k, v).items) = Len(h.items) + 1
         /\ Len(h.items) + 1 <= r => BucketCount(Insert(h, k, v)) = BucketCount(h)
         /\ Insert(h, k, v).items[Len(h.items) + 1].key = k
         /\ ContentsOf(Insert(h, k, v)) = [ContentsOf(h) EXCEPT ![k] = v]
PROOF
  <1> DEFINE n == BucketCount(h)
             g == Insert(h, k, v)
             length == Len(h.items)
  <1>1. /\ IsPowerOf2(n) /\ Sound(h, n) /\ n \in Nat \ {0} /\ length \in Nat /\ h \in Table(n)
        /\ r \in Nat /\ 4 * r <= 3 * n /\ r \in Sizes \union {0}
    BY InvFacts, SizesAreNumbers DEF InvOf
  <1> HIDE DEF n, g
  <1>2. /\ \E m : /\ IsPowerOf2(m) /\ Sound(g, m) /\ m >= n
                  /\ 4 * (length + 1) <= 3 * n => m = n
        /\ Len(g.items) = length + 1
        /\ \A j \in 1 .. length : g.items[j].key = h.items[j].key /\ g.items[j].value = h.items[j].value
        /\ g.items[length + 1].key = k /\ g.items[length + 1].value = v
    BY <1>1, InsertExact DEF g
  <1>3. PICK m : /\ IsPowerOf2(m) /\ Sound(g, m) /\ m >= n
                 /\ 4 * (length + 1) <= 3 * n => m = n
    BY <1>2
  <1>4. BucketCount(g) = m /\ m \in Nat \ {0}
    BY <1>3, InvFacts
  <1> HIDE DEF length
  <1>5. InvOf(g, r)
    BY <1>1, <1>3, <1>4 DEF InvOf
  <1>6. length + 1 <= r => BucketCount(g) = n
    BY <1>1, <1>3, <1>4
  <1> DEFINE c == [ContentsOf(h) EXCEPT ![k] = v]
  <1>7. Maps(c, g) /\ \E S : c \in [Key -> S]
    <2>1. PICK S : ContentsOf(h) \in [Key -> S]
      BY ContentsType
    <2>2. c \in [Key -> S \union {v}]
      BY <2>1
    <2>3. \A x \in Key : c[x] = IF x = k THEN v ELSE ContentsOf(h)[x]
      BY <2>1
    <2>4. Maps(ContentsOf(h), h)
      BY <1>1, ContentsMap
    <2>5. \A i \in 1 .. length : h.items[i].key \in Key
      BY <1>1, TableFacts DEF length
    <2> HIDE DEF c
    <2>6. \A i \in 1 .. length + 1 : c[g.items[i].key] = g.items[i].value
      <3> SUFFICES ASSUME NEW i \in 1 .. length + 1 PROVE c[g.items[i].key] = g.items[i].value
        OBVIOUS
      <3>1. CASE i = length + 1
        BY <1>2, <2>3, <3>1
      <3>2. CASE i \in 1 .. length
        BY <1>2, <2>3, <2>4, <2>5, <3>2 DEF Maps, length
      <3> QED BY <1>1, <3>1, <3>2
    <2>7. ASSUME NEW x \in Key, \A i \in 1 .. length + 1 : g.items[i].key # x PROVE c[x] = NoValue
      <3>1. \A i \in 1 .. length : h.items[i].key # x
        BY <1>1, <1>2, <2>7
      <3>2. x # k
        BY <1>1, <1>2, <2>7
      <3> QED BY <2>3, <2>4, <3>1, <3>2 DEF Maps, length
    <2> QED BY <1>2, <2>2, <2>6, <2>7 DEF Maps
  <1>8. ContentsOf(g) = c
    <2> HIDE DEF c
    <2> QED BY <1>3, <1>4, <1>7, ContentsMap
  <1> QED BY <1>2, <1>5, <1>6, <1>8 DEF g, n, length

LEMMA EraseKeeps ==
  ASSUME NEW h, NEW r, InvOf(h, r), NEW k \in Key,
         NEW i \in 1 .. Len(h.items), h.items[i].key = k
  PROVE  /\ InvOf(Erase(h, k), r)
         /\ Len(Erase(h, k).items) = Len(h.items) - 1
         /\ ContentsOf(Erase(h, k)) = [ContentsOf(h) EXCEPT ![k] = NoValue]
PROOF
  <1> DEFINE n == BucketCount(h)
             g == Erase(h, k)
             length == Len(h.items)
             From(j) == IF j = i THEN length ELSE j
  <1>1. /\ IsPowerOf2(n) /\ Sound(h, n) /\ n \in Nat \ {0} /\ length \in Nat /\ h \in Table(n)
    BY InvFacts DEF InvOf
  <1> HIDE DEF n, g
  <1>2. /\ Sound(g, n) /\ Len(g.items) = length - 1
        /\ \A j \in 1 .. length - 1 : /\ g.items[j].key = h.items[From(j)].key
                                      /\ g.items[j].value = h.items[From(j)].value
    BY <1>1, EraseExact DEF g
  <1>3. BucketCount(g) = n
    BY <1>1, <1>2, InvFacts
  <1>4. InvOf(g, r)
    BY <1>1, <1>2, <1>3 DEF InvOf, n
  <1> DEFINE c == [ContentsOf(h) EXCEPT ![k] = NoValue]
  <1>5. Maps(c, g) /\ \E S : c \in [Key -> S]
    <2>1. PICK S : ContentsOf(h) \in [Key -> S]
      BY ContentsType
    <2>2. c \in [Key -> S \union {NoValue}]
      BY <2>1
    <2>3. \A x \in Key : c[x] = IF x = k THEN NoValue ELSE ContentsOf(h)[x]
      BY <2>1
    <2>4. Maps(ContentsOf(h), h)
      BY <1>1, ContentsMap
    <2>5. /\ \A j \in 1 .. length : h.items[j].key \in Key
          /\ \A j \in 1 .. length : j # i => h.items[j].key # k
      BY <1>1, TableFacts DEF Sound, KeysDiffer
    <2>6. \A j \in 1 .. length - 1 : From(j) \in 1 .. length /\ From(j) # i
      BY <1>1
    <2> HIDE DEF c, From
    <2>7. \A j \in 1 .. length - 1 : c[g.items[j].key] = g.items[j].value
      <3> SUFFICES ASSUME NEW j \in 1 .. length - 1 PROVE c[g.items[j].key] = g.items[j].value
        OBVIOUS
      <3> DEFINE from == From(j)
                 x    == h.items[from].key
      <3>1. from \in 1 .. length /\ from # i
        BY <2>6
      <3> HIDE DEF from
      <3>2. x \in Key /\ x # k
        BY <2>5, <3>1
      <3>3. c[x] = h.items[from].value
        BY <2>3, <2>4, <3>1, <3>2 DEF Maps
      <3>4. g.items[j].key = x /\ g.items[j].value = h.items[from].value
        BY <1>2 DEF from
      <3> QED BY <3>3, <3>4
    <2>8. ASSUME NEW x \in Key, \A j \in 1 .. length - 1 : g.items[j].key # x PROVE c[x] = NoValue
      <3> SUFFICES ASSUME x # k PROVE \A j \in 1 .. length : h.items[j].key # x
        BY <2>3, <2>4 DEF Maps
      <3> SUFFICES ASSUME NEW j \in 1 .. length, h.items[j].key = x PROVE FALSE
        OBVIOUS
      <3>1. j # i
        OBVIOUS
      <3>2. CASE j # length
        <4>1. j \in 1 .. length - 1 /\ From(j) = j
          BY <1>1, <3>1, <3>2 DEF From
        <4> QED BY <1>2, <2>8, <4>1
      <3>3. CASE j = length
        <4>1. i \in 1 .. length - 1 /\ From(i) = j
          BY <1>1, <3>1, <3>3 DEF From
        <4> QED BY <1>2, <2>8, <4>1
      <3> QED BY <3>2, <3>3
    <2> QED BY <1>2, <2>2, <2>7, <2>8 DEF Maps
  <1>6. ContentsOf(g) = c
    <2> HIDE DEF c
    <2> QED BY <1>1, <1>2, <1>5, ContentsMap
  <1> QED BY <1>2, <1>4, <1>6 DEF g

LEMMA UpdateKeeps ==
  ASSUME NEW h, NEW r, InvOf(h, r), NEW i \in 1 .. Len(h.items), NEW v \in Value
  PROVE  LET g == [h EXCEPT !.items[i].value = v]
         IN  /\ InvOf(g, r) /\ Len(g.items) = Len(h.items) /\ BucketCount(g) = BucketCount(h)
             /\ ContentsOf(g) = [ContentsOf(h) EXCEPT ![h.items[i].key] = v]
PROOF
  <1> DEFINE n == BucketCount(h)
             g == [h EXCEPT !.items[i].value = v]
             length == Len(h.items)
             item == [h.items[i] EXCEPT !.value = v]
  <1>1. /\ IsPowerOf2(n) /\ Sound(h, n) /\ n \in Nat \ {0} /\ length \in Nat /\ h \in Table(n)
    BY InvFacts DEF InvOf
  <1> HIDE DEF n
  <1>2. h.items \in Seq(Item) /\ h.buckets \in [0 .. n - 1 -> Nat]
        /\ h = [items |-> h.items, buckets |-> h.buckets]
    BY <1>1 DEF Table
  <1>3. g = [items |-> [h.items EXCEPT ![i] = item], buckets |-> h.buckets]
    <2> DEFINE x == [h.items EXCEPT ![i].value = v]
    <2>1. [h EXCEPT !.items = x] = [items |-> x, buckets |-> h.buckets]
      <3> HIDE DEF x
      <3> QED BY <1>2
    <2>2. g = [h EXCEPT !.items = x]
      BY <1>2
    <2>3. x = [h.items EXCEPT ![i] = item]
      OBVIOUS
    <2> HIDE DEF g, x, item
    <2> QED BY <2>1, <2>2, <2>3
  <1>4. g.items = [h.items EXCEPT ![i] = item] /\ g.buckets = h.buckets
        /\ g = [items |-> g.items, buckets |-> g.buckets]
    BY <1>3
  <1>5. DOMAIN h.items = 1 .. length /\ \A j \in 1 .. length : h.items[j] \in Item /\ h.items[j].key \in Key
    BY <1>1, TableFacts
  <1>6. item \in Item /\ item.value = v /\ item.key = h.items[i].key /\ item.next = h.items[i].next
    <2>1. h.items[i] \in Item
      BY <1>5
    <2> QED BY <2>1 DEF Item
  <1> HIDE DEF item, g
  <1>7. g.items \in Seq(Item) /\ Len(g.items) = length /\ DOMAIN g.items = 1 .. length
        /\ \A j \in 1 .. length : g.items[j] = IF j = i THEN item ELSE h.items[j]
    BY <1>2, <1>4, <1>5, <1>6
  <1>8. \A j \in 1 .. length : /\ g.items[j].key = h.items[j].key /\ g.items[j].next = h.items[j].next
                               /\ g.items[j].value = IF j = i THEN v ELSE h.items[j].value
    BY <1>6, <1>7
  <1>9. g \in Table(n)
    BY <1>2, <1>4, <1>7 DEF Table
  <1>10. BucketCount(g) = n /\ BucketCount(h) = n
    BY <1>1, <1>9, TableFacts
  <1>11. Sound(g, n)
    <2>1. KeysDiffer(g)
      BY <1>1, <1>5, <1>7, <1>8 DEF Sound, KeysDiffer
    <2>2. PICK rank : Threaded(h, 1 .. length, rank)
      BY <1>1 DEF Sound
    <2>3. BucketOf(g) = BucketOf(h) /\ NextOf(g) = NextOf(h)
      BY <1>5, <1>7, <1>8, <1>10 DEF BucketOf, NextOf, Bucket
    <2>4. Threaded(g, 1 .. length, rank)
      BY <1>4, <1>5, <1>7, <2>2, <2>3 DEF Threaded
    <2> QED BY <1>7, <1>9, <2>1, <2>4 DEF Sound
  <1>12. InvOf(g, r)
    BY <1>1, <1>10, <1>11 DEF InvOf
  <1> DEFINE k == h.items[i].key
             c == [ContentsOf(h) EXCEPT ![k] = v]
  <1>13. Maps(c, g) /\ \E S : c \in [Key -> S]
    <2>1. PICK S : ContentsOf(h) \in [Key -> S]
      BY ContentsType
    <2>2. c \in [Key -> S \union {v}]
      BY <2>1
    <2>3. \A x \in Key : c[x] = IF x = k THEN v ELSE ContentsOf(h)[x]
      BY <2>1
    <2>4. Maps(ContentsOf(h), h)
      BY <1>1, ContentsMap
    <2>5. \A j \in 1 .. length : j # i => h.items[j].key # k
      BY <1>1, <1>5 DEF Sound, KeysDiffer
    <2> HIDE DEF c
    <2>6. \A j \in 1 .. length : c[g.items[j].key] = g.items[j].value
      BY <1>5, <1>8, <2>3, <2>4, <2>5 DEF Maps
    <2>7. \A x \in Key : (\A j \in 1 .. length : g.items[j].key # x) => c[x] = NoValue
      BY <1>8, <2>3, <2>4 DEF Maps
    <2> QED BY <1>7, <2>2, <2>6, <2>7 DEF Maps
  <1>14. ContentsOf(g) = c
    <2> HIDE DEF c
    <2> QED BY <1>1, <1>11, <1>13, ContentsMap
  <1> QED BY <1>7, <1>10, <1>12, <1>14 DEF g

LEMMA EmptyKeeps ==
  ASSUME NEW n, IsPowerOf2(n), NEW h, h = [items |-> <<>>, buckets |-> [b \in 0 .. n - 1 |-> 0]]
  PROVE  /\ Sound(h, n) /\ BucketCount(h) = n /\ Len(h.items) = 0
         /\ ContentsOf(h) = [k \in Key |-> NoValue]
PROOF
  <1>1. n \in Nat \ {0}
    BY DEF IsPowerOf2
  <1>2. h.items = <<>> /\ h.buckets = [b \in 0 .. n - 1 |-> 0]
    OBVIOUS
  <1>3. h.items \in Seq(Item) /\ Len(h.items) = 0 /\ 1 .. Len(h.items) = {} /\ DOMAIN h.items = {}
    BY <1>2
  <1>4. h \in Table(n)
    <2>1. h.buckets \in [0 .. n - 1 -> Nat]
      BY <1>2
    <2> QED BY <1>3, <2>1 DEF Table
  <1>5. Sound(h, n)
    <2>1. Chained({}, BucketOf(h), NextOf(h), h.buckets, <<>>)
      BY <1>2 DEF Chained
    <2>2. Threaded(h, {}, <<>>)
      BY <2>1 DEF Threaded
    <2> QED BY <1>3, <1>4, <2>2 DEF Sound, KeysDiffer
  <1> DEFINE c == [k \in Key |-> NoValue]
  <1>6. Maps(c, h) /\ c \in [Key -> {NoValue}]
    BY <1>3 DEF Maps
  <1>7. ContentsOf(h) = c
    <2> HIDE DEF c
    <2> QED BY <1>1, <1>5, <1>6, ContentsMap
  <1> QED BY <1>1, <1>3, <1>4, <1>5, <1>7, TableFacts

LEMMA ClearKeeps ==
  ASSUME NEW h, NEW r, InvOf(h, r)
  PROVE  /\ InvOf(Clear(h), r) /\ Len(Clear(h).items) = 0
         /\ ContentsOf(Clear(h)) = [k \in Key |-> NoValue]
PROOF
  <1> DEFINE n == BucketCount(h)
  <1>1. IsPowerOf2(n) /\ Sound(h, n) /\ n \in Nat \ {0} /\ h \in Table(n)
    BY InvFacts DEF InvOf
  <1>2. DOMAIN h.buckets = 0 .. n - 1
    BY <1>1, TableFacts
  <1>3. Clear(h) = [items |-> <<>>, buckets |-> [b \in 0 .. n - 1 |-> 0]]
    BY <1>2 DEF Clear, InvalidID
  <1> HIDE DEF n
  <1>4. /\ Sound(Clear(h), n) /\ BucketCount(Clear(h)) = n /\ Len(Clear(h).items) = 0
        /\ ContentsOf(Clear(h)) = [k \in Key |-> NoValue]
    BY <1>1, <1>3, EmptyKeeps
  <1> QED BY <1>1, <1>4 DEF InvOf, n

LEMMA RehashKeeps ==
  ASSUME NEW h, NEW r, InvOf(h, r), NEW n \in Nat, NEW s \in Sizes \union {0},
         4 * s <= 3 * NextPowerOf2(n)
  PROVE  /\ InvOf(Rehash(h, n), s) /\ Len(Rehash(h, n).items) = Len(h.items)
         /\ ContentsOf(Rehash(h, n)) = ContentsOf(h)
PROOF
  <1> DEFINE k == BucketCount(h)
             g == Rehash(h, n)
             m == NextPowerOf2(n)
  <1>1. IsPowerOf2(k) /\ Sound(h, k) /\ k \in Nat \ {0} /\ h \in Table(k)
    BY InvFacts DEF InvOf
  <1>2. IsPowerOf2(m)
    BY BucketFacts
  <1>3. Sound(g, m) /\ SameItems(g, h, 1 .. Len(h.items))
    <2>1. KeysDiffer(h)
      BY <1>1 DEF Sound
    <2> HIDE DEF k
    <2> QED BY <1>1, <2>1, RehashExact
  <1> HIDE DEF k, g, m
  <1>4. BucketCount(g) = m /\ m \in Nat \ {0}
    BY <1>2, <1>3, InvFacts
  <1>5. ContentsOf(g) = ContentsOf(h)
    BY <1>1, <1>3, <1>4, SameContents
  <1>6. InvOf(g, s)
    BY <1>2, <1>3, <1>4 DEF InvOf, m
  <1> QED BY <1>3, <1>5, <1>6 DEF SameItems, g

(* The boundary: the roundings of Reserve never fall short. *)
LEMMA RoomForReserved ==
  ASSUME NEW n \in Nat
  PROVE  BucketsFor(n) \in Nat /\ 4 * n <= 3 * NextPowerOf2(BucketsFor(n))
PROOF
  <1> DEFINE m == (4 * n) \div 3
             c == ComputeNumBuckets(m)
             p == NextPowerOf2(c)
  <1>1. m \in Nat /\ 3 * m + 2 >= 4 * n
    OBVIOUS
  <1>2. BucketsFor(n) = c
    BY DEF BucketsFor
  <1> HIDE DEF m
  <1>3. c \in Nat /\ c >= m /\ p >= c /\ \E q \in Nat : c = 4 * q
    BY <1>1, BucketFacts
  <1>4. p \in Nat
    BY <1>3, BucketFacts DEF IsPowerOf2
  <1> HIDE DEF c, p
  <1>5. PICK q \in Nat : c = 4 * q
    BY <1>3
  <1>6. 3 * (4 * q) + 2 >= 4 * n
    BY <1>1, <1>3, <1>5
  <1>7. 3 * q >= n
    BY <1>6
  <1> QED BY <1>2, <1>3, <1>4, <1>5, <1>7 DEF p

-----------------------------------------------------------------------------
(* The steps. *)

(* What ReserveSuffices says of a step. *)
RoomSuffices ==
  Len(table.items) < Len(table'.items) /\ Len(table'.items) <= reserved
  => BucketCount(table') = BucketCount(table)

(* What every step keeps: the invariant, the room, and the step of the map. *)
Kept == IInv' /\ RoomSuffices /\ [Map!Next]_<<Contents, answer>>

LEMMA StateFacts ==
  ASSUME IInv
  PROVE  /\ InvOf(table, reserved) /\ reserved \in Nat /\ Len(table.items) \in Nat
         /\ Contents = ContentsOf(table) /\ \E S : ContentsOf(table) \in [Key -> S]
         /\ \A k \in Key :
              \/ /\ FindImpl(table, k).item \in 1 .. Len(table.items) /\ FindImpl(table, k).item # 0
                 /\ table.items[FindImpl(table, k).item].key = k
                 /\ ContentsOf(table)[k] = table.items[FindImpl(table, k).item].value
                 /\ ContentsOf(table)[k] # NoValue
              \/ /\ FindImpl(table, k).item = 0 /\ ContentsOf(table)[k] = NoValue
                 /\ \A i \in 1 .. Len(table.items) : table.items[i].key # k
PROOF
  <1>1. InvOf(table, reserved)
    BY DEF IInv
  <1>2. BucketCount(table) \in Nat \ {0} /\ Sound(table, BucketCount(table)) /\ Len(table.items) \in Nat
    BY <1>1, InvFacts DEF InvOf
  <1>3. reserved \in Nat
    BY <1>1, SizesAreNumbers
  <1>4. Contents = ContentsOf(table)
    BY DEF Contents, ContentsOf
  <1> QED BY <1>1, <1>2, <1>3, <1>4, ContentsType, FindState

LEMMA InsertStep ==
  ASSUME IInv, NEW k \in Key, NEW v \in Value, DoInsert(k, v)
  PROVE  Kept
PROOF
  <1> DEFINE found == FindImpl(table, k).item
  <1>1. /\ InvOf(table, reserved) /\ reserved \in Nat /\ Len(table.items) \in Nat
        /\ Contents = ContentsOf(table) /\ Contents' = ContentsOf(table')
    BY StateFacts DEF Contents, ContentsOf
  <1>2. PICK S : ContentsOf(table) \in [Key -> S]
    BY StateFacts
  <1>3. CASE found # 0
    <2>1. Present(k)
      BY <1>3 DEF Present, InvalidID
    <2>2. ContentsOf(table)[k] # NoValue
      BY <1>3, StateFacts
    <2>3. table' = table /\ answer' = <<"Insert", k, FALSE>> /\ reserved' = reserved
      BY <2>1 DEF DoInsert
    <2>4. [ContentsOf(table) EXCEPT ![k] = IF @ = NoValue THEN v ELSE @] = ContentsOf(table)
      BY <1>2, <2>2
    <2>5. IInv' /\ Contents' = Contents
      BY <1>1, <2>3 DEF IInv
    <2>6. Map!Insert(k, v)
      BY <1>1, <2>2, <2>3, <2>4, <2>5 DEF Map!Insert
    <2>7. RoomSuffices
      BY <2>3 DEF RoomSuffices
    <2> QED BY <2>5, <2>6, <2>7 DEF Kept, Map!Next
  <1>4. CASE found = 0
    <2> DEFINE g == Insert(table, k, v)
    <2>1. ~ Present(k)
      BY <1>4 DEF Present, InvalidID
    <2>2. /\ ContentsOf(table)[k] = NoValue
          /\ \A i \in 1 .. Len(table.items) : table.items[i].key # k
      BY <1>4, StateFacts
    <2>3. table' = g /\ answer' = <<"Insert", k, TRUE>> /\ reserved' = reserved
      BY <2>1 DEF DoInsert
    <2>4. /\ InvOf(g, reserved) /\ Len(g.items) = Len(table.items) + 1
          /\ Len(table.items) + 1 <= reserved => BucketCount(g) = BucketCount(table)
          /\ ContentsOf(g) = [ContentsOf(table) EXCEPT ![k] = v]
      BY <1>1, <2>2, InsertKeeps
    <2> HIDE DEF g
    <2>5. IInv'
      BY <2>3, <2>4 DEF IInv
    <2>6. [ContentsOf(table) EXCEPT ![k] = IF @ = NoValue THEN v ELSE @]
            = [ContentsOf(table) EXCEPT ![k] = v]
      BY <1>2, <2>2
    <2>7. Map!Insert(k, v)
      BY <1>1, <2>2, <2>3, <2>4, <2>6 DEF Map!Insert
    <2>8. RoomSuffices
      BY <2>3, <2>4 DEF RoomSuffices
    <2> QED BY <2>5, <2>7, <2>8 DEF Kept, Map!Next
  <1> QED BY <1>3, <1>4

LEMMA AssignStep ==
  ASSUME IInv, NEW k \in Key, NEW v \in Value, DoAssign(k, v)
  PROVE  Kept
PROOF
  <1> DEFINE found    == FindImpl(table, k).item
             inserted == IF found = 0 THEN Insert(table, k, v) ELSE table
             i        == IF found = 0 THEN Len(inserted.items) ELSE found
             g        == [inserted EXCEPT !.items[i].value = v]
  <1>1. /\ InvOf(table, reserved) /\ reserved \in Nat /\ Len(table.items) \in Nat
        /\ Contents = ContentsOf(table) /\ Contents' = ContentsOf(table')
    BY StateFacts DEF Contents, ContentsOf
  <1>2. PICK S : ContentsOf(table) \in [Key -> S]
    BY StateFacts
  <1>3. table' = g /\ answer' = <<"Assign", k>> /\ reserved' = reserved
    BY DEF DoAssign, InvalidID
  <1>4. /\ InvOf(inserted, reserved) /\ i \in 1 .. Len(inserted.items)
        /\ inserted.items[i].key = k
        /\ [ContentsOf(inserted) EXCEPT ![k] = v] = [ContentsOf(table) EXCEPT ![k] = v]
        /\ Len(table.items) < Len(inserted.items) /\ Len(inserted.items) <= reserved
           => BucketCount(inserted) = BucketCount(table)
    <2>1. CASE found # 0
      <3>1. found \in 1 .. Len(table.items) /\ table.items[found].key = k
        BY <2>1, StateFacts
      <3>2. inserted = table /\ i = found
        BY <2>1
      <3> HIDE DEF inserted, i, found
      <3> QED BY <1>1, <3>1, <3>2
    <2>2. CASE found = 0
      <3> DEFINE n == Insert(table, k, v)
      <3>1. \A j \in 1 .. Len(table.items) : table.items[j].key # k
        BY <2>2, StateFacts
      <3>2. /\ InvOf(n, reserved) /\ Len(n.items) = Len(table.items) + 1
            /\ Len(table.items) + 1 <= reserved => BucketCount(n) = BucketCount(table)
            /\ n.items[Len(table.items) + 1].key = k
            /\ ContentsOf(n) = [ContentsOf(table) EXCEPT ![k] = v]
        BY <1>1, <3>1, InsertKeeps
      <3>3. inserted = n /\ i = Len(n.items)
        BY <2>2
      <3> HIDE DEF inserted, i, found, n
      <3>4. [ContentsOf(n) EXCEPT ![k] = v] = [ContentsOf(table) EXCEPT ![k] = v]
        BY <1>2, <3>2
      <3>5. Len(n.items) \in 1 .. Len(n.items) /\ n.items[Len(n.items)].key = k
        BY <1>1, <3>2
      <3> QED BY <3>2, <3>3, <3>4, <3>5
    <2> QED BY <2>1, <2>2
  <1> HIDE DEF inserted, i
  <1>5. /\ InvOf(g, reserved) /\ Len(g.items) = Len(inserted.items)
        /\ BucketCount(g) = BucketCount(inserted)
        /\ ContentsOf(g) = [ContentsOf(inserted) EXCEPT ![inserted.items[i].key] = v]
    BY <1>4, UpdateKeeps
  <1> HIDE DEF g
  <1>6. IInv'
    BY <1>3, <1>5 DEF IInv
  <1>7. Map!Assign(k, v)
    BY <1>1, <1>3, <1>4, <1>5 DEF Map!Assign
  <1>8. RoomSuffices
    BY <1>3, <1>4, <1>5 DEF RoomSuffices
  <1> QED BY <1>6, <1>7, <1>8 DEF Kept, Map!Next

LEMMA EraseStep ==
  ASSUME IInv, NEW k \in Key, DoErase(k)
  PROVE  Kept
PROOF
  <1> DEFINE found == FindImpl(table, k).item
  <1>1. /\ InvOf(table, reserved) /\ reserved \in Nat /\ Len(table.items) \in Nat
        /\ Contents = ContentsOf(table) /\ Contents' = ContentsOf(table')
    BY StateFacts DEF Contents, ContentsOf
  <1>2. PICK S : ContentsOf(table) \in [Key -> S]
    BY StateFacts
  <1>3. CASE found = 0
    <2>1. ~ Present(k)
      BY <1>3 DEF Present, InvalidID
    <2>2. ContentsOf(table)[k] = NoValue
      BY <1>3, StateFacts
    <2>3. table' = table /\ answer' = <<"Erase", k, FALSE>> /\ reserved' = reserved
      BY <1>3, <2>1 DEF DoErase, Present, InvalidID
    <2>4. [ContentsOf(table) EXCEPT ![k] = NoValue] = ContentsOf(table)
      BY <1>2, <2>2
    <2>5. IInv' /\ Contents' = Contents
      BY <1>1, <2>3 DEF IInv
    <2>6. Map!Erase(k)
      BY <1>1, <2>2, <2>3, <2>4, <2>5 DEF Map!Erase
    <2>7. RoomSuffices
      BY <2>3 DEF RoomSuffices
    <2> QED BY <2>5, <2>6, <2>7 DEF Kept, Map!Next
  <1>4. CASE found # 0
    <2> DEFINE g == Erase(table, k)
    <2>1. Present(k)
      BY <1>4 DEF Present, InvalidID
    <2>2. /\ ContentsOf(table)[k] # NoValue
          /\ found \in 1 .. Len(table.items) /\ table.items[found].key = k
      BY <1>4, StateFacts
    <2>3. table' = g /\ answer' = <<"Erase", k, TRUE>> /\ reserved' = reserved
      BY <2>1 DEF DoErase
    <2> HIDE DEF found
    <2>4. /\ InvOf(g, reserved) /\ Len(g.items) = Len(table.items) - 1
          /\ ContentsOf(g) = [ContentsOf(table) EXCEPT ![k] = NoValue]
      BY <1>1, <2>2, EraseKeeps
    <2> HIDE DEF g
    <2>5. IInv'
      BY <2>3, <2>4 DEF IInv
    <2>6. Map!Erase(k)
      BY <1>1, <2>2, <2>3, <2>4 DEF Map!Erase
    <2>7. RoomSuffices
      BY <1>1, <2>3, <2>4 DEF RoomSuffices
    <2> QED BY <2>5, <2>6, <2>7 DEF Kept, Map!Next
  <1> QED BY <1>3, <1>4

LEMMA FindStep ==
  ASSUME IInv, NEW k \in Key, DoFind(k)
  PROVE  Kept
PROOF
  <1>1. Contents = ContentsOf(table) /\ Contents' = ContentsOf(table')
    BY DEF Contents, ContentsOf
  <1>2. table' = table /\ reserved' = reserved /\ answer' = <<"Find", k, Lookup(k)>>
    BY DEF DoFind
  <1>3. Lookup(k) = ContentsOf(table)[k]
    BY StateFacts DEF Lookup, InvalidID
  <1>4. Map!Find(k)
    BY <1>1, <1>2, <1>3 DEF Map!Find
  <1>5. IInv' /\ RoomSuffices
    BY <1>2 DEF IInv, RoomSuffices
  <1> QED BY <1>4, <1>5 DEF Kept, Map!Next

LEMMA ClearStep ==
  ASSUME IInv, DoClear
  PROVE  Kept
PROOF
  <1>1. /\ InvOf(table, reserved) /\ Len(table.items) \in Nat
        /\ Contents' = ContentsOf(table')
    BY StateFacts DEF Contents, ContentsOf
  <1>2. table' = Clear(table) /\ reserved' = reserved /\ answer' = <<"Clear">>
    BY DEF DoClear
  <1>3. /\ InvOf(Clear(table), reserved) /\ Len(Clear(table).items) = 0
        /\ ContentsOf(Clear(table)) = [k \in Key |-> NoValue]
    BY <1>1, ClearKeeps
  <1>4. IInv' /\ RoomSuffices
    BY <1>1, <1>2, <1>3 DEF IInv, RoomSuffices
  <1>5. Map!Clear
    BY <1>1, <1>2, <1>3 DEF Map!Clear
  <1> QED BY <1>4, <1>5 DEF Kept, Map!Next

LEMMA RehashStep ==
  ASSUME IInv, NEW n \in Sizes, DoRehash(n) \/ Reserve(n)
  PROVE  Kept
PROOF
  <1>1. /\ InvOf(table, reserved) /\ Len(table.items) \in Nat
        /\ Contents = ContentsOf(table) /\ Contents' = ContentsOf(table')
    BY StateFacts DEF Contents, ContentsOf
  <1>2. n \in Nat /\ 4 * 0 = 0
    BY HashAssumption DEF HashAssumption
  <1>3. PICK m \in Nat, s \in Sizes \union {0} :
          /\ table' = Rehash(table, m) /\ reserved' = s /\ answer' = answer
          /\ 4 * s <= 3 * NextPowerOf2(m)
    <2>1. CASE DoRehash(n)
      <3>1. NextPowerOf2(n) \in Nat
        BY <1>2, BucketFacts DEF IsPowerOf2
      <3>2. 4 * 0 <= 3 * NextPowerOf2(n)
        BY <3>1
      <3> QED BY <1>2, <2>1, <3>2 DEF DoRehash
    <2>2. CASE Reserve(n)
      <3>1. BucketsFor(n) \in Nat /\ 4 * n <= 3 * NextPowerOf2(BucketsFor(n))
        BY <1>2, RoomForReserved
      <3> QED BY <2>2, <3>1 DEF Reserve
    <2> QED BY <2>1, <2>2
  <1> DEFINE g == Rehash(table, m)
  <1>4. /\ InvOf(g, s) /\ Len(g.items) = Len(table.items) /\ ContentsOf(g) = ContentsOf(table)
    BY <1>1, <1>3, RehashKeeps
  <1> HIDE DEF g
  <1>5. table' = g
    BY <1>3 DEF g
  <1>6. IInv'
    BY <1>3, <1>4, <1>5 DEF IInv
  <1>7. RoomSuffices
    BY <1>1, <1>4, <1>5 DEF RoomSuffices
  <1>8. Contents' = Contents /\ answer' = answer
    BY <1>1, <1>3, <1>4, <1>5
  <1> QED BY <1>6, <1>7, <1>8 DEF Kept

LEMMA NextKeeps == IInv /\ [Next]_vars => IInv' /\ [RoomSuffices]_vars /\ [Map!Next]_<<Contents, answer>>
PROOF
  <1> SUFFICES ASSUME IInv, [Next]_vars
               PROVE  IInv' /\ [RoomSuffices]_vars /\ [Map!Next]_<<Contents, answer>>
    OBVIOUS
  <1>1. CASE UNCHANGED vars
    <2>1. table' = table /\ answer' = answer /\ reserved' = reserved
      BY <1>1 DEF vars
    <2>2. IInv' /\ Contents' = Contents
      BY <2>1 DEF IInv, Contents
    <2> QED BY <1>1, <2>1, <2>2
  <1>2. CASE Next
    <2>1. Kept
      <3>1. ASSUME NEW k \in Key, NEW v \in Value, DoInsert(k, v) \/ DoAssign(k, v) PROVE Kept
        BY <3>1, InsertStep, AssignStep
      <3>2. ASSUME NEW k \in Key, DoErase(k) \/ DoFind(k) PROVE Kept
        BY <3>2, EraseStep, FindStep
      <3>3. ASSUME DoClear PROVE Kept
        BY <3>3, ClearStep
      <3>4. ASSUME NEW n \in Sizes, DoRehash(n) \/ Reserve(n) PROVE Kept
        BY <3>4, RehashStep
      <3> QED BY <1>2, <3>1, <3>2, <3>3, <3>4 DEF Next
    <2> QED BY <2>1 DEF Kept
  <1> QED BY <1>1, <1>2

LEMMA InitKeeps == Init => IInv /\ Map!Init
PROOF
  <1> SUFFICES ASSUME Init PROVE IInv /\ Map!Init
    OBVIOUS
  <1>1. IsPowerOf2(MinBuckets) /\ MinBuckets \in Nat
    BY BucketFacts, HashAssumption DEF HashAssumption
  <1>2. table = [items |-> <<>>, buckets |-> [b \in 0 .. MinBuckets - 1 |-> 0]]
        /\ answer = <<"new">> /\ reserved = 0
    BY DEF Init, InvalidID
  <1>3. /\ Sound(table, MinBuckets) /\ BucketCount(table) = MinBuckets
        /\ ContentsOf(table) = [k \in Key |-> NoValue]
    BY <1>1, <1>2, EmptyKeeps
  <1>4. IInv
    BY <1>1, <1>2, <1>3 DEF IInv, InvOf
  <1>5. Contents = ContentsOf(table)
    BY DEF Contents, ContentsOf
  <1> QED BY <1>2, <1>3, <1>4, <1>5 DEF Map!Init

(* The inductive invariant holds in every state. *)
THEOREM HashInvariance == Spec => []IInv
PROOF
  <1>1. Init => IInv
    BY InitKeeps
  <1>2. IInv /\ [Next]_vars => IInv'
    BY NextKeeps
  <1> QED BY <1>1, <1>2, PTL DEF Spec

-----------------------------------------------------------------------------
(***************************************************************************)
(* Types: the number of buckets is a power of two, and no link leads       *)
(* outside m_Items.                                                        *)
(***************************************************************************)
THEOREM HashTypeCorrect == Spec => []TypeOK
PROOF
  <1>1. IInv => TypeOK
    <2> SUFFICES ASSUME IInv PROVE TypeOK
      OBVIOUS
    <2> DEFINE n == BucketCount(table)
               linked == 1 .. Len(table.items)
    <2>1. /\ IsPowerOf2(n) /\ Sound(table, n) /\ table \in Table(n) /\ n \in Nat \ {0}
          /\ reserved \in Sizes \union {0}
      BY InvFacts DEF IInv, InvOf
    <2>2. /\ table.items \in Seq(Item) /\ table.buckets \in [0 .. n - 1 -> Nat]
      BY <2>1 DEF Table
    <2>3. DOMAIN table.items = linked /\ Len(table.items) \in Nat
          /\ DOMAIN table.buckets = 0 .. n - 1
          /\ \A i \in linked : NextOf(table)[i] = table.items[i].next /\ table.items[i].next \in Nat
      BY <2>1, TableFacts
    <2>4. PICK rank : Chained(linked, BucketOf(table), NextOf(table), table.buckets, rank)
      BY <2>1 DEF Sound, Threaded
    <2>5. \A b \in 0 .. n - 1 : table.buckets[b] \in 0 .. Len(table.items)
      BY <2>3, <2>4 DEF Chained
    <2>6. \A i \in linked : table.items[i].next \in 0 .. Len(table.items)
      BY <2>3, <2>4 DEF Chained
    <2> HIDE DEF n
    <2>7. table.buckets \in [0 .. n - 1 -> 0 .. Len(table.items)]
      BY <2>2, <2>5
    <2> QED BY <2>1, <2>2, <2>3, <2>6, <2>7 DEF TypeOK, IsPowerOf2, n
  <1> QED BY <1>1, HashInvariance, PTL

(***************************************************************************)
(* Every chain ends and has exactly the items of its bucket, each once,    *)
(* and no key is stored twice.                                             *)
(***************************************************************************)
THEOREM ChainsAlwaysExact == Spec => []ChainsExact
PROOF
  <1>1. IInv => ChainsExact
    <2> SUFFICES ASSUME IInv PROVE ChainsExact
      OBVIOUS
    <2> DEFINE items  == table.items
               linked == 1 .. Len(table.items)
               bucketOf == BucketOf(table)
               next   == NextOf(table)
               first  == table.buckets
               n      == BucketCount(table)
    <2>1. Sound(table, n) /\ table \in Table(n) /\ n \in Nat \ {0}
      BY InvFacts DEF IInv, InvOf
    <2>2. /\ DOMAIN items = linked /\ Len(items) \in Nat /\ DOMAIN first = 0 .. n - 1
          /\ \A i \in linked : /\ next[i] = items[i].next
                               /\ bucketOf[i] = Hash[items[i].key] % n
      BY <2>1, TableFacts
    <2>3. PICK rank : Chained(linked, bucketOf, next, first, rank)
      BY <2>1 DEF Sound, Threaded
    <2>4. \A i, j \in DOMAIN items : items[i].key = items[j].key => i = j
      BY <2>1 DEF Sound, KeysDiffer
    <2> HIDE DEF bucketOf, next, first, n
    <2>5. ASSUME NEW b \in DOMAIN first
          PROVE  LET visit == Visit(items, first[b])
                     seen  == {m \in DOMAIN visit : visit[m] # InvalidID}
                     here  == {i \in DOMAIN items : Hash[items[i].key] % n = b}
                 IN  {visit[m] : m \in seen} = here /\ Cardinality(seen) = Cardinality(here)
      <3> DEFINE visit == Visit(items, first[b])
                 seen  == {m \in DOMAIN visit : visit[m] # InvalidID}
                 here  == {i \in DOMAIN items : Hash[items[i].key] % n = b}
                 f     == [m \in seen |-> visit[m]]
      <3>1. /\ DOMAIN visit = 1 .. Len(items) + 1
            /\ \A m \in 1 .. Len(items) + 1 : At(linked, bucketOf, rank, b, m, visit[m])
        <4>1. (\A i \in linked : next[i] = items[i].next) /\ Len(items) \in Nat
          BY <2>2
        <4> HIDE DEF linked, items
        <4> QED BY <2>3, <4>1, WalkExact
      <3> HIDE DEF visit
      <3>2. \A m \in seen : visit[m] \in linked /\ bucketOf[visit[m]] = b /\ rank[visit[m]] = m
        BY <3>1 DEF At, InvalidID
      <3>3. \A m \in seen : visit[m] \in here
        BY <2>2, <3>2
      <3>4. ASSUME NEW i \in here PROVE \E m \in seen : visit[m] = i
        <4>1. i \in linked /\ bucketOf[i] = b /\ i # 0 /\ rank[i] \in Nat \ {0}
          BY <2>2, <2>3 DEF Chained
        <4>2. rank[i] <= Len(items)
          <5> DEFINE length == Len(items)
          <5>1. linked \subseteq 1 .. length /\ length \in Nat
            BY <2>2
          <5> HIDE DEF linked, length
          <5>2. rank[i] <= length
            BY <2>3, <4>1, <5>1, RanksBounded
          <5> QED BY <5>2 DEF length
        <4>3. rank[i] \in 1 .. Len(items) + 1
          BY <2>2, <4>1, <4>2
        <4>4. At(linked, bucketOf, rank, b, rank[i], i)
          BY <4>1 DEF At
        <4>5. visit[rank[i]] = i
          <5> HIDE DEF linked
          <5> QED BY <2>3, <3>1, <4>1, <4>3, <4>4, WalkUnique
        <4> QED BY <3>1, <4>1, <4>3, <4>5 DEF InvalidID
      <3>5. f \in Bijection(seen, here)
        <4>1. f \in [seen -> here]
          BY <3>3
        <4>2. \A m1, m2 \in seen : f[m1] = f[m2] => m1 = m2
          BY <3>2
        <4>3. \A i \in here : \E m \in seen : f[m] = i
          BY <3>4
        <4> HIDE DEF seen, here, f
        <4> QED BY <4>1, <4>2, <4>3 DEF Bijection, Injection, Surjection, IsInjective
      <3>6. IsFiniteSet(seen)
        <4>1. IsFiniteSet(1 .. Len(items) + 1)
          BY <2>2, FS_Interval
        <4> QED BY <3>1, <4>1, FS_Subset
      <3>7. Cardinality(seen) = Cardinality(here)
        <4>1. ExistsBijection(seen, here)
          BY <3>5 DEF ExistsBijection
        <4> HIDE DEF seen, here
        <4> QED BY <3>6, <4>1, FS_Bijection
      <3>8. {visit[m] : m \in seen} = here
        BY <3>3, <3>4
      <3> QED BY <3>7, <3>8 DEF visit
    <2> QED BY <2>4, <2>5 DEF ChainsExact, first, n
  <1> QED BY <1>1, HashInvariance, PTL

(***************************************************************************)
(* Room reserved is room enough, whatever the sizes: no insertion makes    *)
(* the table grow before there are more items than asked for.              *)
(***************************************************************************)
THEOREM ReserveAlwaysSuffices == Spec => ReserveSuffices
PROOF
  <1>1. IInv /\ [Next]_vars
        => [Len(table.items) < Len(table'.items) /\ Len(table'.items) <= reserved
            => BucketCount(table') = BucketCount(table)]_vars
    BY NextKeeps DEF RoomSuffices
  <1> QED BY <1>1, HashInvariance, PTL DEF Spec, ReserveSuffices

(***************************************************************************)
(* The hash table implements the map: the chains, the moves of the last    *)
(* item and the rehashes never show in what the calls change and answer.   *)
(***************************************************************************)
THEOREM TableImplementsMap == Spec => ImplementsMap
PROOF
  <1>1. Init => Map!Init
    BY InitKeeps
  <1>2. IInv /\ [Next]_vars => [Map!Next]_<<Contents, answer>>
    BY NextKeeps
  <1> QED BY <1>1, <1>2, HashInvariance, PTL DEF Spec, ImplementsMap, Map!Spec

=============================================================================
