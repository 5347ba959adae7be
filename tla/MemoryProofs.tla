---------------------------- MODULE MemoryProofs ----------------------------
(***************************************************************************)
(* Proofs about the three ways in which the core library looks after       *)
(* memory, and the three of them together: SmallMemoryAllocator, for any   *)
(* sizes, any number of pools and any number of blocks; VirtualStack, for  *)
(* any page size, sizes and alignments; RefCounted, for any number of      *)
(* threads and pointers.                                                   *)
(***************************************************************************)
EXTENDS MCMemory, FiniteSetTheorems, WellFoundedInduction, SequenceTheorems, TLAPS

-----------------------------------------------------------------------------
(* Induction, for want of a theorem that can be instantiated: a set of     *)
(* numbers that is not empty has a smallest one.                           *)

LEMMA Smallest ==
  ASSUME NEW T, T \subseteq Nat, T # {}
  PROVE  \E x \in T : \A y \in T : x <= y
PROOF
  <1> DEFINE R == OpToRel(<, Nat)
  <1>1. IsWellFoundedOn(R, Nat)
    BY NatLessThanWellFounded
  <1>2. PICK x \in T : \A y \in T : ~ (<<y, x>> \in R)
    <2> HIDE DEF R
    <2> QED BY <1>1, WFMin
  <1>3. \A y \in T : ~ (y < x)
    BY <1>2 DEF OpToRel
  <1> QED BY <1>3

LEMMA MinIsMember ==
  ASSUME NEW S, S \subseteq Nat, S # {}
  PROVE  Min(S) \in S /\ \A s \in S : Min(S) <= s
PROOF
  <1>1. PICK x \in S : \A y \in S : x <= y
    BY Smallest
  <1> QED BY <1>1 DEF Min

(***************************************************************************)
(* The values of a recursive function on 0 .. n, with step g[m] at m, lie  *)
(* in the sets that every step leads to.                                   *)
(***************************************************************************)
LEMMA RecursionStays ==
  ASSUME NEW n \in Nat, NEW T, NEW g, NEW f,
         f[0] \in T[0],
         \A m \in 1 .. n : \A x \in T[m - 1] : g[m][x] \in T[m],
         \A m \in 1 .. n : f[m] = g[m][f[m - 1]]
  PROVE  \A m \in 0 .. n : f[m] \in T[m]
PROOF
  <1> DEFINE Bad == {m \in 0 .. n : f[m] \notin T[m]}
  <1> SUFFICES ASSUME Bad # {} PROVE FALSE
    OBVIOUS
  <1>1. PICK m \in Bad : \A k \in Bad : m <= k
    <2>1. Bad \subseteq Nat
      OBVIOUS
    <2> HIDE DEF Bad
    <2> QED BY <2>1, Smallest
  <1>2. m \in 1 .. n /\ m - 1 \in 0 .. n /\ m - 1 < m
    OBVIOUS
  <1>3. f[m - 1] \in T[m - 1]
    BY <1>1, <1>2
  <1> QED BY <1>2, <1>3

(* The recursive function f on 0 .. n with first value a and step g[m] at m. *)
Recursion(f, n, a, g) ==
  /\ \E values : f \in [0 .. n -> values]
  /\ f[0] = a /\ \A m \in 1 .. n : f[m] = g[m][f[m - 1]]

(* There is such a function, for every first value and steps. *)
LEMMA RecursionExists ==
  ASSUME NEW n \in Nat, NEW a, NEW g
  PROVE  \E f : Recursion(f, n, a, g)
PROOF
  <1> DEFINE Solves(f, k) == f = [m \in 0 .. k |-> IF m = 0 THEN a ELSE g[m][f[m - 1]]]
             Bad == {k \in 0 .. n : ~ \E f : Solves(f, k)}
  <1>0. ASSUME Bad = {}
        PROVE  \E f : Recursion(f, n, a, g)
    <2>0. n \in 0 .. n
      OBVIOUS
    <2>1. PICK f : Solves(f, n)
      <3> HIDE DEF Solves
      <3> QED BY <1>0, <2>0
    <2>2. f \in [0 .. n -> {f[m] : m \in 0 .. n}]
      BY <2>1
    <2>3. f[0] = a /\ \A m \in 1 .. n : f[m] = g[m][f[m - 1]]
      BY <2>1
    <2> HIDE DEF Bad
    <2> QED BY <2>2, <2>3 DEF Recursion
  <1> SUFFICES ASSUME Bad # {} PROVE FALSE
    BY <1>0
  <1>1. PICK k \in Bad : \A j \in Bad : k <= j
    <2>1. Bad \subseteq Nat
      OBVIOUS
    <2> HIDE DEF Bad
    <2> QED BY <2>1, Smallest
  <1>2. CASE k = 0
    <2> DEFINE f == [m \in 0 .. 0 |-> a]
    <2>1. Solves(f, 0)
      OBVIOUS
    <2> QED BY <1>1, <1>2, <2>1
  <1>3. CASE k # 0
    <2>1. k \in 1 .. n /\ k - 1 \in 0 .. n /\ k - 1 < k
      BY <1>3
    <2>2. PICK f : Solves(f, k - 1)
      <3>1. k - 1 \notin Bad /\ k - 1 \in 0 .. n
        <4> HIDE DEF Bad
        <4> QED BY <1>1, <2>1
      <3> HIDE DEF Solves
      <3> QED BY <3>1
    <2> DEFINE h == [m \in 0 .. k |-> IF m = k THEN g[k][f[k - 1]] ELSE f[m]]
    <2>3. \A m \in 0 .. k - 1 : h[m] = f[m] /\ f[m] = IF m = 0 THEN a ELSE g[m][f[m - 1]]
      BY <2>1, <2>2
    <2>4. h[k] = g[k][h[k - 1]]
      BY <2>1, <2>3
    <2>5. \A m \in 0 .. k : h[m] = IF m = 0 THEN a ELSE g[m][h[m - 1]]
      <3> SUFFICES ASSUME NEW m \in 0 .. k PROVE h[m] = IF m = 0 THEN a ELSE g[m][h[m - 1]]
        OBVIOUS
      <3>1. CASE m = k
        BY <2>1, <2>4, <3>1
      <3>2. CASE m # k
        <4>1. m \in 0 .. k - 1 /\ (m # 0 => m - 1 \in 0 .. k - 1)
          BY <2>1, <3>2
        <4> HIDE DEF h
        <4> QED BY <2>3, <4>1
      <3> QED BY <3>1, <3>2
    <2>6. Solves(h, k)
      <3>1. h = [m \in 0 .. k |-> h[m]]
        OBVIOUS
      <3> HIDE DEF h
      <3> QED BY <2>5, <3>1
    <2> QED BY <1>1, <2>1, <2>6
  <1> QED BY <1>2, <1>3


-----------------------------------------------------------------------------
(* Pools. *)

(* The first k chunks that Allocate will return are s[1] .. s[k]. *)
Listed(p, k, s) ==
  /\ s \in [1 .. k -> DOMAIN p.link]
  /\ \A m, n \in 1 .. k : s[m] = s[n] => m = n
  /\ k > 0 => s[1] = p.first
  /\ \A n \in 2 .. k : s[n] = p.link[s[n - 1]]

(* Where Allocate goes when it has returned these. *)
NextFree(p, k, s) == IF k = 0 THEN p.first ELSE p.link[s[k]]

(***************************************************************************)
(* What is known of a pool in which clients own the chunks taken: every    *)
(* chunk is taken or free by the count, and the list of free chunks, which *)
(* avoids the taken ones, is as long as the count or leads out of the      *)
(* pool, never back into it.  In clean memory it is as long as the count.  *)
(***************************************************************************)
Intact(p, taken, clean) ==
  /\ taken \subseteq DOMAIN p.link
  /\ Cardinality(taken) + p.free = NumChunks(p)
  /\ \E k \in 0 .. p.free : \E s \in [1 .. k -> (DOMAIN p.link) \ taken] :
       /\ Listed(p, k, s)
       /\ k # p.free => ~ clean /\ NextFree(p, k, s) \notin DOMAIN p.link

LEMMA PoolChunks ==
  ASSUME NEW c \in Class
  PROVE  /\ ChunksOf(c) \in Nat \ {0} /\ ChunksOf(c) <= ByteRange
         /\ ByteRange \in Nat \ {0}
         /\ \A p \in PoolOf(c) : NumChunks(p) = ChunksOf(c) /\ DOMAIN p.link = 0 .. ChunksOf(c) - 1
PROOF
  <1>1. ByteRange \in Nat \ {0} /\ MinNumChunks \in Nat \ {0} /\ MaxNumChunks \in MinNumChunks .. ByteRange
    BY MemoryAssumption DEF MemoryAssumption
  <1>2. PageSize \div ((c + 1) * Alignment) \in Nat
    <2>1. PageSize \in Nat /\ Alignment \in Nat \ {0} /\ c \in Nat
      BY MemoryAssumption DEF MemoryAssumption, Class
    <2>2. (c + 1) * Alignment \in Nat \ {0}
      BY <2>1
    <2> QED BY <2>1, <2>2
  <1>3. \A a, b \in Nat : Min({a, b}) \in {a, b} /\ Min({a, b}) <= a
    <2> SUFFICES ASSUME NEW a \in Nat, NEW b \in Nat
                 PROVE  Min({a, b}) \in {a, b} /\ Min({a, b}) <= a
      OBVIOUS
    <2>1. {a, b} \subseteq Nat /\ {a, b} # {}
      OBVIOUS
    <2> QED BY <2>1, MinIsMember
  <1>4. \A a, b \in Nat : Max({a, b}) \in {a, b} /\ Max({a, b}) >= a
    <2> SUFFICES ASSUME NEW a \in Nat, NEW b \in Nat
                 PROVE  Max({a, b}) \in {a, b} /\ Max({a, b}) >= a
      OBVIOUS
    <2>1. \E x \in {a, b} : \A y \in {a, b} : x >= y
      OBVIOUS
    <2> QED BY <2>1 DEF Max
  <1>5. ChunksOf(c) \in Nat \ {0} /\ ChunksOf(c) <= ByteRange
    <2> DEFINE fit == Min({MaxNumChunks, PageSize \div ((c + 1) * Alignment)})
    <2>1. fit \in Nat /\ fit <= MaxNumChunks
      BY <1>1, <1>2, <1>3
    <2> HIDE DEF fit
    <2>2. Max({MinNumChunks, fit}) \in {MinNumChunks, fit} /\ Max({MinNumChunks, fit}) >= MinNumChunks
      BY <1>1, <1>4, <2>1
    <2> QED BY <1>1, <2>1, <2>2 DEF ChunksOf, fit
  <1>6. ASSUME NEW p \in PoolOf(c)
        PROVE  NumChunks(p) = ChunksOf(c) /\ DOMAIN p.link = 0 .. ChunksOf(c) - 1
    <2>1. DOMAIN p.link = 0 .. ChunksOf(c) - 1
      BY <1>6 DEF PoolOf
    <2>2. Cardinality(0 .. ChunksOf(c) - 1) = ChunksOf(c)
      BY <1>5, FS_Interval
    <2> QED BY <2>1, <2>2 DEF NumChunks
  <1> QED BY <1>1, <1>5, <1>6

(***************************************************************************)
(* A new pool: in zeroed memory the links run through all chunks, also     *)
(* when the last one wraps; over other memory only the first chunk is      *)
(* reached, and its link leads out of the pool.                            *)
(***************************************************************************)
LEMMA ResetIntact ==
  ASSUME NEW c \in Class, NEW upper \in UpperBytes
  PROVE  LET p == Reset(ChunksOf(c), upper)
         IN  p \in PoolOf(c) /\ Intact(p, {}, upper = 0) /\ Sound(p) /\ ~ IsFilled(p)
PROOF
  <1> DEFINE n == ChunksOf(c)
             p == Reset(n, upper)
             L(i) == upper * ByteRange + ((i + 1) % ByteRange)
  <1>1. n \in Nat \ {0} /\ n <= ByteRange /\ ByteRange \in Nat \ {0} /\ upper \in Nat
    BY PoolChunks, MemoryAssumption DEF MemoryAssumption
  <1>2. /\ p.link = [i \in 0 .. n - 1 |-> L(i)] /\ p.first = 0 /\ p.free = n
        /\ p = [link |-> p.link, first |-> p.first, free |-> p.free]
    BY DEF Reset
  <1> HIDE DEF n, p
  <1>3. \A i \in 0 .. n - 1 : L(i) \in Int
    BY <1>1
  <1>4. p \in PoolOf(c)
    <2>1. p.link \in [0 .. n - 1 -> Int]
      BY <1>2, <1>3
    <2> QED BY <1>1, <1>2, <2>1 DEF PoolOf, n
  <1>5. NumChunks(p) = n /\ DOMAIN p.link = 0 .. n - 1
    BY <1>4, PoolChunks DEF n
  <1>6. Cardinality({}) + p.free = NumChunks(p)
    BY <1>1, <1>2, <1>5, FS_EmptySet
  <1>7. Sound(p) /\ ~ IsFilled(p)
    BY <1>1, <1>2, <1>5 DEF Sound, IsFilled
  <1>8. CASE upper = 0
    <2> DEFINE s == [m \in 1 .. n |-> m - 1]
    <2>1. \A m \in 2 .. n : p.link[m - 2] = m - 1
      <3> SUFFICES ASSUME NEW m \in 2 .. n PROVE p.link[m - 2] = m - 1
        OBVIOUS
      <3>1. m - 2 \in 0 .. n - 1 /\ m - 1 \in 0 .. ByteRange - 1 /\ (m - 2) + 1 = m - 1
        BY <1>1
      <3>2. (m - 1) % ByteRange = m - 1
        BY <1>1, <3>1
      <3>3. p.link[m - 2] = upper * ByteRange + ((m - 2 + 1) % ByteRange)
        BY <1>2, <3>1
      <3> QED BY <1>1, <1>8, <3>1, <3>2, <3>3
    <2>2. s \in [1 .. n -> 0 .. n - 1] /\ Listed(p, n, s)
      <3>1. \A m \in 2 .. n : s[m] = p.link[s[m - 1]]
        BY <1>1, <2>1
      <3>2. s \in [1 .. n -> 0 .. n - 1]
        BY <1>1
      <3>3. \A m, j \in 1 .. n : s[m] = s[j] => m = j
        BY <1>1
      <3>4. s[1] = p.first
        BY <1>1, <1>2
      <3> HIDE DEF s
      <3> QED BY <1>5, <3>1, <3>2, <3>3, <3>4 DEF Listed
    <2> HIDE DEF s
    <2> QED BY <1>1, <1>2, <1>4, <1>5, <1>6, <1>7, <2>2 DEF Intact, p, n
  <1>9. CASE upper # 0
    <2> DEFINE s == [m \in 1 .. 1 |-> 0]
    <2>1. s \in [1 .. 1 -> 0 .. n - 1] /\ Listed(p, 1, s)
      BY <1>1, <1>2, <1>5 DEF Listed
    <2>2. NextFree(p, 1, s) \notin 0 .. n - 1
      <3>1. NextFree(p, 1, s) = upper * ByteRange + ((0 + 1) % ByteRange)
        BY <1>1, <1>2 DEF NextFree
      <3>2. upper * ByteRange >= ByteRange /\ upper * ByteRange \in Nat
        <4>1. upper - 1 \in Nat /\ upper = (upper - 1) + 1
          BY <1>1, <1>9
        <4>2. (upper - 1) * ByteRange \in Nat
          BY <1>1, <4>1
        <4>3. upper * ByteRange = (upper - 1) * ByteRange + ByteRange
          BY <1>1, <4>1
        <4> QED BY <1>1, <4>2, <4>3
      <3>3. (0 + 1) % ByteRange \in Nat
        BY <1>1
      <3> QED BY <1>1, <3>1, <3>2, <3>3
    <2> HIDE DEF s
    <2>3. 1 \in 0 .. p.free /\ s \in [1 .. 1 -> (DOMAIN p.link) \ {}]
      BY <1>1, <1>2, <1>5, <2>1
    <2>4. Intact(p, {}, upper = 0)
      BY <1>5, <1>6, <1>9, <2>1, <2>2, <2>3 DEF Intact
    <2> QED BY <1>4, <1>7, <2>4 DEF p, n
  <1> QED BY <1>8, <1>9

(***************************************************************************)
(* Allocate returns a chunk inside the pool that nobody has, unless the    *)
(* list has led out of the pool, which it does not in clean memory.        *)
(***************************************************************************)
LEMMA AllocateIntact ==
  ASSUME NEW c \in Class, NEW p \in PoolOf(c), NEW taken, IsFiniteSet(taken),
         NEW clean \in BOOLEAN, Intact(p, taken, clean), ~ IsFilled(p)
  PROVE  /\ clean => Sound(p)
         /\ Sound(p) => /\ p.first \notin taken
                        /\ Allocate(p) \in PoolOf(c)
                        /\ Intact(Allocate(p), taken \union {p.first}, clean)
PROOF
  <1> DEFINE q == Allocate(p)
             D == DOMAIN p.link
  <1>0. PICK k \in 0 .. p.free : \E s \in [1 .. k -> D \ taken] :
          /\ Listed(p, k, s)
          /\ k # p.free => ~ clean /\ NextFree(p, k, s) \notin D
    BY DEF Intact
  <1>1. PICK s \in [1 .. k -> D \ taken] :
          /\ Listed(p, k, s)
          /\ k # p.free => ~ clean /\ NextFree(p, k, s) \notin D
    BY <1>0
  <1>2. p.free \in Nat \ {0} /\ p.free <= ChunksOf(c) /\ ChunksOf(c) \in Nat
    BY PoolChunks DEF PoolOf, IsFilled
  <1>3. k \in Nat /\ (k = 0 => ~ clean /\ p.first \notin D)
    BY <1>1, <1>2 DEF NextFree
  <1>4. k > 0 => p.first = s[1] /\ p.first \in D \ taken
    BY <1>1 DEF Listed
  <1>5. clean => Sound(p)
    BY <1>3, <1>4 DEF Sound
  <1>6. ASSUME Sound(p)
        PROVE  /\ p.first \notin taken
               /\ q \in PoolOf(c)
               /\ Intact(q, taken \union {p.first}, clean)
    <2>1. k > 0 /\ p.first \in D /\ p.first \notin taken /\ p.first = s[1]
      BY <1>3, <1>4, <1>6 DEF Sound
    <2>2. /\ q.link = [p.link EXCEPT ![p.first] = ClientData]
          /\ q.first = p.link[p.first]
          /\ q.free = p.free - 1
      BY DEF Allocate
    <2>3. p.link \in [0 .. ChunksOf(c) - 1 -> Int] /\ D = 0 .. ChunksOf(c) - 1
      BY PoolChunks DEF PoolOf
    <2>4. q \in PoolOf(c)
      <3>1. q.link \in [0 .. ChunksOf(c) - 1 -> Int] /\ q.first \in Int
        <4>1. ClientData \in Int
          BY DEF ClientData
        <4> HIDE DEF D, q
        <4>2. p.first \in 0 .. ChunksOf(c) - 1
          BY <2>1, <2>3
        <4>3. q.first \in Int
          BY <2>2, <2>3, <4>2
        <4>4. [p.link EXCEPT ![p.first] = ClientData] \in [0 .. ChunksOf(c) - 1 -> Int]
          BY <2>3, <4>1, <4>2
        <4> QED BY <2>2, <4>3, <4>4
      <3>2. q.free \in 0 .. ChunksOf(c)
        BY <1>2, <2>2
      <3>3. q = [link |-> q.link, first |-> q.first, free |-> q.free]
        BY DEF Allocate
      <3> QED BY <3>1, <3>2, <3>3 DEF PoolOf
    <2>5. DOMAIN q.link = D /\ NumChunks(q) = NumChunks(p)
      BY <2>3, <2>4, PoolChunks
    <2>6. \A i \in D : i # p.first => q.link[i] = p.link[i]
      BY <2>2, <2>3
    <2> HIDE DEF q
    <2>7. Cardinality(taken \union {p.first}) + q.free = NumChunks(q)
      <3>1. Cardinality(taken) + p.free = NumChunks(p)
        BY DEF Intact
      <3>2. Cardinality(taken \union {p.first}) = Cardinality(taken) + 1 /\ Cardinality(taken) \in Nat
        BY <2>1, FS_AddElement, FS_CardinalityType
      <3> QED BY <1>2, <2>2, <2>5, <3>1, <3>2
    <2> DEFINE t == [m \in 1 .. k - 1 |-> s[m + 1]]
               now == taken \union {p.first}
    <2>8. \A m \in 1 .. k - 1 : m + 1 \in 2 .. k /\ t[m] = s[m + 1] /\ t[m] # p.first /\ t[m] \in D \ taken
      <3> SUFFICES ASSUME NEW m \in 1 .. k - 1
                   PROVE  m + 1 \in 2 .. k /\ t[m] = s[m + 1] /\ t[m] # p.first /\ t[m] \in D \ taken
        OBVIOUS
      <3>1. m + 1 \in 1 .. k /\ m + 1 # 1 /\ 1 \in 1 .. k
        BY <1>3, <2>1
      <3>2. s[m + 1] # s[1]
        BY <1>1, <3>1 DEF Listed
      <3> QED BY <1>1, <1>3, <2>1, <3>1, <3>2
    <2>9. t \in [1 .. k - 1 -> D \ now]
      BY <2>8
    <2>10. Listed(q, k - 1, t)
      <3>1. \A m, n \in 1 .. k - 1 : t[m] = t[n] => m = n
        <4> SUFFICES ASSUME NEW m \in 1 .. k - 1, NEW n \in 1 .. k - 1, t[m] = t[n] PROVE m = n
          OBVIOUS
        <4>1. m + 1 \in 1 .. k /\ n + 1 \in 1 .. k /\ s[m + 1] = s[n + 1]
          <5> HIDE DEF t
          <5> QED BY <1>3, <2>8
        <4>2. m + 1 = n + 1
          BY <1>1, <4>1 DEF Listed
        <4> QED BY <4>2
      <3>2. k - 1 > 0 => t[1] = q.first
        <4> SUFFICES ASSUME k - 1 > 0 PROVE t[1] = q.first
          OBVIOUS
        <4>1. 2 \in 2 .. k /\ s[2] = p.link[s[2 - 1]]
          BY <1>1, <1>3 DEF Listed
        <4>2. t[1] = s[2]
          BY <1>3
        <4> QED BY <2>1, <2>2, <4>1, <4>2
      <3>3. \A n \in 2 .. k - 1 : t[n] = q.link[t[n - 1]]
        <4> SUFFICES ASSUME NEW n \in 2 .. k - 1 PROVE t[n] = q.link[t[n - 1]]
          OBVIOUS
        <4>1. n \in 1 .. k - 1 /\ n - 1 \in 1 .. k - 1 /\ n + 1 \in 2 .. k /\ (n + 1) - 1 = n /\ (n - 1) + 1 = n
          BY <1>3
        <4>2. t[n] = s[n + 1] /\ t[n - 1] = s[n]
          BY <2>8, <4>1
        <4>3. s[n + 1] = p.link[s[(n + 1) - 1]]
          BY <1>1, <4>1 DEF Listed
        <4>4. q.link[t[n - 1]] = p.link[t[n - 1]]
          BY <2>6, <2>8, <4>1
        <4> QED BY <4>1, <4>2, <4>3, <4>4
      <3> HIDE DEF t
      <3> QED BY <2>5, <2>9, <3>1, <3>2, <3>3 DEF Listed
    <2>11. k - 1 # q.free => ~ clean /\ NextFree(q, k - 1, t) \notin DOMAIN q.link
      <3> SUFFICES ASSUME k - 1 # q.free
                   PROVE  ~ clean /\ NextFree(q, k - 1, t) = NextFree(p, k, s)
        BY <1>1, <1>2, <1>3, <2>2, <2>5
      <3>1. k # p.free
        BY <1>2, <1>3, <2>2
      <3>2. CASE k = 1
        BY <1>1, <2>1, <2>2, <3>1, <3>2 DEF NextFree
      <3>3. CASE k # 1
        <4>1. k - 1 \in 1 .. k - 1 /\ k - 1 # 0 /\ (k - 1) + 1 = k
          BY <1>3, <2>1, <3>3
        <4>2. q.link[t[k - 1]] = p.link[s[k]]
          BY <2>6, <2>8, <4>1
        <4> QED BY <1>1, <2>1, <3>1, <4>1, <4>2 DEF NextFree
      <3> QED BY <3>2, <3>3
    <2>12. now \subseteq DOMAIN q.link
      BY <2>1, <2>5 DEF Intact
    <2>13. k - 1 \in 0 .. q.free
      BY <1>1, <1>2, <1>3, <2>1, <2>2
    <2> HIDE DEF t
    <2>14. Intact(q, now, clean)
      BY <2>5, <2>7, <2>9, <2>10, <2>11, <2>12, <2>13 DEF Intact
    <2> QED BY <2>1, <2>4, <2>14
  <1> HIDE DEF q
  <1> QED BY <1>5, <1>6 DEF q

(***************************************************************************)
(* Deallocate puts the chunk in front of the list.                         *)
(***************************************************************************)
LEMMA DeallocateIntact ==
  ASSUME NEW c \in Class, NEW p \in PoolOf(c), NEW taken, IsFiniteSet(taken),
         NEW clean \in BOOLEAN, Intact(p, taken, clean), NEW chunk \in taken
  PROVE  /\ Deallocate(p, chunk) \in PoolOf(c)
         /\ Intact(Deallocate(p, chunk), taken \ {chunk}, clean)
PROOF
  <1> DEFINE q == Deallocate(p, chunk)
             D == DOMAIN p.link
             now == taken \ {chunk}
  <1>0. PICK k \in 0 .. p.free : \E s \in [1 .. k -> D \ taken] :
          /\ Listed(p, k, s)
          /\ k # p.free => ~ clean /\ NextFree(p, k, s) \notin D
    BY DEF Intact
  <1>1. PICK s \in [1 .. k -> D \ taken] :
          /\ Listed(p, k, s)
          /\ k # p.free => ~ clean /\ NextFree(p, k, s) \notin D
    BY <1>0
  <1>2. p.free \in Nat /\ k \in Nat /\ ChunksOf(c) \in Nat /\ chunk \in D /\ p.first \in Int
    BY PoolChunks DEF PoolOf, Intact
  <1>3. Cardinality(taken) + p.free = ChunksOf(c) /\ NumChunks(p) = ChunksOf(c)
    BY PoolChunks DEF Intact
  <1>4. Cardinality(now) = Cardinality(taken) - 1 /\ Cardinality(now) \in Nat
    <2>1. IsFiniteSet(now) /\ Cardinality(now) = Cardinality(taken) - 1
      BY FS_RemoveElement
    <2> QED BY <2>1, FS_CardinalityType
  <1>5. /\ q.link = [p.link EXCEPT ![chunk] = p.first]
        /\ q.first = chunk
        /\ q.free = p.free + 1
    BY DEF Deallocate
  <1>6. p.link \in [0 .. ChunksOf(c) - 1 -> Int] /\ D = 0 .. ChunksOf(c) - 1
    BY PoolChunks DEF PoolOf
  <1>7. q \in PoolOf(c)
    <2>1. q.link \in [0 .. ChunksOf(c) - 1 -> Int] /\ q.first \in Int
      BY <1>2, <1>5, <1>6
    <2>2. Cardinality(taken) \in Nat
      BY FS_CardinalityType
    <2>3. q.free \in 0 .. ChunksOf(c)
      BY <1>2, <1>3, <1>4, <1>5, <2>2
    <2>4. q = [link |-> q.link, first |-> q.first, free |-> q.free]
      BY DEF Deallocate
    <2> QED BY <2>1, <2>3, <2>4 DEF PoolOf
  <1>8. DOMAIN q.link = D /\ NumChunks(q) = NumChunks(p)
    BY <1>6, <1>7, PoolChunks
  <1>9. q.link[chunk] = p.first /\ \A i \in D : i # chunk => q.link[i] = p.link[i]
    BY <1>2, <1>5, <1>6
  <1> HIDE DEF q
  <1>10. Cardinality(now) + q.free = NumChunks(q)
    <2>1. Cardinality(taken) \in Nat
      BY FS_CardinalityType
    <2> QED BY <1>2, <1>3, <1>4, <1>5, <1>8, <2>1
  <1> DEFINE t == [m \in 1 .. k + 1 |-> IF m = 1 THEN chunk ELSE s[m - 1]]
  <1>11. /\ t[1] = chunk
         /\ \A m \in 2 .. k + 1 : m - 1 \in 1 .. k /\ t[m] = s[m - 1] /\ t[m] # chunk /\ t[m] \in D \ taken
    BY <1>1, <1>2
  <1>12. t \in [1 .. k + 1 -> D \ now]
    <2>1. \A m \in 1 .. k + 1 : t[m] \in D \ now
      BY <1>2, <1>11
    <2> QED BY <2>1
  <1>13. Listed(q, k + 1, t)
    <2>1. \A m, n \in 1 .. k + 1 : t[m] = t[n] => m = n
      <3> SUFFICES ASSUME NEW m \in 1 .. k + 1, NEW n \in 1 .. k + 1, t[m] = t[n] PROVE m = n
        OBVIOUS
      <3>1. m = 1 \/ m \in 2 .. k + 1
        BY <1>2
      <3>2. n = 1 \/ n \in 2 .. k + 1
        BY <1>2
      <3>3. CASE m = 1 \/ n = 1
        BY <1>11, <3>1, <3>2, <3>3
      <3>4. CASE m \in 2 .. k + 1 /\ n \in 2 .. k + 1
        <4>1. s[m - 1] = s[n - 1] /\ m - 1 \in 1 .. k /\ n - 1 \in 1 .. k
          BY <1>11, <3>4
        <4>2. m - 1 = n - 1
          BY <1>1, <4>1 DEF Listed
        <4> QED BY <4>2, <3>4, <1>2
      <3> QED BY <3>1, <3>2, <3>3, <3>4
    <2>2. \A n \in 2 .. k + 1 : t[n] = q.link[t[n - 1]]
      <3> SUFFICES ASSUME NEW n \in 2 .. k + 1 PROVE t[n] = q.link[t[n - 1]]
        OBVIOUS
      <3>1. CASE n = 2
        <4>1. t[2] = s[1] /\ s[1] = p.first /\ 2 - 1 = 1
          BY <1>1, <1>2, <1>11, <3>1 DEF Listed
        <4> QED BY <1>9, <1>11, <3>1, <4>1
      <3>2. CASE n # 2
        <4>1. n - 1 \in 2 .. k + 1 /\ n - 1 \in 2 .. k /\ t[n - 1] = s[n - 1 - 1] /\ t[n] = s[n - 1]
          BY <1>2, <1>11, <3>2
        <4>2. s[n - 1] = p.link[s[n - 1 - 1]]
          BY <1>1, <4>1 DEF Listed
        <4>3. t[n - 1] # chunk /\ t[n - 1] \in D
          BY <1>11, <4>1
        <4> QED BY <1>9, <4>1, <4>2, <4>3
      <3> QED BY <3>1, <3>2
    <2>3. t \in [1 .. k + 1 -> DOMAIN q.link]
      BY <1>8, <1>12
    <2> HIDE DEF t
    <2> QED BY <1>5, <1>11, <2>1, <2>2, <2>3 DEF Listed
  <1>14. k + 1 # q.free => ~ clean /\ NextFree(q, k + 1, t) \notin DOMAIN q.link
    <2> SUFFICES ASSUME k + 1 # q.free
                 PROVE  ~ clean /\ NextFree(q, k + 1, t) = NextFree(p, k, s)
      BY <1>1, <1>2, <1>5, <1>8
    <2>1. k # p.free
      BY <1>2, <1>5
    <2>2. CASE k = 0
      BY <1>1, <1>9, <1>11, <2>1, <2>2 DEF NextFree
    <2>3. CASE k # 0
      <3>1. k + 1 \in 2 .. k + 1 /\ k + 1 # 0 /\ (k + 1) - 1 = k
        BY <1>2, <2>3
      <3>2. t[k + 1] = s[k] /\ t[k + 1] # chunk /\ t[k + 1] \in D
        BY <1>11, <3>1
      <3> HIDE DEF t
      <3> QED BY <1>1, <1>9, <2>1, <2>3, <3>1, <3>2 DEF NextFree
    <2> QED BY <2>2, <2>3
  <1>15. now \subseteq DOMAIN q.link
    BY <1>8 DEF Intact
  <1>16. k + 1 \in 0 .. q.free
    BY <1>1, <1>2, <1>5
  <1> HIDE DEF t
  <1>17. Intact(q, now, clean)
    BY <1>8, <1>10, <1>12, <1>13, <1>14, <1>15, <1>16 DEF Intact
  <1> QED BY <1>7, <1>17 DEF q

(***************************************************************************)
(* In clean memory the list of free chunks is complete: FreeList, which    *)
(* follows the links, gives every chunk that is not taken, once.           *)
(***************************************************************************)
LEMMA FreeListExact ==
  ASSUME NEW c \in Class, NEW p \in PoolOf(c), NEW taken, IsFiniteSet(taken),
         Intact(p, taken, TRUE)
  PROVE  /\ ToSet(FreeList(p)) = (DOMAIN p.link) \ taken
         /\ Len(FreeList(p)) = p.free
PROOF
  <1> DEFINE D == DOMAIN p.link
             n == p.free
             Solves(f) == f = [m \in 1 .. n |->
                                 IF m = 1 THEN p.first
                                 ELSE LET before == f[m - 1]
                                      IN  IF before \in D THEN p.link[before] ELSE ClientData]
  <1>1. PICK s \in [1 .. n -> D \ taken] : Listed(p, n, s)
    BY DEF Intact
  <1>2. n \in Nat /\ D = 0 .. ChunksOf(c) - 1 /\ ChunksOf(c) \in Nat
    BY PoolChunks DEF PoolOf
  <1>3. Solves(s)
    <2>1. s = [m \in 1 .. n |-> s[m]]
      BY <1>1
    <2>2. \A m \in 1 .. n : s[m] = IF m = 1 THEN p.first
                                   ELSE LET before == s[m - 1]
                                        IN  IF before \in D THEN p.link[before] ELSE ClientData
      <3> SUFFICES ASSUME NEW m \in 1 .. n, m # 1
                   PROVE  s[m] = p.link[s[m - 1]] /\ s[m - 1] \in D
        BY <1>1, <1>2 DEF Listed
      <3>1. m \in 2 .. n /\ m - 1 \in 1 .. n
        BY <1>2
      <3> QED BY <1>1, <3>1 DEF Listed
    <2> HIDE DEF D
    <2> QED BY <2>1, <2>2
  <1>4. Solves(FreeList(p))
    <2>1. FreeList(p) = CHOOSE f : Solves(f)
      BY DEF FreeList
    <2> HIDE DEF Solves
    <2> QED BY <1>3, <2>1
  <1> DEFINE f == FreeList(p)
             Bad == {m \in 1 .. n : f[m] # s[m]}
  <1> HIDE DEF f
  <1>5. Bad = {}
    <2> SUFFICES ASSUME Bad # {} PROVE FALSE
      OBVIOUS
    <2>1. PICK m \in Bad : \A j \in Bad : m <= j
      <3>1. Bad \subseteq Nat
        BY <1>2
      <3> HIDE DEF Bad
      <3> QED BY <3>1, Smallest
    <2>2. m # 1
      BY <1>3, <1>4, <2>1 DEF f
    <2>3. m - 1 \in 1 .. n /\ ~ m <= m - 1 /\ m \in 1 .. n
      BY <1>2, <2>1, <2>2
    <2>4. f[m - 1] = s[m - 1]
      BY <2>1, <2>3
    <2>5. f[m] = IF f[m - 1] \in D THEN p.link[f[m - 1]] ELSE ClientData
      BY <1>4, <2>2, <2>3 DEF f
    <2>6. s[m] = IF s[m - 1] \in D THEN p.link[s[m - 1]] ELSE ClientData
      BY <1>3, <2>2, <2>3
    <2> QED BY <2>1, <2>4, <2>5, <2>6
  <1>6. f = s
    <2>1. f = [m \in 1 .. n |-> f[m]]
      BY <1>4 DEF f
    <2>2. s = [m \in 1 .. n |-> s[m]]
      BY <1>1
    <2>3. \A m \in 1 .. n : f[m] = s[m]
      BY <1>5
    <2> HIDE DEF Solves
    <2> QED BY <2>1, <2>2, <2>3
  <1>7. Len(s) = n
    BY <1>1, <1>2
  <1>8. {s[m] : m \in 1 .. n} = D \ taken
    <2> DEFINE R == {s[m] : m \in 1 .. n}
    <2>1. R \subseteq D \ taken
      BY <1>1
    <2>2. IsFiniteSet(D) /\ Cardinality(D) = NumChunks(p)
      BY <1>2, FS_Interval DEF NumChunks
    <2>3. IsFiniteSet(D \ taken) /\ Cardinality(D \ taken) = n
      <3>1. taken \subseteq D /\ Cardinality(taken) + n = NumChunks(p)
        BY DEF Intact
      <3>2. IsFiniteSet(D \ taken) /\ Cardinality(D \ taken) = Cardinality(D) - Cardinality(D \cap taken)
        <4> HIDE DEF D
        <4> QED BY <2>2, FS_Difference
      <3>3. D \cap taken = taken
        BY <3>1
      <3>4. Cardinality(taken) \in Nat
        BY FS_CardinalityType
      <3>5. Cardinality(D \ taken) = NumChunks(p) - Cardinality(taken)
        BY <2>2, <3>2, <3>3
      <3>6. NumChunks(p) \in Nat
        BY PoolChunks
      <3> HIDE DEF D
      <3> QED BY <1>2, <3>1, <3>2, <3>4, <3>5, <3>6
    <2>4. IsFiniteSet(R) /\ Cardinality(R) = n
      <3>1. s \in Bijection(1 .. n, R)
        <4>1. s \in Surjection(1 .. n, R)
          BY <1>1 DEF Surjection
        <4>2. s \in Injection(1 .. n, R)
          BY <1>1 DEF Injection, Listed, IsInjective
        <4> QED BY <4>1, <4>2 DEF Bijection
      <3>2. IsFiniteSet(1 .. n) /\ Cardinality(1 .. n) = n
        BY <1>2, FS_Interval
      <3> HIDE DEF R
      <3> QED BY <3>1, <3>2, FS_Bijection DEF ExistsBijection
    <2> HIDE DEF R
    <2>5. R = D \ taken
      BY <2>1, <2>3, <2>4, FS_Subset
    <2> QED BY <2>5 DEF R
  <1> QED BY <1>1, <1>6, <1>7, <1>8 DEF f, ToSet

-----------------------------------------------------------------------------
(* Shrink. *)

(* No address twice. *)
Distinct(s) == \A m, n \in DOMAIN s : s[m] = s[n] => m = n

(* The list t is what is left of the list s: all but some pools that are free. *)
Kept(s, t) ==
  /\ t \in Seq(PoolId) /\ Distinct(t)
  /\ ToSet(t) \subseteq ToSet(s)
  /\ \A i \in ToSet(s) \ ToSet(t) : IsFree(pool[i])

(* One turn of the loop, at a position in the list. *)
LEMMA ShrinkStepKeeps ==
  ASSUME NEW s \in Seq(PoolId), NEW t \in Seq(PoolId), Kept(s, t), NEW n \in 1 .. Len(t)
  PROVE  LET next == ShrinkStep(t, n)
         IN  /\ next = [list |-> next.list, at |-> next.at]
             /\ Kept(s, next.list)
             /\ next.at \in 1 .. Len(next.list) + 1
             /\ next.at - Len(next.list) = n + 1 - Len(t)
PROOF
  <1> DEFINE next == ShrinkStep(t, n)
             k == Len(t)
  <1>1. k \in Nat /\ n \in Nat /\ n \in 1 .. k /\ DOMAIN t = 1 .. k /\ \A j \in 1 .. k : t[j] \in PoolId
    OBVIOUS
  <1> HIDE DEF k
  <1>2. CASE ~ (IsFree(pool[t[n]]) /\ k > 1)
    <2>1. next = [list |-> t, at |-> n + 1]
      BY <1>2 DEF ShrinkStep, k
    <2> HIDE DEF next
    <2> QED BY <1>1, <2>1 DEF next, k
  <1>3. CASE IsFree(pool[t[n]]) /\ k > 1
    <2> DEFINE moved == [t EXCEPT ![n] = t[k]]
               u == SubSeq(moved, 1, k - 1)
    <2>1. next = [list |-> u, at |-> n]
      BY <1>3 DEF ShrinkStep, k
    <2>2. moved \in Seq(PoolId) /\ Len(moved) = k
      BY <1>1 DEF k
    <2>3. \A j \in 1 .. k : moved[j] = IF j = n THEN t[k] ELSE t[j]
      BY <1>1
    <2> HIDE DEF moved
    <2>4. /\ u \in Seq(PoolId) /\ Len(u) = k - 1
          /\ \A j \in 1 .. k - 1 : u[j] = moved[j]
      BY <1>1, <1>3, <2>2
    <2> HIDE DEF u
    <2>5. \A j \in 1 .. k - 1 : u[j] = IF j = n THEN t[k] ELSE t[j]
      BY <1>1, <2>3, <2>4
    <2>6. DOMAIN u = 1 .. k - 1
      BY <2>4
    <2>7. ToSet(t) = {t[j] : j \in 1 .. k} /\ ToSet(u) = {u[j] : j \in 1 .. k - 1}
      BY <1>1, <2>6 DEF ToSet
    <2>8. ToSet(u) = ToSet(t) \ {t[n]}
      <3>1. ASSUME NEW j \in 1 .. k - 1 PROVE u[j] \in ToSet(t) \ {t[n]}
        <4>1. j \in 1 .. k /\ k \in 1 .. k /\ j # k
          BY <1>1, <1>3
        <4>2. CASE j = n
          <5>1. t[k] # t[n]
            BY <1>1, <4>1, <4>2 DEF Kept, Distinct
          <5> QED BY <2>5, <2>7, <4>1, <4>2, <5>1
        <4>3. CASE j # n
          <5>1. t[j] # t[n]
            BY <1>1, <4>1, <4>3 DEF Kept, Distinct
          <5> QED BY <2>5, <2>7, <4>1, <4>3, <5>1
        <4> QED BY <4>2, <4>3
      <3>2. ASSUME NEW j \in 1 .. k, t[j] # t[n] PROVE t[j] \in ToSet(u)
        <4>1. j # n
          BY <3>2
        <4>2. CASE j = k
          <5>1. n \in 1 .. k - 1
            BY <1>1, <4>1, <4>2
          <5> QED BY <2>5, <2>7, <4>2, <5>1
        <4>3. CASE j # k
          <5>1. j \in 1 .. k - 1
            BY <1>1, <4>3
          <5> QED BY <2>5, <2>7, <4>1, <5>1
        <4> QED BY <4>2, <4>3
      <3> QED BY <2>7, <3>1, <3>2
    <2>9. Distinct(u)
      <3> SUFFICES ASSUME NEW i \in 1 .. k - 1, NEW j \in 1 .. k - 1, u[i] = u[j] PROVE i = j
        BY <2>6 DEF Distinct
      <3>1. i \in 1 .. k /\ j \in 1 .. k /\ k \in 1 .. k /\ i # k /\ j # k
        BY <1>1, <1>3
      <3>2. \A a, b \in 1 .. k : t[a] = t[b] => a = b
        BY <1>1 DEF Kept, Distinct
      <3> QED BY <2>5, <3>1, <3>2
    <2>10. Kept(s, u)
      BY <1>3, <2>4, <2>8, <2>9 DEF Kept
    <2> HIDE DEF next
    <2> QED BY <1>1, <1>3, <2>1, <2>4, <2>10 DEF next, k
  <1> QED BY <1>2, <1>3

(***************************************************************************)
(* The whole loop: as many turns as the list is long, each at a position   *)
(* in the list, leave a list of which only free pools are missing.         *)
(***************************************************************************)
LEMMA ShrunkKeeps ==
  ASSUME NEW s \in Seq(PoolId), Distinct(s)
  PROVE  Kept(s, Shrunk(s))
PROOF
  <1> DEFINE n == Len(s)
             a == [list |-> s, at |-> 1]
             Turn == [list : Seq(PoolId), at : Nat]
             T == [m \in 0 .. n |->
                     {x \in Turn : /\ Kept(s, x.list)
                                   /\ x.at \in 1 .. Len(x.list) + 1
                                   /\ x.at - Len(x.list) = m + 1 - n}]
             g == [m \in 1 .. n |-> [x \in Turn |-> ShrinkStep(x.list, x.at)]]
             Solves(f) == f = [m \in 0 .. n |->
                                 IF m = 0 THEN a
                                 ELSE LET before == f[m - 1] IN ShrinkStep(before.list, before.at)]
  <1>1. n \in Nat
    OBVIOUS
  <1>2. a \in T[0]
    <2>1. Kept(s, s)
      BY DEF Kept
    <2> QED BY <1>1, <2>1
  <1>3. \A m \in 1 .. n : \A x \in T[m - 1] : x \in Turn /\ g[m][x] \in T[m] /\ g[m][x] = ShrinkStep(x.list, x.at)
    <2> SUFFICES ASSUME NEW m \in 1 .. n, NEW x \in T[m - 1]
                 PROVE  x \in Turn /\ g[m][x] \in T[m] /\ g[m][x] = ShrinkStep(x.list, x.at)
      OBVIOUS
    <2>1. m - 1 \in 0 .. n /\ m \in 0 .. n
      BY <1>1
    <2>2. /\ x \in Turn
          /\ Kept(s, x.list)
          /\ x.at \in 1 .. Len(x.list) + 1
          /\ x.at - Len(x.list) = m - n
      BY <1>1, <2>1
    <2>3. x.list \in Seq(PoolId) /\ Len(x.list) \in Nat /\ x.at \in 1 .. Len(x.list)
      BY <1>1, <2>2
    <2> DEFINE y == ShrinkStep(x.list, x.at)
    <2>4. /\ y = [list |-> y.list, at |-> y.at]
          /\ Kept(s, y.list)
          /\ y.at \in 1 .. Len(y.list) + 1
          /\ y.at - Len(y.list) = x.at + 1 - Len(x.list)
      BY <2>2, <2>3, ShrinkStepKeeps
    <2>5. y.list \in Seq(PoolId) /\ Len(y.list) \in Nat
      BY <2>4 DEF Kept
    <2> HIDE DEF y
    <2>6. y \in Turn /\ y.at - Len(y.list) = m + 1 - n
      <3>1. y.at \in Nat /\ x.at \in Nat
        BY <2>3, <2>4, <2>5
      <3>2. y \in Turn
        BY <2>4, <2>5, <3>1
      <3> QED BY <1>1, <2>2, <2>3, <2>4, <2>5, <3>1, <3>2
    <2>7. y \in T[m]
      BY <2>1, <2>4, <2>6
    <2>8. g[m][x] = y
      BY <2>2 DEF y
    <2> QED BY <2>2, <2>7, <2>8 DEF y
  <1> HIDE DEF T, g
  <1> HIDE DEF a, n
  <1>4. PICK f : Recursion(f, n, a, g)
    BY <1>1, RecursionExists
  <1>5. /\ f = [m \in 0 .. n |-> f[m]]
        /\ f[0] = a /\ \A m \in 1 .. n : f[m] = g[m][f[m - 1]]
    BY <1>4 DEF Recursion
  <1>6. \A m \in 0 .. n : f[m] \in T[m]
    <2>1. f[0] \in T[0]
      BY <1>2, <1>5
    <2>2. \A m \in 1 .. n : \A x \in T[m - 1] : g[m][x] \in T[m]
      BY <1>3
    <2>3. \A m \in 1 .. n : f[m] = g[m][f[m - 1]]
      BY <1>5
    <2> QED BY <1>1, <2>1, <2>2, <2>3, RecursionStays
  <1>7. Solves(f)
    <2>1. \A m \in 1 .. n : f[m] = ShrinkStep(f[m - 1].list, f[m - 1].at)
      <3> SUFFICES ASSUME NEW m \in 1 .. n PROVE f[m] = ShrinkStep(f[m - 1].list, f[m - 1].at)
        OBVIOUS
      <3>1. m - 1 \in 0 .. n
        BY <1>1
      <3> QED BY <1>3, <1>5, <1>6, <3>1
    <2> QED BY <1>1, <1>5, <2>1
  <1> DEFINE turn == CHOOSE h : Solves(h)
  <1>8. Solves(turn)
    <2> HIDE DEF Solves
    <2> QED BY <1>7
  <1>9. Shrunk(s) = turn[n].list
    BY DEF Shrunk, n, a
  <1> HIDE DEF turn
  <1>10. turn[0] = a /\ \A m \in 1 .. n : turn[m] = ShrinkStep(turn[m - 1].list, turn[m - 1].at)
    BY <1>1, <1>8
  <1>11. \A m \in 0 .. n : turn[m] = f[m]
    <2> DEFINE Bad == {m \in 0 .. n : turn[m] # f[m]}
    <2> SUFFICES ASSUME Bad # {} PROVE FALSE
      OBVIOUS
    <2>1. PICK m \in Bad : \A j \in Bad : m <= j
      <3>1. Bad \subseteq Nat
        OBVIOUS
      <3> HIDE DEF Bad
      <3> QED BY <3>1, Smallest
    <2>2. m \in 1 .. n /\ m - 1 \in 0 .. n /\ ~ m <= m - 1
      BY <1>1, <1>5, <1>10, <2>1
    <2>3. turn[m - 1] = f[m - 1]
      BY <2>1, <2>2
    <2> HIDE DEF Solves
    <2> QED BY <1>3, <1>5, <1>6, <1>10, <2>1, <2>2, <2>3
  <1>12. turn[n] \in T[n]
    BY <1>1, <1>6, <1>11
  <1> QED BY <1>1, <1>9, <1>12 DEF T

-----------------------------------------------------------------------------
(* The inductive invariant.  Its parts are about any lists of pools and    *)
(* any memory, since a call may add a pool before it allocates in it.      *)

(* Every pool is in one list, once. *)
Structured(lists, mem) ==
  /\ lists \in [Class -> Seq(PoolId)]
  /\ DOMAIN mem = PoolId
  /\ \A i \in PoolId : mem[i] # Null <=> \E c \in Class : i \in ToSet(lists[c])
  /\ \A c \in Class : Distinct(lists[c])
  /\ \A c, d \in Class : c # d => ToSet(lists[c]) \cap ToSet(lists[d]) = {}
  /\ \A c \in Class : \A i \in ToSet(lists[c]) : mem[i] \in PoolOf(c)

Taken(blocks, c, i) == {n \in Nat : <<c, i, n>> \in blocks}

(* Clients' blocks are chunks of pools in the lists, and what is not theirs is free. *)
Accounted(lists, mem, blocks, clean) ==
  /\ blocks \subseteq Class \X PoolId \X Nat
  /\ \A block \in blocks : block[2] \in ToSet(lists[block[1]])
  /\ \A c \in Class : \A i \in ToSet(lists[c]) : Intact(mem[i], Taken(blocks, c, i), clean)

CachedPools == \A c \in Class : {m_AllocPool[c], m_DeallocPool[c]} \subseteq ToSet(m_Pools[c])

SmallIInv ==
  /\ TypeOK
  /\ Structured(m_Pools, pool)
  /\ ~ fault => Accounted(m_Pools, pool, owned, ~ dirty)
  /\ ~ dropped => CachedPools
  /\ SafeUntilShrink

LEMMA TakenIsFinite ==
  ASSUME NEW c \in Class, NEW p \in PoolOf(c), NEW taken, taken \subseteq DOMAIN p.link
  PROVE  IsFiniteSet(taken)
PROOF
  <1>1. DOMAIN p.link = 0 .. ChunksOf(c) - 1 /\ ChunksOf(c) \in Nat
    BY PoolChunks
  <1>2. IsFiniteSet(0 .. ChunksOf(c) - 1)
    BY <1>1, FS_Interval
  <1> QED BY <1>1, <1>2, FS_Subset

(* A pool has one class. *)
LEMMA ClassOfPool ==
  ASSUME NEW lists, NEW mem, Structured(lists, mem), NEW c \in Class, NEW d \in Class,
         NEW i \in ToSet(lists[c]), i \in ToSet(lists[d])
  PROVE  c = d /\ i \in PoolId
PROOF
  <1>1. ToSet(lists[c]) \subseteq PoolId
    BY DEF Structured, ToSet
  <1> QED BY <1>1 DEF Structured

(***************************************************************************)
(* One pool changes, and with it the blocks in it.                         *)
(***************************************************************************)
LEMMA OnePoolChanges ==
  ASSUME NEW lists, NEW mem, NEW blocks, NEW clean \in BOOLEAN,
         Structured(lists, mem), Accounted(lists, mem, blocks, clean),
         NEW c \in Class, NEW i \in ToSet(lists[c]), NEW p \in PoolOf(c), NEW now,
         now \subseteq Class \X PoolId \X Nat,
         \A d, j, n : <<d, j, n>> # <<c, i, n>> => (<<d, j, n>> \in now <=> <<d, j, n>> \in blocks),
         Intact(p, Taken(now, c, i), clean)
  PROVE  /\ Structured(lists, [mem EXCEPT ![i] = p])
         /\ Accounted(lists, [mem EXCEPT ![i] = p], now, clean)
PROOF
  <1> DEFINE new == [mem EXCEPT ![i] = p]
  <1>1. i \in PoolId /\ p # Null
    BY ClassOfPool, NullAssumption
  <1>2. DOMAIN new = PoolId /\ new[i] = p /\ \A j \in PoolId : j # i => new[j] = mem[j]
    BY <1>1 DEF Structured
  <1> HIDE DEF new
  <1>3. \A d \in Class : \A j \in ToSet(lists[d]) : j \in PoolId /\ (j = i => d = c)
    BY ClassOfPool
  <1>4. Structured(lists, new)
    <2>1. \A j \in PoolId : new[j] # Null <=> \E d \in Class : j \in ToSet(lists[d])
      BY <1>1, <1>2 DEF Structured
    <2>2. \A d \in Class : \A j \in ToSet(lists[d]) : new[j] \in PoolOf(d)
      BY <1>2, <1>3 DEF Structured
    <2> QED BY <1>2, <2>1, <2>2 DEF Structured
  <1>5. \A block \in now : block[2] \in ToSet(lists[block[1]])
    <2> SUFFICES ASSUME NEW block \in now PROVE block[2] \in ToSet(lists[block[1]])
      OBVIOUS
    <2>1. block = <<block[1], block[2], block[3]>>
      OBVIOUS
    <2>2. (block[1] = c /\ block[2] = i) \/ block \in blocks
      BY <2>1
    <2> QED BY <2>2 DEF Accounted
  <1>6. ASSUME NEW d \in Class, NEW j \in ToSet(lists[d])
        PROVE  Intact(new[j], Taken(now, d, j), clean)
    <2>1. CASE j = i
      BY <1>2, <1>3, <1>6, <2>1
    <2>2. CASE j # i
      <3>1. new[j] = mem[j]
        BY <1>2, <1>3, <1>6, <2>2
      <3>2. \A n \in Nat : <<d, j, n>> \in now <=> <<d, j, n>> \in blocks
        BY <2>2
      <3>3. Taken(now, d, j) = Taken(blocks, d, j)
        BY <3>2 DEF Taken
      <3> QED BY <1>6, <3>1, <3>3 DEF Accounted
    <2> QED BY <2>1, <2>2
  <1>7. Accounted(lists, new, now, clean)
    BY <1>5, <1>6 DEF Accounted
  <1> QED BY <1>4, <1>7 DEF new

(***************************************************************************)
(* Taking a chunk from a pool that counts a free one: in clean memory there *)
(* is one, and if there is one it becomes a new block.                     *)
(***************************************************************************)
LEMMA TakeKeeps ==
  ASSUME NEW lists, NEW mem, NEW blocks, NEW clean \in BOOLEAN,
         Structured(lists, mem), Accounted(lists, mem, blocks, clean),
         NEW c \in Class, NEW i \in ToSet(lists[c]), ~ IsFilled(mem[i])
  PROVE  /\ clean => Sound(mem[i])
         /\ Sound(mem[i]) =>
              LET new == [mem EXCEPT ![i] = Allocate(@)]
              IN  /\ Structured(lists, new)
                  /\ Accounted(lists, new, blocks \union {<<c, i, mem[i].first>>}, clean)
PROOF
  <1> DEFINE p == mem[i]
             taken == Taken(blocks, c, i)
             now == blocks \union {<<c, i, p.first>>}
  <1>1. p \in PoolOf(c) /\ Intact(p, taken, clean) /\ i \in PoolId
    BY ClassOfPool DEF Structured, Accounted
  <1>2. IsFiniteSet(taken)
    BY <1>1, TakenIsFinite DEF Intact
  <1>3. /\ clean => Sound(p)
        /\ Sound(p) => Allocate(p) \in PoolOf(c) /\ Intact(Allocate(p), taken \union {p.first}, clean)
    <2> HIDE DEF p, taken
    <2> QED BY <1>1, <1>2, AllocateIntact DEF p
  <1>4. ASSUME Sound(p)
        PROVE  LET new == [mem EXCEPT ![i] = Allocate(@)]
               IN  Structured(lists, new) /\ Accounted(lists, new, now, clean)
    <2>1. p.first \in Nat
      BY <1>1, <1>4, PoolChunks DEF Sound
    <2>2. now \subseteq Class \X PoolId \X Nat
      BY <1>1, <2>1 DEF Accounted
    <2>3. Taken(now, c, i) = taken \union {p.first}
      BY <2>1 DEF Taken
    <2>4. \A d, j, n : <<d, j, n>> # <<c, i, n>> => (<<d, j, n>> \in now <=> <<d, j, n>> \in blocks)
      OBVIOUS
    <2> HIDE DEF now, taken
    <2>5. /\ Structured(lists, [mem EXCEPT ![i] = Allocate(p)])
          /\ Accounted(lists, [mem EXCEPT ![i] = Allocate(p)], now, clean)
      BY <1>3, <1>4, <2>2, <2>3, <2>4, OnePoolChanges
    <2> QED BY <2>5
  <1> QED BY <1>3, <1>4

(* Giving a block back. *)
LEMMA PutKeeps ==
  ASSUME NEW lists, NEW mem, NEW blocks, NEW clean \in BOOLEAN,
         Structured(lists, mem), Accounted(lists, mem, blocks, clean),
         NEW block \in blocks
  PROVE  LET new == [mem EXCEPT ![block[2]] = Deallocate(@, block[3])]
         IN  /\ block[2] \in ToSet(lists[block[1]])
             /\ Structured(lists, new)
             /\ Accounted(lists, new, blocks \ {block}, clean)
PROOF
  <1> DEFINE c == block[1]
             i == block[2]
             n == block[3]
             p == mem[i]
             taken == Taken(blocks, c, i)
             now == blocks \ {block}
  <1>1. /\ c \in Class /\ i \in PoolId /\ n \in Nat /\ block = <<c, i, n>>
        /\ i \in ToSet(lists[c])
    BY DEF Accounted
  <1>2. p \in PoolOf(c) /\ Intact(p, taken, clean)
    BY <1>1 DEF Structured, Accounted
  <1>3. IsFiniteSet(taken)
    BY <1>1, <1>2, TakenIsFinite DEF Intact
  <1>4. n \in taken /\ Taken(now, c, i) = taken \ {n}
    BY <1>1 DEF Taken
  <1>5. now \subseteq Class \X PoolId \X Nat
    BY DEF Accounted
  <1>6. \A d, j, m : <<d, j, m>> # <<c, i, m>> => (<<d, j, m>> \in now <=> <<d, j, m>> \in blocks)
    BY <1>1
  <1> HIDE DEF c, i, n, p, taken, now
  <1>7. Deallocate(p, n) \in PoolOf(c) /\ Intact(Deallocate(p, n), taken \ {n}, clean)
    BY <1>1, <1>2, <1>3, <1>4, DeallocateIntact
  <1> DEFINE q == Deallocate(p, n)
  <1>8. /\ Structured(lists, [mem EXCEPT ![i] = q])
        /\ Accounted(lists, [mem EXCEPT ![i] = q], now, clean)
    <2>1. q \in PoolOf(c) /\ Intact(q, Taken(now, c, i), clean)
      BY <1>4, <1>7
    <2> HIDE DEF q
    <2> QED BY <1>1, <1>5, <1>6, <2>1, OnePoolChanges
  <1> QED BY <1>1, <1>8 DEF c, i, n, p, now

(* A pool in new memory, which is clean or not. *)
Extended(lists, longer) == \A d \in Class : ToSet(lists[d]) \subseteq ToSet(longer[d])
Longer(lists, c, i) == [lists EXCEPT ![c] = Append(@, i)]
Renewed(mem, c, i, upper) == [mem EXCEPT ![i] = Reset(ChunksOf(c), upper)]

LEMMA NewPoolKeeps ==
  ASSUME NEW lists, NEW mem, NEW blocks, NEW clean \in BOOLEAN,
         Structured(lists, mem), Accounted(lists, mem, blocks, clean),
         NEW c \in Class, NEW i \in PoolId, \A d \in Class : i \notin ToSet(lists[d]),
         NEW upper \in UpperBytes, clean => upper = 0
  PROVE  /\ i \in ToSet(Longer(lists, c, i)[c])
         /\ Extended(lists, Longer(lists, c, i))
         /\ ~ IsFilled(Renewed(mem, c, i, upper)[i]) /\ Sound(Renewed(mem, c, i, upper)[i])
         /\ Structured(Longer(lists, c, i), Renewed(mem, c, i, upper))
         /\ Accounted(Longer(lists, c, i), Renewed(mem, c, i, upper), blocks, clean)
PROOF
  <1> DEFINE p == Reset(ChunksOf(c), upper)
             longer == Longer(lists, c, i)
             new == Renewed(mem, c, i, upper)
  <1>1. p \in PoolOf(c) /\ Intact(p, {}, upper = 0) /\ Sound(p) /\ ~ IsFilled(p)
    BY ResetIntact
  <1>0. new = [mem EXCEPT ![i] = p] /\ longer = [lists EXCEPT ![c] = Append(@, i)]
    BY DEF Longer, Renewed
  <1> HIDE DEF p, longer, new
  <1>2. DOMAIN new = PoolId /\ new[i] = p /\ \A j \in PoolId : j # i => new[j] = mem[j]
    BY <1>0 DEF Structured
  <1>3. /\ longer \in [Class -> Seq(PoolId)]
        /\ longer[c] = Append(lists[c], i)
        /\ \A d \in Class : d # c => longer[d] = lists[d]
    BY <1>0 DEF Structured
  <1>4. ToSet(longer[c]) = ToSet(lists[c]) \union {i} /\ Distinct(longer[c])
    <2> DEFINE s == lists[c]
               t == longer[c]
    <2>1. s \in Seq(PoolId) /\ t = Append(s, i) /\ Distinct(s) /\ i \notin ToSet(s)
      BY <1>3 DEF Structured
    <2> HIDE DEF s, t
    <2>2. Len(s) \in Nat /\ DOMAIN s = 1 .. Len(s) /\ DOMAIN t = 1 .. Len(s) + 1
      BY <2>1
    <2>3. t[Len(s) + 1] = i /\ \A j \in 1 .. Len(s) : t[j] = s[j] /\ s[j] # i
      BY <2>1, <2>2 DEF ToSet
    <2>4. ToSet(t) = ToSet(s) \union {i}
      BY <2>2, <2>3 DEF ToSet
    <2>5. Distinct(t)
      <3> SUFFICES ASSUME NEW m \in 1 .. Len(s) + 1, NEW n \in 1 .. Len(s) + 1, t[m] = t[n] PROVE m = n
        BY <2>2 DEF Distinct
      <3>1. m = Len(s) + 1 \/ m \in 1 .. Len(s)
        BY <2>2
      <3>2. n = Len(s) + 1 \/ n \in 1 .. Len(s)
        BY <2>2
      <3> QED BY <2>1, <2>2, <2>3, <3>1, <3>2 DEF Distinct
    <2> QED BY <2>4, <2>5 DEF s, t
  <1>5. \A d \in Class : ToSet(longer[d]) = ToSet(lists[d]) \union (IF d = c THEN {i} ELSE {})
    BY <1>3, <1>4
  <1>6. \A d \in Class : ToSet(lists[d]) \subseteq PoolId \ {i}
    BY DEF Structured, ToSet
  <1>7. Structured(longer, new)
    <2>1. \A j \in PoolId : new[j] # Null <=> \E d \in Class : j \in ToSet(longer[d])
      <3> SUFFICES ASSUME NEW j \in PoolId
                   PROVE  new[j] # Null <=> \E d \in Class : j \in ToSet(longer[d])
        OBVIOUS
      <3>1. CASE j = i
        BY <1>1, <1>2, <1>5, <3>1, NullAssumption
      <3>2. CASE j # i
        BY <1>2, <1>5, <3>2 DEF Structured
      <3> QED BY <3>1, <3>2
    <2>2. \A d \in Class : Distinct(longer[d])
      BY <1>3, <1>4 DEF Structured
    <2>3. \A d, e \in Class : d # e => ToSet(longer[d]) \cap ToSet(longer[e]) = {}
      BY <1>5, <1>6 DEF Structured
    <2>4. \A d \in Class : \A j \in ToSet(longer[d]) : new[j] \in PoolOf(d)
      BY <1>1, <1>2, <1>5, <1>6 DEF Structured
    <2> QED BY <1>2, <1>3, <2>1, <2>2, <2>3, <2>4 DEF Structured
  <1>8. Accounted(longer, new, blocks, clean)
    <2>1. \A block \in blocks : block[1] \in Class /\ block[2] \in ToSet(longer[block[1]])
      BY <1>5 DEF Accounted
    <2>2. ASSUME NEW d \in Class, NEW j \in ToSet(longer[d])
          PROVE  Intact(new[j], Taken(blocks, d, j), clean)
      <3>1. CASE j = i
        <4>1. d = c
          BY <1>5, <1>6, <2>2, <3>1
        <4>2. Taken(blocks, d, j) = {}
          <5> SUFFICES ASSUME NEW n \in Nat, <<d, j, n>> \in blocks PROVE FALSE
            BY DEF Taken
          <5>1. j \in ToSet(lists[d])
            BY DEF Accounted
          <5> QED BY <1>6, <3>1, <5>1
        <4> QED BY <1>1, <1>2, <3>1, <4>1, <4>2 DEF Intact
      <3>2. CASE j # i
        <4>1. j \in ToSet(lists[d])
          BY <1>5, <2>2, <3>2
        <4>2. new[j] = mem[j]
          BY <1>2, <1>6, <3>2, <4>1
        <4>3. Intact(mem[j], Taken(blocks, d, j), clean)
          BY <4>1 DEF Accounted
        <4> QED BY <4>2, <4>3 DEF Intact
      <3> QED BY <3>1, <3>2
    <2> QED BY <2>1, <2>2 DEF Accounted
  <1> QED BY <1>1, <1>2, <1>5, <1>7, <1>8 DEF longer, new, Extended

-----------------------------------------------------------------------------
(* The steps. *)

(* The types are those of the cached pointers and of the lists and pools. *)
LEMMA StructuredType ==
  ASSUME Structured(m_Pools, pool),
         m_AllocPool \in [Class -> PoolId], m_DeallocPool \in [Class -> PoolId],
         owned \subseteq Class \X PoolId \X Nat,
         dirty \in BOOLEAN, dropped \in BOOLEAN, fault \in BOOLEAN
  PROVE  TypeOK
PROOF
  <1>1. \A i \in PoolId : pool[i] # Null <=> i \in InUse
    BY DEF Structured, InUse
  <1> QED BY <1>1 DEF TypeOK, Structured

LEMMA SmallInit == Init => SmallIInv
PROOF
  <1> SUFFICES ASSUME Init PROVE SmallIInv
    OBVIOUS
  <1>1. PICK upper \in [Class -> UpperBytes] :
          /\ pool = [i \in PoolId |-> IF i \in Class THEN Reset(ChunksOf(i), upper[i]) ELSE Null]
          /\ m_Pools = [c \in Class |-> <<c>>]
          /\ m_AllocPool = [c \in Class |-> c]
          /\ m_DeallocPool = [c \in Class |-> c]
          /\ owned = {}
          /\ dirty = (\E c \in Class : upper[c] # 0)
          /\ dropped = FALSE
          /\ fault = FALSE
    BY DEF Init
  <1>2. Class \subseteq PoolId
    BY MemoryAssumption DEF MemoryAssumption, Class
  <1>3. \A c \in Class : m_Pools[c] = <<c>> /\ m_Pools[c] \in Seq(PoolId) /\ ToSet(m_Pools[c]) = {c}
    BY <1>1, <1>2 DEF ToSet
  <1>4. \A c \in Class : /\ pool[c] \in PoolOf(c) /\ pool[c] # Null
                         /\ Intact(pool[c], {}, upper[c] = 0)
    <2> SUFFICES ASSUME NEW c \in Class
                 PROVE  /\ pool[c] \in PoolOf(c) /\ pool[c] # Null
                        /\ Intact(pool[c], {}, upper[c] = 0)
      OBVIOUS
    <2>1. pool[c] = Reset(ChunksOf(c), upper[c]) /\ upper[c] \in UpperBytes
      BY <1>1, <1>2
    <2> QED BY <2>1, ResetIntact, NullAssumption
  <1>5. Structured(m_Pools, pool)
    <2>1. m_Pools \in [Class -> Seq(PoolId)]
      BY <1>1, <1>2
    <2>2. DOMAIN pool = PoolId /\ \A i \in PoolId : i \notin Class => pool[i] = Null
      BY <1>1
    <2>3. \A c \in Class : Distinct(m_Pools[c])
      BY <1>3 DEF Distinct
    <2> QED BY <1>2, <1>3, <1>4, <2>1, <2>2, <2>3 DEF Structured
  <1>6. Accounted(m_Pools, pool, owned, ~ dirty)
    <2>1. ASSUME NEW c \in Class, NEW i \in ToSet(m_Pools[c])
          PROVE  Intact(pool[i], Taken(owned, c, i), ~ dirty)
      <3>1. i = c
        BY <1>3, <2>1
      <3>2. Taken(owned, c, c) = {}
        BY <1>1 DEF Taken
      <3>3. ~ dirty => upper[c] = 0
        BY <1>1
      <3> QED BY <1>4, <3>1, <3>2, <3>3 DEF Intact
    <2>2. owned \subseteq Class \X PoolId \X Nat /\ \A block \in owned : block[2] \in ToSet(m_Pools[block[1]])
      BY <1>1
    <2> QED BY <2>1, <2>2 DEF Accounted
  <1>7. CachedPools
    BY <1>1, <1>3 DEF CachedPools
  <1>8. TypeOK
    <2>1. m_AllocPool \in [Class -> PoolId] /\ m_DeallocPool \in [Class -> PoolId]
      BY <1>1, <1>2
    <2>2. owned \subseteq Class \X PoolId \X Nat /\ dirty \in BOOLEAN /\ dropped \in BOOLEAN /\ fault \in BOOLEAN
      BY <1>1
    <2> QED BY <1>5, <2>1, <2>2, StructuredType
  <1> QED BY <1>1, <1>5, <1>6, <1>7, <1>8 DEF SmallIInv, SafeUntilShrink

(* Taking a chunk: after the lists and the memory have been made ready for it. *)
LEMMA TakeFromKeeps ==
  ASSUME SmallIInv, ~ fault,
         NEW mem, NEW c \in Class, NEW i \in ToSet(m_Pools'[c]),
         Structured(m_Pools', mem), Accounted(m_Pools', mem, owned, ~ dirty'),
         Extended(m_Pools, m_Pools'),
         dirty' \in BOOLEAN, ~ IsFilled(mem[i]),
         Sound(mem[i]) \/ (pool = mem /\ m_Pools' = m_Pools),
         TakeFrom(c, i, mem)
  PROVE  SmallIInv'
PROOF
  <1>1. /\ m_AllocPool' = [m_AllocPool EXCEPT ![c] = i]
        /\ UNCHANGED <<m_DeallocPool, dropped>>
    BY DEF TakeFrom
  <1>2. i \in PoolId
    BY ClassOfPool
  <1>3. /\ m_AllocPool \in [Class -> PoolId] /\ m_DeallocPool \in [Class -> PoolId]
        /\ owned \subseteq Class \X PoolId \X Nat /\ dropped \in BOOLEAN
    BY DEF SmallIInv, TypeOK
  <1>4. m_AllocPool' \in [Class -> PoolId] /\ m_DeallocPool' \in [Class -> PoolId] /\ dropped' \in BOOLEAN
    BY <1>1, <1>2, <1>3
  <1>5. ~ dropped' => CachedPools'
    <2> SUFFICES ASSUME ~ dropped', NEW d \in Class
                 PROVE  {m_AllocPool'[d], m_DeallocPool'[d]} \subseteq ToSet(m_Pools'[d])
      BY DEF CachedPools
    <2>1. {m_AllocPool[d], m_DeallocPool[d]} \subseteq ToSet(m_Pools[d])
      BY <1>1 DEF SmallIInv, CachedPools
    <2>2. m_AllocPool'[d] = IF d = c THEN i ELSE m_AllocPool[d]
      BY <1>1, <1>3
    <2>3. ToSet(m_Pools[d]) \subseteq ToSet(m_Pools'[d])
      BY DEF Extended
    <2> QED BY <1>1, <2>1, <2>2, <2>3
  <1>6. /\ ~ dirty' => Sound(mem[i])
        /\ Sound(mem[i]) =>
             LET new == [mem EXCEPT ![i] = Allocate(@)]
             IN  /\ Structured(m_Pools', new)
                 /\ Accounted(m_Pools', new, owned \union {<<c, i, mem[i].first>>}, ~ dirty')
    BY TakeKeeps
  <1>7. CASE Sound(mem[i])
    <2>1. /\ pool' = [mem EXCEPT ![i] = Allocate(@)]
          /\ owned' = owned \union {<<c, i, mem[i].first>>}
          /\ fault' = fault
      BY <1>7 DEF TakeFrom
    <2>2. Structured(m_Pools', pool') /\ Accounted(m_Pools', pool', owned', ~ dirty')
      BY <1>6, <1>7, <2>1
    <2>3. owned' \subseteq Class \X PoolId \X Nat /\ fault' \in BOOLEAN /\ ~ fault'
      BY <2>1, <2>2 DEF Accounted, SmallIInv, TypeOK
    <2>4. TypeOK'
      <3>1. Structured(m_Pools', pool')
        BY <2>2
      <3>2. \A j \in PoolId : pool'[j] # Null <=> j \in InUse'
        BY <3>1 DEF Structured, InUse
      <3> QED BY <1>4, <2>3, <3>1, <3>2 DEF TypeOK, Structured
    <2> QED BY <1>5, <2>2, <2>3, <2>4 DEF SmallIInv, SafeUntilShrink
  <1>8. CASE ~ Sound(mem[i])
    <2>1. fault' = TRUE /\ pool' = pool /\ owned' = owned
      BY <1>8 DEF TakeFrom
    <2>2. dirty' /\ pool' = mem
      BY <1>6, <1>8, <2>1
    <2>3. Structured(m_Pools', pool')
      BY <2>2
    <2>4. TypeOK'
      <3>1. \A j \in PoolId : pool'[j] # Null <=> j \in InUse'
        BY <2>3 DEF Structured, InUse
      <3> QED BY <1>3, <1>4, <2>1, <2>3, <3>1 DEF TypeOK, Structured
    <2> QED BY <1>5, <2>1, <2>2, <2>3, <2>4 DEF SmallIInv, SafeUntilShrink
  <1> QED BY <1>7, <1>8

LEMMA AllocateInPoolsKeeps ==
  ASSUME SmallIInv, ~ fault, NEW c \in Class, ~ Dangling(c, m_AllocPool), AllocateInPools(c)
  PROVE  SmallIInv'
PROOF
  <1> DEFINE i == IF ~ IsFilled(pool[m_AllocPool[c]])
                  THEN m_AllocPool[c] ELSE m_Pools[c][Min(NotFilled(c))]
  <1>1. /\ NotFilled(c) # {} /\ TakeFrom(c, i, pool)
        /\ m_Pools' = m_Pools /\ dirty' = dirty
    BY DEF AllocateInPools
  <1>2. /\ Structured(m_Pools, pool) /\ Accounted(m_Pools, pool, owned, ~ dirty) /\ dirty \in BOOLEAN
    BY DEF SmallIInv, TypeOK
  <1>3. i \in ToSet(m_Pools[c]) /\ ~ IsFilled(pool[i])
    <2>1. CASE ~ IsFilled(pool[m_AllocPool[c]])
      BY <2>1 DEF Dangling
    <2>2. CASE IsFilled(pool[m_AllocPool[c]])
      <3>1. m_Pools[c] \in Seq(PoolId)
        BY <1>2 DEF Structured
      <3>2. DOMAIN m_Pools[c] \subseteq Nat
        BY <3>1
      <3>3. NotFilled(c) \subseteq Nat
        BY <3>2 DEF NotFilled
      <3>4. Min(NotFilled(c)) \in NotFilled(c)
        BY <1>1, <3>3, MinIsMember
      <3> QED BY <2>2, <3>4 DEF NotFilled, ToSet
    <2> QED BY <2>1, <2>2
  <1>4. Extended(m_Pools, m_Pools)
    BY DEF Extended
  <1> HIDE DEF i
  <1> QED BY <1>1, <1>2, <1>3, <1>4, TakeFromKeeps

LEMMA AllocateInNewPoolKeeps ==
  ASSUME SmallIInv, ~ fault, NEW c \in Class, AllocateInNewPool(c)
  PROVE  SmallIInv'
PROOF
  <1>0. PICK i \in PoolId \ InUse : \E upper \in UpperBytes :
          /\ NotFilled(c) = {}
          /\ m_Pools' = [m_Pools EXCEPT ![c] = Append(@, i)]
          /\ dirty' = (dirty \/ upper # 0)
          /\ TakeFrom(c, i, [pool EXCEPT ![i] = Reset(ChunksOf(c), upper)])
    BY DEF AllocateInNewPool
  <1>1. PICK upper \in UpperBytes :
          /\ m_Pools' = [m_Pools EXCEPT ![c] = Append(@, i)]
          /\ dirty' = (dirty \/ upper # 0)
          /\ TakeFrom(c, i, [pool EXCEPT ![i] = Reset(ChunksOf(c), upper)])
    BY <1>0
  <1> DEFINE new == [pool EXCEPT ![i] = Reset(ChunksOf(c), upper)]
  <1>2. /\ Structured(m_Pools, pool) /\ Accounted(m_Pools, pool, owned, ~ dirty) /\ dirty \in BOOLEAN
    BY DEF SmallIInv, TypeOK
  <1>3. \A d \in Class : i \notin ToSet(m_Pools[d])
    BY DEF InUse
  <1> DEFINE clean == ~ dirty'
  <1>4. clean \in BOOLEAN /\ (clean => upper = 0)
    BY <1>1, <1>2
  <1>5. Accounted(m_Pools, pool, owned, clean)
    <2>1. clean => ~ dirty
      BY <1>1
    <2> HIDE DEF clean
    <2> QED BY <1>2, <2>1 DEF Accounted, Intact
  <1> HIDE DEF clean
  <1>6. /\ i \in ToSet(m_Pools'[c])
        /\ Extended(m_Pools, m_Pools')
        /\ ~ IsFilled(new[i]) /\ Sound(new[i])
        /\ Structured(m_Pools', new)
        /\ Accounted(m_Pools', new, owned, clean)
    <2>1. Structured(m_Pools, pool)
      BY <1>2
    <2>2. i \in PoolId
      OBVIOUS
    <2>3. m_Pools' = Longer(m_Pools, c, i) /\ new = Renewed(pool, c, i, upper)
      BY <1>1 DEF Longer, Renewed
    <2> HIDE DEF new
    <2>4. /\ i \in ToSet(Longer(m_Pools, c, i)[c])
          /\ Extended(m_Pools, Longer(m_Pools, c, i))
          /\ ~ IsFilled(Renewed(pool, c, i, upper)[i]) /\ Sound(Renewed(pool, c, i, upper)[i])
          /\ Structured(Longer(m_Pools, c, i), Renewed(pool, c, i, upper))
          /\ Accounted(Longer(m_Pools, c, i), Renewed(pool, c, i, upper), owned, clean)
      BY <1>3, <1>4, <1>5, <2>1, <2>2, NewPoolKeeps
    <2> QED BY <2>3, <2>4
  <1>7. dirty' \in BOOLEAN /\ Accounted(m_Pools', new, owned, ~ dirty')
    BY <1>1, <1>6 DEF clean
  <1>8. TakeFrom(c, i, new)
    BY <1>1
  <1> HIDE DEF new
  <1> QED BY <1>6, <1>7, <1>8, TakeFromKeeps

(* A call through a pointer that Shrink has left behind. *)
LEMMA UseFreedPoolKeeps ==
  ASSUME SmallIInv, ~ fault, NEW c \in Class,
         Dangling(c, m_AllocPool) \/ Dangling(c, m_DeallocPool),
         UNCHANGED <<pools, dirty, dropped>>, owned' \subseteq owned, fault' = TRUE
  PROVE  SmallIInv'
PROOF
  <1>1. dropped
    BY DEF Dangling, SmallIInv, CachedPools
  <1>2. /\ m_Pools' = m_Pools /\ m_AllocPool' = m_AllocPool /\ m_DeallocPool' = m_DeallocPool
        /\ pool' = pool /\ dirty' = dirty /\ dropped' = dropped
    BY DEF pools
  <1>3. Structured(m_Pools', pool')
    BY <1>2 DEF SmallIInv
  <1>4. TypeOK'
    BY <1>2 DEF SmallIInv, TypeOK, InUse
  <1> QED BY <1>1, <1>2, <1>3, <1>4 DEF SmallIInv, SafeUntilShrink

LEMMA AllocateSizeKeeps ==
  ASSUME SmallIInv, ~ fault, NEW size, AllocateSize(size)
  PROVE  SmallIInv'
PROOF
  <1> DEFINE c == ClassOf(size)
  <1>1. c \in Class
    BY DEF AllocateSize
  <1>2. CASE Dangling(c, m_AllocPool)
    <2>1. fault' = TRUE /\ UNCHANGED <<pools, owned, dirty, dropped>>
      BY <1>2 DEF AllocateSize, UseFreedPool
    <2>2. owned' \subseteq owned
      BY <2>1
    <2> HIDE DEF c
    <2> QED BY <1>1, <1>2, <2>1, <2>2, UseFreedPoolKeeps
  <1>3. CASE ~ Dangling(c, m_AllocPool)
    <2>1. AllocateInPools(c) \/ AllocateInNewPool(c)
      BY <1>3 DEF AllocateSize
    <2> HIDE DEF c
    <2> QED BY <1>1, <1>3, <2>1, AllocateInPoolsKeeps, AllocateInNewPoolKeeps
  <1> QED BY <1>2, <1>3

LEMMA DeallocateKeeps ==
  ASSUME SmallIInv, ~ fault, NEW block \in owned, DeallocateBlock(block)
  PROVE  SmallIInv'
PROOF
  <1> DEFINE c == block[1]
             i == block[2]
             new == [pool EXCEPT ![i] = Deallocate(@, block[3])]
             clean == ~ dirty
  <1>1. /\ Structured(m_Pools, pool) /\ Accounted(m_Pools, pool, owned, clean)
        /\ clean \in BOOLEAN /\ c \in Class /\ i \in PoolId
        /\ owned \subseteq Class \X PoolId \X Nat
    BY DEF SmallIInv, TypeOK
  <1>2. owned' = owned \ {block} /\ dirty' = dirty /\ dropped' = dropped
    BY DEF DeallocateBlock
  <1>3. CASE Dangling(c, m_DeallocPool)
    <2>1. fault' = TRUE /\ UNCHANGED pools
      BY <1>3 DEF DeallocateBlock, pools
    <2>2. UNCHANGED <<pools, dirty, dropped>> /\ owned' \subseteq owned
      BY <1>2, <2>1
    <2> HIDE DEF c
    <2> QED BY <1>1, <1>3, <2>1, <2>2, UseFreedPoolKeeps
  <1>4. CASE ~ Dangling(c, m_DeallocPool)
    <2>1. /\ pool' = new /\ m_DeallocPool' = [m_DeallocPool EXCEPT ![c] = i]
          /\ m_Pools' = m_Pools /\ m_AllocPool' = m_AllocPool /\ fault' = fault
      BY <1>4 DEF DeallocateBlock
    <2>2. /\ i \in ToSet(m_Pools[c])
          /\ Structured(m_Pools, new)
          /\ Accounted(m_Pools, new, owned \ {block}, clean)
      <3> HIDE DEF clean
      <3> QED BY <1>1, PutKeeps
    <2> HIDE DEF new
    <2>3. Structured(m_Pools', pool') /\ Accounted(m_Pools', pool', owned', ~ dirty')
      BY <1>2, <2>1, <2>2
    <2>4. m_DeallocPool' \in [Class -> PoolId] /\ m_AllocPool' \in [Class -> PoolId]
      BY <1>1, <2>1 DEF SmallIInv, TypeOK
    <2>5. ~ dropped' => CachedPools'
      <3> SUFFICES ASSUME ~ dropped', NEW d \in Class
                   PROVE  {m_AllocPool'[d], m_DeallocPool'[d]} \subseteq ToSet(m_Pools'[d])
        BY DEF CachedPools
      <3>1. {m_AllocPool[d], m_DeallocPool[d]} \subseteq ToSet(m_Pools[d])
        BY <1>2 DEF SmallIInv, CachedPools
      <3>2. m_DeallocPool \in [Class -> PoolId]
        BY DEF SmallIInv, TypeOK
      <3>3. m_DeallocPool'[d] = IF d = c THEN i ELSE m_DeallocPool[d]
        BY <2>1, <3>2
      <3> HIDE DEF c, i
      <3> QED BY <2>1, <2>2, <3>1, <3>3
    <2>6. TypeOK'
      <3>1. \A j \in PoolId : pool'[j] # Null <=> j \in InUse'
        BY <2>3 DEF Structured, InUse
      <3>2. owned' \subseteq Class \X PoolId \X Nat
        BY <1>1, <1>2
      <3>3. dirty' \in BOOLEAN /\ dropped' \in BOOLEAN /\ fault' \in BOOLEAN
        BY <1>2, <2>1 DEF SmallIInv, TypeOK
      <3> QED BY <2>3, <2>4, <3>1, <3>2, <3>3 DEF TypeOK, Structured
    <2> QED BY <2>1, <2>3, <2>5, <2>6 DEF SmallIInv, SafeUntilShrink
  <1> QED BY <1>3, <1>4

(* A pool that counts all its chunks as free has no block. *)
LEMMA FreePoolHasNoBlock ==
  ASSUME NEW c \in Class, NEW p \in PoolOf(c), NEW taken, NEW clean,
         Intact(p, taken, clean), IsFree(p)
  PROVE  taken = {}
PROOF
  <1>1. IsFiniteSet(taken)
    BY TakenIsFinite DEF Intact
  <1>2. Cardinality(taken) \in Nat /\ p.free \in Nat
    <2>1. ChunksOf(c) \in Nat
      BY PoolChunks
    <2> QED BY <1>1, <2>1, FS_CardinalityType DEF PoolOf
  <1>3. Cardinality(taken) + p.free = p.free
    BY DEF Intact, IsFree
  <1> QED BY <1>1, <1>2, <1>3, FS_EmptySet

LEMMA ShrinkKeeps ==
  ASSUME SmallIInv, ~ fault, Shrink
  PROVE  SmallIInv'
PROOF
  <1> DEFINE kept == [c \in Class |-> Shrunk(m_Pools[c])]
             live == UNION {ToSet(kept[c]) : c \in Class}
  <1>1. /\ m_Pools' = kept
        /\ pool' = [i \in PoolId |-> IF i \in live THEN pool[i] ELSE Null]
        /\ dropped' = (dropped \/ \E c \in Class :
                          {m_AllocPool[c], m_DeallocPool[c]} \intersect (InUse \ live) # {})
        /\ m_AllocPool' = m_AllocPool /\ m_DeallocPool' = m_DeallocPool
        /\ owned' = owned /\ dirty' = dirty /\ fault' = fault
    BY DEF Shrink
  <1>2. Structured(m_Pools, pool) /\ Accounted(m_Pools, pool, owned, ~ dirty)
    BY DEF SmallIInv
  <1>3. \A c \in Class : Kept(m_Pools[c], kept[c])
    <2> SUFFICES ASSUME NEW c \in Class PROVE Kept(m_Pools[c], Shrunk(m_Pools[c]))
      OBVIOUS
    <2>1. m_Pools[c] \in Seq(PoolId) /\ Distinct(m_Pools[c])
      BY <1>2 DEF Structured
    <2> QED BY <2>1, ShrunkKeeps
  <1>4. kept = [c \in Class |-> kept[c]]
    OBVIOUS
  <1> HIDE DEF kept
  <1>5. \A c \in Class : /\ kept[c] \in Seq(PoolId) /\ Distinct(kept[c])
                         /\ ToSet(kept[c]) \subseteq ToSet(m_Pools[c])
    BY <1>3 DEF Kept
  <1>6. kept \in [Class -> Seq(PoolId)]
    BY <1>4, <1>5
  <1>7. \A i : i \in live <=> \E c \in Class : i \in ToSet(kept[c])
    OBVIOUS
  <1> HIDE DEF live
  <1>8. \A c \in Class : \A i \in ToSet(m_Pools[c]) :
          /\ i \in PoolId
          /\ i \in live => i \in ToSet(kept[c])
    <2> SUFFICES ASSUME NEW c \in Class, NEW i \in ToSet(m_Pools[c])
                 PROVE  i \in PoolId /\ (i \in live => i \in ToSet(kept[c]))
      OBVIOUS
    <2>1. ASSUME NEW d \in Class, i \in ToSet(kept[d]) PROVE d = c
      BY <1>2, <1>5, <2>1, ClassOfPool
    <2>2. i \in PoolId
      BY <1>2, ClassOfPool
    <2> QED BY <1>7, <2>1, <2>2
  <1>9. \A c \in Class : \A i \in ToSet(kept[c]) : pool'[i] = pool[i] /\ pool[i] \in PoolOf(c) /\ pool[i] # Null
    <2> SUFFICES ASSUME NEW c \in Class, NEW i \in ToSet(kept[c])
                 PROVE  pool'[i] = pool[i] /\ pool[i] \in PoolOf(c) /\ pool[i] # Null
      OBVIOUS
    <2>1. i \in ToSet(m_Pools[c]) /\ i \in live /\ i \in PoolId
      BY <1>5, <1>7, <1>8
    <2>2. pool[i] \in PoolOf(c)
      BY <1>2, <2>1 DEF Structured
    <2> QED BY <1>1, <2>1, <2>2, NullAssumption
  <1>10. Structured(kept, pool')
    <2>1. \A i \in PoolId : pool'[i] # Null <=> \E c \in Class : i \in ToSet(kept[c])
      BY <1>1, <1>7, <1>9
    <2>2. DOMAIN pool' = PoolId
      BY <1>1
    <2>3. \A c, d \in Class : c # d => ToSet(kept[c]) \cap ToSet(kept[d]) = {}
      BY <1>2, <1>5 DEF Structured
    <2>4. \A c \in Class : \A i \in ToSet(kept[c]) : pool'[i] \in PoolOf(c)
      BY <1>9
    <2> QED BY <1>5, <1>6, <2>1, <2>2, <2>3, <2>4 DEF Structured
  <1>11. Accounted(kept, pool', owned, ~ dirty)
    <2>1. \A block \in owned : block[2] \in ToSet(kept[block[1]])
      <3> SUFFICES ASSUME NEW block \in owned, block[2] \notin ToSet(kept[block[1]])
                   PROVE  FALSE
        OBVIOUS
      <3> DEFINE c == block[1]
                 i == block[2]
                 n == block[3]
      <3>1. c \in Class /\ n \in Nat /\ block = <<c, i, n>> /\ i \in ToSet(m_Pools[c])
        BY <1>2 DEF Accounted
      <3>2. pool[i] \in PoolOf(c) /\ Intact(pool[i], Taken(owned, c, i), ~ dirty)
        BY <1>2, <3>1 DEF Structured, Accounted
      <3>3. IsFree(pool[i])
        BY <1>3, <3>1 DEF Kept
      <3>4. n \in Taken(owned, c, i)
        BY <3>1 DEF Taken
      <3> HIDE DEF c, i, n
      <3> QED BY <3>1, <3>2, <3>3, <3>4, FreePoolHasNoBlock
    <2>2. \A c \in Class : \A i \in ToSet(kept[c]) : Intact(pool'[i], Taken(owned, c, i), ~ dirty)
      <3> SUFFICES ASSUME NEW c \in Class, NEW i \in ToSet(kept[c])
                   PROVE  Intact(pool'[i], Taken(owned, c, i), ~ dirty)
        OBVIOUS
      <3>1. i \in ToSet(m_Pools[c]) /\ pool'[i] = pool[i]
        BY <1>5, <1>9
      <3> QED BY <1>2, <3>1 DEF Accounted
    <2> QED BY <1>2, <2>1, <2>2 DEF Accounted
  <1>12. ~ dropped' => CachedPools'
    <2> SUFFICES ASSUME ~ dropped', NEW c \in Class, NEW i \in {m_AllocPool[c], m_DeallocPool[c]}
                 PROVE  i \in ToSet(kept[c])
      BY <1>1 DEF CachedPools
    <2>1. i \in ToSet(m_Pools[c])
      BY <1>1 DEF SmallIInv, CachedPools
    <2>2. i \in InUse
      BY <2>1 DEF InUse
    <2>3. i \in live
      BY <1>1, <2>2
    <2> QED BY <1>8, <2>1, <2>3
  <1>13. Structured(m_Pools', pool') /\ Accounted(m_Pools', pool', owned', ~ dirty')
    BY <1>1, <1>10, <1>11
  <1>14. TypeOK'
    <2>1. \A j \in PoolId : pool'[j] # Null <=> j \in InUse'
      BY <1>13 DEF Structured, InUse
    <2>2. dropped' \in BOOLEAN
      BY <1>1 DEF SmallIInv, TypeOK
    <2>3. /\ m_AllocPool' \in [Class -> PoolId] /\ m_DeallocPool' \in [Class -> PoolId]
          /\ owned' \subseteq Class \X PoolId \X Nat
          /\ dirty' \in BOOLEAN /\ fault' \in BOOLEAN
      BY <1>1 DEF SmallIInv, TypeOK
    <2> QED BY <1>13, <2>1, <2>2, <2>3 DEF TypeOK, Structured
  <1> QED BY <1>1, <1>12, <1>13, <1>14 DEF SmallIInv, SafeUntilShrink

LEMMA SmallNext == SmallIInv /\ [Next]_vars => SmallIInv'
PROOF
  <1> SUFFICES ASSUME SmallIInv, [Next]_vars PROVE SmallIInv'
    OBVIOUS
  <1>1. CASE UNCHANGED vars
    BY <1>1 DEF vars, pools, SmallIInv, TypeOK, InUse, CachedPools, SafeUntilShrink
  <1>2. ASSUME ~ fault, NEW size \in 0 .. MaxObjectSize, AllocateSize(size) PROVE SmallIInv'
    BY <1>2, AllocateSizeKeeps
  <1>3. ASSUME NEW size \in 0 .. MaxObjectSize, RefuseSize(size) PROVE UNCHANGED vars
    BY <1>3 DEF RefuseSize
  <1>4. ASSUME ~ fault, NEW block \in owned, DeallocateBlock(block) PROVE SmallIInv'
    BY <1>4, DeallocateKeeps
  <1>5. CASE ~ fault /\ Shrink
    BY <1>5, ShrinkKeeps
  <1> QED BY <1>1, <1>2, <1>3, <1>4, <1>5 DEF Next

-----------------------------------------------------------------------------
(* The theorems. *)

(***************************************************************************)
(* The invariant holds in every state: any number of pools, of blocks and  *)
(* of calls.                                                               *)
(***************************************************************************)
THEOREM SmallInvariance == Spec => []SmallIInv
PROOF
  <1>1. Init => SmallIInv
    BY SmallInit
  <1>2. SmallIInv /\ [Next]_vars => SmallIInv'
    BY SmallNext
  <1> QED BY <1>1, <1>2, PTL DEF Spec

(***************************************************************************)
(* The state of the growing pools has its types: there is a pool exactly   *)
(* at the addresses in their lists, and each keeps the number of chunks of *)
(* its class and counts no more of them free (Init, AddPool, Shrink).      *)
(***************************************************************************)
THEOREM SmallTypeCorrect == Spec => []TypeOK
PROOF
  <1>1. SmallIInv => TypeOK
    BY DEF SmallIInv
  <1> QED BY <1>1, SmallInvariance, PTL

(* A pool's blocks are as many as its taken chunks. *)
LEMMA BlocksOfPool ==
  ASSUME Structured(m_Pools, pool), Accounted(m_Pools, pool, owned, ~ dirty),
         NEW c \in Class, NEW i \in ToSet(m_Pools[c])
  PROVE  Cardinality({block \in owned : block[2] = i}) = Cardinality(Taken(owned, c, i))
PROOF
  <1> DEFINE taken == Taken(owned, c, i)
             B == {block \in owned : block[2] = i}
             f == [n \in taken |-> <<c, i, n>>]
  <1>1. IsFiniteSet(taken)
    <2>1. pool[i] \in PoolOf(c) /\ taken \subseteq DOMAIN pool[i].link
      BY DEF Structured, Accounted, Intact
    <2> QED BY <2>1, TakenIsFinite
  <1>2. \A n \in taken : <<c, i, n>> \in B
    BY DEF Taken
  <1>3. ASSUME NEW block \in B PROVE block[3] \in taken /\ block = <<c, i, block[3]>>
    <2>1. /\ block[1] \in Class /\ block[3] \in Nat
          /\ block = <<block[1], block[2], block[3]>> /\ block[2] = i
          /\ block[2] \in ToSet(m_Pools[block[1]])
      BY DEF Accounted
    <2>2. block[1] = c
      BY <2>1, ClassOfPool
    <2> QED BY <2>1, <2>2 DEF Taken
  <1> HIDE DEF taken, B
  <1>4. f \in Bijection(taken, B)
    <2>1. f \in [taken -> B]
      BY <1>2
    <2>2. \A m, n \in taken : f[m] = f[n] => m = n
      OBVIOUS
    <2>3. \A block \in B : \E n \in taken : f[n] = block
      BY <1>3
    <2> HIDE DEF f
    <2> QED BY <2>1, <2>2, <2>3 DEF Bijection, Surjection, Injection, IsInjective
  <1>5. Cardinality(B) = Cardinality(taken)
    BY <1>1, <1>4, FS_Bijection DEF ExistsBijection
  <1> QED BY <1>5 DEF B, taken

(***************************************************************************)
(* BlocksExact for any sizes and numbers: the recursive free list of every *)
(* pool in zeroed memory runs through exactly the chunks that no client    *)
(* owns, each once, and Shrink frees no pool with a block in it            *)
(* (ThPoolAllocator::Allocate, Deallocate, Init; Shrink).                  *)
(***************************************************************************)
THEOREM BlocksAlwaysExact == Spec => []BlocksExact
PROOF
  <1>1. SmallIInv => BlocksExact
    <2> SUFFICES ASSUME SmallIInv, ~ dirty, ~ fault
                 PROVE  /\ \A block \in owned : block[2] \in ToSet(m_Pools[block[1]])
                        /\ \A c \in Class : \A i \in ToSet(m_Pools[c]) :
                             LET list == FreeList(pool[i])
                             IN  /\ ToSet(list) = {n \in DOMAIN pool[i].link : <<c, i, n>> \notin owned}
                                 /\ Len(list) + Cardinality({block \in owned : block[2] = i})
                                      = NumChunks(pool[i])
      BY DEF BlocksExact
    <2>1. Structured(m_Pools, pool) /\ Accounted(m_Pools, pool, owned, ~ dirty)
      BY DEF SmallIInv
    <2>2. ASSUME NEW c \in Class, NEW i \in ToSet(m_Pools[c])
          PROVE  /\ ToSet(FreeList(pool[i])) = {n \in DOMAIN pool[i].link : <<c, i, n>> \notin owned}
                 /\ Len(FreeList(pool[i])) + Cardinality({block \in owned : block[2] = i})
                      = NumChunks(pool[i])
      <3> DEFINE p == pool[i]
                 taken == Taken(owned, c, i)
      <3>1. p \in PoolOf(c) /\ Intact(p, taken, ~ dirty)
        BY <2>1, <2>2 DEF Structured, Accounted
      <3>2. IsFiniteSet(taken)
        BY <3>1, TakenIsFinite DEF Intact
      <3>3. Intact(p, taken, TRUE)
        BY <3>1 DEF Intact
      <3>4. Cardinality({block \in owned : block[2] = i}) = Cardinality(taken)
        BY <2>1, <2>2, BlocksOfPool
      <3>5. DOMAIN p.link \subseteq Nat
        BY <3>1, PoolChunks
      <3>6. (DOMAIN p.link) \ taken = {n \in DOMAIN p.link : <<c, i, n>> \notin owned}
        BY <3>5 DEF Taken
      <3>7. Cardinality(taken) + p.free = NumChunks(p) /\ Cardinality(taken) \in Nat /\ p.free \in Nat
        <4>1. ChunksOf(c) \in Nat
          BY PoolChunks
        <4> QED BY <3>1, <3>2, <4>1, FS_CardinalityType DEF Intact, PoolOf
      <3> HIDE DEF p, taken
      <3>8. ToSet(FreeList(p)) = (DOMAIN p.link) \ taken /\ Len(FreeList(p)) = p.free
        BY <3>1, <3>2, <3>3, FreeListExact
      <3> QED BY <3>4, <3>6, <3>7, <3>8 DEF p
    <2> QED BY <2>1, <2>2 DEF Accounted
  <1> QED BY <1>1, SmallInvariance, PTL

(***************************************************************************)
(* SafeUntilShrink for any sizes and numbers: memory that is not a pool's  *)
(* is used only through a pointer that Shrink has left behind, or when a   *)
(* new pool's memory was not zeroed.                                       *)
(***************************************************************************)
THEOREM AlwaysSafeUntilShrink == Spec => []SafeUntilShrink
PROOF
  <1>1. SmallIInv => SafeUntilShrink
    BY DEF SmallIInv
  <1> QED BY <1>1, SmallInvariance, PTL

-----------------------------------------------------------------------------
(* Virtual stacks. *)

(* Division by a positive number. *)
LEMMA Division ==
  ASSUME NEW n \in Nat, NEW d \in Nat \ {0}
  PROVE  /\ n \div d \in Nat
         /\ (n \div d) * d <= n
         /\ n < (n \div d + 1) * d
         /\ n = (n \div d) * d + (n % d)
<1>1. n \div d \in Nat
  OBVIOUS
<1>2. n = (n \div d) * d + (n % d)
  OBVIOUS
<1>3. n % d \in 0 .. d - 1
  OBVIOUS
<1>4. (n \div d) * d <= n
  BY <1>1, <1>2, <1>3
<1>5. (n \div d + 1) * d = (n \div d) * d + d
  BY <1>1
<1>6. (n \div d) * d \in Nat
  BY <1>1
<1> QED BY <1>1, <1>2, <1>3, <1>4, <1>5, <1>6

LEMMA Products ==
  ASSUME NEW a \in Nat, NEW b \in Nat, NEW d \in Nat \ {0}
  PROVE  /\ a * d \in Nat
         /\ a < b <=> a * d < b * d
         /\ (a + 1) * d = a * d + d
OBVIOUS

LEMMA VmPageSizeType == VmPageSize \in Nat \ {0}
BY StackAssumption DEF StackAssumption

(* The pages of the first length bytes. *)
LEMMA PagesFromStart ==
  ASSUME NEW length \in Nat
  PROVE  /\ Pages(0, length) \subseteq Nat
         /\ \A page \in Nat : page \in Pages(0, length) <=> page * VmPageSize < length
<1>1. CASE length = 0
  <2>1. Pages(0, length) = {}
    BY <1>1 DEF Pages
  <2>2. \A page \in Nat : page * VmPageSize \in Nat
    BY VmPageSizeType
  <2> QED BY <1>1, <2>1, <2>2
<1>2. CASE length # 0
  <2> DEFINE last == (length - 1) \div VmPageSize
  <2>1. length - 1 \in Nat
    BY <1>2
  <2>2. /\ last \in Nat
        /\ last * VmPageSize <= length - 1
        /\ length - 1 < (last + 1) * VmPageSize
    BY <2>1, VmPageSizeType, Division
  <2>3. 0 \div VmPageSize = 0
    BY VmPageSizeType
  <2>4. Pages(0, length) = 0 .. last
    BY <1>2, <2>3 DEF Pages
  <2> HIDE DEF last
  <2>5. ASSUME NEW page \in Nat
        PROVE  page \in Pages(0, length) <=> page * VmPageSize < length
    <3>1. page * VmPageSize \in Nat /\ last * VmPageSize \in Nat
      BY <2>2, VmPageSizeType, Products
    <3>2. page < last + 1 <=> page * VmPageSize < (last + 1) * VmPageSize
      BY <2>2, VmPageSizeType, Products
    <3>3. last < page <=> last * VmPageSize < page * VmPageSize
      BY <2>2, VmPageSizeType, Products
    <3>4. page \in Pages(0, length) <=> page <= last
      BY <2>2, <2>4
    <3>5. CASE page <= last
      <4>1. page = last \/ page < last
        BY <2>2, <3>5
      <4>2. page < last => page * VmPageSize < last * VmPageSize
        BY <2>2, VmPageSizeType, Products
      <4>3. page * VmPageSize <= last * VmPageSize
        BY <3>1, <4>1, <4>2
      <4> QED BY <2>2, <3>1, <3>4, <3>5, <4>3
    <3>6. CASE ~ (page <= last)
      <4>1. ~ (page < last + 1)
        BY <2>2, <3>6
      <4>2. (last + 1) * VmPageSize \in Nat
        BY <2>2, VmPageSizeType, Products
      <4> QED BY <2>2, <3>1, <3>2, <3>4, <3>6, <4>1, <4>2
    <3> QED BY <3>5, <3>6
  <2> QED BY <2>2, <2>4, <2>5
<1> QED BY <1>1, <1>2

(* Aligning makes a size larger, if anything. *)
LEMMA AlignedLarger ==
  ASSUME NEW size \in Nat, NEW alignment \in Nat \ {0}
  PROVE  Aligned(size, alignment) \in Nat /\ size <= Aligned(size, alignment)
<1> DEFINE up    == size + alignment - 1
           count == up \div alignment
<1>1. up \in Nat
  OBVIOUS
<1>2. count \in Nat /\ up < (count + 1) * alignment
  BY <1>1, Division
<1>3. (count + 1) * alignment = count * alignment + alignment /\ count * alignment \in Nat
  BY <1>2, Products
<1>4. Aligned(size, alignment) = count * alignment
  BY DEF Aligned
<1>5. size <= count * alignment
  <2>1. size + alignment - 1 < count * alignment + alignment
    BY <1>2, <1>3
  <2> QED BY <1>3, <2>1
<1> QED BY <1>3, <1>4, <1>5

LEMMA PagesGrow ==
  ASSUME NEW a \in Nat, NEW b \in Nat, a <= b
  PROVE  Pages(0, a) \subseteq Pages(0, b)
<1>1. \A page \in Nat : page * VmPageSize \in Nat
  BY VmPageSizeType
<1> QED BY <1>1, PagesFromStart

(* The page that m_NextPage points to is the next one. *)
LEMMA NextPage ==
  ASSUME NEW next \in Nat, next % VmPageSize = 0
  PROVE  /\ (next \div VmPageSize) * VmPageSize = next
         /\ Pages(0, next + VmPageSize) = Pages(0, next) \union {next \div VmPageSize}
         /\ (next + VmPageSize) % VmPageSize = 0
<1> DEFINE page == next \div VmPageSize
<1>1. page \in Nat /\ page * VmPageSize = next
  BY VmPageSizeType, Division
<1>2. (page + 1) * VmPageSize = next + VmPageSize
  BY <1>1, VmPageSizeType, Products
<1> HIDE DEF page
<1>3. \A p \in Nat : /\ p < page <=> p * VmPageSize < next
                     /\ p < page + 1 <=> p * VmPageSize < next + VmPageSize
  BY <1>1, <1>2, VmPageSizeType, Products
<1>4. next + VmPageSize \in Nat
  BY VmPageSizeType
<1>5. /\ Pages(0, next) \subseteq Nat
      /\ \A p \in Nat : p \in Pages(0, next) <=> p < page
  BY <1>3, PagesFromStart
<1>6. /\ Pages(0, next + VmPageSize) \subseteq Nat
      /\ \A p \in Nat : p \in Pages(0, next + VmPageSize) <=> p < page + 1
  BY <1>3, <1>4, PagesFromStart
<1>7. Pages(0, next + VmPageSize) = Pages(0, next) \union {page}
  BY <1>1, <1>5, <1>6
<1>8. (next + VmPageSize) % VmPageSize = 0
  <2> DEFINE count == (next + VmPageSize) \div VmPageSize
             rest  == (next + VmPageSize) % VmPageSize
  <2>1. /\ count \in Nat /\ rest \in 0 .. VmPageSize - 1
        /\ next + VmPageSize = count * VmPageSize + rest
    BY <1>4, VmPageSizeType, Division
  <2> HIDE DEF count, rest
  <2>2. /\ count * VmPageSize \in Nat
        /\ (count + 1) * VmPageSize = count * VmPageSize + VmPageSize
    BY <2>1, VmPageSizeType, Products
  <2>3. page + 1 < count + 1
    <3>1. (page + 1) * VmPageSize < (count + 1) * VmPageSize
      BY <1>2, <1>4, <2>1, <2>2, VmPageSizeType
    <3> QED BY <1>1, <2>1, <3>1, VmPageSizeType, Products
  <2>4. ~ (page + 1 < count)
    <3>1. ~ ((page + 1) * VmPageSize < count * VmPageSize)
      BY <1>2, <1>4, <2>1, <2>2, VmPageSizeType
    <3> QED BY <1>1, <2>1, <3>1, VmPageSizeType, Products
  <2>5. count = page + 1
    BY <1>1, <2>1, <2>3, <2>4
  <2>6. rest = 0
    BY <1>2, <2>1, <2>2, <2>5, VmPageSizeType
  <2> QED BY <2>6 DEF rest
<1> QED BY <1>1, <1>7, <1>8 DEF page

-----------------------------------------------------------------------------

(* What Allocate makes of a range: a block of at most a page finds the     *)
(* page it ends on committed, and a page is committed only when the new    *)
(* position has come to it.                                                *)
LEMMA PushWorks ==
  ASSUME NEW s, RangeOK(s), NEW length \in Nat
  PROVE  LET p == Push(s, length)
         IN  /\ RangeOK(p)
             /\ p.marker = s.marker + length /\ p.size = s.size
             /\ Backed(s) /\ length <= VmPageSize => Backed(p)
             /\ \A page \in p.committed :
                  page \in s.committed \/ page * VmPageSize <= s.marker + length
<1> DEFINE p == Push(s, length)
           page == s.next \div VmPageSize
<1>1. /\ s \in [size : Nat \ {0}, next : Nat, marker : Nat, committed : SUBSET Nat]
      /\ s.next % VmPageSize = 0
      /\ s.committed \subseteq Pages(0, s.next)
  BY DEF RangeOK
<1>2. /\ s.next \in Nat /\ s.marker \in Nat /\ s.size \in Nat \ {0}
      /\ s.committed \subseteq Nat
  BY <1>1
<1>3. /\ page * VmPageSize = s.next
      /\ Pages(0, s.next + VmPageSize) = Pages(0, s.next) \union {page}
      /\ (s.next + VmPageSize) % VmPageSize = 0
  BY <1>1, <1>2, NextPage
<1>4. page \in Nat
  BY <1>2, VmPageSizeType, Division
<1> SUFFICES /\ RangeOK(p)
             /\ p.marker = s.marker + length /\ p.size = s.size
             /\ Backed(s) /\ length <= VmPageSize => Backed(p)
             /\ \A n \in p.committed :
                  n \in s.committed \/ n * VmPageSize <= s.marker + length
  OBVIOUS
<1>5. CASE s.marker + length >= s.next
  <2>1. p = [s EXCEPT !.committed = @ \union {page}, !.next = @ + VmPageSize,
                      !.marker = @ + length]
    BY <1>5 DEF Push
  <2> HIDE DEF page, p
  <2>2. /\ p.size = s.size /\ p.next = s.next + VmPageSize /\ p.marker = s.marker + length
        /\ p.committed = s.committed \union {page}
        /\ p \in [size : Nat \ {0}, next : Nat, marker : Nat, committed : SUBSET Nat]
    <3>1. /\ s.committed \union {page} \in SUBSET Nat
          /\ s.next + VmPageSize \in Nat /\ s.marker + length \in Nat
      BY <1>2, <1>4, VmPageSizeType
    <3>2. p = [size |-> s.size, next |-> s.next + VmPageSize, marker |-> s.marker + length,
               committed |-> s.committed \union {page}]
      BY <1>1, <2>1
    <3> QED BY <1>2, <3>1, <3>2
  <2>3. RangeOK(p)
    BY <1>1, <1>3, <2>2 DEF RangeOK
  <2>4. Backed(s) /\ length <= VmPageSize => Backed(p)
    <3>1. Backed(s) => Pages(0, p.next) \subseteq p.committed
      BY <1>3, <2>2, Zenon DEF Backed
    <3>2. s.marker <= s.next /\ length <= VmPageSize => p.marker <= p.next
      BY <1>2, <2>2, VmPageSizeType
    <3> QED BY <3>1, <3>2 DEF Backed
  <2>5. \A n \in p.committed : n \in s.committed \/ n * VmPageSize <= s.marker + length
    BY <1>2, <1>3, <1>5, <2>2
  <2> QED BY <2>2, <2>3, <2>4, <2>5
<1>6. CASE ~ (s.marker + length >= s.next)
  <2>1. p = [s EXCEPT !.marker = @ + length]
    BY <1>6 DEF Push
  <2> HIDE DEF page, p
  <2>2. /\ p.size = s.size /\ p.next = s.next /\ p.marker = s.marker + length
        /\ p.committed = s.committed
        /\ p \in [size : Nat \ {0}, next : Nat, marker : Nat, committed : SUBSET Nat]
    BY <1>1, <1>2, <2>1
  <2>3. RangeOK(p)
    BY <1>1, <2>2 DEF RangeOK
  <2>4. Backed(s) => Backed(p)
    BY <1>2, <1>6, <2>2 DEF Backed
  <2> QED BY <2>2, <2>3, <2>4
<1> QED BY <1>5, <1>6

(* A page at or before a position inside the range is a page of the range. *)
LEMMA InRange ==
  ASSUME NEW s, RangeOK(s), NEW n \in Nat, n * VmPageSize < s.size
  PROVE  n \in Pages(0, s.size)
BY PagesFromStart DEF RangeOK

(* AllocateHere: in the present range, or in the one it has moved to. *)
LEMMA AllocateHereWorks ==
  ASSUME NEW s, RangeOK(s), NEW length \in Nat, Fits(s, length), AllocateHere(s, length),
         StackIInv, stack.marker <= s.marker,
         ~ (filled /\ s.size = stack.size) => s.committed \subseteq Pages(0, s.size)
  PROVE  /\ RangeOK(stack)'
         /\ stack'.marker \in 0 .. stack'.size
         /\ marks' \subseteq 0 .. stack'.marker
         /\ Backed(s) /\ length <= VmPageSize => Backed(stack)'
         /\ ~ filled' => stack'.committed \subseteq Pages(0, stack'.size)
<1>1. /\ RangeOK(stack)'
      /\ stack'.marker = s.marker + length /\ stack'.size = s.size
      /\ Backed(s) /\ length <= VmPageSize => Backed(stack)'
      /\ \A page \in stack'.committed :
           page \in s.committed \/ page * VmPageSize <= s.marker + length
  <2>1. stack' = Push(s, length)
    BY DEF AllocateHere
  <2>2. LET p == Push(s, length)
        IN  /\ RangeOK(p)
            /\ p.marker = s.marker + length /\ p.size = s.size
            /\ Backed(s) /\ length <= VmPageSize => Backed(p)
            /\ \A page \in p.committed :
                 page \in s.committed \/ page * VmPageSize <= s.marker + length
    BY PushWorks
  <2> QED BY <2>1, <2>2, Zenon DEF RangeOK, Backed
<1>2. /\ s.marker \in Nat /\ s.size \in Nat /\ s.marker + length <= s.size
      /\ stack.marker \in Nat
  BY DEF RangeOK, Fits, StackIInv
<1>3. stack'.marker \in 0 .. stack'.size /\ stack.marker <= stack'.marker
  BY <1>1, <1>2
<1>4. marks' \subseteq 0 .. stack'.marker
  <2>1. marks' = marks \union {stack'.marker}
    BY DEF AllocateHere
  <2>2. marks \subseteq 0 .. stack.marker
    BY DEF StackIInv, StackTypeOK
  <2>3. stack'.marker \in Nat
    BY <1>1, <1>2
  <2> SUFFICES ASSUME NEW m \in marks' PROVE m \in 0 .. stack'.marker
    OBVIOUS
  <2>4. CASE m = stack'.marker
    BY <2>3, <2>4
  <2>5. CASE m \in 0 .. stack.marker
    BY <1>2, <1>3, <2>3, <2>5
  <2> QED BY <2>1, <2>2, <2>4, <2>5
<1>5. ~ filled' => stack'.committed \subseteq Pages(0, stack'.size)
  <2> SUFFICES ASSUME ~ filled', NEW page \in stack'.committed
               PROVE  page \in Pages(0, stack'.size)
    OBVIOUS
  <2>1. ~ (filled /\ s.size = stack.size) /\ stack'.marker # s.size
    BY Zenon DEF AllocateHere
  <2>2. CASE page \in s.committed
    BY <1>1, <2>1, <2>2
  <2>3. CASE page * VmPageSize <= s.marker + length
    <3>1. page \in Nat
      BY <1>1 DEF RangeOK
    <3>2. page * VmPageSize < s.size
      BY <1>1, <1>2, <2>1, <2>3, <3>1, VmPageSizeType
    <3> QED BY <1>1, <3>1, <3>2, InRange
  <2> QED BY <1>1, <2>2, <2>3
<1> QED BY <1>1, <1>3, <1>4, <1>5

(* A new range with what is in use in one block. *)
LEMMA MovedWorks ==
  ASSUME RangeOK(stack), NEW size \in Nat \ {0}
  PROVE  LET moved == Moved(stack, size)
         IN  /\ RangeOK(moved)
             /\ moved.size = size /\ stack.marker <= moved.marker
             /\ moved.committed \subseteq Pages(0, size)
             /\ moved.marker <= VmPageSize => Backed(moved)
<1> DEFINE moved  == Moved(stack, size)
           new    == NewRange(size)
           length == Aligned(stack.marker, DefaultAlignment)
<1> SUFFICES /\ RangeOK(moved)
             /\ moved.size = size /\ stack.marker <= moved.marker
             /\ moved.committed \subseteq Pages(0, size)
             /\ moved.marker <= VmPageSize => Backed(moved)
  OBVIOUS
<1>1. new = [size |-> size, next |-> 0, marker |-> 0, committed |-> {}]
  BY DEF NewRange
<1>2. stack.marker \in Nat /\ DefaultAlignment \in Nat \ {0}
  BY StackAssumption DEF RangeOK, StackAssumption
<1>3. length \in Nat /\ stack.marker <= length
  BY <1>2, AlignedLarger
<1>4. RangeOK(new) /\ Backed(new)
  <2>1. 0 % VmPageSize = 0
    BY VmPageSizeType
  <2>2. Pages(0, 0) = {}
    BY DEF Pages
  <2>3. new \in [size : Nat \ {0}, next : Nat, marker : Nat, committed : SUBSET Nat]
    BY <1>1
  <2> QED BY <1>1, <2>1, <2>2, <2>3 DEF RangeOK, Backed
<1>5. moved = Push(new, length)
  BY DEF Moved
<1> HIDE DEF new, length, moved
<1>6. LET p == Push(new, length)
      IN  /\ RangeOK(p)
          /\ p.marker = new.marker + length /\ p.size = new.size
          /\ Backed(new) /\ length <= VmPageSize => Backed(p)
          /\ \A page \in p.committed :
               page \in new.committed \/ page * VmPageSize <= new.marker + length
  BY <1>3, <1>4, PushWorks
<1>7. /\ RangeOK(moved) /\ moved.marker = length /\ moved.size = size
      /\ length <= VmPageSize => Backed(moved)
  BY <1>1, <1>3, <1>4, <1>5, <1>6
<1>8. moved.committed \subseteq Pages(0, size)
  <2>1. moved.committed = {0}
    <3>1. length >= 0
      BY <1>3
    <3>2. 0 \div VmPageSize = 0
      BY VmPageSizeType
    <3> QED BY <1>1, <1>3, <1>5, <3>1, <3>2 DEF Push
  <2>2. 0 * VmPageSize < size
    BY VmPageSizeType
  <2>3. 0 \in Pages(0, size)
    BY <2>2, PagesFromStart
  <2> QED BY <2>1, <2>3
<1> QED BY <1>3, <1>7, <1>8

(* What is in use can be copied to a range that is backed, too.            *)
LEMMA CopyWorks ==
  ASSUME RangeOK(stack), Backed(stack), NEW moved, RangeOK(moved), Backed(moved),
         stack.marker <= moved.marker
  PROVE  CanCopy(stack, moved) /\ CanCopy(moved, moved)
<1>1. /\ stack.marker \in Nat /\ stack.next \in Nat
      /\ moved.marker \in Nat /\ moved.next \in Nat
  BY DEF RangeOK
<1>2. /\ Pages(0, stack.marker) \subseteq Pages(0, stack.next)
      /\ Pages(0, stack.marker) \subseteq Pages(0, moved.marker)
      /\ Pages(0, moved.marker) \subseteq Pages(0, moved.next)
  BY <1>1, PagesGrow DEF Backed
<1> QED BY <1>2, Zenon DEF Backed, CanCopy

-----------------------------------------------------------------------------

LEMMA StackInitInvariant == StackInit => StackIInv
<1> SUFFICES ASSUME StackInit PROVE StackIInv
  OBVIOUS
<1>1. /\ stack = [size |-> InitialSize, next |-> 0, marker |-> 0, committed |-> {}]
      /\ growing \in BOOLEAN /\ marks = {0} /\ oversized = FALSE
      /\ recalled = FALSE /\ filled = FALSE /\ crashed = FALSE
  BY DEF StackInit, NewRange
<1>2. InitialSize \in Nat \ {0}
  BY StackAssumption DEF StackAssumption
<1>3. 0 % VmPageSize = 0 /\ Pages(0, 0) = {}
  BY VmPageSizeType DEF Pages
<1>4. stack \in [size : Nat \ {0}, next : Nat, marker : Nat, committed : SUBSET Nat]
  BY <1>1, <1>2
<1>5. RangeOK(stack) /\ Backed(stack)
  BY <1>1, <1>3, <1>4 DEF RangeOK, Backed
<1>6. \A flag \in {growing, oversized, recalled, filled, crashed} : flag \in BOOLEAN
  BY <1>1, Zenon
<1>7. /\ stack.marker \in 0 .. stack.size /\ stack.next % VmPageSize = 0
      /\ \A page \in stack.committed : page * VmPageSize < stack.next
      /\ marks \subseteq 0 .. stack.marker
  BY <1>1, <1>2, <1>3
<1>8. StackTypeOK
  BY <1>6, <1>7, Zenon DEF StackTypeOK
<1> QED BY <1>1, <1>5, <1>8 DEF StackIInv

(* A range that is in order is as the types say. *)
LEMMA RangeTyped ==
  ASSUME RangeOK(stack)', stack'.marker \in 0 .. stack'.size,
         marks' \subseteq 0 .. stack'.marker,
         growing' \in BOOLEAN, oversized' \in BOOLEAN, recalled' \in BOOLEAN,
         filled' \in BOOLEAN, crashed' \in BOOLEAN
  PROVE  StackTypeOK'
<1>1. \A page \in stack'.committed : page * VmPageSize < stack'.next
  BY PagesFromStart DEF RangeOK
<1>2. stack'.next % VmPageSize = 0
  BY DEF RangeOK
<1> QED BY <1>1, <1>2, Zenon DEF StackTypeOK

LEMMA StackAllocateInvariant ==
  ASSUME StackIInv, NEW size \in BlockSizes, NEW alignment \in BlockAlignments,
         StackAllocate(size, alignment)
  PROVE  StackIInv'
<1> DEFINE length == Aligned(size, alignment)
<1>1. length \in Nat
  BY StackAssumption, AlignedLarger DEF StackAssumption
<1>2. /\ Fits(stack, length) /\ AllocateHere(stack, length)
      /\ oversized' = (oversized \/ length > VmPageSize)
  BY DEF StackAllocate
<1> HIDE DEF length
<1>3. /\ RangeOK(stack) /\ stack.marker \in Nat
      /\ ~ filled => stack.committed \subseteq Pages(0, stack.size)
  BY DEF StackIInv, RangeOK
<1>4. stack.marker <= stack.marker
  BY <1>3
<1>5. /\ RangeOK(stack)'
      /\ stack'.marker \in 0 .. stack'.size
      /\ marks' \subseteq 0 .. stack'.marker
      /\ Backed(stack) /\ length <= VmPageSize => Backed(stack)'
      /\ ~ filled' => stack'.committed \subseteq Pages(0, stack'.size)
  <2>1. ~ (filled /\ stack.size = stack.size) => stack.committed \subseteq Pages(0, stack.size)
    BY <1>3
  <2> QED BY <1>1, <1>2, <1>3, <1>4, <2>1, AllocateHereWorks
<1>6. /\ growing' \in BOOLEAN /\ oversized' \in BOOLEAN /\ recalled' \in BOOLEAN
      /\ filled' \in BOOLEAN /\ crashed' \in BOOLEAN
  BY <1>2, Zenon DEF AllocateHere, StackIInv, StackTypeOK
<1>7. StackTypeOK'
  BY <1>5, <1>6, RangeTyped
<1>8. ~ oversized' /\ ~ recalled' => Backed(stack)' /\ ~ crashed'
  <2> SUFFICES ASSUME ~ oversized', ~ recalled' PROVE Backed(stack)' /\ ~ crashed'
    OBVIOUS
  <2>1. ~ oversized /\ ~ (length > VmPageSize) /\ recalled' = recalled /\ crashed' = crashed
    BY <1>2, Zenon DEF AllocateHere
  <2>2. length <= VmPageSize
    BY <1>1, <2>1, VmPageSizeType
  <2> QED BY <1>5, <2>1, <2>2, Zenon DEF StackIInv
<1> QED BY <1>5, <1>7, <1>8, Zenon DEF StackIInv

(* Unless the contents are larger than a page, all that is in use is moved *)
(* to pages that are committed before the block is placed after it.        *)
LEMMA AllocateGrowingInvariant ==
  ASSUME StackIInv, NEW size \in BlockSizes, NEW alignment \in BlockAlignments,
         AllocateGrowing(size, alignment)
  PROVE  StackIInv'
<1> DEFINE length == Aligned(size, alignment)
<1>1. length \in Nat
  BY StackAssumption, AlignedLarger DEF StackAssumption
<1>2. PICK newSize \in Doublings :
        LET moved == Moved(stack, newSize)
            once  == newSize = 2 * stack.size
        IN  /\ Fits(moved, length)
            /\ oversized' = (oversized \/ length > VmPageSize \/ moved.marker > VmPageSize)
            /\ IF CanCopy(stack, moved) /\ (once \/ CanCopy(moved, moved))
               THEN AllocateHere(moved, length)
               ELSE /\ crashed' = TRUE
                    /\ UNCHANGED <<stack, growing, marks, recalled, filled>>
  BY Zenon DEF AllocateGrowing
<1> DEFINE moved == Moved(stack, newSize)
           once  == newSize = 2 * stack.size
<1>3. /\ Fits(moved, length)
      /\ oversized' = (oversized \/ length > VmPageSize \/ moved.marker > VmPageSize)
      /\ \/ AllocateHere(moved, length)
         \/ /\ ~ (CanCopy(stack, moved) /\ CanCopy(moved, moved))
            /\ crashed' = TRUE
            /\ UNCHANGED <<stack, growing, marks, recalled, filled>>
  BY <1>2, Zenon
<1>4. RangeOK(stack) /\ stack.size \in Nat /\ MaxCapacity \in Nat
  BY StackAssumption DEF StackIInv, RangeOK, StackAssumption
<1>5. newSize \in Nat \ {0} /\ newSize # stack.size
  BY <1>2, <1>4 DEF Doublings
<1>6. /\ RangeOK(moved)
      /\ moved.size = newSize /\ stack.marker <= moved.marker
      /\ moved.committed \subseteq Pages(0, newSize)
      /\ moved.marker <= VmPageSize => Backed(moved)
  <2>1. LET m == Moved(stack, newSize)
        IN  /\ RangeOK(m)
            /\ m.size = newSize /\ stack.marker <= m.marker
            /\ m.committed \subseteq Pages(0, newSize)
            /\ m.marker <= VmPageSize => Backed(m)
    BY <1>4, <1>5, MovedWorks
  <2> QED BY <2>1, Zenon
<1> HIDE DEF length, moved
<1>7. ASSUME ~ oversized', ~ recalled
      PROVE  /\ length <= VmPageSize /\ Backed(moved) /\ Backed(stack)
             /\ ~ crashed /\ CanCopy(stack, moved) /\ CanCopy(moved, moved)
  <2>1. ~ oversized /\ ~ (length > VmPageSize) /\ ~ (moved.marker > VmPageSize)
    BY <1>3, <1>7, Zenon
  <2>2. moved.marker \in Nat
    BY <1>6 DEF RangeOK
  <2>3. length <= VmPageSize /\ moved.marker <= VmPageSize
    BY <1>1, <2>1, <2>2, VmPageSizeType
  <2>4. Backed(stack) /\ ~ crashed
    BY <1>7, <2>1 DEF StackIInv
  <2> QED BY <1>4, <1>6, <2>3, <2>4, CopyWorks
<1>8. CASE AllocateHere(moved, length)
  <2>1. ~ (filled /\ moved.size = stack.size) => moved.committed \subseteq Pages(0, moved.size)
    BY <1>6
  <2>2. /\ RangeOK(stack)'
        /\ stack'.marker \in 0 .. stack'.size
        /\ marks' \subseteq 0 .. stack'.marker
        /\ Backed(moved) /\ length <= VmPageSize => Backed(stack)'
        /\ ~ filled' => stack'.committed \subseteq Pages(0, stack'.size)
    BY <1>1, <1>3, <1>6, <1>8, <2>1, AllocateHereWorks
  <2>3. /\ growing' \in BOOLEAN /\ oversized' \in BOOLEAN /\ recalled' \in BOOLEAN
        /\ filled' \in BOOLEAN /\ crashed' \in BOOLEAN
    BY <1>3, <1>8, Zenon DEF AllocateHere, StackIInv, StackTypeOK
  <2>4. StackTypeOK'
    BY <2>2, <2>3, RangeTyped
  <2>5. recalled' = recalled /\ crashed' = crashed
    BY <1>8 DEF AllocateHere
  <2>6. ~ oversized' /\ ~ recalled' => Backed(stack)' /\ ~ crashed'
    BY <1>7, <2>2, <2>5, Zenon
  <2> QED BY <2>2, <2>4, <2>6, Zenon DEF StackIInv
<1>9. CASE /\ ~ (CanCopy(stack, moved) /\ CanCopy(moved, moved))
           /\ crashed' = TRUE
           /\ UNCHANGED <<stack, growing, marks, recalled, filled>>
  <2>1. ~ (~ oversized' /\ ~ recalled')
    BY <1>7, <1>9, Zenon
  <2>2. /\ growing' \in BOOLEAN /\ oversized' \in BOOLEAN /\ recalled' \in BOOLEAN
        /\ filled' \in BOOLEAN /\ crashed' \in BOOLEAN
    BY <1>3, <1>9, Zenon DEF StackIInv, StackTypeOK
  <2>3. /\ RangeOK(stack)' /\ stack'.marker \in 0 .. stack'.size
        /\ marks' \subseteq 0 .. stack'.marker
        /\ ~ filled' => stack'.committed \subseteq Pages(0, stack'.size)
    BY <1>9, Zenon DEF StackIInv, StackTypeOK, RangeOK
  <2>4. StackTypeOK'
    BY <2>2, <2>3, RangeTyped
  <2> QED BY <2>1, <2>3, <2>4, Zenon DEF StackIInv
<1> QED BY <1>3, <1>8, <1>9

(* Going back keeps the pages, or has given some back. *)
LEMMA GoBackInvariant ==
  ASSUME StackIInv, NEW marker \in Nat, NEW given, marker <= stack.marker,
         GoBack(marker, given)
  PROVE  StackIInv'
<1>1. /\ stack' = [stack EXCEPT !.marker = marker, !.committed = @ \ given]
      /\ marks' = {m \in marks : m <= marker} \union {marker}
      /\ recalled' = (recalled \/ stack'.committed # stack.committed)
      /\ growing' = growing /\ oversized' = oversized
      /\ filled' = filled /\ crashed' = crashed
  BY DEF GoBack
<1>2. /\ stack \in [size : Nat \ {0}, next : Nat, marker : Nat, committed : SUBSET Nat]
      /\ stack.next % VmPageSize = 0
      /\ stack.committed \subseteq Pages(0, stack.next)
      /\ stack.marker \in 0 .. stack.size
      /\ marks \subseteq 0 .. stack.marker
  BY DEF StackIInv, RangeOK, StackTypeOK
<1>3. /\ stack'.size = stack.size /\ stack'.next = stack.next /\ stack'.marker = marker
      /\ stack'.committed \subseteq stack.committed
      /\ stack' \in [size : Nat \ {0}, next : Nat, marker : Nat, committed : SUBSET Nat]
  <2>1. stack' = [size |-> stack.size, next |-> stack.next, marker |-> marker,
                  committed |-> stack.committed \ given]
    BY <1>1, <1>2
  <2>2. stack.committed \ given \in SUBSET Nat
    BY <1>2
  <2> QED BY <1>2, <2>1, <2>2
<1>4. RangeOK(stack)'
  BY <1>2, <1>3 DEF RangeOK
<1>5. stack'.marker \in 0 .. stack'.size
  BY <1>2, <1>3
<1>6. marks' \subseteq 0 .. stack'.marker
  BY <1>1, <1>2, <1>3
<1>7. /\ growing' \in BOOLEAN /\ oversized' \in BOOLEAN /\ recalled' \in BOOLEAN
      /\ filled' \in BOOLEAN /\ crashed' \in BOOLEAN
  BY <1>1, Zenon DEF StackIInv, StackTypeOK
<1>8. StackTypeOK'
  BY <1>4, <1>5, <1>6, <1>7, RangeTyped
<1>9. ~ oversized' /\ ~ recalled' => Backed(stack)' /\ ~ crashed'
  <2> SUFFICES ASSUME ~ oversized', ~ recalled' PROVE Backed(stack)' /\ ~ crashed'
    OBVIOUS
  <2>1. ~ oversized /\ ~ recalled /\ stack'.committed = stack.committed
    BY <1>1, Zenon
  <2>2. Backed(stack) /\ ~ crashed
    BY <2>1 DEF StackIInv
  <2>3. stack'.marker <= stack'.next
    BY <1>2, <1>3, <2>2 DEF Backed
  <2> QED BY <1>1, <1>3, <2>1, <2>2, <2>3 DEF Backed
<1>10. ~ filled' => stack'.committed \subseteq Pages(0, stack'.size)
  BY <1>1, <1>3, Zenon DEF StackIInv
<1> QED BY <1>4, <1>8, <1>9, <1>10, Zenon DEF StackIInv

-----------------------------------------------------------------------------

LEMMA StackStepInvariant == StackIInv /\ [StackNext]_stackVars => StackIInv'
<1> SUFFICES ASSUME StackIInv, [StackNext]_stackVars PROVE StackIInv'
  OBVIOUS
<1>1. ASSUME NEW size \in BlockSizes, NEW alignment \in BlockAlignments,
             StackAllocate(size, alignment)
      PROVE  StackIInv'
  BY <1>1, StackAllocateInvariant
<1>2. ASSUME NEW size \in BlockSizes, NEW alignment \in BlockAlignments,
             AllocateGrowing(size, alignment)
      PROVE  StackIInv'
  BY <1>2, AllocateGrowingInvariant
<1>3. ASSUME NEW marker \in marks, FreeToMarker(marker)
      PROVE  StackIInv'
  <2>1. marker \in Nat /\ marker <= stack.marker
    BY DEF StackIInv, StackTypeOK, RangeOK
  <2>2. GoBack(marker, Decommitted(marker - 1, stack.marker - marker))
    BY <1>3 DEF FreeToMarker
  <2> QED BY <2>1, <2>2, GoBackInvariant
<1>4. CASE StackReset
  <2>1. 0 <= stack.marker
    BY DEF StackIInv, RangeOK
  <2>2. GoBack(0, Decommitted(0, stack.next))
    BY <1>4 DEF StackReset
  <2> QED BY <2>1, <2>2, GoBackInvariant
<1>5. CASE UNCHANGED stackVars
  BY <1>5, Zenon DEF StackIInv, StackTypeOK, RangeOK, Backed, stackVars
<1> QED BY <1>1, <1>2, <1>3, <1>4, <1>5 DEF StackNext

(* The inductive invariant of the stack holds in every state. *)
THEOREM StackInvariance == StackSpec => []StackIInv
BY StackInitInvariant, StackStepInvariant, PTL DEF StackSpec

(* Types: the position of ThVirtualStackAllocator stays inside the range,  *)
(* and m_NextPage at the start of a page that is not committed yet.        *)
THEOREM StackTypeCorrect == StackSpec => []StackTypeOK
<1>1. StackIInv => StackTypeOK
  BY DEF StackIInv
<1> QED BY StackInvariance, <1>1, PTL

(* Until a block is larger than a page or pages are given back, what the   *)
(* stack allocators have handed out is committed and growing copies only   *)
(* what can be accessed, although Allocate commits at most one page; and   *)
(* no page outside the range is committed until it is filled.              *)
THEOREM StackAlwaysBacked == StackSpec => []StackIsBacked
<1>1. StackIInv => StackIsBacked
  <2> SUFFICES ASSUME StackIInv PROVE StackIsBacked
    OBVIOUS
  <2>1. ASSUME Backed(stack)
        PROVE  Pages(0, stack.marker) \subseteq stack.committed
    <3>1. stack.marker \in Nat /\ stack.next \in Nat
      BY DEF StackIInv, RangeOK
    <3>2. Pages(0, stack.marker) \subseteq Pages(0, stack.next)
      BY <2>1, <3>1, PagesGrow DEF Backed
    <3> QED BY <2>1, <3>2 DEF Backed
  <2> QED BY <2>1, Zenon DEF StackIInv, StackIsBacked
<1> QED BY StackInvariance, <1>1, PTL

-----------------------------------------------------------------------------
(* Reference counts. *)

(***************************************************************************)
(* Sequences of at most three steps, which is all that is left of a call.  *)
(***************************************************************************)
LEMMA ShortTails ==
  /\ \A a : Head(<<a>>) = a /\ Tail(<<a>>) = << >> /\ <<a>> # << >>
  /\ \A a, b : Head(<<a, b>>) = a /\ Tail(<<a, b>>) = <<b>> /\ <<a, b>> # << >>
  /\ \A a, b, c : Head(<<a, b, c>>) = a /\ Tail(<<a, b, c>>) = <<b, c>> /\ <<a, b, c>> # << >>
<1>1. \A a : Tail(<<a>>) = << >>
  OBVIOUS
<1>2. \A a, b : Tail(<<a, b>>) = <<b>>
  OBVIOUS
<1>3. \A a, b, c : Tail(<<a, b, c>>) = <<b, c>>
  OBVIOUS
<1> QED BY <1>1, <1>2, <1>3

LEMMA ShortConcats ==
  /\ << >> \o << >> = << >>
  /\ \A a : << >> \o <<a>> = <<a>> /\ <<a>> \o << >> = <<a>>
  /\ \A a, b : << >> \o <<a, b>> = <<a, b>> /\ <<a, b>> \o << >> = <<a, b>> /\ <<a>> \o <<b>> = <<a, b>>
  /\ \A a, b, c : <<a, b, c>> \o << >> = <<a, b, c>> /\ <<a, b>> \o <<c>> = <<a, b, c>>
                  /\ <<a>> \o <<b, c>> = <<a, b, c>>
<1>1. << >> \o << >> = << >>
  OBVIOUS
<1>2. ASSUME NEW a, NEW b, NEW c
      PROVE  /\ << >> \o <<a>> = <<a>> /\ <<a>> \o << >> = <<a>>
             /\ << >> \o <<a, b>> = <<a, b>> /\ <<a, b>> \o << >> = <<a, b>>
             /\ <<a, b, c>> \o << >> = <<a, b, c>>
  <2>1. /\ <<a>> \in Seq({a, b, c}) /\ <<a, b>> \in Seq({a, b, c}) /\ <<a, b, c>> \in Seq({a, b, c})
    OBVIOUS
  <2> QED BY <2>1, ConcatEmptySeq
<1>3. ASSUME NEW a, NEW b PROVE <<a>> \o <<b>> = <<a, b>>
  <2>1. /\ <<a>> \in Seq({a, b}) /\ <<b>> \in Seq({a, b}) /\ <<a, b>> \in Seq({a, b})
        /\ Len(<<a>>) = 1 /\ Len(<<b>>) = 1 /\ Len(<<a, b>>) = 2
    OBVIOUS
  <2>2. /\ <<a>> \o <<b>> \in Seq({a, b}) /\ Len(<<a>> \o <<b>>) = 2
        /\ \A i \in 1 .. 2 : (<<a>> \o <<b>>)[i] = <<a, b>>[i]
    BY <2>1, ConcatProperties
  <2> QED BY <2>1, <2>2, SeqEqual
<1>4. ASSUME NEW a, NEW b, NEW c PROVE <<a, b>> \o <<c>> = <<a, b, c>>
  <2>1. /\ <<a, b>> \in Seq({a, b, c}) /\ <<c>> \in Seq({a, b, c}) /\ <<a, b, c>> \in Seq({a, b, c})
        /\ Len(<<a, b>>) = 2 /\ Len(<<c>>) = 1 /\ Len(<<a, b, c>>) = 3
    OBVIOUS
  <2>2. /\ <<a, b>> \o <<c>> \in Seq({a, b, c}) /\ Len(<<a, b>> \o <<c>>) = 3
        /\ \A i \in 1 .. 3 : (<<a, b>> \o <<c>>)[i] = <<a, b, c>>[i]
    BY <2>1, ConcatProperties
  <2> QED BY <2>1, <2>2, SeqEqual
<1>5. ASSUME NEW a, NEW b, NEW c PROVE <<a>> \o <<b, c>> = <<a, b, c>>
  <2>1. /\ <<a>> \in Seq({a, b, c}) /\ <<b, c>> \in Seq({a, b, c}) /\ <<a, b, c>> \in Seq({a, b, c})
        /\ Len(<<a>>) = 1 /\ Len(<<b, c>>) = 2 /\ Len(<<a, b, c>>) = 3
    OBVIOUS
  <2>2. /\ <<a>> \o <<b, c>> \in Seq({a, b, c}) /\ Len(<<a>> \o <<b, c>>) = 3
        /\ \A i \in 1 .. 3 : (<<a>> \o <<b, c>>)[i] = <<a, b, c>>[i]
    BY <2>1, ConcatProperties
  <2> QED BY <2>1, <2>2, SeqEqual
<1> QED BY <1>1, <1>2, <1>3, <1>4, <1>5

LEMMA HasShort ==
  /\ \A s : ~ Has(<< >>, s)
  /\ \A a, s : Has(<<a>>, s) <=> s = a
  /\ \A a, b, s : Has(<<a, b>>, s) <=> s \in {a, b}
  /\ \A a, b, c, s : Has(<<a, b, c>>, s) <=> s \in {a, b, c}
BY DEF Has

LEMMA PairsDiffer ==
  \A a, b, c, d : <<a, b>> = <<c, d>> <=> a = c /\ b = d
OBVIOUS

(***************************************************************************)
(* What is left of a call after its first step.                            *)
(***************************************************************************)
LEMMA TailOfCall ==
  ASSUME NEW steps \in CallsLeft, steps # << >>
  PROVE  /\ Tail(steps) \in CallsLeft
         /\ << >> \o Tail(steps) = Tail(steps)
         /\ Has(steps, Head(steps))
         /\ \A s : Has(Tail(steps), s) <=> Has(steps, s) /\ s # Head(steps)
<1>1. Tail(steps) \in CallsLeft
  <2>1. CASE \E a : steps = <<a>>
    BY <2>1, ShortTails DEF CallsLeft
  <2>2. CASE \E a, b : steps = <<a, b>>
    <3>1. PICK a, b : steps = <<a, b>>
      BY <2>2
    <3>2. <<b>> \in CallsLeft
      BY <3>1, PairsDiffer DEF CallsLeft
    <3> QED BY <3>1, <3>2, ShortTails
  <2>3. CASE \E a, b, c : steps = <<a, b, c>>
    <3>1. PICK a, b, c : steps = <<a, b, c>>
      BY <2>3
    <3>2. <<b, c>> \in CallsLeft
      BY <3>1, PairsDiffer DEF CallsLeft
    <3> QED BY <3>1, <3>2, ShortTails
  <2> QED BY <2>1, <2>2, <2>3 DEF CallsLeft
<1>2. \/ \E a : steps = <<a>>
      \/ \E a, b : a # b /\ steps = <<a, b>>
      \/ \E a, b, c : a # b /\ a # c /\ steps = <<a, b, c>>
  BY PairsDiffer DEF CallsLeft
<1>3. CASE \E a : steps = <<a>>
  BY <1>1, <1>3, ShortTails, ShortConcats, HasShort
<1>4. CASE \E a, b : a # b /\ steps = <<a, b>>
  BY <1>1, <1>4, ShortTails, ShortConcats, HasShort
<1>5. CASE \E a, b, c : a # b /\ a # c /\ steps = <<a, b, c>>
  BY <1>1, <1>5, ShortTails, ShortConcats, HasShort
<1> QED BY <1>2, <1>3, <1>4, <1>5

LEMMA AfterLoad ==
  ASSUME NEW steps \in CallsLeft, steps # << >>, NEW x \in {"object", "counter"}, Head(steps) = <<"load", x>>
  PROVE  /\ Tail(steps) # << >> /\ Head(Tail(steps)) = steps[2]
         /\ steps[2] \in {<<"add", x>>, <<"sub", x>>}
<1>1. \/ \E a : steps = <<a>> /\ a # <<"load", x>>
      \/ \E a, b : steps = <<a, b>> /\ (a = <<"load", x>> => b \in {<<"add", x>>, <<"sub", x>>})
      \/ \E a, b, c : steps = <<a, b, c>> /\ (a = <<"load", x>> => b \in {<<"add", x>>, <<"sub", x>>})
  BY PairsDiffer DEF CallsLeft
<1>2. /\ \A a, b : <<a, b>>[2] = b
      /\ \A a, b, c : <<a, b, c>>[2] = b
  OBVIOUS
<1>3. CASE \E a : steps = <<a>> /\ a # <<"load", x>>
  BY <1>3, ShortTails
<1>4. CASE \E a, b : steps = <<a, b>> /\ (a = <<"load", x>> => b \in {<<"add", x>>, <<"sub", x>>})
  BY <1>4, <1>2, ShortTails
<1>5. CASE \E a, b, c : steps = <<a, b, c>> /\ (a = <<"load", x>> => b \in {<<"add", x>>, <<"sub", x>>})
  BY <1>5, <1>2, ShortTails
<1> QED BY <1>1, <1>3, <1>4, <1>5

(***************************************************************************)
(* The calls that a step begins, and the steps that only they can have.    *)
(***************************************************************************)
LEMMA CallsBegun ==
  /\ \A x \in {"object", "counter"} :
       /\ AddRef(x) \in CallsLeft /\ Release(x) \in CallsLeft
       /\ AddRef(x) # << >> /\ Release(x) # << >>
       /\ Head(AddRef(x)) = <<"load", x>> /\ Head(Release(x)) = <<"load", x>>
       /\ AddRef(x) \o << >> = AddRef(x) /\ Release(x) \o << >> = Release(x)
       /\ \A s : Has(AddRef(x), s) <=> s \in {<<"load", x>>, <<"add", x>>}
       /\ \A s : Has(Release(x), s) <=> s \in {<<"load", x>>, <<"sub", x>>}
  /\ << >> \in CallsLeft /\ << <<"look", "counter">> >> \in CallsLeft
<1>1. ASSUME NEW x \in {"object", "counter"}
      PROVE  AddRef(x) \in CallsLeft /\ Release(x) \in CallsLeft
  BY DEF AddRef, Release, CallsLeft
<1>2. << >> \in CallsLeft /\ << <<"look", "counter">> >> \in CallsLeft
  BY DEF CallsLeft
<1> QED BY <1>1, <1>2, ShortTails, ShortConcats, HasShort DEF AddRef, Release

LEMMA LastSteps ==
  ASSUME NEW steps \in CallsLeft, steps # << >>
  PROVE  /\ Head(steps) \in {<<"look", "counter">>, <<"destroy", "object">>, <<"free", "object">>, <<"sub", "object">>}
              => steps = <<Head(steps)>>
         /\ Head(steps) = <<"check", "counter">> =>
              Tail(steps) \in {<< >>, << <<"destroy", "object">> >>}
         /\ Head(steps) = <<"make", "counter">> => Tail(steps) = AddRef("counter")
         /\ \A x \in {"object", "counter"} : Head(steps) = <<"add", x>> =>
              Tail(steps) \in {<< >>, << <<"destroy", "object">> >>}
         /\ Head(steps) = <<"sub", "counter">> =>
              Tail(steps) \in {<< >>, << <<"free", "object">> >>}
<1>1. \/ \E a : steps = <<a>> /\ a # <<"make", "counter">>
      \/ \E a, b : /\ steps = <<a, b>>
                   /\ a \notin {<<"look", "counter">>, <<"make", "counter">>, <<"destroy", "object">>,
                                <<"free", "object">>, <<"sub", "object">>}
                   /\ a \in {<<"check", "counter">>, <<"add", "object">>, <<"add", "counter">>}
                        => b = <<"destroy", "object">>
                   /\ a = <<"sub", "counter">> => b = <<"free", "object">>
      \/ \E a, b, c : /\ steps = <<a, b, c>>
                      /\ \/ a \in {<<"load", "object">>, <<"load", "counter">>}
                         \/ a = <<"make", "counter">> /\ b = <<"load", "counter">> /\ c = <<"add", "counter">>
  BY PairsDiffer DEF CallsLeft
<1>2. CASE \E a : steps = <<a>> /\ a # <<"make", "counter">>
  BY <1>2, ShortTails
<1>3. CASE \E a, b : /\ steps = <<a, b>>
                     /\ a \notin {<<"look", "counter">>, <<"make", "counter">>, <<"destroy", "object">>,
                                  <<"free", "object">>, <<"sub", "object">>}
                     /\ a \in {<<"check", "counter">>, <<"add", "object">>, <<"add", "counter">>}
                          => b = <<"destroy", "object">>
                     /\ a = <<"sub", "counter">> => b = <<"free", "object">>
  <2>1. PICK a, b : steps = <<a, b>>
    BY <1>3
  <2>2. Head(steps) = a /\ Tail(steps) = <<b>>
    BY <2>1, ShortTails
  <2> QED BY <1>3, <2>1, <2>2, PairsDiffer
<1>4. CASE \E a, b, c : steps = <<a, b, c>> /\ a \in {<<"load", "object">>, <<"load", "counter">>}
  BY <1>4, ShortTails, PairsDiffer
<1>5. CASE steps = << <<"make", "counter">>, <<"load", "counter">>, <<"add", "counter">> >>
  BY <1>5, ShortTails, PairsDiffer DEF AddRef
<1> QED BY <1>1, <1>2, <1>3, <1>4, <1>5

-----------------------------------------------------------------------------
(***************************************************************************)
(* The sets that are counted.                                              *)
(***************************************************************************)
Weaks == {t \in Thread : weak[t]}

LEMMA FiniteSubset ==
  ASSUME NEW S, IsFiniteSet(S), NEW T \in SUBSET S
  PROVE  /\ IsFiniteSet(T) /\ Cardinality(T) \in Nat
         /\ \A x \in T : Cardinality(T) > 0 /\ Cardinality(T \ {x}) = Cardinality(T) - 1
         /\ \A x : x \notin T => Cardinality(T \union {x}) = Cardinality(T) + 1
         /\ Cardinality(T) = 0 => T = {}
<1>1. IsFiniteSet(T) /\ Cardinality(T) \in Nat
  BY FS_Subset, FS_CardinalityType
<1>2. \A x \in T : Cardinality(T) # 0 /\ Cardinality(T \ {x}) = Cardinality(T) - 1
  BY <1>1, FS_EmptySet, FS_RemoveElement
<1>3. \A x : x \notin T => Cardinality(T \union {x}) = Cardinality(T) + 1
  BY <1>1, FS_AddElement
<1>4. Cardinality(T) = 0 => T = {}
  BY <1>1, FS_EmptySet
<1> QED BY <1>1, <1>2, <1>3, <1>4

LEMMA CountedAreFinite ==
  /\ IsFiniteSet(Thread) /\ IsFiniteSet(Thread \X (1 .. MaxStrong))
  /\ Pointers \in SUBSET (Thread \X (1 .. MaxStrong))
  /\ Weaks \in SUBSET Thread
  /\ \A x : Releasing(x) \in SUBSET Thread
<1>1. IsFiniteSet(1 .. MaxStrong)
  BY RefAssumption, FS_Interval
<1> QED BY <1>1, RefAssumption, FS_Product DEF Pointers, Weaks, Releasing

LEMMA StrongType ==
  ASSUME RefTypeOK
  PROVE  /\ strong \in [Thread -> 0 .. MaxStrong] /\ MaxStrong \in Nat /\ MaxStrong > 0
         /\ \A t \in Thread : strong[t] \in Nat /\ strong[t] <= MaxStrong
<1>1. strong \in [Thread -> 0 .. MaxStrong]
  BY DEF RefTypeOK
<1>2. MaxStrong \in Nat /\ MaxStrong > 0
  BY RefAssumption
<1> QED BY <1>1, <1>2

LEMMA PointerIs ==
  ASSUME RefTypeOK
  PROVE  \A u \in Thread, n \in 1 .. MaxStrong : <<u, n>> \in Pointers <=> n <= strong[u]
<1> TAKE u \in Thread, n \in 1 .. MaxStrong
<1>1. <<u, n>> \in Thread \X (1 .. MaxStrong) /\ <<u, n>>[1] = u /\ <<u, n>>[2] = n
  OBVIOUS
<1> QED BY <1>1 DEF Pointers

LEMMA CountsAreNaturals ==
  ASSUME RefTypeOK
  PROVE  /\ Cardinality(Pointers) \in Nat /\ Cardinality(Weaks) \in Nat
         /\ \A x : Cardinality(Releasing(x)) \in Nat
         /\ \A t \in Thread : /\ strong[t] > 0 => Cardinality(Pointers) > 0
                              /\ weak[t] => Cardinality(Weaks) > 0
                              /\ \A x : Has(todo[t], <<"sub", x>>) => Cardinality(Releasing(x)) > 0
<1>1. /\ Cardinality(Pointers) \in Nat /\ Cardinality(Weaks) \in Nat
      /\ \A x : Cardinality(Releasing(x)) \in Nat
  BY CountedAreFinite, FiniteSubset
<1>2. ASSUME NEW t \in Thread, strong[t] > 0 PROVE Cardinality(Pointers) > 0
  <2>1. <<t, 1>> \in Pointers
    <3>1. strong[t] \in Nat /\ 1 \in 1 .. MaxStrong /\ 1 <= strong[t]
      BY <1>2, StrongType
    <3> QED BY <3>1, PointerIs
  <2> QED BY <2>1, CountedAreFinite, FiniteSubset
<1>3. ASSUME NEW t \in Thread, weak[t] PROVE Cardinality(Weaks) > 0
  <2>1. t \in Weaks
    BY <1>3 DEF Weaks
  <2> QED BY <2>1, CountedAreFinite, FiniteSubset
<1>4. ASSUME NEW t \in Thread, NEW x, Has(todo[t], <<"sub", x>>) PROVE Cardinality(Releasing(x)) > 0
  <2>1. t \in Releasing(x)
    BY <1>4 DEF Releasing
  <2> QED BY <2>1, CountedAreFinite, FiniteSubset
<1> QED BY <1>1, <1>2, <1>3, <1>4

(* How they change when one thread's pointers or steps do. *)
LEMMA PointerMade ==
  ASSUME RefTypeOK, NEW t \in Thread, strong[t] < MaxStrong, strong' = [strong EXCEPT ![t] = @ + 1]
  PROVE  Cardinality(Pointers)' = Cardinality(Pointers) + 1
<1>1. /\ strong'[t] = strong[t] + 1 /\ \A u \in Thread \ {t} : strong'[u] = strong[u]
      /\ \A u \in Thread : strong[u] \in Nat /\ strong'[u] \in Nat
      /\ strong[t] + 1 \in 1 .. MaxStrong
  BY StrongType
<1>2. \A u \in Thread, n \in 1 .. MaxStrong : <<u, n>> \in Pointers <=> n <= strong[u]
  BY PointerIs
<1>3. \A u \in Thread, n \in 1 .. MaxStrong : <<u, n>> \in Pointers' <=> n <= strong'[u]
  <2> TAKE u \in Thread, n \in 1 .. MaxStrong
  <2>1. <<u, n>> \in Thread \X (1 .. MaxStrong) /\ <<u, n>>[1] = u /\ <<u, n>>[2] = n
    OBVIOUS
  <2> QED BY <2>1 DEF Pointers
<1>4. Pointers \subseteq Thread \X (1 .. MaxStrong) /\ Pointers' \subseteq Thread \X (1 .. MaxStrong)
  BY DEF Pointers
<1>5. \A u \in Thread, n \in 1 .. MaxStrong :
        <<u, n>> \in Pointers' <=> <<u, n>> \in Pointers \union {<<t, strong[t] + 1>>}
  <2> TAKE u \in Thread, n \in 1 .. MaxStrong
  <2>1. CASE u = t
    BY <1>1, <1>2, <1>3, <2>1, PairsDiffer
  <2>2. CASE u # t
    BY <1>1, <1>2, <1>3, <2>2, PairsDiffer
  <2> QED BY <2>1, <2>2
<1>6. Pointers' = Pointers \union {<<t, strong[t] + 1>>} /\ <<t, strong[t] + 1>> \notin Pointers
  BY <1>1, <1>2, <1>4, <1>5
<1> QED BY <1>6, CountedAreFinite, FiniteSubset

LEMMA PointerDropped ==
  ASSUME RefTypeOK, NEW t \in Thread, strong[t] > 0, strong' = [strong EXCEPT ![t] = @ - 1]
  PROVE  Cardinality(Pointers)' = Cardinality(Pointers) - 1
<1>1. /\ strong'[t] = strong[t] - 1 /\ \A u \in Thread \ {t} : strong'[u] = strong[u]
      /\ \A u \in Thread : strong[u] \in Nat /\ strong'[u] \in Nat
      /\ strong[t] \in 1 .. MaxStrong
  BY StrongType
<1>2. \A u \in Thread, n \in 1 .. MaxStrong : <<u, n>> \in Pointers <=> n <= strong[u]
  BY PointerIs
<1>3. \A u \in Thread, n \in 1 .. MaxStrong : <<u, n>> \in Pointers' <=> n <= strong'[u]
  <2> TAKE u \in Thread, n \in 1 .. MaxStrong
  <2>1. <<u, n>> \in Thread \X (1 .. MaxStrong) /\ <<u, n>>[1] = u /\ <<u, n>>[2] = n
    OBVIOUS
  <2> QED BY <2>1 DEF Pointers
<1>4. Pointers \subseteq Thread \X (1 .. MaxStrong) /\ Pointers' \subseteq Thread \X (1 .. MaxStrong)
  BY DEF Pointers
<1>5. \A u \in Thread, n \in 1 .. MaxStrong :
        <<u, n>> \in Pointers' <=> <<u, n>> \in Pointers \ {<<t, strong[t]>>}
  <2> TAKE u \in Thread, n \in 1 .. MaxStrong
  <2>1. CASE u = t
    BY <1>1, <1>2, <1>3, <2>1, PairsDiffer
  <2>2. CASE u # t
    BY <1>1, <1>2, <1>3, <2>2, PairsDiffer
  <2> QED BY <2>1, <2>2
<1>6. Pointers' = Pointers \ {<<t, strong[t]>>} /\ <<t, strong[t]>> \in Pointers
  BY <1>1, <1>2, <1>4, <1>5
<1> QED BY <1>6, CountedAreFinite, FiniteSubset

LEMMA WeakMade ==
  ASSUME RefTypeOK, NEW t \in Thread, ~ weak[t], weak' = [weak EXCEPT ![t] = TRUE]
  PROVE  Cardinality(Weaks)' = Cardinality(Weaks) + 1
<1>1. Weaks' = Weaks \union {t} /\ t \notin Weaks
  BY DEF Weaks, RefTypeOK
<1> QED BY <1>1, CountedAreFinite, FiniteSubset

LEMMA WeakDropped ==
  ASSUME RefTypeOK, NEW t \in Thread, weak[t], weak' = [weak EXCEPT ![t] = FALSE]
  PROVE  Cardinality(Weaks)' = Cardinality(Weaks) - 1
<1>1. Weaks' = Weaks \ {t} /\ t \in Weaks
  BY DEF Weaks, RefTypeOK
<1> QED BY <1>1, CountedAreFinite, FiniteSubset

LEMMA StepsChanged ==
  ASSUME RefTypeOK, NEW t \in Thread, NEW left, todo' = [todo EXCEPT ![t] = left]
  PROVE  /\ todo'[t] = left /\ \A u \in Thread \ {t} : todo'[u] = todo[u]
         /\ \A x : Cardinality(Releasing(x))' =
              Cardinality(Releasing(x))
                + (IF Has(left, <<"sub", x>>) THEN 1 ELSE 0)
                - (IF Has(todo[t], <<"sub", x>>) THEN 1 ELSE 0)
<1>1. todo'[t] = left /\ \A u \in Thread \ {t} : todo'[u] = todo[u]
  BY DEF RefTypeOK
<1> SUFFICES ASSUME NEW x
             PROVE  Cardinality(Releasing(x)') =
                      Cardinality(Releasing(x))
                        + (IF Has(left, <<"sub", x>>) THEN 1 ELSE 0)
                        - (IF Has(todo[t], <<"sub", x>>) THEN 1 ELSE 0)
  BY <1>1
<1>2. Cardinality(Releasing(x)) \in Nat
  BY CountsAreNaturals
<1>3. /\ t \in Releasing(x) <=> Has(todo[t], <<"sub", x>>)
      /\ Releasing(x)' = IF Has(left, <<"sub", x>>) THEN Releasing(x) \union {t} ELSE Releasing(x) \ {t}
  BY <1>1 DEF Releasing
<1>4. /\ t \in Releasing(x) => Cardinality(Releasing(x) \ {t}) = Cardinality(Releasing(x)) - 1
      /\ t \notin Releasing(x) => Cardinality(Releasing(x) \union {t}) = Cardinality(Releasing(x)) + 1
  BY CountedAreFinite, FiniteSubset
<1>5. /\ t \in Releasing(x) => Releasing(x) \union {t} = Releasing(x)
      /\ t \notin Releasing(x) => Releasing(x) \ {t} = Releasing(x)
  OBVIOUS
<1>6. CASE Has(left, <<"sub", x>>) /\ t \in Releasing(x)
  <2>1. Releasing(x)' = Releasing(x)
    BY <1>3, <1>5, <1>6
  <2>2. Cardinality(Releasing(x)') = Cardinality(Releasing(x))
    BY <2>1, Zenon
  <2> QED BY <1>2, <1>3, <1>6, <2>2
<1>7. CASE Has(left, <<"sub", x>>) /\ t \notin Releasing(x)
  BY <1>2, <1>3, <1>4, <1>7
<1>8. CASE ~ Has(left, <<"sub", x>>) /\ t \in Releasing(x)
  BY <1>2, <1>3, <1>4, <1>8
<1>9. CASE ~ Has(left, <<"sub", x>>) /\ t \notin Releasing(x)
  <2>1. Releasing(x)' = Releasing(x)
    BY <1>3, <1>5, <1>9
  <2>2. Cardinality(Releasing(x)') = Cardinality(Releasing(x))
    BY <2>1, Zenon
  <2> QED BY <1>2, <1>3, <1>9, <2>2
<1> QED BY <1>6, <1>7, <1>8, <1>9

LEMMA StepsKept ==
  ASSUME RefTypeOK, NEW t \in Thread, NEW left, todo' = [todo EXCEPT ![t] = left],
         \A x : Has(left, <<"sub", x>>) <=> Has(todo[t], <<"sub", x>>)
  PROVE  /\ todo'[t] = left /\ \A u \in Thread \ {t} : todo'[u] = todo[u]
         /\ \A x : Cardinality(Releasing(x))' = Cardinality(Releasing(x))
<1>1. todo'[t] = left /\ \A u \in Thread \ {t} : todo'[u] = todo[u]
  BY DEF RefTypeOK
<1>2. ASSUME NEW x PROVE Cardinality(Releasing(x)') = Cardinality(Releasing(x))
  <2>1. Releasing(x)' = Releasing(x)
    BY <1>1 DEF Releasing
  <2> QED BY <2>1, Zenon
<1> QED BY <1>1, <1>2

-----------------------------------------------------------------------------
(***************************************************************************)
(* RefIInv is inductive.  A thread's step leaves the calls of the others   *)
(* as they are, and the counter is never unmade.                           *)
(***************************************************************************)
LEMMA OtherCalls ==
  ASSUME NEW u \in Thread, CallExact(u),
         todo'[u] = todo[u], strong'[u] = strong[u], weak'[u] = weak[u], seen'[u] = seen[u],
         life.counter # "none" => life'.counter # "none"
  PROVE  CallExact(u)'
BY DEF CallExact, At

(* The steps that change no count, life or flag.  The pointers that they   *)
(* give up go on counting until they are subtracted.                       *)
LEMMA QuietStep ==
  ASSUME RefIInv, mishap = "none", RefTypeOK', NEW t \in Thread, NEW left,
         todo' = [todo EXCEPT ![t] = left], UNCHANGED <<refs, life, valid>>,
         Has(left, <<"destroy", "object">>) <=> Has(todo[t], <<"destroy", "object">>),
         Has(left, <<"free", "object">>) <=> Has(todo[t], <<"free", "object">>),
         Cardinality(Pointers)' + (IF Has(left, <<"sub", "object">>) THEN 1 ELSE 0)
           = Cardinality(Pointers) + (IF Has(todo[t], <<"sub", "object">>) THEN 1 ELSE 0),
         Cardinality(Weaks)' + (IF Has(left, <<"sub", "counter">>) THEN 1 ELSE 0)
           = Cardinality(Weaks) + (IF Has(todo[t], <<"sub", "counter">>) THEN 1 ELSE 0),
         \A u \in Thread \ {t} : strong'[u] = strong[u] /\ weak'[u] = weak[u] /\ seen'[u] = seen[u],
         mishap' = "none" => CallExact(t)'
  PROVE  RefIInv'
<1> SUFFICES ASSUME mishap' = "none"
             PROVE  CountsExact' /\ LivesExact' /\ \A u \in Thread : CallExact(u)'
  BY DEF RefIInv
<1>1. RefTypeOK /\ CountsExact /\ LivesExact /\ \A u \in Thread : CallExact(u)
  BY DEF RefIInv
<1>2. /\ todo'[t] = left /\ \A u \in Thread \ {t} : todo'[u] = todo[u]
      /\ \A x : Cardinality(Releasing(x))' =
           Cardinality(Releasing(x))
             + (IF Has(left, <<"sub", x>>) THEN 1 ELSE 0)
             - (IF Has(todo[t], <<"sub", x>>) THEN 1 ELSE 0)
  BY <1>1, StepsChanged
<1>3. CountsExact'
  <2>1. /\ Cardinality(Pointers) \in Nat /\ Cardinality(Weaks) \in Nat
        /\ \A x : Cardinality(Releasing(x)) \in Nat
    BY <1>1, CountsAreNaturals
  <2>2. Cardinality(Pointers)' \in Nat /\ Cardinality(Weaks)' \in Nat
    <3>1. Pointers' \in SUBSET (Thread \X (1 .. MaxStrong)) /\ Weaks' \in SUBSET Thread
      BY DEF Pointers, Weaks
    <3> QED BY <3>1, CountedAreFinite, FiniteSubset
  <2>3. /\ refs.object = Cardinality(Pointers) + Cardinality(Releasing("object"))
        /\ refs.counter = Cardinality(Weaks) + Cardinality(Releasing("counter")) + (IF valid THEN 1 ELSE 0)
    BY <1>1 DEF CountsExact, Weaks
  <2>4. /\ refs.object = Cardinality(Pointers)' + Cardinality(Releasing("object"))'
        /\ refs.counter = Cardinality(Weaks)' + Cardinality(Releasing("counter"))' + (IF valid THEN 1 ELSE 0)
    BY <1>2, <2>1, <2>2, <2>3
  <2> QED BY <2>4 DEF CountsExact, Weaks
<1>4. LivesExact'
  <2>1. \A u \in Thread : /\ Has(todo'[u], <<"destroy", "object">>) <=> Has(todo[u], <<"destroy", "object">>)
                          /\ Has(todo'[u], <<"free", "object">>) <=> Has(todo[u], <<"free", "object">>)
    BY <1>2
  <2> QED BY <1>1, <2>1 DEF LivesExact, Deleting
<1>5. \A u \in Thread : CallExact(u)'
  BY <1>1, <1>2, OtherCalls
<1> QED BY <1>3, <1>4, <1>5

LEMMA CopyIInv ==
  ASSUME RefIInv, mishap = "none", NEW t \in Thread, Copy(t)
  PROVE  RefIInv'
<1>1. /\ todo[t] = << >> /\ todo' = [todo EXCEPT ![t] = AddRef("object")]
      /\ strong[t] > 0 /\ strong[t] < MaxStrong
      /\ UNCHANGED <<refs, life, valid, seen, mishap, strong, weak>> /\ RefTypeOK
  BY StrongType DEF Copy, Begin, RefIInv
<1>2. RefTypeOK'
  BY <1>1, CallsBegun DEF RefTypeOK
<1>3. \A s : ~ Has(todo[t], s) /\ (Has(AddRef("object"), s) <=> s \in {<<"load", "object">>, <<"add", "object">>})
  BY <1>1, CallsBegun, HasShort
<1>4. CallExact(t)'
  <2>1. todo'[t] = AddRef("object")
    BY <1>1 DEF RefTypeOK
  <2>2. Head(todo'[t]) = <<"load", "object">>
    BY <2>1, CallsBegun
  <2> QED BY <1>1, <1>3, <2>1, <2>2, PairsDiffer DEF CallExact, At
<1>5. Cardinality(Pointers)' = Cardinality(Pointers) /\ Cardinality(Weaks)' = Cardinality(Weaks)
  BY <1>1 DEF Pointers, Weaks
<1>6. \A s \in {<<"sub", "object">>, <<"sub", "counter">>, <<"destroy", "object">>, <<"free", "object">>} :
        ~ Has(todo[t], s) /\ ~ Has(AddRef("object"), s)
  BY <1>3, PairsDiffer
<1> QED BY <1>1, <1>2, <1>4, <1>5, <1>6, QuietStep

LEMMA DropIInv ==
  ASSUME RefIInv, mishap = "none", NEW t \in Thread, Drop(t)
  PROVE  RefIInv'
<1>1. /\ todo[t] = << >> /\ todo' = [todo EXCEPT ![t] = Release("object")]
      /\ strong[t] > 0 /\ strong' = [strong EXCEPT ![t] = @ - 1]
      /\ UNCHANGED <<refs, life, valid, seen, mishap, weak>> /\ RefTypeOK
  BY DEF Drop, Begin, RefIInv
<1>2. RefTypeOK'
  <2>1. strong' \in [Thread -> 0 .. MaxStrong]
    BY <1>1, StrongType
  <2> QED BY <1>1, <2>1, CallsBegun DEF RefTypeOK
<1>3. \A s : ~ Has(todo[t], s) /\ (Has(Release("object"), s) <=> s \in {<<"load", "object">>, <<"sub", "object">>})
  BY <1>1, CallsBegun, HasShort
<1>4. CallExact(t)'
  <2>1. todo'[t] = Release("object")
    BY <1>1 DEF RefTypeOK
  <2>2. Head(todo'[t]) = <<"load", "object">>
    BY <2>1, CallsBegun
  <2> QED BY <1>1, <1>3, <2>1, <2>2, PairsDiffer DEF CallExact, At
<1>5. Cardinality(Pointers)' = Cardinality(Pointers) - 1 /\ Cardinality(Weaks)' = Cardinality(Weaks)
  <2>1. Cardinality(Weaks)' = Cardinality(Weaks)
    BY <1>1 DEF Weaks
  <2> QED BY <1>1, <2>1, PointerDropped
<1>6. /\ \A s \in {<<"sub", "counter">>, <<"destroy", "object">>, <<"free", "object">>} :
           ~ Has(todo[t], s) /\ ~ Has(Release("object"), s)
      /\ ~ Has(todo[t], <<"sub", "object">>) /\ Has(Release("object"), <<"sub", "object">>)
  BY <1>3, PairsDiffer
<1>7. \A u \in Thread \ {t} : strong'[u] = strong[u]
  BY <1>1, StrongType
<1>8. Cardinality(Pointers) \in Nat /\ Cardinality(Weaks) \in Nat
  BY <1>1, CountsAreNaturals
<1>9. /\ Cardinality(Pointers)' + (IF Has(Release("object"), <<"sub", "object">>) THEN 1 ELSE 0)
           = Cardinality(Pointers) + (IF Has(todo[t], <<"sub", "object">>) THEN 1 ELSE 0)
      /\ Cardinality(Weaks)' + (IF Has(Release("object"), <<"sub", "counter">>) THEN 1 ELSE 0)
           = Cardinality(Weaks) + (IF Has(todo[t], <<"sub", "counter">>) THEN 1 ELSE 0)
  BY <1>5, <1>6, <1>8
<1> QED BY <1>1, <1>2, <1>4, <1>6, <1>7, <1>9, QuietStep

LEMMA MakeWeakIInv ==
  ASSUME RefIInv, mishap = "none", NEW t \in Thread, MakeWeak(t)
  PROVE  RefIInv'
<1> DEFINE left == << <<"look", "counter">> >>
<1>1. /\ todo[t] = << >> /\ todo' = [todo EXCEPT ![t] = left]
      /\ strong[t] > 0 /\ ~ weak[t]
      /\ UNCHANGED <<refs, life, valid, seen, mishap, strong, weak>> /\ RefTypeOK
  BY DEF MakeWeak, Begin, RefIInv
<1>2. RefTypeOK'
  BY <1>1, CallsBegun DEF RefTypeOK
<1>3. /\ \A s : ~ Has(todo[t], s) /\ (Has(left, s) <=> s = <<"look", "counter">>)
      /\ left # << >> /\ Head(left) = <<"look", "counter">>
  BY <1>1, HasShort, ShortTails
<1> HIDE DEF left
<1>4. CallExact(t)'
  <2>1. todo'[t] = left
    BY <1>1 DEF RefTypeOK
  <2> QED BY <1>1, <1>3, <2>1, PairsDiffer DEF CallExact, At
<1>5. Cardinality(Pointers)' = Cardinality(Pointers) /\ Cardinality(Weaks)' = Cardinality(Weaks)
  BY <1>1 DEF Pointers, Weaks
<1>6. \A s \in {<<"sub", "object">>, <<"sub", "counter">>, <<"destroy", "object">>, <<"free", "object">>} :
        ~ Has(todo[t], s) /\ ~ Has(left, s)
  BY <1>3, PairsDiffer
<1> QED BY <1>1, <1>2, <1>4, <1>5, <1>6, QuietStep

LEMMA DropWeakIInv ==
  ASSUME RefIInv, mishap = "none", NEW t \in Thread, DropWeak(t)
  PROVE  RefIInv'
<1>1. /\ todo[t] = << >> /\ todo' = [todo EXCEPT ![t] = Release("counter")]
      /\ weak[t] /\ weak' = [weak EXCEPT ![t] = FALSE]
      /\ UNCHANGED <<refs, life, valid, seen, mishap, strong>> /\ RefTypeOK
  BY DEF DropWeak, Begin, RefIInv
<1>2. RefTypeOK'
  BY <1>1, CallsBegun DEF RefTypeOK
<1>3. \A s : ~ Has(todo[t], s) /\ (Has(Release("counter"), s) <=> s \in {<<"load", "counter">>, <<"sub", "counter">>})
  BY <1>1, CallsBegun, HasShort
<1>4. CallExact(t)'
  <2>1. todo'[t] = Release("counter")
    BY <1>1 DEF RefTypeOK
  <2>2. Head(todo'[t]) = <<"load", "counter">>
    BY <2>1, CallsBegun
  <2> QED BY <1>1, <1>3, <2>1, <2>2, PairsDiffer DEF CallExact, At
<1>5. Cardinality(Weaks)' = Cardinality(Weaks) - 1 /\ Cardinality(Pointers)' = Cardinality(Pointers)
  <2>1. Cardinality(Pointers)' = Cardinality(Pointers)
    BY <1>1 DEF Pointers
  <2> QED BY <1>1, <2>1, WeakDropped
<1>6. /\ \A s \in {<<"sub", "object">>, <<"destroy", "object">>, <<"free", "object">>} :
           ~ Has(todo[t], s) /\ ~ Has(Release("counter"), s)
      /\ ~ Has(todo[t], <<"sub", "counter">>) /\ Has(Release("counter"), <<"sub", "counter">>)
  BY <1>3, PairsDiffer
<1>7. \A u \in Thread \ {t} : weak'[u] = weak[u]
  BY <1>1 DEF RefTypeOK
<1>8. Cardinality(Pointers) \in Nat /\ Cardinality(Weaks) \in Nat
  BY <1>1, CountsAreNaturals
<1>9. /\ Cardinality(Pointers)' + (IF Has(Release("counter"), <<"sub", "object">>) THEN 1 ELSE 0)
           = Cardinality(Pointers) + (IF Has(todo[t], <<"sub", "object">>) THEN 1 ELSE 0)
      /\ Cardinality(Weaks)' + (IF Has(Release("counter"), <<"sub", "counter">>) THEN 1 ELSE 0)
           = Cardinality(Weaks) + (IF Has(todo[t], <<"sub", "counter">>) THEN 1 ELSE 0)
  BY <1>5, <1>6, <1>8
<1> QED BY <1>1, <1>2, <1>4, <1>6, <1>7, <1>9, QuietStep

LEMMA LockIInv ==
  ASSUME RefIInv, mishap = "none", NEW t \in Thread, Lock(t)
  PROVE  RefIInv'
<1> DEFINE left == << <<"check", "counter">> >> \o todo[t]
<1>1. /\ todo[t] = << >> \/ At(t, <<"destroy", "object">>)
      /\ todo' = [todo EXCEPT ![t] = left]
      /\ weak[t] /\ strong[t] < MaxStrong
      /\ UNCHANGED <<refs, life, valid, seen, mishap, strong, weak>> /\ RefTypeOK
  BY DEF Lock, RefIInv
<1>2. todo[t] \in {<< >>, << <<"destroy", "object">> >>}
  BY <1>1, LastSteps DEF At, RefTypeOK
<1>3. /\ left \in CallsLeft /\ left # << >> /\ Head(left) = <<"check", "counter">>
      /\ \A s : Has(left, s) <=> s = <<"check", "counter">> \/ Has(todo[t], s)
  <2>1. CASE todo[t] = << >>
    <3>1. left = << <<"check", "counter">> >>
      BY <2>1, ShortConcats
    <3> QED BY <2>1, <3>1, HasShort, ShortTails DEF CallsLeft
  <2>2. CASE todo[t] = << <<"destroy", "object">> >>
    <3>1. left = << <<"check", "counter">>, <<"destroy", "object">> >>
      BY <2>2, ShortConcats
    <3>2. \A s : (Has(left, s) <=> s \in {<<"check", "counter">>, <<"destroy", "object">>})
               /\ (Has(todo[t], s) <=> s = <<"destroy", "object">>)
      <4>1. \A s : Has(<< <<"check", "counter">>, <<"destroy", "object">> >>, s)
                    <=> s \in {<<"check", "counter">>, <<"destroy", "object">>}
        BY HasShort
      <4>2. \A s : Has(<< <<"destroy", "object">> >>, s) <=> s = <<"destroy", "object">>
        BY HasShort
      <4> QED BY <2>2, <3>1, <4>1, <4>2
    <3>3. left \in CallsLeft
      BY <3>1 DEF CallsLeft
    <3> QED BY <3>1, <3>2, <3>3, ShortTails
  <2> QED BY <1>2, <2>1, <2>2
<1> HIDE DEF left
<1>4. RefTypeOK'
  BY <1>1, <1>3 DEF RefTypeOK
<1>5. CallExact(t)'
  <2>1. todo'[t] = left
    BY <1>1 DEF RefTypeOK
  <2>2. CallExact(t)
    BY DEF RefIInv
  <2> QED BY <1>1, <1>3, <2>1, <2>2, PairsDiffer DEF CallExact, At
<1>6. Cardinality(Pointers)' = Cardinality(Pointers) /\ Cardinality(Weaks)' = Cardinality(Weaks)
  BY <1>1 DEF Pointers, Weaks
<1>7. \A s \in {<<"sub", "object">>, <<"sub", "counter">>, <<"destroy", "object">>, <<"free", "object">>} :
        Has(left, s) <=> Has(todo[t], s)
  BY <1>3, PairsDiffer
<1> QED BY <1>1, <1>4, <1>5, <1>6, <1>7, QuietStep

LEMMA LoadIInv ==
  ASSUME RefIInv, mishap = "none", NEW t \in Thread, NEW x \in {"object", "counter"}, Load(t, x)
  PROVE  RefIInv'
<1> DEFINE left == Tail(todo[t])
<1>1. /\ todo[t] \in CallsLeft /\ todo[t] # << >> /\ Head(todo[t]) = <<"load", x>>
      /\ todo' = [todo EXCEPT ![t] = << >> \o Tail(@)]
      /\ seen' = [seen EXCEPT ![t] = refs[x]]
      /\ UNCHANGED <<refs, life, valid, strong, weak>> /\ RefTypeOK
  BY DEF Load, At, Then, RefIInv, RefTypeOK
<1>2. todo' = [todo EXCEPT ![t] = left]
  BY <1>1, TailOfCall DEF RefTypeOK
<1>3. /\ left \in CallsLeft /\ left # << >> /\ Head(left) = todo[t][2]
      /\ Head(left) \in {<<"add", x>>, <<"sub", x>>}
      /\ \A s : Has(left, s) <=> Has(todo[t], s) /\ s # <<"load", x>>
  BY <1>1, TailOfCall, AfterLoad
<1> HIDE DEF left
<1>4. mishap' = IF x = "object" /\ strong[t] = 0 /\ todo[t][2] = <<"add", x>> /\ life[x] # "alive"
                THEN "late lock" ELSE mishap
  BY DEF Load
<1>5. RefTypeOK'
  BY <1>1, <1>2, <1>3, <1>4 DEF RefTypeOK
<1>6. ASSUME mishap' = "none" PROVE CallExact(t)'
  <2>1. todo'[t] = left /\ seen'[t] = refs[x] /\ CallExact(t)
    BY <1>1, <1>2 DEF RefIInv, RefTypeOK
  <2>2. Has(left, Head(left))
    BY <1>3, TailOfCall
  <2>3. CountsExact /\ LivesExact
    BY DEF RefIInv
  <2>4. CASE Head(left) = <<"sub", x>>
    <3>1. Has(todo[t], <<"sub", x>>)
      BY <1>3, <2>2, <2>4
    <3>2. refs[x] > 0
      BY <1>1, <2>3, <3>1, CountsAreNaturals DEF CountsExact, Weaks
    <3> QED BY <1>1, <1>3, <2>1, <2>4, <3>2, PairsDiffer DEF CallExact, At
  <2>5. CASE Head(left) = <<"add", x>>
    <3>1. x = "object" => refs.object > 0
      <4>1. x = "object" => strong[t] > 0 \/ life.object = "alive"
        BY <1>1, <1>3, <1>4, <1>6, <2>5, StrongType
      <4> QED BY <1>1, <2>3, <4>1, CountsAreNaturals DEF CountsExact, LivesExact
    <3>2. /\ At(t, <<"add", "object">>)' => seen'[t] > 0
          /\ \A y \in {"object", "counter"} : ~ At(t, <<"sub", y>>)'
      BY <1>3, <2>1, <2>5, <3>1, PairsDiffer DEF At
    <3>3. \A s \in {<<"add", "object">>, <<"add", "counter">>, <<"look", "counter">>, <<"make", "counter">>,
                    <<"check", "counter">>} :
            Has(todo'[t], s) <=> Has(todo[t], s)
      BY <1>3, <2>1, PairsDiffer
    <3> QED BY <1>1, <2>1, <3>2, <3>3 DEF CallExact
  <2> QED BY <1>3, <2>4, <2>5
<1>7. Cardinality(Pointers)' = Cardinality(Pointers) /\ Cardinality(Weaks)' = Cardinality(Weaks)
  BY <1>1 DEF Pointers, Weaks
<1>8. \A s \in {<<"sub", "object">>, <<"sub", "counter">>, <<"destroy", "object">>, <<"free", "object">>} :
        Has(left, s) <=> Has(todo[t], s)
  BY <1>3, PairsDiffer
<1>9. \A u \in Thread \ {t} : seen'[u] = seen[u]
  BY <1>1 DEF RefTypeOK
<1> QED BY <1>1, <1>2, <1>5, <1>6, <1>7, <1>8, <1>9, QuietStep

LEMMA LookIInv ==
  ASSUME RefIInv, mishap = "none", NEW t \in Thread, Look(t)
  PROVE  RefIInv'
<1> DEFINE begun == (IF life.counter = "none" THEN << <<"make", "counter">> >> ELSE << >>) \o AddRef("counter")
           left == begun \o Tail(todo[t])
<1>1. /\ todo[t] \in CallsLeft /\ todo[t] # << >> /\ Head(todo[t]) = <<"look", "counter">>
      /\ todo' = [todo EXCEPT ![t] = left]
      /\ UNCHANGED <<refs, life, valid, strong, weak, seen, mishap>> /\ RefTypeOK
  BY DEF Look, At, Then, RefIInv, RefTypeOK
<1>2. todo[t] = << <<"look", "counter">> >> /\ Tail(todo[t]) = << >>
  BY <1>1, LastSteps, ShortTails
<1>3. /\ left \in CallsLeft /\ left # << >> /\ Head(left) \in {<<"make", "counter">>, <<"load", "counter">>}
      /\ \A s : Has(left, s) <=> \/ s \in {<<"load", "counter">>, <<"add", "counter">>}
                                 \/ life.counter = "none" /\ s = <<"make", "counter">>
  <2>1. CASE life.counter = "none"
    <3>1. left = << <<"make", "counter">>, <<"load", "counter">>, <<"add", "counter">> >>
      BY <1>2, <2>1, ShortConcats DEF AddRef
    <3>2. \A s : Has(<< <<"make", "counter">>, <<"load", "counter">>, <<"add", "counter">> >>, s)
                   <=> s \in {<<"make", "counter">>, <<"load", "counter">>, <<"add", "counter">>}
      BY HasShort
    <3>3. left \in CallsLeft
      BY <3>1 DEF CallsLeft
    <3> HIDE DEF left
    <3> QED BY <2>1, <3>1, <3>2, <3>3, ShortTails
  <2>2. CASE life.counter # "none"
    <3>1. left = AddRef("counter")
      BY <1>2, <2>2, ShortConcats DEF AddRef
    <3> HIDE DEF left
    <3> QED BY <2>2, <3>1, CallsBegun
  <2> QED BY <2>1, <2>2
<1> HIDE DEF left
<1>4. RefTypeOK'
  BY <1>1, <1>3 DEF RefTypeOK
<1>5. \A s : Has(todo[t], s) <=> s = <<"look", "counter">>
  <2>1. \A s : Has(<< <<"look", "counter">> >>, s) <=> s = <<"look", "counter">>
    BY HasShort
  <2> QED BY <1>2, <2>1
<1>6. CallExact(t)'
  <2>1. todo'[t] = left
    BY <1>1 DEF RefTypeOK
  <2>2. strong[t] > 0 /\ ~ weak[t]
    BY <1>5 DEF RefIInv, CallExact
  <2>3. /\ ~ At(t, <<"add", "object">>)' /\ \A x \in {"object", "counter"} : ~ At(t, <<"sub", x>>)'
    BY <1>3, <2>1, PairsDiffer DEF At
  <2>4. /\ ~ Has(left, <<"check", "counter">>) /\ ~ Has(left, <<"add", "object">>)
        /\ ~ Has(left, <<"make", "counter">>) => life.counter # "none"
    BY <1>3, PairsDiffer
  <2> QED BY <1>1, <2>1, <2>2, <2>3, <2>4 DEF CallExact
<1>7. Cardinality(Pointers)' = Cardinality(Pointers) /\ Cardinality(Weaks)' = Cardinality(Weaks)
  BY <1>1 DEF Pointers, Weaks
<1>8. \A s \in {<<"sub", "object">>, <<"sub", "counter">>, <<"destroy", "object">>, <<"free", "object">>} :
        ~ Has(left, s) /\ ~ Has(todo[t], s)
  BY <1>3, <1>5, PairsDiffer
<1> QED BY <1>1, <1>4, <1>6, <1>7, <1>8, QuietStep

LEMMA CheckIInv ==
  ASSUME RefIInv, mishap = "none", NEW t \in Thread, Check(t)
  PROVE  RefIInv'
<1> DEFINE left == (IF valid THEN AddRef("object") ELSE << >>) \o Tail(todo[t])
<1>1. /\ todo[t] \in CallsLeft /\ todo[t] # << >> /\ Head(todo[t]) = <<"check", "counter">>
      /\ todo' = [todo EXCEPT ![t] = left]
      /\ UNCHANGED <<refs, life, valid, strong, weak, seen, mishap>> /\ RefTypeOK
  BY DEF Check, At, Then, RefIInv, RefTypeOK
<1>2. /\ Tail(todo[t]) \in {<< >>, << <<"destroy", "object">> >>}
      /\ \A s : Has(Tail(todo[t]), s) <=> Has(todo[t], s) /\ s # <<"check", "counter">>
      /\ Tail(todo[t]) \in CallsLeft /\ << >> \o Tail(todo[t]) = Tail(todo[t])
      /\ Has(todo[t], <<"check", "counter">>)
  BY <1>1, LastSteps, TailOfCall
<1>3. \A s : Has(Tail(todo[t]), s) => s = <<"destroy", "object">>
  <2>1. \A s : ~ Has(<< >>, s) /\ (Has(<< <<"destroy", "object">> >>, s) <=> s = <<"destroy", "object">>)
    BY HasShort
  <2> QED BY <1>2, <2>1
<1>4. /\ left \in CallsLeft
      /\ left # << >> => Head(left) \in {<<"load", "object">>, <<"destroy", "object">>}
      /\ \A s : Has(left, s) <=> \/ valid /\ s \in {<<"load", "object">>, <<"add", "object">>}
                                 \/ Has(Tail(todo[t]), s)
  <2>1. CASE ~ valid
    <3>1. left = Tail(todo[t])
      BY <1>2, <2>1
    <3> HIDE DEF left
    <3> QED BY <1>2, <2>1, <3>1, ShortTails
  <2>2. CASE valid /\ Tail(todo[t]) = << >>
    <3>1. left = AddRef("object")
      BY <2>2, CallsBegun
    <3>2. \A s : ~ Has(Tail(todo[t]), s)
      <4>1. \A s : ~ Has(<< >>, s)
        BY HasShort
      <4>2. Tail(todo[t]) = << >>
        BY <2>2
      <4> HIDE DEF left
      <4> QED BY <4>1, <4>2
    <3>3. /\ AddRef("object") \in CallsLeft /\ Head(AddRef("object")) = <<"load", "object">>
          /\ \A s : Has(AddRef("object"), s) <=> s \in {<<"load", "object">>, <<"add", "object">>}
      BY CallsBegun
    <3> HIDE DEF left
    <3> QED BY <2>2, <3>1, <3>2, <3>3
  <2>3. CASE valid /\ Tail(todo[t]) = << <<"destroy", "object">> >>
    <3> DEFINE longest == << <<"load", "object">>, <<"add", "object">>, <<"destroy", "object">> >>
    <3>1. left = longest
      <4>1. left = << <<"load", "object">>, <<"add", "object">> >> \o << <<"destroy", "object">> >>
        BY <2>3 DEF AddRef
      <4>2. << <<"load", "object">>, <<"add", "object">> >> \o << <<"destroy", "object">> >> = longest
        BY ShortConcats
      <4> QED BY <4>1, <4>2, Zenon
    <3>2. /\ \A s : Has(longest, s) <=> s \in {<<"load", "object">>, <<"add", "object">>, <<"destroy", "object">>}
          /\ \A s : Has(<< <<"destroy", "object">> >>, s) <=> s = <<"destroy", "object">>
          /\ Head(longest) = <<"load", "object">>
      BY HasShort, ShortTails
    <3>3. longest \in CallsLeft
      BY DEF CallsLeft
    <3>4. \A s : Has(Tail(todo[t]), s) <=> s = <<"destroy", "object">>
      BY <2>3, <3>2
    <3> HIDE DEF left, longest
    <3> QED BY <2>3, <3>1, <3>2, <3>3, <3>4
  <2> QED BY <1>2, <2>1, <2>2, <2>3
<1> HIDE DEF left
<1>5. RefTypeOK'
  BY <1>1, <1>4 DEF RefTypeOK
<1>6. CallExact(t)'
  <2>1. todo'[t] = left
    BY <1>1 DEF RefTypeOK
  <2>2. strong[t] < MaxStrong
    BY <1>2 DEF RefIInv, CallExact
  <2>3. ~ At(t, <<"add", "object">>)' /\ \A x \in {"object", "counter"} : ~ At(t, <<"sub", x>>)'
    BY <1>4, <2>1, PairsDiffer DEF At
  <2>4. ~ Has(left, <<"look", "counter">>) /\ ~ Has(left, <<"add", "counter">>)
    BY <1>3, <1>4, PairsDiffer
  <2> QED BY <1>1, <2>1, <2>2, <2>3, <2>4 DEF CallExact
<1>7. Cardinality(Pointers)' = Cardinality(Pointers) /\ Cardinality(Weaks)' = Cardinality(Weaks)
  BY <1>1 DEF Pointers, Weaks
<1>8. \A s \in {<<"sub", "object">>, <<"sub", "counter">>, <<"destroy", "object">>, <<"free", "object">>} :
        Has(left, s) <=> Has(todo[t], s)
  BY <1>2, <1>4, PairsDiffer
<1> QED BY <1>1, <1>5, <1>6, <1>7, <1>8, QuietStep

LEMMA FreeIInv ==
  ASSUME RefIInv, mishap = "none", NEW t \in Thread, Free(t)
  PROVE  RefIInv'
<1>1. /\ todo[t] \in CallsLeft /\ todo[t] # << >> /\ Head(todo[t]) = <<"free", "object">>
      /\ todo' = [todo EXCEPT ![t] = << >> \o Tail(@)]
      /\ life' = [life EXCEPT !.object = "deleted"]
      /\ UNCHANGED <<refs, valid, strong, weak, seen, mishap>> /\ RefTypeOK
  BY DEF Free, At, Then, RefIInv, RefTypeOK
<1>2. CountsExact /\ LivesExact /\ \A u \in Thread : CallExact(u)
  BY DEF RefIInv
<1>3. todo[t] = << <<"free", "object">> >> /\ todo' = [todo EXCEPT ![t] = << >>]
  <2>1. todo[t] = << <<"free", "object">> >>
    BY <1>1, LastSteps
  <2>2. << >> \o Tail(<< <<"free", "object">> >>) = << >>
    BY ShortTails, ShortConcats
  <2> QED BY <1>1, <2>1, <2>2
<1>4. /\ \A s : (Has(todo[t], s) <=> s = <<"free", "object">>) /\ ~ Has(<< >>, s)
      /\ Deleting(t)
  <2>1. \A s : Has(<< <<"free", "object">> >>, s) <=> s = <<"free", "object">>
    BY HasShort
  <2>2. \A s : ~ Has(<< >>, s)
    BY HasShort
  <2> QED BY <1>3, <2>1, <2>2 DEF Deleting
<1>5. /\ todo'[t] = << >> /\ \A u \in Thread \ {t} : todo'[u] = todo[u]
      /\ \A x : Cardinality(Releasing(x))' = Cardinality(Releasing(x))
  <2>1. \A x : ~ Has(<< >>, <<"sub", x>>) /\ ~ Has(todo[t], <<"sub", x>>)
    BY <1>4, PairsDiffer
  <2> QED BY <1>1, <1>3, <2>1, StepsKept
<1>6. /\ life.object = "dying" /\ life'.object = "deleted" /\ life'.counter = life.counter
      /\ life' \in [{"object", "counter"} -> {"none", "alive", "dying", "deleted"}]
  BY <1>1, <1>2, <1>4 DEF LivesExact, RefTypeOK
<1>7. RefTypeOK'
  BY <1>1, <1>3, <1>6, CallsBegun DEF RefTypeOK
<1>8. CountsExact'
  BY <1>1, <1>2, <1>5 DEF CountsExact, Pointers
<1>9. LivesExact'
  <2>1. \A s : ~ Has(todo'[t], s)
    BY <1>4, <1>5
  <2>2. \A u \in Thread : ~ Deleting(u)'
    BY <1>2, <1>4, <1>5, <2>1 DEF LivesExact, Deleting
  <2>3. \A u \in Thread : Has(todo'[u], <<"destroy", "object">>) <=> Has(todo[u], <<"destroy", "object">>)
    BY <1>4, <1>5, <2>1, PairsDiffer
  <2> QED BY <1>1, <1>2, <1>6, <2>2, <2>3 DEF LivesExact
<1>10. \A u \in Thread : CallExact(u)'
  <2>1. CallExact(t)'
    BY <1>4, <1>5 DEF CallExact, At
  <2> QED BY <1>1, <1>2, <1>5, <1>6, <2>1, OtherCalls
<1> QED BY <1>7, <1>8, <1>9, <1>10 DEF RefIInv

LEMMA MakeIInv ==
  ASSUME RefIInv, mishap = "none", NEW t \in Thread, Make(t)
  PROVE  RefIInv'
<1>1. /\ todo[t] \in CallsLeft /\ todo[t] # << >> /\ Head(todo[t]) = <<"make", "counter">>
      /\ todo' = [todo EXCEPT ![t] = << >> \o Tail(@)]
      /\ refs' = [refs EXCEPT !.counter = 1] /\ life' = [life EXCEPT !.counter = "alive"] /\ valid' = TRUE
      /\ mishap' = IF life.counter # "none" THEN "two counters" ELSE mishap
      /\ UNCHANGED <<strong, weak, seen>> /\ RefTypeOK
  BY DEF Make, At, Then, RefIInv, RefTypeOK
<1>2. /\ todo' = [todo EXCEPT ![t] = AddRef("counter")]
      /\ \A s : Has(AddRef("counter"), s) <=> s \in {<<"load", "counter">>, <<"add", "counter">>}
      /\ \A s : Has(AddRef("counter"), s) <=> Has(todo[t], s) /\ s # <<"make", "counter">>
  <2>1. /\ << >> \o Tail(todo[t]) = AddRef("counter")
        /\ \A s : Has(Tail(todo[t]), s) <=> Has(todo[t], s) /\ s # <<"make", "counter">>
        /\ Tail(todo[t]) = AddRef("counter")
    <3>1. Tail(todo[t]) = AddRef("counter")
      BY <1>1, LastSteps
    <3>2. /\ << >> \o Tail(todo[t]) = Tail(todo[t])
          /\ \A s : Has(Tail(todo[t]), s) <=> Has(todo[t], s) /\ s # <<"make", "counter">>
      BY <1>1, TailOfCall
    <3> QED BY <3>1, <3>2
  <2>2. \A s : Has(AddRef("counter"), s) <=> s \in {<<"load", "counter">>, <<"add", "counter">>}
    BY CallsBegun
  <2> QED BY <1>1, <2>1, <2>2
<1>3. /\ refs'.object = refs.object /\ refs'.counter = 1 /\ refs' \in [{"object", "counter"} -> Nat]
      /\ life'.object = life.object /\ life'.counter = "alive"
      /\ life' \in [{"object", "counter"} -> {"none", "alive", "dying", "deleted"}]
  BY <1>1 DEF RefTypeOK
<1>4. RefTypeOK'
  BY <1>1, <1>2, <1>3, CallsBegun DEF RefTypeOK
<1> SUFFICES ASSUME mishap' = "none"
             PROVE  CountsExact' /\ LivesExact' /\ \A u \in Thread : CallExact(u)'
  BY <1>4 DEF RefIInv
<1>5. CountsExact /\ LivesExact /\ \A u \in Thread : CallExact(u)
  BY DEF RefIInv
<1>6. life.counter = "none"
  BY <1>1
<1>7. /\ todo'[t] = AddRef("counter") /\ \A u \in Thread \ {t} : todo'[u] = todo[u]
      /\ \A x : Cardinality(Releasing(x))' = Cardinality(Releasing(x))
  <2>1. \A x : Has(AddRef("counter"), <<"sub", x>>) <=> Has(todo[t], <<"sub", x>>)
    BY <1>2, PairsDiffer
  <2> QED BY <1>1, <1>2, <2>1, StepsKept
<1>8. CountsExact'
  <2>1. refs.counter = 0
    BY <1>1, <1>5, <1>6 DEF LivesExact, RefTypeOK
  <2>2. Cardinality(Weaks) \in Nat /\ Cardinality(Releasing("counter")) \in Nat
    BY <1>1, CountsAreNaturals
  <2>3. refs.counter = Cardinality(Weaks) + Cardinality(Releasing("counter")) + (IF valid THEN 1 ELSE 0)
    BY <1>5 DEF CountsExact, Weaks
  <2>4. Cardinality(Weaks) = 0 /\ Cardinality(Releasing("counter")) = 0
    BY <2>1, <2>2, <2>3
  <2>5. Cardinality(Weaks)' = Cardinality(Weaks) /\ Cardinality(Pointers)' = Cardinality(Pointers)
    BY <1>1 DEF Weaks, Pointers
  <2>6. refs.object = Cardinality(Pointers) + Cardinality(Releasing("object"))
    BY <1>5 DEF CountsExact
  <2>7. /\ refs'.object = Cardinality(Pointers)' + Cardinality(Releasing("object"))'
        /\ refs'.counter = Cardinality(Weaks)' + Cardinality(Releasing("counter"))' + 1
    BY <1>3, <1>7, <2>4, <2>5, <2>6
  <2> QED BY <1>1, <2>7 DEF CountsExact, Weaks
<1>9. strong[t] > 0 /\ ~ weak[t]
  BY <1>2, <1>5 DEF CallExact
<1>10. LivesExact'
  <2>1. \A u \in Thread : /\ Has(todo'[u], <<"destroy", "object">>) <=> Has(todo[u], <<"destroy", "object">>)
                          /\ Has(todo'[u], <<"free", "object">>) <=> Has(todo[u], <<"free", "object">>)
    BY <1>2, <1>7, PairsDiffer
  <2>2. refs.object > 0
    BY <1>1, <1>5, <1>9, CountsAreNaturals DEF CountsExact
  <2> QED BY <1>1, <1>3, <1>5, <2>1, <2>2 DEF LivesExact, Deleting
<1>11. \A u \in Thread : CallExact(u)'
  <2>1. CallExact(t)'
    <3>1. Head(todo'[t]) = <<"load", "counter">>
      BY <1>7, CallsBegun
    <3>2. /\ ~ At(t, <<"add", "object">>)' /\ \A x \in {"object", "counter"} : ~ At(t, <<"sub", x>>)'
      BY <3>1, PairsDiffer DEF At
    <3>3. ~ Has(todo'[t], <<"check", "counter">>) /\ ~ Has(todo'[t], <<"add", "object">>)
      BY <1>2, <1>7, PairsDiffer
    <3> QED BY <1>1, <1>3, <1>9, <3>2, <3>3 DEF CallExact
  <2> QED BY <1>1, <1>3, <1>5, <1>7, <2>1, OtherCalls
<1> QED BY <1>8, <1>10, <1>11

LEMMA DestroyIInv ==
  ASSUME RefIInv, mishap = "none", NEW t \in Thread, Destroy(t)
  PROVE  RefIInv'
<1> DEFINE steps == (IF life.counter = "none" THEN << >> ELSE Release("counter")) \o << <<"free", "object">> >>
           left == steps \o Tail(todo[t])
<1>1. /\ todo[t] \in CallsLeft /\ todo[t] # << >> /\ Head(todo[t]) = <<"destroy", "object">>
      /\ todo' = [todo EXCEPT ![t] = left] /\ valid' = FALSE
      /\ UNCHANGED <<refs, life, strong, weak, seen, mishap>> /\ RefTypeOK
  BY DEF Destroy, At, Then, RefIInv, RefTypeOK
<1>2. todo[t] = << <<"destroy", "object">> >> /\ Tail(todo[t]) = << >>
  <2>1. todo[t] = << <<"destroy", "object">> >>
    BY <1>1, LastSteps
  <2> QED BY <2>1, ShortTails
<1>3. /\ left \in CallsLeft
      /\ Head(left) \in {<<"load", "counter">>, <<"free", "object">>}
      /\ \A s : Has(left, s) <=> \/ s = <<"free", "object">>
                                 \/ life.counter # "none" /\ s \in {<<"load", "counter">>, <<"sub", "counter">>}
  <2>1. CASE life.counter = "none"
    <3>1. left = << <<"free", "object">> >>
      BY <1>2, <2>1, ShortConcats
    <3>2. \A s : Has(<< <<"free", "object">> >>, s) <=> s = <<"free", "object">>
      BY HasShort
    <3>3. << <<"free", "object">> >> \in CallsLeft
      BY DEF CallsLeft
    <3> HIDE DEF left
    <3> QED BY <2>1, <3>1, <3>2, <3>3, ShortTails
  <2>2. CASE life.counter # "none"
    <3> DEFINE longest == << <<"load", "counter">>, <<"sub", "counter">>, <<"free", "object">> >>
    <3>1. left = longest
      <4>1. left = (<< <<"load", "counter">>, <<"sub", "counter">> >> \o << <<"free", "object">> >>) \o << >>
        BY <1>2, <2>2 DEF Release
      <4>2. << <<"load", "counter">>, <<"sub", "counter">> >> \o << <<"free", "object">> >> = longest
        BY ShortConcats
      <4>3. longest \o << >> = longest
        BY ShortConcats
      <4> QED BY <4>1, <4>2, <4>3, Zenon
    <3>2. /\ \A s : Has(longest, s) <=> s \in {<<"load", "counter">>, <<"sub", "counter">>, <<"free", "object">>}
          /\ Head(longest) = <<"load", "counter">>
      BY HasShort, ShortTails
    <3>3. longest \in CallsLeft
      BY DEF CallsLeft
    <3> HIDE DEF left, longest
    <3> QED BY <2>2, <3>1, <3>2, <3>3
  <2> QED BY <2>1, <2>2
<1> HIDE DEF left
<1>4. RefTypeOK'
  BY <1>1, <1>3 DEF RefTypeOK
<1>5. CountsExact /\ LivesExact /\ \A u \in Thread : CallExact(u)
  BY DEF RefIInv
<1>6. \A s : Has(todo[t], s) <=> s = <<"destroy", "object">>
  <2>1. \A s : Has(<< <<"destroy", "object">> >>, s) <=> s = <<"destroy", "object">>
    BY HasShort
  <2> QED BY <1>2, <2>1
<1>7. /\ todo'[t] = left /\ \A u \in Thread \ {t} : todo'[u] = todo[u]
      /\ \A x : Cardinality(Releasing(x))' =
           Cardinality(Releasing(x))
             + (IF Has(left, <<"sub", x>>) THEN 1 ELSE 0)
             - (IF Has(todo[t], <<"sub", x>>) THEN 1 ELSE 0)
  BY <1>1, StepsChanged
<1>8. Deleting(t) /\ \A u \in Thread : Deleting(u) => u = t
  BY <1>5, <1>6 DEF Deleting, LivesExact
<1>9. valid <=> life.counter # "none"
  BY <1>5, <1>6 DEF LivesExact
<1>10. CountsExact'
  <2>1. /\ Cardinality(Pointers) \in Nat /\ Cardinality(Weaks) \in Nat
        /\ \A x : Cardinality(Releasing(x)) \in Nat
    BY <1>1, CountsAreNaturals
  <2>2. /\ refs.object = Cardinality(Pointers) + Cardinality(Releasing("object"))
        /\ refs.counter = Cardinality(Weaks) + Cardinality(Releasing("counter")) + (IF valid THEN 1 ELSE 0)
    BY <1>5 DEF CountsExact, Weaks
  <2>3. Cardinality(Weaks)' = Cardinality(Weaks) /\ Cardinality(Pointers)' = Cardinality(Pointers)
    BY <1>1 DEF Weaks, Pointers
  <2>4. /\ ~ Has(left, <<"sub", "object">>) /\ ~ Has(todo[t], <<"sub", "object">>)
        /\ ~ Has(todo[t], <<"sub", "counter">>)
        /\ Has(left, <<"sub", "counter">>) <=> life.counter # "none"
    BY <1>3, <1>6, PairsDiffer
  <2>5. /\ Cardinality(Releasing("object"))' = Cardinality(Releasing("object"))
        /\ Cardinality(Releasing("counter"))' = Cardinality(Releasing("counter")) + (IF valid THEN 1 ELSE 0)
    BY <1>7, <1>9, <2>1, <2>4
  <2>6. /\ refs.object = Cardinality(Pointers)' + Cardinality(Releasing("object"))'
        /\ refs.counter = Cardinality(Weaks)' + Cardinality(Releasing("counter"))'
    BY <2>1, <2>2, <2>3, <2>5
  <2>7. Cardinality(Weaks)' \in Nat /\ Cardinality(Releasing("counter"))' \in Nat
    BY <2>1, <2>3, <2>5
  <2> QED BY <1>1, <2>6, <2>7 DEF CountsExact, Weaks
<1>11. LivesExact'
  <2>1. life.object = "dying"
    BY <1>5, <1>8 DEF LivesExact
  <2>2. Has(todo'[t], <<"free", "object">>) /\ ~ Has(todo'[t], <<"destroy", "object">>)
    BY <1>3, <1>7, PairsDiffer
  <2>3. /\ \A u \in Thread : ~ Has(todo'[u], <<"destroy", "object">>)
        /\ \A u \in Thread : Deleting(u)' <=> u = t
    BY <1>7, <1>8, <2>2 DEF Deleting
  <2> QED BY <1>1, <1>5, <2>1, <2>3 DEF LivesExact
<1>12. \A u \in Thread : CallExact(u)'
  <2>1. CallExact(t)'
    <3>1. /\ ~ At(t, <<"add", "object">>)' /\ \A x \in {"object", "counter"} : ~ At(t, <<"sub", x>>)'
      BY <1>3, <1>7, PairsDiffer DEF At
    <3>2. \A s \in {<<"check", "counter">>, <<"add", "object">>, <<"look", "counter">>, <<"add", "counter">>} :
            ~ Has(todo'[t], s)
      BY <1>3, <1>7, PairsDiffer
    <3> QED BY <3>1, <3>2 DEF CallExact
  <2> QED BY <1>1, <1>5, <1>7, <2>1, OtherCalls
<1> QED BY <1>4, <1>10, <1>11, <1>12 DEF RefIInv

LEMMA AddIInv ==
  ASSUME RefIInv, mishap = "none", NEW t \in Thread, NEW x \in {"object", "counter"}, Add(t, x)
  PROVE  RefIInv'
<1> DEFINE left == Tail(todo[t])
<1>1. /\ todo[t] \in CallsLeft /\ todo[t] # << >> /\ Head(todo[t]) = <<"add", x>>
      /\ todo' = [todo EXCEPT ![t] = << >> \o Tail(@)]
      /\ refs' = [refs EXCEPT ![x] = seen[t] + 1]
      /\ mishap' = IF refs[x] # seen[t] THEN "lost update" ELSE mishap
      /\ strong' = IF x = "object" THEN [strong EXCEPT ![t] = @ + 1] ELSE strong
      /\ weak' = IF x = "counter" THEN [weak EXCEPT ![t] = TRUE] ELSE weak
      /\ UNCHANGED <<life, valid, seen>> /\ RefTypeOK
  BY DEF Add, Store, At, Then, RefIInv, RefTypeOK
<1>2. /\ todo' = [todo EXCEPT ![t] = left] /\ left \in CallsLeft
      /\ Has(todo[t], <<"add", x>>)
      /\ \A s : Has(left, s) <=> Has(todo[t], s) /\ s # <<"add", x>>
      /\ \A s : Has(left, s) => s = <<"destroy", "object">>
      /\ left # << >> => Head(left) = <<"destroy", "object">>
  <2>1. /\ << >> \o left = left /\ left \in CallsLeft /\ Has(todo[t], <<"add", x>>)
        /\ \A s : Has(left, s) <=> Has(todo[t], s) /\ s # <<"add", x>>
    BY <1>1, TailOfCall
  <2>2. left \in {<< >>, << <<"destroy", "object">> >>}
    BY <1>1, LastSteps
  <2>3. todo' = [todo EXCEPT ![t] = left]
    BY <1>1, <2>1
  <2>4. /\ \A s : Has(<< <<"destroy", "object">> >>, s) <=> s = <<"destroy", "object">>
        /\ \A s : ~ Has(<< >>, s)
    BY HasShort
  <2> HIDE DEF left
  <2>5. \A s : Has(left, s) => s = <<"destroy", "object">>
    BY <2>2, <2>4
  <2> QED BY <2>1, <2>2, <2>3, <2>5, ShortTails
<1>3. CountsExact /\ LivesExact /\ \A u \in Thread : CallExact(u)
  BY DEF RefIInv
<1>4. /\ x = "object" => strong[t] < MaxStrong /\ seen[t] > 0
      /\ x = "counter" => strong[t] > 0 /\ ~ weak[t]
  BY <1>1, <1>2, <1>3 DEF CallExact, At
<1>5. RefTypeOK'
  <2>1. strong' \in [Thread -> 0 .. MaxStrong]
    <3>1. /\ strong \in [Thread -> 0 .. MaxStrong] /\ MaxStrong \in Nat
          /\ strong[t] \in Nat
      BY <1>1, StrongType
    <3>2. x = "object" => strong[t] + 1 \in 0 .. MaxStrong
      BY <1>4, <3>1
    <3> QED BY <1>1, <3>1, <3>2
  <2>2. refs' \in [{"object", "counter"} -> Nat]
    <3>1. RefTypeOK
      BY <1>1
    <3>2. refs \in [{"object", "counter"} -> Nat] /\ seen[t] \in Nat
      BY <3>1 DEF RefTypeOK
    <3>3. seen[t] + 1 \in Nat
      BY <3>2
    <3> QED BY <1>1, <3>2, <3>3
  <2>3. weak' \in [Thread -> BOOLEAN] /\ todo' \in [Thread -> CallsLeft]
    BY <1>1, <1>2 DEF RefTypeOK
  <2> QED BY <1>1, <2>1, <2>2, <2>3 DEF RefTypeOK
<1> SUFFICES ASSUME mishap' = "none"
             PROVE  CountsExact' /\ LivesExact' /\ \A u \in Thread : CallExact(u)'
  BY <1>5 DEF RefIInv
<1> HIDE DEF left
<1>6. /\ seen[t] = refs[x] /\ refs[x] \in Nat /\ refs'[x] = refs[x] + 1
      /\ \A y \in {"object", "counter"} : y # x => refs'[y] = refs[y]
  BY <1>1 DEF RefTypeOK
<1>7. /\ todo'[t] = left /\ \A u \in Thread \ {t} : todo'[u] = todo[u]
      /\ \A y : Cardinality(Releasing(y))' = Cardinality(Releasing(y))
  <2>1. \A y : Has(left, <<"sub", y>>) <=> Has(todo[t], <<"sub", y>>)
    BY <1>2, PairsDiffer
  <2> QED BY <1>1, <1>2, <2>1, StepsKept
<1>8. /\ refs.object = Cardinality(Pointers) + Cardinality(Releasing("object"))
      /\ refs.counter = Cardinality(Weaks) + Cardinality(Releasing("counter")) + (IF valid THEN 1 ELSE 0)
      /\ Cardinality(Pointers) \in Nat /\ Cardinality(Weaks) \in Nat
      /\ \A y : Cardinality(Releasing(y)) \in Nat
      /\ strong[t] > 0 => Cardinality(Pointers) > 0
  BY <1>1, <1>3, CountsAreNaturals DEF CountsExact, Weaks
<1>9. CountsExact'
  <2>1. CASE x = "object"
    <3>1. Cardinality(Pointers)' = Cardinality(Pointers) + 1
      BY <1>1, <1>4, <2>1, PointerMade
    <3>2. Cardinality(Weaks)' = Cardinality(Weaks)
      BY <1>1, <2>1 DEF Weaks
    <3>3. /\ refs'.object = Cardinality(Pointers)' + Cardinality(Releasing("object"))'
          /\ refs'.counter = Cardinality(Weaks)' + Cardinality(Releasing("counter"))' + (IF valid THEN 1 ELSE 0)
      BY <1>6, <1>7, <1>8, <2>1, <3>1, <3>2
    <3> QED BY <1>1, <3>3 DEF CountsExact, Weaks
  <2>2. CASE x = "counter"
    <3>1. Cardinality(Weaks)' = Cardinality(Weaks) + 1
      BY <1>1, <1>4, <2>2, WeakMade
    <3>2. Cardinality(Pointers)' = Cardinality(Pointers)
      BY <1>1, <2>2 DEF Pointers
    <3>3. /\ refs'.object = Cardinality(Pointers)' + Cardinality(Releasing("object"))'
          /\ refs'.counter = Cardinality(Weaks)' + Cardinality(Releasing("counter"))' + (IF valid THEN 1 ELSE 0)
      BY <1>6, <1>7, <1>8, <2>2, <3>1, <3>2
    <3> QED BY <1>1, <3>3 DEF CountsExact, Weaks
  <2> QED BY <2>1, <2>2
<1>10. refs[x] > 0
  <2>1. CASE x = "object"
    BY <1>4, <1>6, <2>1
  <2>2. CASE x = "counter"
    <3>1. life.object = "alive"
      BY <1>3, <1>4, <1>8, <2>2 DEF LivesExact
    <3>2. ~ Has(todo[t], <<"make", "counter">>)
      BY <1>2, PairsDiffer
    <3>3. life.counter # "none"
      BY <1>2, <1>3, <2>2, <3>2 DEF CallExact
    <3>4. valid
      BY <1>3, <3>1, <3>3 DEF LivesExact
    <3> QED BY <1>8, <2>2, <3>4
  <2> QED BY <2>1, <2>2
<1>11. LivesExact'
  <2>1. \A u \in Thread : /\ Has(todo'[u], <<"destroy", "object">>) <=> Has(todo[u], <<"destroy", "object">>)
                          /\ Has(todo'[u], <<"free", "object">>) <=> Has(todo[u], <<"free", "object">>)
    BY <1>2, <1>7, PairsDiffer
  <2>2. \A y \in {"object", "counter"} : refs'[y] > 0 <=> refs[y] > 0
    BY <1>6, <1>10
  <2> QED BY <1>1, <1>3, <2>1, <2>2 DEF LivesExact, Deleting
<1>12. \A u \in Thread : CallExact(u)'
  <2>1. CallExact(t)'
    <3>1. \A s \in {<<"check", "counter">>, <<"add", "object">>, <<"look", "counter">>, <<"add", "counter">>} :
            ~ Has(todo'[t], s)
      BY <1>2, <1>7, PairsDiffer
    <3>2. ~ At(t, <<"add", "object">>)' /\ \A y \in {"object", "counter"} : ~ At(t, <<"sub", y>>)'
      BY <1>2, <1>7, PairsDiffer DEF At
    <3> QED BY <3>1, <3>2 DEF CallExact
  <2>2. \A u \in Thread \ {t} : strong'[u] = strong[u] /\ weak'[u] = weak[u]
    BY <1>1, StrongType DEF RefTypeOK
  <2> QED BY <1>1, <1>3, <1>7, <2>1, <2>2, OtherCalls
<1> QED BY <1>9, <1>11, <1>12

LEMMA SubIInv ==
  ASSUME RefIInv, mishap = "none", NEW t \in Thread, NEW x \in {"object", "counter"}, Sub(t, x)
  PROVE  RefIInv'
<1> DEFINE left == IF seen[t] # 1 \/ x = "counter" THEN Tail(todo[t]) ELSE << <<"destroy", "object">> >>
<1>1. /\ todo[t] \in CallsLeft /\ todo[t] # << >> /\ Head(todo[t]) = <<"sub", x>>
      /\ refs' = [refs EXCEPT ![x] = seen[t] - 1]
      /\ mishap' = IF refs[x] # seen[t] THEN "lost update" ELSE mishap
      /\ UNCHANGED <<valid, strong, weak, seen>> /\ RefTypeOK
  BY DEF Sub, Store, At, RefIInv, RefTypeOK
<1>2. CountsExact /\ LivesExact /\ \A u \in Thread : CallExact(u)
  BY DEF RefIInv
<1>3. seen[t] \in Nat /\ seen[t] > 0 /\ seen[t] - 1 \in Nat
  <2>1. seen[t] > 0
    BY <1>1, <1>2 DEF CallExact, At
  <2>2. seen[t] \in Nat
    BY <1>1 DEF RefTypeOK
  <2> QED BY <2>1, <2>2
<1>4. /\ << >> \o Tail(todo[t]) = Tail(todo[t]) /\ Tail(todo[t]) \in CallsLeft
      /\ Has(todo[t], <<"sub", x>>)
      /\ \A s : Has(Tail(todo[t]), s) <=> Has(todo[t], s) /\ s # <<"sub", x>>
      /\ x = "object" => todo[t] = << <<"sub", "object">> >> /\ Tail(todo[t]) = << >>
      /\ Tail(todo[t]) \in {<< >>, << <<"free", "object">> >>}
  <2>1. /\ << >> \o Tail(todo[t]) = Tail(todo[t]) /\ Tail(todo[t]) \in CallsLeft
        /\ Has(todo[t], <<"sub", x>>)
        /\ \A s : Has(Tail(todo[t]), s) <=> Has(todo[t], s) /\ s # <<"sub", x>>
    BY <1>1, TailOfCall
  <2>2. CASE x = "object"
    <3>1. todo[t] = << <<"sub", "object">> >>
      BY <1>1, <2>2, LastSteps
    <3>2. Tail(todo[t]) = << >>
      BY <3>1, ShortTails
    <3> QED BY <2>1, <3>1, <3>2
  <2>3. CASE x = "counter"
    <3>1. Tail(todo[t]) \in {<< >>, << <<"free", "object">> >>}
      BY <1>1, <2>3, LastSteps
    <3> QED BY <2>1, <2>3, <3>1
  <2> QED BY <2>2, <2>3
<1>5. left \in CallsLeft /\ todo' = [todo EXCEPT ![t] = left]
  <2>1. CASE seen[t] # 1 \/ x = "counter"
    <3>1. todo' = [todo EXCEPT ![t] = << >> \o Tail(@)]
      BY <2>1 DEF Sub, Then
    <3> QED BY <1>1, <1>4, <2>1, <3>1
  <2>2. CASE seen[t] = 1 /\ x = "object"
    <3>1. todo' = [todo EXCEPT ![t] = << <<"destroy", "object">> >> \o Tail(@)]
      BY <2>2 DEF Sub, Then
    <3>2. << <<"destroy", "object">> >> \o << >> = << <<"destroy", "object">> >>
      BY ShortConcats
    <3>3. << <<"destroy", "object">> >> \o Tail(todo[t]) = << <<"destroy", "object">> >>
      BY <1>4, <2>2, <3>2
    <3>4. left = << <<"destroy", "object">> >>
      BY <2>2
    <3>5. << <<"destroy", "object">> >> \in CallsLeft
      BY DEF CallsLeft
    <3> HIDE DEF left
    <3> QED BY <3>1, <3>3, <3>4, <3>5
  <2> QED BY <2>1, <2>2
<1>6. life' = IF seen[t] # 1 THEN life
              ELSE [life EXCEPT ![x] = IF x = "counter" THEN "deleted" ELSE "dying"]
  BY DEF Sub
(* What is left of the call has no step that subtracts or adds. *)
<1>7. /\ \A s : Has(left, s) => s \in {<<"destroy", "object">>, <<"free", "object">>}
      /\ Has(left, <<"destroy", "object">>) <=> seen[t] = 1 /\ x = "object"
      /\ ~ Has(todo[t], <<"destroy", "object">>)
      /\ Has(left, <<"free", "object">>) <=> Has(todo[t], <<"free", "object">>)
      /\ \A y : Has(todo[t], <<"sub", y>>) => y = x
      /\ left # << >> => Head(left) \in {<<"destroy", "object">>, <<"free", "object">>}
  <2>1. /\ \A s : Has(<< <<"destroy", "object">> >>, s) <=> s = <<"destroy", "object">>
        /\ \A s : Has(<< <<"free", "object">> >>, s) <=> s = <<"free", "object">>
        /\ \A s : ~ Has(<< >>, s)
        /\ Head(<< <<"destroy", "object">> >>) = <<"destroy", "object">>
        /\ Head(<< <<"free", "object">> >>) = <<"free", "object">>
    BY HasShort, ShortTails
  <2>2. \A s : Has(Tail(todo[t]), s) => s = <<"free", "object">>
    BY <1>4, <2>1
  <2>3. \A s : Has(todo[t], s) => s \in {<<"free", "object">>, <<"sub", x>>}
    BY <1>4, <2>2
  <2>4. /\ ~ Has(todo[t], <<"destroy", "object">>)
        /\ \A y : Has(todo[t], <<"sub", y>>) => y = x
        /\ Has(Tail(todo[t]), <<"free", "object">>) <=> Has(todo[t], <<"free", "object">>)
    BY <1>4, <2>3, PairsDiffer
  <2>5. CASE seen[t] # 1 \/ x = "counter"
    <3>1. left = Tail(todo[t])
      BY <2>5
    <3> HIDE DEF left
    <3> QED BY <1>4, <2>1, <2>2, <2>4, <2>5, <3>1, PairsDiffer
  <2>6. CASE seen[t] = 1 /\ x = "object"
    <3>1. left = << <<"destroy", "object">> >>
      BY <2>6
    <3>2. \A s : ~ Has(Tail(todo[t]), s)
      BY <1>4, <2>1, <2>6
    <3> HIDE DEF left
    <3> QED BY <2>1, <2>4, <2>6, <3>1, <3>2, PairsDiffer
  <2> QED BY <2>5, <2>6
<1> HIDE DEF left
<1>8. /\ refs' \in [{"object", "counter"} -> Nat]
      /\ refs'[x] = seen[t] - 1 /\ \A y \in {"object", "counter"} : y # x => refs'[y] = refs[y]
      /\ refs[x] \in Nat
      /\ life' \in [{"object", "counter"} -> {"none", "alive", "dying", "deleted"}]
      /\ \A y \in {"object", "counter"} : y # x => life'[y] = life[y]
      /\ life'[x] = IF seen[t] # 1 THEN life[x] ELSE IF x = "counter" THEN "deleted" ELSE "dying"
  <2>1. /\ refs \in [{"object", "counter"} -> Nat]
        /\ life \in [{"object", "counter"} -> {"none", "alive", "dying", "deleted"}]
    BY <1>1 DEF RefTypeOK
  <2> QED BY <1>1, <1>3, <1>6, <2>1
<1>9. RefTypeOK'
  <2>1. mishap' \in {"none", "lost update", "late lock", "two counters"} /\ todo' \in [Thread -> CallsLeft]
    BY <1>1, <1>5 DEF RefTypeOK
  <2> QED BY <1>1, <1>8, <2>1 DEF RefTypeOK
<1> SUFFICES ASSUME mishap' = "none"
             PROVE  CountsExact' /\ LivesExact' /\ \A u \in Thread : CallExact(u)'
  BY <1>9 DEF RefIInv
<1>10. seen[t] = refs[x] /\ refs'[x] = refs[x] - 1 /\ refs[x] > 0
  BY <1>1, <1>3, <1>8
<1>11. /\ todo'[t] = left /\ \A u \in Thread \ {t} : todo'[u] = todo[u]
       /\ Cardinality(Releasing(x))' = Cardinality(Releasing(x)) - 1
       /\ \A y \in {"object", "counter"} : y # x => Cardinality(Releasing(y))' = Cardinality(Releasing(y))
       /\ \A y : Cardinality(Releasing(y)) \in Nat
  <2>1. /\ todo'[t] = left /\ \A u \in Thread \ {t} : todo'[u] = todo[u]
        /\ \A y : Cardinality(Releasing(y))' =
             Cardinality(Releasing(y))
               + (IF Has(left, <<"sub", y>>) THEN 1 ELSE 0)
               - (IF Has(todo[t], <<"sub", y>>) THEN 1 ELSE 0)
    BY <1>1, <1>5, StepsChanged
  <2>2. \A y : ~ Has(left, <<"sub", y>>)
    <3> SUFFICES ASSUME NEW y, Has(left, <<"sub", y>>) PROVE FALSE
      OBVIOUS
    <3>1. <<"sub", y>> \in {<<"destroy", "object">>, <<"free", "object">>}
      BY <1>7
    <3> QED BY <3>1, PairsDiffer
  <2>3. \A y : Cardinality(Releasing(y)) \in Nat
    BY <1>1, CountsAreNaturals
  <2>4. Cardinality(Releasing(x))' = Cardinality(Releasing(x)) - 1
    BY <1>4, <2>1, <2>2, <2>3
  <2>5. ASSUME NEW y \in {"object", "counter"}, y # x
        PROVE  Cardinality(Releasing(y))' = Cardinality(Releasing(y))
    <3>1. ~ Has(todo[t], <<"sub", y>>)
      BY <1>7, <2>5
    <3> QED BY <2>1, <2>2, <2>3, <3>1
  <2> QED BY <2>1, <2>3, <2>4, <2>5
<1>12. /\ refs.object = Cardinality(Pointers) + Cardinality(Releasing("object"))
       /\ refs.counter = Cardinality(Weaks) + Cardinality(Releasing("counter")) + (IF valid THEN 1 ELSE 0)
       /\ Cardinality(Pointers) \in Nat /\ Cardinality(Weaks) \in Nat
       /\ Cardinality(Releasing(x)) > 0
  BY <1>1, <1>2, <1>4, CountsAreNaturals DEF CountsExact, Weaks
<1>13. CountsExact'
  <2>1. Cardinality(Weaks)' = Cardinality(Weaks) /\ Cardinality(Pointers)' = Cardinality(Pointers)
    BY <1>1 DEF Weaks, Pointers
  <2>2. /\ refs'.object = Cardinality(Pointers)' + Cardinality(Releasing("object"))'
        /\ refs'.counter = Cardinality(Weaks)' + Cardinality(Releasing("counter"))' + (IF valid THEN 1 ELSE 0)
    BY <1>8, <1>10, <1>11, <1>12, <2>1
  <2> QED BY <1>1, <2>2 DEF CountsExact, Weaks
<1>14. life[x] = "alive"
  BY <1>2, <1>10 DEF LivesExact
<1>15. LivesExact'
  <2>1. \A u \in Thread : Has(todo'[u], <<"free", "object">>) <=> Has(todo[u], <<"free", "object">>)
    BY <1>7, <1>11
  <2>2. CASE x = "object"
    <3>1. \A u \in Thread : ~ Deleting(u)
      BY <1>2, <1>14, <2>2 DEF LivesExact
    <3>2. \A u \in Thread : /\ Deleting(u)' <=> u = t /\ seen[t] = 1
                            /\ Has(todo'[u], <<"destroy", "object">>) <=> u = t /\ seen[t] = 1
      BY <1>7, <1>11, <2>1, <2>2, <3>1 DEF Deleting
    <3>3. /\ refs'.object > 0 <=> seen[t] # 1
          /\ refs'.counter = refs.counter /\ life'.counter = life.counter
          /\ life'.object = IF seen[t] # 1 THEN "alive" ELSE "dying"
      BY <1>3, <1>8, <1>14, <2>2
    <3>4. valid <=> life.counter # "none"
      BY <1>2, <1>14, <2>2 DEF LivesExact
    <3> QED BY <1>1, <1>2, <3>2, <3>3, <3>4 DEF LivesExact
  <2>3. CASE x = "counter"
    <3>1. \A u \in Thread : /\ Deleting(u)' <=> Deleting(u)
                            /\ Has(todo'[u], <<"destroy", "object">>) <=> Has(todo[u], <<"destroy", "object">>)
      BY <1>7, <1>11, <2>1, <2>3 DEF Deleting
    <3>2. /\ refs'.counter > 0 <=> seen[t] # 1
          /\ refs'.object = refs.object /\ life'.object = life.object
          /\ life'.counter = IF seen[t] # 1 THEN "alive" ELSE "deleted"
      BY <1>3, <1>8, <1>14, <2>3
    <3> QED BY <1>1, <1>2, <1>14, <2>3, <3>1, <3>2 DEF LivesExact
  <2> QED BY <2>2, <2>3
<1>16. \A u \in Thread : CallExact(u)'
  <2>1. CallExact(t)'
    <3>1. \A s \in {<<"check", "counter">>, <<"add", "object">>, <<"look", "counter">>, <<"add", "counter">>} :
            ~ Has(todo'[t], s)
      BY <1>7, <1>11, PairsDiffer
    <3>2. ~ At(t, <<"add", "object">>)' /\ \A y \in {"object", "counter"} : ~ At(t, <<"sub", y>>)'
      BY <1>7, <1>11, PairsDiffer DEF At
    <3> QED BY <3>1, <3>2 DEF CallExact
  <2>2. life.counter # "none" => life'.counter # "none"
    BY <1>8
  <2> QED BY <1>1, <1>2, <1>11, <2>1, <2>2, OtherCalls
<1> QED BY <1>13, <1>15, <1>16

LEMMA RefInitIInv == RefInit => RefIInv
<1> SUFFICES ASSUME RefInit PROVE RefIInv
  OBVIOUS
<1>1. RefTypeOK
  <2>1. Cardinality(Thread) \in Nat /\ 1 \in 0 .. MaxStrong
    BY RefAssumption, FS_CardinalityType
  <2>2. << >> \in CallsLeft
    BY CallsBegun
  <2>3. /\ refs \in [{"object", "counter"} -> Nat]
        /\ life \in [{"object", "counter"} -> {"none", "alive", "dying", "deleted"}]
    BY <2>1 DEF RefInit
  <2>4. /\ strong \in [Thread -> 0 .. MaxStrong] /\ weak \in [Thread -> BOOLEAN]
        /\ todo \in [Thread -> CallsLeft] /\ seen \in [Thread -> Nat]
    BY <2>1, <2>2 DEF RefInit
  <2> QED BY <2>3, <2>4 DEF RefInit, RefTypeOK
<1>2. \A t \in Thread : \A s : ~ Has(todo[t], s)
  BY HasShort DEF RefInit
<1>3. CountsExact
  <2>1. Pointers = Thread \X {1}
    <3>1. \A u \in Thread, n \in 1 .. MaxStrong : <<u, n>> \in Pointers <=> n <= 1
      BY <1>1, PointerIs DEF RefInit
    <3>2. \A u \in Thread, n \in 1 .. MaxStrong : <<u, n>> \in Pointers <=> <<u, n>> \in Thread \X {1}
      <4> TAKE u \in Thread, n \in 1 .. MaxStrong
      <4>1. n <= 1 <=> n = 1
        BY RefAssumption
      <4>2. <<u, n>> \in Thread \X {1} <=> n = 1
        OBVIOUS
      <4> QED BY <3>1, <4>1, <4>2
    <3>3. Pointers \subseteq Thread \X (1 .. MaxStrong) /\ Thread \X {1} \subseteq Thread \X (1 .. MaxStrong)
      BY RefAssumption DEF Pointers
    <3> QED BY <3>2, <3>3
  <2>2. Cardinality(Pointers) = Cardinality(Thread)
    <3>1. IsFiniteSet({1}) /\ Cardinality({1}) = 1
      BY FS_Singleton
    <3>2. Cardinality(Thread \X {1}) = Cardinality(Thread) * 1
      BY <3>1, RefAssumption, FS_Product
    <3>3. Cardinality(Thread) \in Nat
      BY RefAssumption, FS_CardinalityType
    <3> QED BY <2>1, <3>2, <3>3
  <2>3. Cardinality(Weaks) = 0 /\ \A x : Cardinality(Releasing(x)) = 0
    <3>1. Weaks = {} /\ \A x : Releasing(x) = {}
      BY <1>2 DEF RefInit, Weaks, Releasing
    <3> QED BY <3>1, FS_EmptySet
  <2>4. Cardinality(Thread) \in Nat
    BY RefAssumption, FS_CardinalityType
  <2> QED BY <2>2, <2>3, <2>4 DEF RefInit, CountsExact, Weaks
<1>4. LivesExact
  <2>1. Cardinality(Thread) > 0
    <3>1. PICK t \in Thread : TRUE
      BY RefAssumption
    <3> QED BY RefAssumption, FiniteSubset
  <2> QED BY <1>2, <2>1 DEF RefInit, LivesExact, Deleting
<1>5. \A t \in Thread : CallExact(t)
  BY <1>2 DEF RefInit, CallExact, At
<1> QED BY <1>1, <1>3, <1>4, <1>5 DEF RefIInv

LEMMA RefNextIInv == RefIInv /\ [RefNext]_refVars => RefIInv'
<1> SUFFICES ASSUME RefIInv, [RefNext]_refVars PROVE RefIInv'
  OBVIOUS
<1>1. CASE UNCHANGED refVars
  BY <1>1 DEF refVars, RefIInv, RefTypeOK, CountsExact, LivesExact, CallExact, At,
              Pointers, Releasing, Deleting
<1>2. CASE RefNext
  <2>1. mishap = "none"
    BY <1>2 DEF RefNext
  <2>2. PICK t \in Thread :
          \/ Copy(t) \/ Drop(t) \/ MakeWeak(t) \/ DropWeak(t) \/ Lock(t)
          \/ \E x \in {"object", "counter"} : Load(t, x) \/ Add(t, x) \/ Sub(t, x)
          \/ Destroy(t) \/ Free(t) \/ Look(t) \/ Make(t) \/ Check(t)
    BY <1>2 DEF RefNext
  <2>3. CASE Copy(t)
    BY <2>1, <2>3, CopyIInv
  <2>4. CASE Drop(t)
    BY <2>1, <2>4, DropIInv
  <2>5. CASE MakeWeak(t)
    BY <2>1, <2>5, MakeWeakIInv
  <2>6. CASE DropWeak(t)
    BY <2>1, <2>6, DropWeakIInv
  <2>7. CASE Lock(t)
    BY <2>1, <2>7, LockIInv
  <2>8. ASSUME NEW x \in {"object", "counter"}, Load(t, x) PROVE RefIInv'
    BY <2>1, <2>8, LoadIInv
  <2>9. ASSUME NEW x \in {"object", "counter"}, Add(t, x) PROVE RefIInv'
    BY <2>1, <2>9, AddIInv
  <2>10. ASSUME NEW x \in {"object", "counter"}, Sub(t, x) PROVE RefIInv'
    BY <2>1, <2>10, SubIInv
  <2>11. CASE Destroy(t)
    BY <2>1, <2>11, DestroyIInv
  <2>12. CASE Free(t)
    BY <2>1, <2>12, FreeIInv
  <2>13. CASE Look(t)
    BY <2>1, <2>13, LookIInv
  <2>14. CASE Make(t)
    BY <2>1, <2>14, MakeIInv
  <2>15. CASE Check(t)
    BY <2>1, <2>15, CheckIInv
  <2> QED BY <2>2, <2>3, <2>4, <2>5, <2>6, <2>7, <2>8, <2>9, <2>10, <2>11, <2>12, <2>13, <2>14, <2>15
<1> QED BY <1>1, <1>2

LEMMA RefInvariance == RefSpec => []RefIInv
<1>1. RefInit => RefIInv
  BY RefInitIInv
<1>2. RefIInv /\ [RefNext]_refVars => RefIInv'
  BY RefNextIInv
<1> QED BY <1>1, <1>2, PTL DEF RefSpec

-----------------------------------------------------------------------------
(***************************************************************************)
(* Whatever the threads do, the counts stay natural numbers, and of every  *)
(* call there are only the steps left that its code has.                   *)
(***************************************************************************)
THEOREM RefTypeCorrect == RefSpec => []RefTypeOK
<1>1. RefIInv => RefTypeOK
  BY DEF RefIInv
<1> QED BY <1>1, RefInvariance, PTL

(***************************************************************************)
(* ThRefPtr and ThWeakPtr keep what they point to alive: until two threads *)
(* have interfered in one of the three ways that mishap names, the object  *)
(* is alive for each ThRefPtr and the counter for each ThWeakPtr, in every *)
(* interleaving of any number of threads with any number of pointers.      *)
(***************************************************************************)
THEOREM OwnersAreSafe == RefSpec => []OwnedIsAlive
<1>1. RefIInv => OwnedIsAlive
  <2> SUFFICES ASSUME RefIInv, mishap = "none", NEW t \in Thread
               PROVE  /\ strong[t] > 0 => life.object = "alive"
                      /\ weak[t] => life.counter = "alive"
    BY DEF OwnedIsAlive
  <2>1. RefTypeOK /\ CountsExact /\ LivesExact
    BY DEF RefIInv
  <2>2. /\ refs.object = Cardinality(Pointers) + Cardinality(Releasing("object"))
        /\ refs.counter = Cardinality(Weaks) + Cardinality(Releasing("counter")) + (IF valid THEN 1 ELSE 0)
    BY <2>1 DEF CountsExact, Weaks
  <2>3. /\ strong[t] > 0 => refs.object > 0
        /\ weak[t] => refs.counter > 0
    BY <2>1, <2>2, CountsAreNaturals
  <2> QED BY <2>1, <2>3 DEF LivesExact
<1> QED BY <1>1, RefInvariance, PTL

(***************************************************************************)
(* And the counts are exact: when no call is under way, they are the       *)
(* numbers of pointers; the object and its counter are there as long as    *)
(* there is one; a weak pointer can be locked as long as the object is     *)
(* there.                                                                  *)
(***************************************************************************)
THEOREM CountsAreExact == RefSpec => []CountsExactBetweenCalls
<1>1. RefIInv => CountsExactBetweenCalls
  <2> SUFFICES ASSUME RefIInv, mishap = "none", \A t \in Thread : todo[t] = << >>
               PROVE  CountsExactBetweenCalls
    BY DEF CountsExactBetweenCalls
  <2>1. RefTypeOK /\ CountsExact /\ LivesExact
    BY DEF RefIInv
  <2>2. \A t \in Thread : \A s : ~ Has(todo[t], s)
    BY HasShort
  <2>3. \A x : Cardinality(Releasing(x)) = 0
    <3>1. \A x : Releasing(x) = {}
      BY <2>2 DEF Releasing
    <3> QED BY <3>1, FS_EmptySet
  <2>4. \A t \in Thread : ~ Deleting(t)
    BY <2>2 DEF Deleting
  <2>5. Cardinality(Pointers) \in Nat /\ Cardinality(Weaks) \in Nat
    BY <2>1, CountsAreNaturals
  <2>6. /\ refs.object = Cardinality(Pointers)
        /\ refs.counter = Cardinality(Weaks) + (IF valid THEN 1 ELSE 0)
    BY <2>1, <2>3, <2>5 DEF CountsExact, Weaks
  <2>7. /\ life.object = "alive" <=> refs.object > 0
        /\ life.counter = "alive" <=> refs.counter > 0
        /\ valid <=> life.counter # "none" /\ life.object = "alive"
        /\ life.object \in {"alive", "deleted"}
    BY <2>1, <2>2, <2>4 DEF LivesExact
  <2> QED BY <2>5, <2>6, <2>7 DEF CountsExactBetweenCalls, Weaks
<1> QED BY <1>1, RefInvariance, PTL

-----------------------------------------------------------------------------
(***************************************************************************)
(* The types of all three, whichever of them a behaviour follows.          *)
(***************************************************************************)
THEOREM MemoryTypeCorrect == MCSpec => []MemoryTypeOK
<1>1. MCInit => Init /\ StackInit /\ RefInit
  BY DEF MCInit
<1>2. [MCNext]_<<vars, stackVars, refVars, part>> =>
        [Next]_vars /\ [StackNext]_stackVars /\ [RefNext]_refVars
  BY DEF MCNext
<1>3. MCSpec => Spec /\ StackSpec /\ RefSpec
  BY <1>1, <1>2, PTL DEF MCSpec, Spec, StackSpec, RefSpec
<1>4. TypeOK /\ StackTypeOK /\ RefTypeOK => MemoryTypeOK
  BY DEF MemoryTypeOK
<1> QED BY <1>3, <1>4, SmallTypeCorrect, StackTypeCorrect, RefTypeCorrect, PTL

=============================================================================
