--------------------------- MODULE HashContainer ---------------------------
(***************************************************************************)
(* ThHashMap and ThHashSet over ThHashContainerBase (Core/Containers):     *)
(* items are stored densely in a vector, each bucket holds the index of    *)
(* the first item of its chain, each item that of the next.  The last item *)
(* is moved into the hole an erased one leaves, so the chain of an         *)
(* unrelated key changes with it.  ThHashSet is the case of one value.     *)
(*                                                                         *)
(* Indices start at 1 here and InvalidID is 0.  The hash function is a     *)
(* parameter.  The load factor is the default, 0.75, and its arithmetic is *)
(* exact, as that of the code's floats is for up to 2^22 items.            *)
(***************************************************************************)
EXTENDS Integers, SequencesExt

CONSTANTS
  Key,
  Value,
  NoValue,     \* stands for End() in answers
  Hash,        \* the hash of each key
  MinBuckets,  \* 16 in the code
  Sizes        \* bound: the arguments of Reserve and Rehash

ASSUME HashAssumption ==
  /\ Hash \in [Key -> Nat]
  /\ NoValue \notin Value
  /\ MinBuckets \in {4, 8, 16}
  /\ Sizes \subseteq Nat \ {0}

VARIABLES
  table,       \* [items, buckets]: m_Items and m_Buckets
  answer,      \* the last call and what it returned
  reserved     \* history: the number of items Reserve made room for

vars == <<table, answer, reserved>>

InvalidID == 0

-----------------------------------------------------------------------------
(* Chains.  visit[n] is the n-th item of the chain that starts at first.   *)

Following(items, i) == IF i = InvalidID THEN InvalidID ELSE items[i].next

Visit(items, first) ==
  LET visit[n \in 1 .. Len(items) + 1] ==
        IF n = 1 THEN first ELSE Following(items, visit[n - 1])
  IN  visit

BucketCount(h) == Cardinality(DOMAIN h.buckets)

Bucket(h, k) == Hash[k] % BucketCount(h)

(* The item of key k, or InvalidID, and the one before it in its chain. *)
FindImpl(h, k) ==
  LET visit   == Visit(h.items, h.buckets[Bucket(h, k)])
      Stop(n) == visit[n] = InvalidID \/ h.items[visit[n]].key = k
      steps   == Min({n \in DOMAIN visit : Stop(n)})
  IN  [item |-> visit[steps],
       prev |-> IF steps = 1 THEN InvalidID ELSE visit[steps - 1]]

(* The last item of a chain, or InvalidID if it is empty. *)
FindTail(h, bucket) ==
  LET visit == Visit(h.items, h.buckets[bucket])
      steps == Min({n \in DOMAIN visit : visit[n] = InvalidID})
  IN  IF steps = 1 THEN InvalidID ELSE visit[steps - 1]

(* Make item i the successor of prev, or the first of the bucket. *)
Link(h, bucket, prev, i) ==
  IF prev = InvalidID
  THEN [h EXCEPT !.buckets[bucket] = i]
  ELSE [h EXCEPT !.items[prev].next = i]

(* Mutant: the item takes the place of the chain of its bucket. *)
LinkAlone(h, i) == Link(h, Bucket(h, h.items[i].key), InvalidID, i)

LinkLast(h, i) ==
  LET bucket == Bucket(h, h.items[i].key)
  IN  Link(h, bucket, FindTail(h, bucket), i)

-----------------------------------------------------------------------------
(* The operations, as functions of a table. *)

(* The powers of two, from the 0th to the n-th. *)
PowersOf2(n) ==
  LET power[e \in 0 .. n] == IF e = 0 THEN 1 ELSE 2 * power[e - 1]
  IN  {power[e] : e \in 0 .. n}

NextPowerOf2(n) == Min({p \in PowersOf2(n) : p >= n})

(* Mutant: the links of the old chains are kept. *)
RehashKeepingLinks(h, n) ==
  LET size == NextPowerOf2(n)
      relinked[i \in 0 .. Len(h.items)] ==
        IF i = 0
        THEN [h EXCEPT !.buckets = [b \in 0 .. size - 1 |-> InvalidID]]
        ELSE LinkLast(relinked[i - 1], i)
  IN  relinked[Len(h.items)]

Rehash(h, n) ==
  LET size == NextPowerOf2(n)
      empty == [items   |-> [i \in DOMAIN h.items |->
                               [h.items[i] EXCEPT !.next = InvalidID]],
                buckets |-> [b \in 0 .. size - 1 |-> InvalidID]]
      relinked[i \in 0 .. Len(h.items)] ==
        IF i = 0 THEN empty ELSE LinkLast(relinked[i - 1], i)
  IN  relinked[Len(h.items)]

ComputeNumBuckets(n) == Max({NextPowerOf2(n), MinBuckets})

(* Mutant: as many buckets as items are enough. *)
BucketsForAll(n) == ComputeNumBuckets(n)

(* The buckets Reserve(n) asks for: n / 0.75, cut to an integer. *)
BucketsFor(n) == ComputeNumBuckets((4 * n) \div 3)

Insert(h, k, v) ==
  LET item  == [key |-> k, value |-> v, next |-> InvalidID]
      added == [h EXCEPT !.items = Append(@, item)]
      size  == Len(added.items)
  IN  IF 4 * size > 3 * BucketCount(h)
      THEN Rehash(added, 2 * BucketCount(h))
      ELSE LinkLast(added, size)

MoveToBackAndRemove(items, i) ==
  SubSeq([items EXCEPT ![i] = items[Len(items)]], 1, Len(items) - 1)

(* Mutant: the chain of the moved item still leads to its old place. *)
EraseUnfollowed(h, k) ==
  LET found == FindImpl(h, k)
      unlinked == Link(h, Bucket(h, k), found.prev, h.items[found.item].next)
  IN  [unlinked EXCEPT !.items = MoveToBackAndRemove(@, found.item)]

(* Take the item out of its chain, let the chain of the last item lead to  *)
(* the hole, and move the last item there.                                 *)
Erase(h, k) ==
  LET found    == FindImpl(h, k)
      last     == h.items[Len(h.items)].key
      unlinked == Link(h, Bucket(h, k), found.prev, h.items[found.item].next)
      followed == IF found.item = Len(h.items) THEN unlinked
                  ELSE Link(unlinked, Bucket(h, last), FindImpl(unlinked, last).prev,
                            found.item)
  IN  [followed EXCEPT !.items = MoveToBackAndRemove(@, found.item)]

Clear(h) == [items |-> <<>>, buckets |-> [b \in DOMAIN h.buckets |-> InvalidID]]

-----------------------------------------------------------------------------

Present(k) == FindImpl(table, k).item # InvalidID

Lookup(k) ==
  LET found == FindImpl(table, k).item
  IN  IF found = InvalidID THEN NoValue ELSE table.items[found].value

Init ==
  /\ table = [items |-> <<>>, buckets |-> [b \in 0 .. MinBuckets - 1 |-> InvalidID]]
  /\ answer = <<"new">>
  /\ reserved = 0

DoInsert(k, v) ==
  LET absent == ~ Present(k)
  IN  /\ answer' = <<"Insert", k, absent>>
      /\ table' = IF absent THEN Insert(table, k, v) ELSE table
      /\ UNCHANGED reserved

(* map[k] = v: operator[] inserts a default value first if k is missing    *)
(* and returns a reference to the last item.                               *)
DoAssign(k, v) ==
  LET found    == FindImpl(table, k).item
      inserted == IF found = InvalidID THEN Insert(table, k, v) ELSE table
      i        == IF found = InvalidID THEN Len(inserted.items) ELSE found
  IN  /\ table' = [inserted EXCEPT !.items[i].value = v]
      /\ answer' = <<"Assign", k>>
      /\ UNCHANGED reserved

DoErase(k) ==
  LET present == Present(k)
  IN  /\ answer' = <<"Erase", k, present>>
      /\ table' = IF present THEN Erase(table, k) ELSE table
      /\ UNCHANGED reserved

DoFind(k) ==
  /\ answer' = <<"Find", k, Lookup(k)>>
  /\ UNCHANGED <<table, reserved>>

DoClear ==
  /\ table' = Clear(table)
  /\ answer' = <<"Clear">>
  /\ UNCHANGED reserved

(* Rehash is public, and takes fewer buckets than there are as well. *)
DoRehash(n) ==
  /\ table' = Rehash(table, n)
  /\ reserved' = 0
  /\ UNCHANGED answer

Reserve(n) ==
  /\ table' = Rehash(table, BucketsFor(n))
  /\ reserved' = n
  /\ UNCHANGED answer

Next ==
  \/ \E k \in Key, v \in Value : DoInsert(k, v) \/ DoAssign(k, v)
  \/ \E k \in Key : DoErase(k) \/ DoFind(k)
  \/ DoClear
  \/ \E n \in Sizes : DoRehash(n) \/ Reserve(n)

Spec == Init /\ [][Next]_vars

-----------------------------------------------------------------------------

Item == [key : Key, value : Value, next : Nat]

(***************************************************************************)
(* Types: a power of two of buckets, and links that stay inside m_Items.   *)
(***************************************************************************)
TypeOK ==
  /\ table.items \in Seq(Item)
  /\ BucketCount(table) \in PowersOf2(BucketCount(table))
  /\ table.buckets \in [0 .. BucketCount(table) - 1 -> 0 .. Len(table.items)]
  /\ \A i \in DOMAIN table.items : table.items[i].next \in 0 .. Len(table.items)
  /\ reserved \in Sizes \union {0}

(***************************************************************************)
(* The chain of each bucket ends, and visits exactly the items whose keys  *)
(* hash to it, each once; no key is stored twice.  So a walk over m_Items  *)
(* and the walks over the chains see the same items, after any sequence of *)
(* erasures, moves and rehashes.                                           *)
(***************************************************************************)
ChainsExact ==
  LET items == table.items
      Here(b) == {i \in DOMAIN items : Hash[items[i].key] % BucketCount(table) = b}
  IN  /\ \A i, j \in DOMAIN items : items[i].key = items[j].key => i = j
      /\ \A b \in DOMAIN table.buckets :
           LET visit == Visit(items, table.buckets[b])
               seen  == {n \in DOMAIN visit : visit[n] # InvalidID}
           IN  /\ {visit[n] : n \in seen} = Here(b)
               /\ Cardinality(seen) = Cardinality(Here(b))

(***************************************************************************)
(* Room reserved is room enough: between Reserve(n) and the next Reserve   *)
(* or Rehash, as long as there are at most n items, no insertion makes the *)
(* table grow.  The two roundings, of n / 0.75 and in the comparison of    *)
(* the load factor, agree at the boundary.                                 *)
(***************************************************************************)
ReserveSuffices ==
  [][Len(table.items) < Len(table'.items) /\ Len(table'.items) <= reserved
       => BucketCount(table') = BucketCount(table)]_vars

(***************************************************************************)
(* The container is the map that its items, walked from Begin to End,      *)
(* show: every call changes that map, and answers from it, as a client     *)
(* expects, although the calls reach the items by way of the chains.       *)
(***************************************************************************)
Contents ==
  [k \in Key |->
     LET stored == {item \in ToSet(table.items) : item.key = k}
     IN  IF stored = {} THEN NoValue ELSE (CHOOSE item \in stored : TRUE).value]

Map == INSTANCE KeyValueMap WITH content <- Contents

ImplementsMap == Map!Spec

=============================================================================
