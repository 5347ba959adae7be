------------------------ MODULE SmallMemoryAllocator ------------------------
(***************************************************************************)
(* ThSmallMemoryAllocator over ThGrowingPoolAllocator over ThPoolAllocator *)
(* (lib/Core/Memory): one growing pool for each size of object, a list of  *)
(* pools in each growing pool, and cached pointers to the pool used last.  *)
(*                                                                         *)
(* Clients deallocate what they own, once.  A pool has an address, an      *)
(* element of PoolId; freed addresses may be used again.                   *)
(***************************************************************************)
EXTENDS Integers, SequencesExt, PoolAllocator

CONSTANTS
  PoolId,           \* bound: the addresses at which pools can be; class c
                    \* has its first pool at address c
  Null,
  Alignment,        \* sizes are requested with this alignment
  MaxObjectSize,    \* a multiple of Alignment
  PageSize,
  MinNumChunks,     \* MIN_NUM_CHUNKS: 16
  MaxNumChunks,     \* MAX_NUM_CHUNKS: 256
  MaxOwned          \* bound on the blocks that clients own

ASSUME MemoryAssumption ==
  /\ ByteRange \in Nat \ {0} /\ UpperBytes \subseteq Nat /\ 0 \in UpperBytes
  /\ Alignment \in Nat \ {0} /\ PageSize \in Nat
  /\ MaxObjectSize \in Nat /\ MaxObjectSize % Alignment = 0
  /\ MinNumChunks \in Nat \ {0} /\ MaxNumChunks \in MinNumChunks .. ByteRange
  /\ MaxOwned \in Nat /\ PoolId \subseteq Nat /\ Null \notin PoolId
  /\ 0 .. (MaxObjectSize \div Alignment) - 1 \subseteq PoolId

(* The growing pools: that of class c has chunks of (c + 1) * Alignment.   *)
Class == 0 .. (MaxObjectSize \div Alignment) - 1

VARIABLES
  m_Pools,         \* class -> the addresses of its pools, in order
  m_AllocPool,     \* class -> the pool allocated from last
  m_DeallocPool,   \* class -> the pool deallocated to last
  pool,            \* address -> the pool there, or Null
  owned,           \* history: the blocks <<class, address, chunk>> of clients
  dirty,           \* history: some pool was made in memory that was not zeroed
  dropped,         \* history: Shrink freed a pool that a cached pointer points to
  fault            \* memory that is not a pool's was used as one: nothing is
                   \* known of the program from then on

pools  == <<m_Pools, m_AllocPool, m_DeallocPool, pool>>
vars   == <<pools, owned, dirty, dropped, fault>>

InUse == UNION {ToSet(m_Pools[c]) : c \in Class}

(* InitToPageSize: as many chunks as fit a page, within bounds. *)
ChunksOf(c) ==
  Max({MinNumChunks, Min({MaxNumChunks, PageSize \div ((c + 1) * Alignment)})})

PoolOf(c) == [link : [0 .. ChunksOf(c) - 1 -> Int], first : Int, free : 0 .. ChunksOf(c)]

(* What is at an address without a pool is none. *)
ASSUME NullAssumption == \A c \in Class : Null \notin PoolOf(c)

-----------------------------------------------------------------------------

Init ==
  \E upper \in [Class -> UpperBytes] :
    /\ pool = [i \in PoolId |-> IF i \in Class THEN Reset(ChunksOf(i), upper[i]) ELSE Null]
    /\ m_Pools = [c \in Class |-> <<c>>]
    /\ m_AllocPool = [c \in Class |-> c]
    /\ m_DeallocPool = [c \in Class |-> c]
    /\ owned = {}
    /\ dirty = (\E c \in Class : upper[c] # 0)
    /\ dropped = FALSE
    /\ fault = FALSE

(* A call of the growing pool of class c reads through one of its cached   *)
(* pointers; if the pool has been freed nothing more is known.             *)
Dangling(c, pointer) == pointer[c] \notin ToSet(m_Pools[c])

UseFreedPool ==
  /\ fault' = TRUE
  /\ UNCHANGED <<pools, owned, dirty, dropped>>

(* ThPoolAllocator::Allocate of the pool at i, which has a free chunk, in  *)
(* the memory mem: the block is handed out, or lies outside the pool.      *)
TakeFrom(c, i, mem) ==
  /\ m_AllocPool' = [m_AllocPool EXCEPT ![c] = i]
  /\ IF Sound(mem[i])
     THEN /\ pool' = [mem EXCEPT ![i] = Allocate(@)]
          /\ owned' = owned \union {<<c, i, mem[i].first>>}
          /\ UNCHANGED fault
     ELSE /\ fault' = TRUE
          /\ UNCHANGED <<pool, owned>>
  /\ UNCHANGED <<m_DeallocPool, dropped>>

NotFilled(c) == {n \in DOMAIN m_Pools[c] : ~ IsFilled(pool[m_Pools[c][n]])}

(* The pool allocated from last, or else the first one with a free chunk.  *)
AllocateInPools(c) ==
  LET i == IF ~ IsFilled(pool[m_AllocPool[c]])
           THEN m_AllocPool[c] ELSE m_Pools[c][Min(NotFilled(c))]
  IN  /\ NotFilled(c) # {}
      /\ TakeFrom(c, i, pool)
      /\ UNCHANGED <<m_Pools, dirty>>

(* Every pool is filled: AddPool and Init. *)
AllocateInNewPool(c) ==
  \E i \in PoolId \ InUse, upper \in UpperBytes :
    /\ NotFilled(c) = {}
    /\ m_Pools' = [m_Pools EXCEPT ![c] = Append(@, i)]
    /\ dirty' = (dirty \/ upper # 0)
    /\ TakeFrom(c, i, [pool EXCEPT ![i] = Reset(ChunksOf(c), upper)])

ClassOf(size) == (size + Alignment - 1) \div Alignment

AllocateSize(size) ==
  LET c == ClassOf(size)
  IN  /\ c \in Class
      /\ Cardinality(owned) < MaxOwned
      /\ IF Dangling(c, m_AllocPool) THEN UseFreedPool
         ELSE AllocateInPools(c) \/ AllocateInNewPool(c)

(* "Invalid object size": there is no such growing pool. *)
RefuseSize(size) ==
  /\ ClassOf(size) \notin Class
  /\ UNCHANGED vars

(* Mutant: the block goes to the pool that took the last one. *)
DeallocateToLast(block) ==
  LET c == block[1]  i == m_DeallocPool[c]
  IN  /\ owned' = owned \ {block}
      /\ IF Dangling(c, m_DeallocPool)
         THEN /\ fault' = TRUE
              /\ UNCHANGED <<m_Pools, m_AllocPool, m_DeallocPool, pool>>
         ELSE /\ pool' = [pool EXCEPT ![i] = Deallocate(@, block[3])]
              /\ UNCHANGED <<m_Pools, m_AllocPool, m_DeallocPool, fault>>
      /\ UNCHANGED <<dirty, dropped>>

(* The growing pool and in it the pool whose memory the block is in, found *)
(* by way of the cached pointers or of a walk over all pools.  (The small  *)
(* allocator's own m_DeallocPool only saves its walk over the classes.)    *)
DeallocateBlock(block) ==
  LET c == block[1]  i == block[2]
  IN  /\ owned' = owned \ {block}
      /\ IF Dangling(c, m_DeallocPool)
         THEN /\ fault' = TRUE
              /\ UNCHANGED <<m_Pools, m_AllocPool, m_DeallocPool, pool>>
         ELSE /\ pool' = [pool EXCEPT ![i] = Deallocate(@, block[3])]
              /\ m_DeallocPool' = [m_DeallocPool EXCEPT ![c] = i]
              /\ UNCHANGED <<m_Pools, m_AllocPool, fault>>
      /\ UNCHANGED <<dirty, dropped>>

(* One turn of the loop of Shrink, at position n of the list s: a pool     *)
(* without blocks is freed, the last one takes its place, and one stays.   *)
ShrinkStep(s, n) ==
  IF IsFree(pool[s[n]]) /\ Len(s) > 1
  THEN [list |-> SubSeq([s EXCEPT ![n] = s[Len(s)]], 1, Len(s) - 1), at |-> n]
  ELSE [list |-> s, at |-> n + 1]

(* Each turn goes on or makes the list shorter. *)
Shrunk(s) ==
  LET turn[n \in 0 .. Len(s)] ==
        IF n = 0 THEN [list |-> s, at |-> 1]
        ELSE LET before == turn[n - 1] IN ShrinkStep(before.list, before.at)
  IN  turn[Len(s)].list

Shrink ==
  LET kept   == [c \in Class |-> Shrunk(m_Pools[c])]
      live   == UNION {ToSet(kept[c]) : c \in Class}
  IN  /\ m_Pools' = kept
      /\ pool' = [i \in PoolId |-> IF i \in live THEN pool[i] ELSE Null]
      /\ dropped' = (dropped \/ \E c \in Class :
                        {m_AllocPool[c], m_DeallocPool[c]} \intersect (InUse \ live) # {})
      /\ UNCHANGED <<m_AllocPool, m_DeallocPool, owned, dirty, fault>>

Next ==
  /\ ~ fault
  /\ \/ \E size \in 0 .. MaxObjectSize : AllocateSize(size) \/ RefuseSize(size)
     \/ \E block \in owned : DeallocateBlock(block)
     \/ Shrink

Spec == Init /\ [][Next]_vars

-----------------------------------------------------------------------------

TypeOK ==
  /\ m_Pools \in [Class -> Seq(PoolId)]
  /\ m_AllocPool \in [Class -> PoolId]
  /\ m_DeallocPool \in [Class -> PoolId]
  /\ DOMAIN pool = PoolId
  /\ \A i \in PoolId : pool[i] # Null <=> i \in InUse
  /\ \A c \in Class : \A i \in ToSet(m_Pools[c]) : pool[i] \in PoolOf(c)
  /\ owned \subseteq Class \X PoolId \X Nat
  /\ dirty \in BOOLEAN /\ dropped \in BOOLEAN /\ fault \in BOOLEAN

(***************************************************************************)
(* In memory that was zeroed, the free list of each pool runs through      *)
(* exactly the chunks that no client owns, each once, also with 256        *)
(* chunks, where the last link wraps; and Shrink frees no pool with a      *)
(* block of a client in it.  So no block is handed out twice and none is   *)
(* lost, whatever is deallocated where and in which order.                 *)
(***************************************************************************)
BlocksExact ==
  ~ dirty /\ ~ fault =>
    /\ \A block \in owned : block[2] \in ToSet(m_Pools[block[1]])
    /\ \A c \in Class : \A i \in ToSet(m_Pools[c]) :
         LET list == FreeList(pool[i])
         IN  /\ ToSet(list) = {n \in DOMAIN pool[i].link : <<c, i, n>> \notin owned}
             /\ Len(list) + Cardinality({block \in owned : block[2] = i}) = NumChunks(pool[i])

(***************************************************************************)
(* The allocators use memory that is not theirs only after Shrink has      *)
(* freed a pool that a cached pointer still points to, or when the memory  *)
(* of a new pool was not zeroed.                                           *)
(***************************************************************************)
SafeUntilShrink == fault => dropped \/ dirty

=============================================================================
