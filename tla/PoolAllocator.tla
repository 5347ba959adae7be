--------------------------- MODULE PoolAllocator ---------------------------
(***************************************************************************)
(* ThPoolAllocator (lib/Core/Memory/ThPoolAllocator.cpp): a pool of chunks *)
(* of one size, as functions of a record                                   *)
(*                                                                         *)
(*   link    the first four bytes of each chunk, which hold the index of   *)
(*           the next free chunk as long as the chunk is free              *)
(*   first   m_FirstFreeChunk                                              *)
(*   free    m_NumFreeChunks                                               *)
(*                                                                         *)
(* Chunk sizes, alignment and addresses are left out: a pointer into a     *)
(* pool is the index of its chunk.                                         *)
(***************************************************************************)
EXTENDS Integers, FiniteSets

CONSTANTS
  ByteRange,     \* 256: the values of a byte
  UpperBytes     \* what the upper three bytes of a link may hold in new memory

(* What a client wrote over the link of its chunk: not an index. *)
ClientData == -1

NumChunks(p) == Cardinality(DOMAIN p.link)

(* Mutant: every second chunk is skipped. *)
ResetFromOne(n, upper) ==
  [link  |-> [i \in 0 .. n - 1 |-> upper * ByteRange + ((i + 2) % ByteRange)],
   first |-> 0,
   free  |-> n]

(* Init and Reset: *memPos = i + 1 writes one byte of each link, the upper *)
(* bytes stay as the parent allocator left them (alike in all chunks).     *)
Reset(n, upper) ==
  [link  |-> [i \in 0 .. n - 1 |-> upper * ByteRange + ((i + 1) % ByteRange)],
   first |-> 0,
   free  |-> n]

IsFilled(p) == p.free = 0

(* Mutant: a pool with a free chunk counts as free. *)
HasFree(p) == p.free # 0

IsFree(p) == p.free = NumChunks(p)

(* The chunk that Allocate will return lies inside the pool. *)
Sound(p) == p.first \in DOMAIN p.link

Allocate(p) ==
  [link  |-> [p.link EXCEPT ![p.first] = ClientData],
   first |-> p.link[p.first],
   free  |-> p.free - 1]

(* Mutant: the chunk is not linked to the ones that were free before. *)
DeallocateUnlinked(p, chunk) ==
  [p EXCEPT !.first = chunk, !.free = @ + 1]

(* Without the assertion of line 50, which a release build leaves out: it  *)
(* fails on a legal call in a full pool of 256 chunks.                     *)
Deallocate(p, chunk) ==
  [link  |-> [p.link EXCEPT ![chunk] = p.first],
   first |-> chunk,
   free  |-> p.free + 1]

(* The free chunks, in the order in which they will be returned. *)
FreeList(p) ==
  LET chunk[n \in 1 .. p.free] ==
        IF n = 1 THEN p.first
        ELSE LET before == chunk[n - 1]
             IN  IF before \in DOMAIN p.link THEN p.link[before] ELSE ClientData
  IN  chunk

=============================================================================
