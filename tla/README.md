# Thor: a verification project

TLA+ models of the parts of Thor that carry state worth arguing about, checked
with TLC on small instances and proved with TLAPS for every value of the
constants.  `PROJECT.json` lists components, runs, mutants, theorems, findings
and hazards, and maps every definition to the lines it models.  Paths below are
relative to the repository.

## Inventory

Thor is a C++ engine: `lib/Core` (containers, memory, strings, uids, logging,
dispatch), `lib/ECS` with `include/Thor/ECS` (the entity component system),
`lib/Engine` (an older entity system, part of which does not compile),
`lib/Math`, `lib/SimdMath`, Metal bindings, and sample applications, of which
the ray tracer `applications/MetalTracer` is the one with threads of its own.

| Component | State | Operations | What makes it correct |
|---|---|---|---|
| Entity manager (`ECS/ThEntityManager.h`) | slots (index, generation), head of a free list threaded through dead slots, counter | CreateEntity, DestroyEntity, IsAlive | a handle is alive exactly until it is destroyed, however often its slot is recycled; slots are neither lost nor handed out twice |
| Component page (`ECS/ThSparseStructuredStorageBuffer.h`) | a hash table without probing from entity index to a dense array | Set, Get, Has, Remove | an id only reads what was written through it; sets and removes touch one entity |
| Component storage (`ECS/ThSparseStructuredStorage.h`) | a growing list of pages | the same, page by page from the newest | it is a map from ids to components |
| Scene (`ECS/ThScene.h`) | one entity manager, one storage per component type | registration, component access, queries | new entities have no components; registering again loses nothing |
| Event streams and manager (`ECS/ThEventStream.h`, `ThEventManager.h`) | per event type two buffers, a write index, callbacks | Register, Emit, ProcessEvents | each callback gets each event, in order; what it emits does not change what it reads |
| Uid generator (`lib/Core/Util/ThUidGenerator.cpp`) | atomic sequence, atomic last timestamp | GenerateSnowflake | uids are unique; the error result means a clock that went back |
| Ray tracer (`MetalTracer/RayTracer.cpp`) | atomic state, frame counter, film, work items | Init, RenderFrame, row workers, SyncFunc, FrameFetched, ResizeFilm | no worker outlives its frame, frames are whole, rendering does not get stuck |
| Renderer (`MetalTracer/MetalRenderer.mm`) | view size, texture | render, reshape | the texture is never torn |
| World, resource manager | lists of scenes, a uid generator | CreateScene, FindScene | (all scenes share uid 100) |
| Hash containers (`Core/Containers/ThHash.h`, `ThHashMap.h`, `ThHashSet.h`) | a dense item list, bucket chains through it | Insert, operator[], Erase, Find, Clear, Rehash, Reserve | they are maps; chains and list hold the same items |
| Vectors, lists, graphs, delegates (`Core/Containers`) | their elements | container operations | they behave as sequences, ... |
| Reference counting (`Core/Containers/ThRefPtr.h`) | strong count, weak counter | AddRef, Release, Lock | an object is deleted once, after its last owner; a weak pointer can be locked until then |
| Pool and small memory allocators (`lib/Core/Memory`) | free lists in the memory they manage, lists of pools, cached pools | Allocate, Deallocate, Shrink | no block is handed out twice or lost; no freed pool is used |
| Virtual stack allocators (`lib/Core/Memory`) | a reserved range, a position, the next page to commit | Allocate (growing or not), FreeToMarker, Reset | memory in use is committed, and nothing outside the range |
| Other allocators (`lib/Core/Memory`) | positions and free lists | Allocate, Deallocate | the same |
| Logger, dispatch wrappers, strings, hashes | | | |

How they interact: a scene calls the entity manager and its storages directly;
the storages are told nothing when an entity dies.  Event callbacks run inside
ProcessEvents and may call the event manager again.  The event manager and the
scene keep their streams and storages in hash maps, and all containers take
their memory from an allocator.  Every `ThString` and every
resource takes a uid from a generator, from any thread.  The tracer's main
thread shares state, film and work items with dispatch's worker threads.

Hard behaviours: handles recycled many times; data left behind by dead entities;
hash collisions and full pages; items that move while chains and pointers lead
to them; re-entrant emission and registration while buffers grow; free lists
kept in the memory they describe; reference counts without synchronisation;
unsynchronised sequences of accesses to atomics; a view resized while workers
write the film.  `hazards` in `PROJECT.json` lists them at their lines.

## Modules

| Module | Models | Built on |
|---|---|---|
| `EntityHandles` | what the entity manager promises (abstract) | |
| `EntityManager` | ThEntityManager | implements `EntityHandles` |
| `EntityManagerProofs` | theorems about it | `EntityManager` |
| `SparseStorageBuffer` | a page, as functions of a record | |
| `SparseStorage` | the walk over the pages | `SparseStorageBuffer` |
| `ComponentMap` | the map a client expects (abstract) | |
| `ComponentStorage` | one storage in use | `SparseStorage`, implements `ComponentMap` until a fault |
| `ComponentStorageProofs` | theorems about it | `ComponentStorage` |
| `Scene` | ThScene | instances of `EntityManager` and `SparseStorage` |
| `SceneProofs` | theorems about it | `Scene`, instances of `EntityManagerProofs` and `ComponentStorageProofs` |
| `EventStream` | ThEventStream, as functions of a record | |
| `EventManager` | ThEventManager and running callbacks | `EventStream` |
| `EventManagerProofs` | theorems about it | `EventManager` |
| `UidGenerator` | ThUidGenerator, access by access | |
| `UidGeneratorProofs` | theorems about it | `UidGenerator` |
| `FrameSource` | what the tracer promises (abstract) | |
| `RayTracer` | RayTracer and the dispatch it uses | |
| `MetalRenderer` | the application's main thread around it | `RayTracer`, implements `FrameSource` |
| `MetalRendererProofs` | theorems about both | `MetalRenderer` |
| `KeyValueMap` | what a client of the hash containers expects (abstract) | |
| `HashContainer` | ThHashContainerBase, ThHashMap, ThHashSet | implements `KeyValueMap` |
| `HashContainerProofs` | theorems about it | `HashContainer` |
| `PoolAllocator` | ThPoolAllocator, as functions of a record | |
| `SmallMemoryAllocator` | ThSmallMemoryAllocator over ThGrowingPoolAllocator | `PoolAllocator` |
| `RefCounted` | ThRefCounted, ThWeakCounter, ThRefPtr, ThWeakPtr, access by access | |
| `VirtualStack` | ThVirtualStackAllocator, ThVirtualGrowingStackAllocator | |
| `MC...` | the instances TLC checks; `MCMemory` takes `SmallMemoryAllocator`, `VirtualStack` and `RefCounted` in one run | |
| `MemoryProofs` | theorems about these three, and about them together | `MCMemory` |

Variables have the names of the members they model (`m_Entities`, `m_State`).
Variables marked "history" are not in the code: they record what was handed
out, stored, emitted or delivered, so that properties can speak of it, and no
guard reads them except to bound a counter.  Operators marked "Mutant" are what
a plausible bug would make of the definition that follows them; nothing uses
them in the specifications.

### Entity manager

`CreateEntity` has two branches, one action each (`ReuseSlot`, `AppendSlot`), and
so has `DestroyEntity` (`FreeSlot`, `RejectDestroy`).  The generation is a number
modulo `GenerationCount`.  A recycled slot keeps the free-list link in its index
field, as in the code, so a slot alone does not tell whether it is alive.
Clients may destroy any handle they ever got, as often as they like.

`MaxGeneration` bounds how often one slot is destroyed.  Under
`NoWrap == MaxGeneration < GenerationCount` a generation never comes back; the
code has no such guard, and after 65536 destructions of one slot the handles of
its first life are alive again.  Everything about handles holds only until then.

### Component storage

A page has `sparse` (hash cell to position), `dense` (position to id and data)
and `size`.  Removed entries are not erased, and are not erased in the model.
The storage is not the map a client expects, in three situations that are
ordinary legal calls, and `faults` records which of them occurred:

- *swap*: removing an entry that is not the last of its page clears the cell of
  the last entry, which was moved into the hole and cannot be found again
  (run `storage_remove`);
- *bypass*: a full page refuses a set even of an entity it holds, and the set
  goes to a page that is walked later, so that the old value is still found
  (run `storage_set_get`);
- *shadow*: a remove takes the newest copy of an entity and leaves an older one.

A *copy*, a second entry of an entity on a newer page, is harmless by itself.
The abstract `ComponentMap` makes the same calls side by side with the storage
(its state is the history variable `stored`), and `ExactUntilFault` says that
both agree as long as none of the three has happened: nothing else can go
wrong.  `NoForeignData`, `SetIsFound`, `SetIsLocal` and `RemovedIsGone` hold
always.  Not modelled: a page whose memory cannot be allocated, and the size of
entries (a component larger than a page gives a capacity of 0, excluded by
`PageAssumption`).

### Scene

`Scene` composes an instance of `EntityManager` with one storage per component
type.  Destroying an entity leaves its components in place.  The properties ask
whether that can hurt a later entity: the id includes the generation, so it does
not, until a generation wraps.  Registration of a list of types stops at the
first that is registered.  Queries are not modelled: the templates do not compile
when they are instantiated.

### Events

A stream is a record of two buffers with sizes and capacities; `ThVector` grows
to exactly the size it needs, so a push into a full buffer makes `Reserve`
follow.  ProcessEvents is one action per flip, callback call, event read and
return, so that a running callback can emit and register between two reads.
The buffers are never cleared: a stream delivers old events again on every
second ProcessEvents; the properties are about order, stability and loss, which
survive that.

Three vectors can move while they are in use: an emit moves the read buffer, a
registration of a callback on the running stream moves the `std::function` that
is running (`m_Slots` has no spare capacity), and a registration of an event id
moves the items of the hash map under the iterator of ProcessEvents when they are
full.  `dangling` and `adrift` in the frame record it, and the step that goes on
in the memory left behind (`UseFreedMemory`) sets `misused` and ends the model.
Everything else a callback does is safe and is covered by the properties: a
callback registered on a later stream, or a new stream that fits, takes part in
the same ProcessEvents, and gets all that is emitted from then on.

### Hash containers

A table is its items, each with the index of the next in its chain, and its
buckets.  The abstract map is what a walk over the items shows; Insert, Find and
Erase work through the chains, and `ImplementsMap` says that a client sees no
difference.  Erase moves the last item into the hole: of the three chains
involved (two can be one) each is changed in the order of the code.
`ChainsExact` is the invariant behind it.  `Rehash` may be called with fewer
buckets than there are items.  Chains are walked by recursive functions over at
most as many steps as there are items, plus one.  The code divides floats by the
load factor; the model divides numbers, which gives the same for up to 2^22 items.

### Small memory allocator

A pool is its links, the first free chunk and the number of free chunks.  Links
are written as a single byte (`Reset`), so the last one of 256 wraps to 0, and
the upper three bytes are what was in memory; `UpperBytes` are the values these
may have, and `dirty` records that they were not zero.  `fault` means that
memory that is no pool's was used as one, and ends the model.  There is one growing
pool for each size, with the cached pools `m_AllocPool` and `m_DeallocPool`.
Addresses of freed pools are used again.  Clients deallocate only what they own.

### Virtual stacks

A range is its size, `m_NextPage`, the position and the set of pages that can be
accessed.  Decommitting follows mmap, the one of the platform the applications
are written for: `FreeToMarker` passes it the address before the marker, which is
hardly ever the start of a page, and then nothing happens.  The growing stack
takes its old contents to a range of twice the size as one block, and repeats that
until the request fits.  Taking them there again changes nothing but the size, so
the model doubles the size as often as the code does and moves once, and asks of
the second copy, too, whether it can be made.  `marks` are the markers a client may
go back to.  `oversized`, `recalled` and `filled` record the conditions under which
`StackIsBacked` claims less.  Addresses start at 0 in every range: that growing moves everything the
clients point to is not part of the model (see Findings).

### Reference counting

Each thread has pointers of its own to one shared object, as the documentation
allows.  `++` and `--` are a load and a store, a call is a list of steps, and the
steps of all threads interleave; the destructor of the object runs in steps as
well (derived classes, `~ThRefCounted`, `m_Weak`).  `mishap` names the first of
three races: an update lost between load and store, a `Lock` that counts up an
object already being deleted (also from the destructor of its own class), and two
weak counters made for one object.  Until then everything about counts and
lifetimes is exact, in every interleaving.

### Uids

Each access to `m_Sequence` and `m_LastTimestamp` is an action.  A uid is its
timestamp and its sequence number; `Snowflake` is the number made of them, and a
uid counts as repeated when its number has been returned before.  The constant
part is always 0, so a sequence that spills into its field (finding 12) leaves
the numbers distinct: that is `TellsApart`.  Milliseconds
pass by `Tick`, `SetBack` sets the system time back, and a sleep ends after two
milliseconds at the earliest.  Uniqueness holds as long as no two calls overlap
(`raced`) and the sequence numbers of a millisecond are not used up
(`exhausted`): then one thread sleeps, but others continue with repeated
numbers.  Runs `uid_warning` and `uid_backwards` show two log messages that say
what did not happen.

### Ray tracer

`RenderFrame` is one action up to its loop, one per dispatched row and one for
the notification; rows start and finish on workers in any order while it is
still dispatching; `SyncFunc` is two steps, the counter and then the state.  The
main thread is `MetalRenderer`: `render` reads the state up to twice, copies the
film in a step of its own, and resizes it in two.  A film is its number of rows
and, for each, the frame it belongs to.  The view may change size between two
calls of render; it is assumed to have the new size when it says so, which is
how `reshape` uses it.

## Runs

| Run | Instance | Why it is enough |
|---|---|---|
| `entity_manager` | 3 slots, 4 generations | a free list of length 3 in every order, each slot recycled three times, the last generation reached |
| `component_storage` | 2 indices with 2 cells, 3 ids (two of one index), pages of 2, 2 pages, 2 values per id | colliding ids, full pages, copies on two pages, overwriting, every order of removal |
| `storage_set_get`, `storage_remove` | the same | the violations described above |
| `scene` | 2 slots, 2 generations, 2 component types, 2 pages in all | each slot has two owners, storages that collide, registration of pairs |
| `event_manager` | 3 ids, 4 events, 2 callbacks, growth step 2, items that move on the third id | growth happens on the second event, inside and outside callbacks; both buffers are reused; both callbacks on one id or one each; ids registered from callbacks with and without room |
| `uid_generator` | 2 threads, 3 calls each, 2 sequence numbers below a timestamp unit of 2 (the tightest the assumption allows), 1 setback | the sequence is used up by the second uid of a millisecond, calls overlap at every access |
| `uid_warning` | 1 thread, 4 sequence numbers | no overlap is needed |
| `uid_backwards` | 2 threads, no setback | the clock never goes back |
| `metal_renderer` | films of 0, 1 and 3 rows, 2 frames, 2 resizes | rows in all orders, a resize at every point, twice during one frame |
| `hash_container` | 4 keys, 3 of them in one bucket of 4 and 2 in one of 8; 4 buckets at first, 1 to 16 | chains of up to four items, growth by insertion on the fourth item, every order of erasure; reservations of 3 (just full) and 4 |
| `memory` | 2 classes with pools of 3 and 2 chunks, 3 pools in all, a byte of 3 values; 2 threads with up to 2 pointers each; ranges of 4, 8 and 16 bytes with pages of 2, blocks of 0 to 4 | a pool whose last link wraps and one whose does not, one growing pool with two pools, addresses used again; all interleavings of two calls; blocks smaller and larger than a page, two growths in one call |

`CHECK_DEADLOCK FALSE` is set for the uid generator, whose threads stop after
`MaxCalls` calls, and for `memory`, where nothing follows after memory was
misused and threads stop when they have no pointer left.  Symmetry is used for
component types and event ids in runs that check safety only.  Each property of a passing run has a mutant: a
changed definition of the code for which TLC finds the property violated.

Fairness is assumed in one place.  `MetalRenderer!Fairness` has the main thread
go on, because the view calls `render` for every refresh (nothing pauses it),
and has work items and SyncFunc run, because dispatch executes what is enqueued.
With it the tracer implements `FrameSource` including its liveness: every frame
up to `FramesToRender` is rendered, announced and fetched.  Whether it is
*shown* is another matter: `ShownUnlessResized` needs a view that keeps its size.
A frame finished for a view that changed size is dropped but counted, and with
the default of one frame nothing is rendered in its place.

## Proofs

TLAPS checks the following for every value of the constants, from the named
assumptions about them and nothing else.  `theorems` in `PROJECT.json` lists the
results; the modules hold the lemmas.  For each component one inductive invariant
(`IInv`, `RefIInv`, `StackIInv`, `SmallIInv`), stated in named parts, carries
everything.  Most are stated in the module they are about, where TLC can check
them; those of the hash containers and the small memory allocator, which quantify
over numberings of unbounded chains, are stated in the proof modules.

Every invariant and action property that a passing run checks is proved, and
every refinement but for liveness.

Where the model is recursive (chains of a bucket, free lists, powers of two),
the proofs describe what the recursion computes without recursion: by a rank for
each item of a chain, or by a sequence without repetitions.  What ties the two
together is induction in the form of a smallest counterexample
(`Smallest`: a set of numbers that is not empty has a smallest one), because the
library's induction theorems take an operator as a parameter.

**Entity manager** (`EntityManagerProofs`, from `SizesAssumption` and `NoWrap`):
type correctness, `AliveIsExact`, `LiveIndicesDistinct`, `AliveCountExact`,
`FreeListExact`, and `ImplementsHandles` (the refinement).  None is inductive
alone.  `IInv` adds that a live handle is the one its slot stores, that a
retired handle is older than what its slot stores (which needs generations that
grow, hence `NoWrap` and `GenerationsBounded`), and that the free list is
threaded through exactly the dead slots.  The last part is what makes reuse safe:
the head of the list is a slot without a live handle.

**Component storage** (`ComponentStorageProofs`, from `PageAssumption` and
`StorageAssumption`): type correctness, which includes that every position stored
in a cell lies inside its page; `NoForeignData`; `ExactUntilFault`, the map
refinement; `CountExactUntilFault`; and the action properties `SetIsFound`,
`SetIsLocal`, `RemovedIsGone`.
`IInv` says of each page that the first `size` entries, and every entry that any
cell points to, hold data of their own entity, because a removal leaves cells that
point to the wrong entries, even beyond `size`, and moves entries.  That settles
`NoForeignData` but not `RemovedIsGone` and `SetIsLocal`, for which a cell left
behind must not come to lead to an entry again when another is moved or added:
`PageLinked` says where such cells can be.  `ProperInside` (a cell whose entry has
its hash leads to an entry that counts) is what is wanted; it is inductive only
with `LinkedToLast` (no cell leads to an entry before another of its hash) and
`AbandonedBehind` (an entry that a stray cell could be given back lies behind).
TLC found, on pages of five entries, that the other two are not inductive without
`LinkedToLast`.  `ExactUntilFault` follows from conditions on the cells before and after
each call, with one lemma per operation saying that it writes a single page.
`CountExactUntilFault` is inductive together with `ExactUntilFault` and `IInv`
(`CountInv` adds that the sets compared are finite).  `ComponentsCount` is stated
as the number of positions below `m_Size` on all pages, which is the sum the code
adds up.

**Scene** (`SceneProofs`, from `SceneAssumption`, and `NoWrap` for all but the
first): every behaviour of the scene is one of its entity manager
(`SceneRunsManager`), so the manager's theorems hold in it; type correctness,
`NoInheritedComponent`, `FreshEntityIsBare`, `RegistrationKeepsComponents`.
`IInv` is the manager's and, for each storage, that its entries are of ids that
were handed out.  A new id is none of these, which is the whole of
`FreshEntityIsBare`.  The lemmas about pages are those of `ComponentStorageProofs`,
reached through an instance.

**Events** (`EventManagerProofs`, from `BoundsAssumption`): type correctness,
`BatchInOrder`, `NothingLost`, `BatchIsStable`.  The read buffer holds what was
emitted before the last flip, in order, and the write buffer all that was emitted
since (`StreamsExact`); the events that a callback has got are the first of its
batch (`FrameExact`); and an event emitted between the registration and the last
flip either was given to the callback, or is in the batch and still before it
(`GivenOrAwaited`).  The first part says no more because the
buffers are never cleared: events already given stay in them.

**Uids** (`UidGeneratorProofs`, from `UidAssumption`): `TellsApart`, races
included, from type correctness and an assumption about the constants, that a
masked sequence lies below the timestamp (in the code 2^15 and 2^22);
`UniqueUntilRace`, `LastIsNewestUntilRace`, `FailsOnlyAfterSetback`, for any number
of threads.  Until two calls overlap, one is under way at a time (`Alone`), so what
it has read of `m_LastTimestamp` (`InOrder`) and `m_Sequence` (`Numbered`) still
holds when it uses it.  Uniqueness needs that the numbers given in the newest
millisecond are 0 and some below the next one (`NextIsFresh`), except between
`m_Sequence = 0` and the store of the new millisecond.

**Tracer and renderer** (`MetalRendererProofs`, from `RayTracerAssumption` and
`MetalRendererAssumption`): type correctness, `NoStrayWorker`, `TextureIsWhole`, and
the safety part of `ImplementsFrameSource`: each step of the main thread, a
worker or SyncFunc is a step of `FrameSource` or leaves its variables alone.
`PhaseExact` ties the program counter of the main thread to the state and to the
progress of SyncFunc; `RowsAccounted` says that each row of the frame is still to
be dispatched, with the workers, or rendered, so that all of them are rendered
when SyncFunc runs; `CopyFits` that the texture has the size of the film copied.

**Hash containers** (`HashContainerProofs`, from `HashAssumption`): type
correctness, `ChainsExact`, `ReserveSuffices` and the refinement `ImplementsMap`, for
any keys, hashes, values and sizes.  `IInv` says that no key has two items, that the
items of each bucket have ranks (`Chained`: the first has rank 1, the next one of an
item the rank after, no two have the same), that the number of buckets is a power
of two, and that it is enough for the room reserved.  (On the instance of
`hash_container`, with ranks up to the number of items, TLC finds no state that
violates it.)  Chains change in three ways:
an item is put behind the last one of its bucket (`PutLast`), taken out (`TakeOut`),
or gets the index of another (`Renamed`); each gives ranks again.  `WalkExact` says
that the m-th step of a walk reaches the item of rank m, hence that Find finds what
is there (`FindExact`) and a walk ends within as many steps as there are items
(`RanksBounded`).  Erase is `TakeOut`, then `Renamed` for the last item; Rehash is
`PutLast` for each item, from no chains at all.  For `ReserveSuffices` it matters
that the number of buckets asked for is a multiple of four: a third of it is cut off
by n / 0.75, and three quarters of the rest still hold n items (`RoomForReserved`).

**Small memory allocator** (`MemoryProofs`, from `MemoryAssumption` and
`NullAssumption`): type correctness, `BlocksExact` and `SafeUntilShrink`, for any block
sizes and any number of pools and blocks.  `SmallIInv` describes the free list of
each pool as a sequence of chunks that no client owns, each once, in which each
links to the next: all of them in zeroed memory, or as far as the first link that
leaves the pool (`Intact`).  There is a pool exactly at the addresses in the lists
of the growing pools (`Structured`), every block owned lies in one of them
(`Accounted`), and the cached pools are in those lists until Shrink frees one of them
(`CachedPools`).

**Reference counts** (`MemoryProofs`, from `RefAssumption`): type correctness,
`OwnedIsAlive`, `CountsExactBetweenCalls`, for any number of threads with any
number of pointers.  Until one of the three races, each count is the number of
pointers, plus the calls that have given up a pointer and not yet counted down
(`CountsExact`); one thread at most is deleting the object (`LivesExact`); and each
call still has what it started from (`CallExact`).

**Virtual stacks** (`MemoryProofs`, from `StackAssumption`): type correctness
and `StackIsBacked`.  Pages are committed without a gap up to `m_NextPage`, and the
position is not past it (`Backed`), until a block larger than a page or pages given
back end that; a block of at most a page then moves the position past at most
the one page that Allocate commits.

The behaviours of `MCMemory` are those of one of its three parts while the others
stand still, so the three invariants hold together (`MemoryTypeCorrect`).

Only checked by TLC:

- liveness: `ShownUnlessResized` and the liveness part of `ImplementsFrameSource`,
  which depend on fairness and ENABLED;
- the violations, which are counterexamples.

## Findings

1. `ThSparseStructuredStorageBuffer.h:117`: a full page refuses to overwrite.
2. `ThSparseStructuredStorageBuffer.h:176`: the swap on removal writes the two
   cells the wrong way round.
3. `ThUidGenerator.cpp:40`: the second uid of a millisecond warns and sleeps.
4. `ThUidGenerator.cpp:31`: overlapping calls report a clock going backwards.
5. `ThGrowingPoolAllocator.cpp:166`: Shrink frees pools that cached pointers still
   point to; the next call reads freed memory.
6. `ThSmallMemoryAllocator.cpp:31`: pools are chosen one size too large, and the
   largest size has none.
7. `ThPoolAllocator.cpp:50`: the check for a double deallocation fails a legal one
   in a full pool of 256 chunks.
8. `ThRefPtr.h:402`: the count documented as thread safe is not.
9. `ThVirtualStackAllocator.cpp:43`: one page is committed for a block of any size,
   and one behind the range when it is filled to its end.
10. `ThVirtualStackAllocator.cpp:109`: after Reset nobody commits the pages again.
11. `ThVirtualGrowingStackAllocator.cpp:28`: growing copies into pages that are not
    committed, and frees memory clients point to.
12. `ThUidGenerator.cpp:13`: `m_SequenceMask` is 0x7FFF, 15 bits, while
   `m_SequenceBits` (line 12) gives the sequence 14 of them: 0x4000 to 0x7FFF spill
   into the field of `m_Constant` (line 56).  Only because `m_Constant` is always 0
   are no two numbers equal for it.

Findings 1 to 4 are runs that end in a violation.  Findings 5 to 11 were
met while modelling and show in the conditions under which the properties of run
`memory` hold; finding 12 shows in the constants of `UidGenerator`, and no
property is violated by it.  Two more of no consequence: a small memory allocator warns that a pointer is not
inside its memory after it has deallocated it (`ThSmallMemoryAllocator.cpp:61`,
the loop has no return), and one `mutable` counter per object is made without
synchronisation (`ThRefPtr.h:423`).

## Plan

Done: the modules above.  Next, in this order:

1. The virtual pool allocator, whose free list is written byte by byte
   (`ThVirtualPoolAllocator.cpp`, AllocatePage) like that of the pools, for chunk
   numbers that exceed a byte from the second page on.
2. ProcessEvents called from a callback, and weak pointers that are copied.

## Not modelled

World and resource manager (nothing beyond what the table says), logger and
asserts (output), dispatch wrappers (one call each; the tracer's use of them is
in `RayTracer`), strings and hash functions (pure functions of bytes; the
storages and hash containers take the hash as a parameter), mathematics, Metal
bindings, samples, imports, the older `lib/Engine`.  Scene queries,
`UnregisterCallback`, `ThHashContainerBase::ShrinkToFit` and the const `operator[]`
of `ThHashMap` do not compile when instantiated.  Swaps and copies of containers
are plain copies of members.  Delegates, lists, queues and graphs have no user
among the components modelled.  Pointers that one thread hands to another while
both use them are outside what `ThRefPtr` documents.  Ray tracing proper and the
random numbers its rows share are left out.
