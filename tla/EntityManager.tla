--------------------------- MODULE EntityManager ---------------------------
(***************************************************************************)
(* ThEntityManager (include/Thor/ECS/ThEntityManager.h): generational      *)
(* entity handles.  A handle is an index into m_Entities and the           *)
(* generation of that slot.  Destroying an entity bumps the generation     *)
(* stored in its slot and threads the slot onto a LIFO free list that      *)
(* lives in the index field of the dead slots; m_LastFreeSlot is its head. *)
(* A slot taken off the list keeps that link: a live recycled slot does    *)
(* not hold its own index.                                                 *)
(***************************************************************************)
EXTENDS Integers, Sequences, FiniteSets

CONSTANTS
  ThEntityNull,     \* the null index, and the number of valid ones (0xFFFFFFFF in the code)
  GenerationCount,  \* values of a ThEntityGeneration (2^16 in the code)
  MaxGeneration     \* bound: a slot is destroyed only while its generation is below this

ASSUME SizesAssumption ==
  /\ ThEntityNull \in Nat \ {0}
  /\ GenerationCount \in Nat \ {0}
  /\ MaxGeneration \in Nat

(***************************************************************************)
(* No slot is destroyed GenerationCount times, so its generation never     *)
(* comes back to an earlier value.  Nothing in the code prevents that.     *)
(***************************************************************************)
NoWrap == MaxGeneration < GenerationCount

VARIABLES
  m_Entities,           \* the slots: 0 .. size-1 -> [index, generation]
  m_LastFreeSlot,       \* head of the free list or ThEntityNull
  m_NumAliveEntities,
  live,                 \* history: handles returned by CreateEntity, not destroyed since
  retired,              \* history: handles for which DestroyEntity returned true
  freed                 \* history: the dead slots, the one freed last at the end

vars == <<m_Entities, m_LastFreeSlot, m_NumAliveEntities, live, retired, freed>>

Index      == 0 .. ThEntityNull - 1
Generation == 0 .. GenerationCount - 1

(* A ThEntityId: the handles given to clients, and what a slot stores. *)
Handle == [index : Index, generation : Generation]
Slot   == [index : Index \union {ThEntityNull}, generation : Generation]

CreateEntityId(i, g) == [index |-> i, generation |-> g]

(* m_Entities.Size() *)
Slots == DOMAIN m_Entities
Size  == Cardinality(Slots)

(* Mutant: the generation is not bumped. *)
NextGenerationKept(g) == g

NextGeneration(g) == (g + 1) % GenerationCount

-----------------------------------------------------------------------------

Init ==
  /\ m_Entities = [i \in {} |-> CreateEntityId(ThEntityNull, 0)]
  /\ m_LastFreeSlot = ThEntityNull
  /\ m_NumAliveEntities = 0
  /\ live = {}
  /\ retired = {}
  /\ freed = << >>

(* Mutant: the handle is returned with the index that links the free list. *)
ReuseSlotAsStored ==
  /\ m_LastFreeSlot # ThEntityNull
  /\ LET slot == m_Entities[m_LastFreeSlot]
     IN  m_LastFreeSlot' = slot.index /\ live' = live \union {slot}
  /\ m_NumAliveEntities' = m_NumAliveEntities + 1
  /\ freed' = SubSeq(freed, 1, Len(freed) - 1)
  /\ UNCHANGED <<m_Entities, retired>>

(* Mutant: a reused slot is not counted. *)
ReuseSlotUncounted ==
  /\ m_LastFreeSlot # ThEntityNull
  /\ LET slot == m_Entities[m_LastFreeSlot]
     IN  /\ m_LastFreeSlot' = slot.index
         /\ live' = live \union {CreateEntityId(m_LastFreeSlot, slot.generation)}
  /\ freed' = SubSeq(freed, 1, Len(freed) - 1)
  /\ UNCHANGED <<m_Entities, m_NumAliveEntities, retired>>

(* CreateEntity, m_LastFreeSlot # ThEntityNull: pop the free list. *)
ReuseSlot ==
  /\ m_LastFreeSlot # ThEntityNull
  /\ LET slot == m_Entities[m_LastFreeSlot]
     IN  /\ m_LastFreeSlot' = slot.index
         /\ live' = live \union {CreateEntityId(m_LastFreeSlot, slot.generation)}
  /\ m_NumAliveEntities' = m_NumAliveEntities + 1
  /\ freed' = SubSeq(freed, 1, Len(freed) - 1)
  /\ UNCHANGED <<m_Entities, retired>>

(* CreateEntity, no free slot: append one of generation 0. *)
AppendSlot ==
  /\ m_LastFreeSlot = ThEntityNull
  /\ \E n \in Index :
       /\ Slots = 0 .. n - 1
       /\ m_Entities' = [i \in 0 .. n |-> IF i = n THEN CreateEntityId(n, 0) ELSE m_Entities[i]]
       /\ live' = live \union {CreateEntityId(n, 0)}
  /\ m_NumAliveEntities' = m_NumAliveEntities + 1
  /\ UNCHANGED <<m_LastFreeSlot, retired, freed>>

CreateEntity == ReuseSlot \/ AppendSlot

(* Mutant: any generation of the slot is alive. *)
IsAliveAnyGeneration(h) == h.index \in Slots

(* IsAlive: the slot exists and stores the generation of the handle. *)
IsAlive(h) == h.index \in Slots /\ m_Entities[h.index].generation = h.generation

(* Mutant: the freed slot does not link the rest of the free list. *)
FreeSlotUnlinked(h) ==
  /\ IsAlive(h)
  /\ h.generation < MaxGeneration
  /\ m_Entities' = [m_Entities EXCEPT ![h.index] =
                      CreateEntityId(ThEntityNull, NextGeneration(h.generation))]
  /\ m_LastFreeSlot' = h.index
  /\ m_NumAliveEntities' = m_NumAliveEntities - 1
  /\ live' = live \ {h}
  /\ retired' = retired \union {h}
  /\ freed' = Append(freed, h.index)

(* DestroyEntity returning true: free the slot under the next generation. *)
FreeSlot(h) ==
  /\ IsAlive(h)
  /\ h.generation < MaxGeneration
  /\ m_Entities' = [m_Entities EXCEPT ![h.index] =
                      CreateEntityId(m_LastFreeSlot, NextGeneration(h.generation))]
  /\ m_LastFreeSlot' = h.index
  /\ m_NumAliveEntities' = m_NumAliveEntities - 1
  /\ live' = live \ {h}
  /\ retired' = retired \union {h}
  /\ freed' = Append(freed, h.index)

(* DestroyEntity returning false: nothing changes. *)
RejectDestroy(h) ==
  /\ ~ IsAlive(h)
  /\ UNCHANGED vars

DestroyEntity(h) == FreeSlot(h) \/ RejectDestroy(h)

(***************************************************************************)
(* A client may destroy any handle it was ever given, however often.       *)
(***************************************************************************)
Next ==
  \/ CreateEntity
  \/ \E h \in live \union retired : DestroyEntity(h)

Spec == Init /\ [][Next]_vars

-----------------------------------------------------------------------------

(***************************************************************************)
(* Types: the slots are numbered without gaps, and a generation or an      *)
(* index in a slot or in a handle is in range.                             *)
(***************************************************************************)
TypeOK ==
  /\ \E n \in 0 .. ThEntityNull : m_Entities \in [0 .. n - 1 -> Slot]
  /\ m_LastFreeSlot \in Index \union {ThEntityNull}
  /\ m_NumAliveEntities \in Int
  /\ live \subseteq Handle
  /\ retired \subseteq Handle
  /\ freed \in Seq(Index)

(***************************************************************************)
(* Safety of the handles: IsAlive, which is what DestroyEntity trusts,     *)
(* answers for every handle a client still has exactly whether it was      *)
(* destroyed, also after its slot was recycled any number of times.        *)
(***************************************************************************)
AliveIsExact == \A h \in live \union retired : IsAlive(h) <=> h \in live \ retired

(***************************************************************************)
(* No two live entities share an index: CreateEntity never returns the     *)
(* slot of an entity that is alive.                                        *)
(***************************************************************************)
LiveIndicesDistinct == \A g, h \in live : g.index = h.index => g = h

(***************************************************************************)
(* GetNumAliveEntities counts the live handles, so the destruction of a    *)
(* stale handle is never counted.                                          *)
(***************************************************************************)
AliveCountExact == m_NumAliveEntities = Cardinality(live)

(* What the slot freed k-th links: the one freed before it. *)
Link(k) == IF k = 0 THEN ThEntityNull ELSE freed[k]

(* The dead slots in the reverse order of their destruction form the list. *)
FreeListThreaded ==
  /\ m_LastFreeSlot = Link(Len(freed))
  /\ \A k \in 1 .. Len(freed) :
       freed[k] \in Slots /\ m_Entities[freed[k]].index = Link(k - 1)
  /\ \A j, k \in 1 .. Len(freed) : freed[j] = freed[k] => j = k

(***************************************************************************)
(* The free list threaded through the dead slots is exactly the slots      *)
(* without a live entity, each once, in the reverse order of their         *)
(* destruction, and ends in ThEntityNull: CreateEntity reuses the slot     *)
(* freed last and never loses one.                                         *)
(***************************************************************************)
FreeListExact ==
  /\ FreeListThreaded
  /\ \A i \in Slots :
       (\E k \in 1 .. Len(freed) : freed[k] = i) <=> ~ \E h \in live : h.index = i

(***************************************************************************)
(* The strengthening that is inductive when no generation wraps: a live    *)
(* handle is the one its slot stores, a retired one is older than what its *)
(* slot stores.                                                            *)
(***************************************************************************)
LiveStored ==
  \A h \in live : h.index \in Slots /\ m_Entities[h.index].generation = h.generation

RetiredOlder ==
  \A h \in retired : h.index \in Slots /\ h.generation < m_Entities[h.index].generation

GenerationsBounded == \A i \in Slots : m_Entities[i].generation <= MaxGeneration

IInv ==
  /\ TypeOK
  /\ LiveStored
  /\ RetiredOlder
  /\ GenerationsBounded
  /\ FreeListExact
  /\ IsFiniteSet(live) /\ AliveCountExact

Handles == INSTANCE EntityHandles

(***************************************************************************)
(* The manager implements the abstract handles: CreateEntity returns a     *)
(* handle that was never returned before and whose index no live entity    *)
(* has, and DestroyEntity takes effect on live handles only.               *)
(***************************************************************************)
ImplementsHandles == Handles!Spec

=============================================================================
