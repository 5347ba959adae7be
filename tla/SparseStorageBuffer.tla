------------------------ MODULE SparseStorageBuffer ------------------------
(***************************************************************************)
(* ThSparseStructuredStorageBuffer: one page of component data.  A page is *)
(* a fixed hash table without probing: sparse maps the hash of an entity   *)
(* index to a position of the dense part, which holds entity ids and       *)
(* component data side by side.  The operators are the member functions,   *)
(* as functions of the page record                                         *)
(*   sparse : Cell -> position or ThEntitySparseNull                       *)
(*   dense  : position -> [entity, data]     (m_EntitiesDense and          *)
(*                                            m_ComponentData)             *)
(*   size   : m_Size                                                       *)
(* Entries of dense at size and beyond are not erased, as in the buffer.   *)
(***************************************************************************)
EXTENDS Integers

CONSTANTS
  Entity,              \* entity ids: records with a field "index"
  Data,                \* component data
  Capacity,            \* m_Capacity, entries of a page
  HashInt32,           \* entity index -> Cell: the hash, reduced modulo Capacity
  ThEntitySparseNull,
  ZeroEntry            \* what the zeroed buffer holds, read as an entry

Cell  == 0 .. Capacity - 1
Entry == [entity : Entity, data : Data]

(***************************************************************************)
(* Capacity is the page size over the entry size: a component larger than  *)
(* a page would make it 0.                                                 *)
(***************************************************************************)
ASSUME PageAssumption ==
  /\ Capacity \in Nat \ {0}
  /\ ThEntitySparseNull \notin Cell
  /\ \A e \in Entity : HashInt32[e.index] \in Cell
  /\ ZeroEntry \in Entry

Page == [sparse : [Cell -> Cell \union {ThEntitySparseNull}],
         dense  : [Cell -> Entry],
         size   : 0 .. Capacity]

NewPage == [sparse |-> [c \in Cell |-> ThEntitySparseNull],
            dense  |-> [k \in Cell |-> ZeroEntry],
            size   |-> 0]

(* HashEntityIndex: the generation of the id plays no part. *)
HashEntityIndex(e) == HashInt32[e.index]

PositionOf(page, e) == page.sparse[HashEntityIndex(e)]

(* Mutant: any entity of the cell is taken for e. *)
PageHasEntityOfCell(page, e) == PositionOf(page, e) # ThEntitySparseNull

(* Mutant: the generation is not compared. *)
PageHasEntityOfIndex(page, e) ==
  /\ PositionOf(page, e) # ThEntitySparseNull
  /\ page.dense[PositionOf(page, e)].entity.index = e.index

PageHasEntity(page, e) ==
  /\ PositionOf(page, e) # ThEntitySparseNull
  /\ page.dense[PositionOf(page, e)].entity = e

(* GetComponent and GetComponentNoCopy, when PageHasEntity(page, e) *)
PageGetComponent(page, e) == page.dense[PositionOf(page, e)].data

(* Mutant: the cell of another entity is taken over. *)
PageAcceptsAnyCell(page, e) == page.size < Capacity

(***************************************************************************)
(* SetComponent: PageAccepts is its result; the page is unchanged when     *)
(* false.  A full page refuses before it looks for the entity.             *)
(***************************************************************************)
PageAccepts(page, e) ==
  /\ page.size < Capacity
  /\ PositionOf(page, e) = ThEntitySparseNull \/ PageHasEntity(page, e)

Overwrite(page, e, d) == [page EXCEPT !.dense[PositionOf(page, e)].data = d]

(* Mutant: m_Size is incremented before it is used. *)
AddEntryAfterIncrement(page, e, d) ==
  [page EXCEPT !.sparse[HashEntityIndex(e)] = page.size + 1,
               !.dense[page.size + 1] = [entity |-> e, data |-> d],
               !.size = @ + 1]

(* Mutant: the cell is not written. *)
AddEntryUnlinked(page, e, d) ==
  [page EXCEPT !.dense[page.size] = [entity |-> e, data |-> d],
               !.size = @ + 1]

AddEntry(page, e, d) ==
  [page EXCEPT !.sparse[HashEntityIndex(e)] = page.size,
               !.dense[page.size] = [entity |-> e, data |-> d],
               !.size = @ + 1]

PageSetComponent(page, e, d) ==
  IF PageHasEntity(page, e) THEN Overwrite(page, e, d) ELSE AddEntry(page, e, d)

(***************************************************************************)
(* RemoveComponent: PageRemoves is its result.  The last entry is moved    *)
(* into the hole; the two cells are then written the wrong way round: the  *)
(* cell of the removed entity gets the position of the last entry, and the *)
(* cell of the last entity, whose entry is now in the hole, is cleared.    *)
(***************************************************************************)
PageRemoves(page, e) == page.size # 0 /\ PageHasEntity(page, e)

LastEntry(page) == page.dense[page.size - 1]

(* Mutant: m_Size is not decremented. *)
PageRemoveKeepingSize(page, e) ==
  LET last == LastEntry(page).entity
  IN  [page EXCEPT !.sparse = [@ EXCEPT ![HashEntityIndex(e)] = PositionOf(page, last),
                                        ![HashEntityIndex(last)] = ThEntitySparseNull],
                   !.dense[PositionOf(page, e)] = LastEntry(page)]

(* Mutant: the cells are not written. *)
PageRemoveKeepingCells(page, e) ==
  [page EXCEPT !.dense[PositionOf(page, e)] = LastEntry(page), !.size = @ - 1]

PageRemoveComponent(page, e) ==
  LET last == LastEntry(page).entity
  IN  [page EXCEPT !.sparse = [@ EXCEPT ![HashEntityIndex(e)] = PositionOf(page, last),
                                        ![HashEntityIndex(last)] = ThEntitySparseNull],
                   !.dense[PositionOf(page, e)] = LastEntry(page),
                   !.size = @ - 1]

(***************************************************************************)
(* The entries of a page that count, the first m_Size, and any entry a     *)
(* cell leads to, even one beyond m_Size, are in a set: what proofs about  *)
(* the contents of pages maintain.                                         *)
(***************************************************************************)
Stores(page, entries) ==
  /\ \A k \in 0 .. page.size - 1 : page.dense[k] \in entries
  /\ \A c \in Cell : page.sparse[c] # ThEntitySparseNull => page.dense[page.sparse[c]] \in entries

=============================================================================
