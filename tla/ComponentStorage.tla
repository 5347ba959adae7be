-------------------------- MODULE ComponentStorage --------------------------
(***************************************************************************)
(* One ThSparseStructuredStorage in use: clients set and remove the        *)
(* component of any entity id, in any order.                               *)
(*                                                                         *)
(* The storage is a map only as long as none of four things happened.      *)
(* Each is an ordinary legal call; the history variable "faults" records   *)
(* which have occurred:                                                    *)
(*   swap    RemoveComponent moved another entity's entry into the hole    *)
(*   bypass  SetComponent stored on a page before one that holds the       *)
(*           entity, because that page was full                            *)
(*   shadow  RemoveComponent removed a copy and left another               *)
(*   copy    SetComponent stored a second copy of an entity it had         *)
(* A copy alone is harmless to the map; the other three are not.           *)
(***************************************************************************)
EXTENDS SparseStorage

CONSTANTS
  NoData,       \* no component
  MaxPages      \* bound on the number of pages

ASSUME StorageAssumption == NoData \notin Data /\ MaxPages \in Nat

VARIABLES
  m_Pages,
  stored,       \* history: the map the client expects, see ComponentMap
  faults        \* history: see above

vars == <<m_Pages, stored, faults>>

(* The abstract map, which makes the client's calls side by side with the storage. *)
Map == INSTANCE ComponentMap WITH component <- stored

HasEntity(e)    == StorageHasEntity(m_Pages, e)
GetComponent(e) == IF HasEntity(e) THEN StorageGetComponent(m_Pages, e) ELSE NoData

Contents == [e \in Entity |-> GetComponent(e)]

-----------------------------------------------------------------------------

SetFaults(e) ==
  LET target == TargetPage(m_Pages, e)
  IN  {f \in {"bypass", "copy"} :
         \/ f = "bypass" /\ \E p \in Holding(m_Pages, e) : p > target
         \/ f = "copy" /\ HasEntity(e) /\ target \notin Holding(m_Pages, e)}

RemoveFaults(e) ==
  LET page == m_Pages[Max(Removing(m_Pages, e))]
  IN  {f \in {"swap", "shadow"} :
         \/ f = "swap" /\ PositionOf(page, e) # page.size - 1
         \/ f = "shadow" /\ Holding(m_Pages, e) # {Max(Removing(m_Pages, e))}}

Init ==
  /\ m_Pages = << >>
  /\ Map!Init
  /\ faults = {}

SetComponent(e, d) ==
  /\ TargetPage(m_Pages, e) <= MaxPages
  /\ m_Pages' = StorageSetComponent(m_Pages, e, d)
  /\ Map!Set(e, d)
  /\ faults' = faults \union SetFaults(e)

(* RemoveComponent returning true *)
RemoveComponent(e) ==
  /\ Removing(m_Pages, e) # {}
  /\ m_Pages' = StorageRemoveComponent(m_Pages, e)
  /\ Map!Remove(e)
  /\ faults' = faults \union RemoveFaults(e)

(***************************************************************************)
(* Every component carries its owner: data set for one entity differs from *)
(* data set for another.                                                   *)
(***************************************************************************)
DataOf(e) == {d \in Data : d.owner = e}

Next ==
  \E e \in Entity :
    \/ \E d \in DataOf(e) : SetComponent(e, d)
    \/ RemoveComponent(e)

Spec == Init /\ [][Next]_vars

-----------------------------------------------------------------------------

(***************************************************************************)
(* Types, and with them memory safety of the page accesses: every position *)
(* in a sparse cell is inside the page, and no page is over-filled.        *)
(***************************************************************************)
TypeOK ==
  /\ m_Pages \in Seq(Page)
  /\ stored \in [Entity -> Data \union {NoData}]
  /\ faults \subseteq {"swap", "bypass", "shadow", "copy"}

(***************************************************************************)
(* A component read through an entity id was written through that same id: *)
(* whatever the order of calls, cells that point to the wrong entry never  *)
(* leak another entity's data, not even that of an earlier generation of   *)
(* the same index.                                                         *)
(***************************************************************************)
NoForeignData == \A e \in Entity : HasEntity(e) => GetComponent(e).owner = e

(***************************************************************************)
(* What makes NoForeignData inductive: every entry that counts or that a   *)
(* cell leads to holds the data of its own entity.                         *)
(***************************************************************************)
Owned == {entry \in Entry : entry.data.owner = entry.entity}

(***************************************************************************)
(* What makes the action properties inductive.  RemoveComponent leaves     *)
(* cells that point to another entity's entry, or at or beyond m_Size,     *)
(* where the next entry will be written; such a cell must never come to    *)
(* lead to its own entity.  A cell is proper when it leads to an entry of  *)
(* its own hash.                                                           *)
(***************************************************************************)
HashAt(page, k) == HashEntityIndex(page.dense[k].entity)

Linked(page, c) == page.sparse[c] # ThEntitySparseNull

Proper(page, c) == Linked(page, c) /\ HashAt(page, page.sparse[c]) = c

(* A cell that is proper leads to an entry that counts. *)
ProperInside(page) == \A c \in Cell : Proper(page, c) => page.sparse[c] < page.size

(* A cell is never linked to an entry before another one of its hash. *)
LinkedToLast(page) ==
  \A j \in 0 .. page.size - 1 :
    Linked(page, HashAt(page, j)) => j <= page.sparse[HashAt(page, j)]

(***************************************************************************)
(* When an entry's cell points beyond m_Size, to what was an entry of      *)
(* another hash, and the cell of that hash is proper, then it leads to a   *)
(* later entry: moving the former into the place of the latter would give  *)
(* the latter's cell its own, abandoned entry back.                        *)
(***************************************************************************)
AbandonedBehind(page) ==
  \A j \in 0 .. page.size - 1 :
    LET stray == page.sparse[HashAt(page, j)]
    IN  Linked(page, HashAt(page, j)) /\ stray >= page.size /\ Proper(page, HashAt(page, stray))
          => j < page.sparse[HashAt(page, stray)]

PageLinked(page) == ProperInside(page) /\ LinkedToLast(page) /\ AbandonedBehind(page)

IInv ==
  /\ TypeOK
  /\ \A p \in DOMAIN m_Pages : Stores(m_Pages[p], Owned) /\ PageLinked(m_Pages[p])

(***************************************************************************)
(* Until one of swap, bypass and shadow occurs, the storage implements the *)
(* map the client expects: after the same calls both answer the same for   *)
(* every entity.  With copies of an entity on several pages, the newest is *)
(* the one found.                                                          *)
(***************************************************************************)
ExactUntilFault == faults \subseteq {"copy"} => Contents = stored

StoredEntities == {e \in Entity : stored[e] # NoData}

(***************************************************************************)
(* Until any fault, the dense parts hold every stored component once, so   *)
(* that ComponentsCount is the number of entities that have the component. *)
(***************************************************************************)
CountExactUntilFault ==
  faults = {} => ComponentsCount(m_Pages) = Cardinality(StoredEntities)

(***************************************************************************)
(* A component that was set is there: SetComponent, which reports nothing, *)
(* always finds or makes room for it.                                      *)
(***************************************************************************)
SetIsFound ==
  [][\A e \in Entity : stored'[e] # stored[e] /\ stored'[e] # NoData => HasEntity(e)']_vars

(***************************************************************************)
(* RemoveComponent disturbs nothing on the removed entity's side either:   *)
(* an entity that had a single copy is no longer found.                    *)
(***************************************************************************)
RemovedIsGone ==
  [][\A e \in Entity :
       stored'[e] # stored[e] /\ stored'[e] = NoData /\ Cardinality(Holding(m_Pages, e)) = 1
         => ~ HasEntity(e)']_vars

(***************************************************************************)
(* SetComponent disturbs no other entity, faults or not.                   *)
(***************************************************************************)
SetIsLocal ==
  [][\A e \in Entity :
       stored'[e] # stored[e] /\ stored'[e] # NoData =>
         \A x \in Entity \ {e} : GetComponent(x)' = GetComponent(x)]_vars

-----------------------------------------------------------------------------

(***************************************************************************)
(* "SetComponent properly blitted data" (tests/Experiments/TestECS.cpp):   *)
(* after SetComponent, GetComponent returns what was set.                  *)
(***************************************************************************)
SetThenGet ==
  [][\A e \in Entity : stored'[e] # stored[e] /\ stored'[e] # NoData
                         => GetComponent(e)' = stored'[e]]_vars

(***************************************************************************)
(* "Swap with last" (ThSparseStructuredStorageBuffer.h): RemoveComponent   *)
(* moves the last entry, it does not lose it.                              *)
(***************************************************************************)
RemoveIsLocal ==
  [][\A e \in Entity :
       stored'[e] # stored[e] /\ stored'[e] = NoData =>
         \A x \in Entity \ {e} : HasEntity(x) => HasEntity(x)']_vars

=============================================================================
