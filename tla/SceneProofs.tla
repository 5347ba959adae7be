---------------------------- MODULE SceneProofs ----------------------------
(***************************************************************************)
(* Proofs about Scene for every number of entities, component types and    *)
(* pages.  They rest on what is proved about the entity manager and about  *)
(* the storages: the scene's instances of those modules and the instances  *)
(* of their proofs define the same formulas.                               *)
(***************************************************************************)
EXTENDS Scene, TLAPS

ManagerProofs == INSTANCE EntityManagerProofs

(* Only the lemmas about pages are used, which mention no variable. *)
StorageProofs == INSTANCE ComponentStorageProofs
  WITH Entity <- Manager!Handle, NoData <- NoStorage,
       m_Pages <- << >>, stored <- << >>, faults <- {}

-----------------------------------------------------------------------------

(***************************************************************************)
(* The manager of the scene is the one proved about.                       *)
(***************************************************************************)
LEMMA SameManagerAssumptions ==
  /\ ManagerProofs!SizesAssumption
  /\ ManagerProofs!NoWrap <=> Manager!NoWrap
PROOF
  BY SceneAssumption
  DEF Manager!SizesAssumption, ManagerProofs!SizesAssumption,
      Manager!NoWrap, ManagerProofs!NoWrap

LEMMA SameManagerNext ==
  /\ ManagerProofs!Init <=> Manager!Init
  /\ ManagerProofs!Next <=> Manager!Next
  /\ ManagerProofs!vars = managerVars
  /\ Manager!vars = managerVars
PROOF
  BY DEF
  Manager!Init, ManagerProofs!Init, Manager!Next, ManagerProofs!Next,
  Manager!CreateEntity, ManagerProofs!CreateEntity, Manager!ReuseSlot, ManagerProofs!ReuseSlot,
  Manager!AppendSlot, ManagerProofs!AppendSlot,
  Manager!CreateEntityId, ManagerProofs!CreateEntityId, Manager!Index, ManagerProofs!Index,
  Manager!Slots, ManagerProofs!Slots, Manager!DestroyEntity, ManagerProofs!DestroyEntity,
  Manager!FreeSlot, ManagerProofs!FreeSlot, Manager!IsAlive, ManagerProofs!IsAlive,
  Manager!NextGeneration, ManagerProofs!NextGeneration,
  Manager!RejectDestroy, ManagerProofs!RejectDestroy,
  Manager!vars, ManagerProofs!vars, managerVars

LEMMA SameManagerIInv ==
  /\ ManagerProofs!IInv <=> Manager!IInv
  /\ ManagerProofs!IInv' <=> Manager!IInv'
PROOF
  BY DEF
  Manager!IInv, ManagerProofs!IInv, Manager!TypeOK, ManagerProofs!TypeOK,
  Manager!Slot, ManagerProofs!Slot, Manager!Index, ManagerProofs!Index,
  Manager!Generation, ManagerProofs!Generation, Manager!Handle, ManagerProofs!Handle,
  Manager!LiveStored, ManagerProofs!LiveStored, Manager!RetiredOlder, ManagerProofs!RetiredOlder,
  Manager!GenerationsBounded, ManagerProofs!GenerationsBounded,
  Manager!FreeListExact, ManagerProofs!FreeListExact,
  Manager!FreeListThreaded, ManagerProofs!FreeListThreaded, Manager!Link, ManagerProofs!Link,
  Manager!Slots, ManagerProofs!Slots,
  Manager!AliveCountExact, ManagerProofs!AliveCountExact,
  Manager!Cardinality, ManagerProofs!Cardinality, Manager!IsFiniteSet, ManagerProofs!IsFiniteSet

(***************************************************************************)
(* A step of the manager keeps its strengthening; no id that was handed    *)
(* out is forgotten, and an id that becomes alive was never handed out.    *)
(***************************************************************************)
LEMMA ManagerStep ==
  ASSUME Manager!NoWrap, Manager!IInv, [Manager!Next]_managerVars
  PROVE  /\ Manager!IInv'
         /\ Known \subseteq Known'
         /\ \A e \in live' \ live : e \notin Known
PROOF
  <1>1. ManagerProofs!NoWrap /\ ManagerProofs!IInv /\ [ManagerProofs!Next]_ManagerProofs!vars
    BY SameManagerAssumptions, SameManagerNext, SameManagerIInv DEF ManagerProofs!vars, managerVars
  <1>2. ManagerProofs!IInv'
    BY <1>1, SameManagerAssumptions, ManagerProofs!NextIInv
  <1>3. [ManagerProofs!Handles!Next]_<<live, retired>>
    BY <1>1, SameManagerAssumptions, ManagerProofs!StepImplementsHandles
  <1>4. Known \subseteq Known' /\ \A e \in live' \ live : e \notin Known
    BY <1>3
    DEF Known, ManagerProofs!Handles!Next, ManagerProofs!Handles!Create, ManagerProofs!Handles!Destroy
  <1> QED BY <1>2, <1>4, SameManagerIInv

-----------------------------------------------------------------------------

(***************************************************************************)
(* The storages of the scene are the ones proved about.                    *)
(***************************************************************************)
LEMMA SameStorageAssumptions ==
  StorageProofs!PageAssumption /\ StorageProofs!StorageAssumption
PROOF
  <1>1. Storage!PageAssumption
    BY SceneAssumption
  <1>2. StorageProofs!PageAssumption
    BY <1>1
    DEF Storage!PageAssumption, StorageProofs!PageAssumption,
        Storage!Cell, StorageProofs!Cell, Storage!Entry, StorageProofs!Entry
  <1>3. StorageProofs!StorageAssumption
    BY SceneAssumption DEF StorageProofs!StorageAssumption
  <1> QED BY <1>2, <1>3

LEMMA SameStorage ==
  /\ StorageProofs!Page = Storage!Page
  /\ StorageProofs!Entry = Storage!Entry
  /\ \A page, entries : StorageProofs!Stores(page, entries) <=> Storage!Stores(page, entries)
PROOF
  BY DEF
  Storage!Page, StorageProofs!Page, Storage!Cell, StorageProofs!Cell,
  Storage!Entry, StorageProofs!Entry, Storage!Stores, StorageProofs!Stores

LEMMA SameSetComponent ==
  \A pages, e, d : StorageProofs!StorageSetComponent(pages, e, d) = Storage!StorageSetComponent(pages, e, d)
PROOF
  BY DEF
  Storage!StorageSetComponent, StorageProofs!StorageSetComponent,
  Storage!TargetPage, StorageProofs!TargetPage, Storage!Accepting, StorageProofs!Accepting,
  Storage!PageAccepts, StorageProofs!PageAccepts, Storage!PositionOf, StorageProofs!PositionOf,
  Storage!PageHasEntity, StorageProofs!PageHasEntity,
  Storage!PageSetComponent, StorageProofs!PageSetComponent,
  Storage!NewPage, StorageProofs!NewPage, Storage!Cell, StorageProofs!Cell,
  Storage!Overwrite, StorageProofs!Overwrite, Storage!AddEntry, StorageProofs!AddEntry,
  Storage!HashEntityIndex, StorageProofs!HashEntityIndex, Storage!Max, StorageProofs!Max

LEMMA SameRemoveComponent ==
  \A pages, e : StorageProofs!StorageRemoveComponent(pages, e) = Storage!StorageRemoveComponent(pages, e)
PROOF
  BY DEF
  Storage!StorageRemoveComponent, StorageProofs!StorageRemoveComponent,
  Storage!Removing, StorageProofs!Removing, Storage!PageRemoves, StorageProofs!PageRemoves,
  Storage!PageHasEntity, StorageProofs!PageHasEntity, Storage!PositionOf, StorageProofs!PositionOf,
  Storage!PageRemoveComponent, StorageProofs!PageRemoveComponent,
  Storage!LastEntry, StorageProofs!LastEntry,
  Storage!HashEntityIndex, StorageProofs!HashEntityIndex, Storage!Max, StorageProofs!Max

(***************************************************************************)
(* The storage's calls drop no page, and the pages store what they stored  *)
(* and the entry that is set.                                              *)
(***************************************************************************)
LEMMA SetKeepsPages ==
  ASSUME NEW pages \in Seq(Storage!Page), NEW e \in Manager!Handle, NEW d \in Data,
         NEW entries, [entity |-> e, data |-> d] \in entries,
         \A p \in DOMAIN pages : Storage!Stores(pages[p], entries)
  PROVE  LET new == Storage!StorageSetComponent(pages, e, d)
         IN  /\ new \in Seq(Storage!Page) /\ Len(pages) <= Len(new)
             /\ \A p \in DOMAIN new : Storage!Stores(new[p], entries)
PROOF
  <1> DEFINE new == StorageProofs!StorageSetComponent(pages, e, d)
  <1>1. pages \in Seq(StorageProofs!Page) /\ \A p \in DOMAIN pages : StorageProofs!Stores(pages[p], entries)
    BY SameStorage
  <1>2. /\ new \in Seq(StorageProofs!Page) /\ Len(pages) <= Len(new)
        /\ \A p \in DOMAIN new : StorageProofs!Stores(new[p], entries)
    BY <1>1, SameStorageAssumptions, StorageProofs!SetKeepsPages
  <1> QED BY <1>2, SameStorage, SameSetComponent

LEMMA RemoveKeepsPages ==
  ASSUME NEW pages \in Seq(Storage!Page), NEW e \in Manager!Handle,
         NEW entries, \A p \in DOMAIN pages : Storage!Stores(pages[p], entries)
  PROVE  LET new == Storage!StorageRemoveComponent(pages, e)
         IN  /\ new \in Seq(Storage!Page) /\ Len(new) = Len(pages)
             /\ \A p \in DOMAIN new : Storage!Stores(new[p], entries)
PROOF
  <1> DEFINE new == StorageProofs!StorageRemoveComponent(pages, e)
  <1>1. pages \in Seq(StorageProofs!Page) /\ \A p \in DOMAIN pages : StorageProofs!Stores(pages[p], entries)
    BY SameStorage
  <1>2. /\ new \in Seq(StorageProofs!Page) /\ Len(new) = Len(pages)
        /\ \A p \in DOMAIN new : StorageProofs!Stores(new[p], entries)
    BY <1>1, SameStorageAssumptions, StorageProofs!RemoveKeepsPages
  <1> QED BY <1>2, SameStorage, SameRemoveComponent

(***************************************************************************)
(* What is found in a storage is one of the entries the pages store.       *)
(***************************************************************************)
LEMMA FoundIsStored ==
  ASSUME NEW pages \in Seq(Storage!Page), NEW e \in Manager!Handle,
         NEW entries, \A p \in DOMAIN pages : Storage!Stores(pages[p], entries),
         Storage!StorageHasEntity(pages, e)
  PROVE  \E entry \in entries :
           entry.entity = e /\ Storage!StorageGetComponent(pages, e) = entry.data
PROOF
  <1>1. Storage!PageAssumption
    BY SceneAssumption
  <1> DEFINE held == Storage!Holding(pages, e)
             p == Storage!Max(held)
  <1>2. held # {} /\ held \subseteq 1 .. Len(pages) /\ Len(pages) \in Nat
    BY DEF Storage!StorageHasEntity, Storage!Holding
  <1>3. p \in held
    <2> HIDE DEF held
    <2>1. Storage!Max(held) = StorageProofs!Max(held)
      BY DEF Storage!Max, StorageProofs!Max
    <2> QED BY <1>2, <2>1, SameStorageAssumptions, StorageProofs!MaxIsMember
  <1>4. p \in DOMAIN pages /\ Storage!PageHasEntity(pages[p], e) /\ Storage!Stores(pages[p], entries)
    BY <1>3 DEF Storage!Holding
  <1> DEFINE entry == pages[p].dense[Storage!PositionOf(pages[p], e)]
  <1>5. Storage!StorageGetComponent(pages, e) = entry.data
    BY DEF Storage!StorageGetComponent, Storage!PageGetComponent
  <1> HIDE DEF p
  <1>6. entry \in entries /\ entry.entity = e
    BY <1>1, <1>4
    DEF Storage!PageAssumption, Storage!Stores, Storage!PageHasEntity, Storage!PositionOf,
        Storage!HashEntityIndex
  <1> HIDE DEF entry
  <1> QED BY <1>5, <1>6

-----------------------------------------------------------------------------

(***************************************************************************)
(* Every step of the scene is a step of the manager or leaves it alone.    *)
(***************************************************************************)
LEMMA SceneStep == [Next]_vars => [Manager!Next]_managerVars
PROOF
  <1> SUFFICES ASSUME Next PROVE [Manager!Next]_managerVars
    BY DEF vars, managerVars
  <1>1. CASE CreateEntity
    BY <1>1 DEF CreateEntity, Manager!Next
  <1>2. ASSUME NEW cs \in ComponentTypes, RegisterComponents(cs) PROVE UNCHANGED managerVars
    BY <1>2 DEF RegisterComponents
  <1>3. ASSUME NEW e \in Known, DestroyEntity(e) PROVE Manager!Next
    BY <1>3 DEF DestroyEntity, Manager!Next, Known
  <1>4. ASSUME NEW c \in ComponentId, NEW e \in Known, RemoveComponent(c, e)
        PROVE  UNCHANGED managerVars
    BY <1>4 DEF RemoveComponent
  <1>5. ASSUME NEW c \in ComponentId, NEW e \in Known, NEW d \in Data, SetComponent(c, e, d)
        PROVE  UNCHANGED managerVars
    BY <1>5 DEF SetComponent
  <1> QED BY <1>1, <1>2, <1>3, <1>4, <1>5 DEF Next

(***************************************************************************)
(* No storage is registered at the start.                                  *)
(***************************************************************************)
LEMMA InitIInv == Init => IInv
PROOF
  <1> SUFFICES ASSUME Init PROVE IInv
    OBVIOUS
  <1>1. Manager!IInv
    BY SameManagerAssumptions, SameManagerNext, SameManagerIInv, ManagerProofs!InitIInv DEF Init
  <1>2. m_Components \in [ComponentId -> Seq(Storage!Page) \union {NoStorage}] /\ Registered = {}
    BY DEF Init, Registered
  <1> QED BY <1>1, <1>2 DEF IInv, TypeOK, Manager!IInv

(***************************************************************************)
(* What a storage has stored stays known as ids are handed out.            *)
(***************************************************************************)
LEMMA StoresMore ==
  ASSUME NEW page, NEW entries, NEW more, entries \subseteq more, Storage!Stores(page, entries)
  PROVE  Storage!Stores(page, more)
PROOF
  BY DEF Storage!Stores

(***************************************************************************)
(* What one storage holds when it is well formed.                          *)
(***************************************************************************)
LEMMA StorageIsWellFormed ==
  ASSUME IInv, NEW c \in Registered
  PROVE  /\ c \in ComponentId
         /\ m_Components[c] \in Seq(Storage!Page)
         /\ \A p \in DOMAIN m_Components[c] : Storage!Stores(m_Components[c][p], KnownOwned)
PROOF
  BY DEF IInv, TypeOK, Registered

(***************************************************************************)
(* A step that changes at most one storage, into a well-formed one, and    *)
(* forgets no id keeps the strengthening.                                  *)
(***************************************************************************)
LEMMA OneStorageIInv ==
  ASSUME IInv, Manager!IInv', Known \subseteq Known',
         NEW changed \in SUBSET ComponentId, NEW new \in [changed -> Seq(Storage!Page)],
         \A c \in changed : \A p \in DOMAIN new[c] : Storage!Stores(new[c][p], KnownOwned),
         m_Components' = [c \in ComponentId |-> IF c \in changed THEN new[c] ELSE m_Components[c]]
  PROVE  IInv'
PROOF
  <1>1. KnownOwned \subseteq KnownOwned'
    BY DEF KnownOwned
  <1>2. m_Components' \in [ComponentId -> Seq(Storage!Page) \union {NoStorage}]
    BY DEF IInv, TypeOK
  <1>3. ASSUME NEW c \in Registered', NEW p \in DOMAIN m_Components'[c]
        PROVE  Storage!Stores(m_Components'[c][p], KnownOwned')
    <2>1. c \in ComponentId
      BY DEF Registered
    <2>2. CASE c \in changed
      <3>1. m_Components'[c] = new[c]
        BY <2>1, <2>2
      <3>2. Storage!Stores(m_Components'[c][p], KnownOwned)
        BY <1>3, <2>2, <3>1
      <3> QED BY <1>1, <3>2, StoresMore
    <2>3. CASE c \notin changed
      <3>1. m_Components'[c] = m_Components[c]
        BY <2>1, <2>3
      <3>2. c \in Registered
        BY <2>1, <3>1 DEF Registered
      <3>3. Storage!Stores(m_Components'[c][p], KnownOwned)
        BY <1>3, <3>1, <3>2 DEF IInv
      <3> QED BY <1>1, <3>3, StoresMore
    <2> QED BY <2>2, <2>3
  <1>4. TypeOK'
    BY <1>2 DEF TypeOK, Manager!IInv
  <1> QED BY <1>3, <1>4 DEF IInv

(***************************************************************************)
(* RegisterComponents adds empty storages.                                 *)
(***************************************************************************)
LEMMA RegisterIInv ==
  ASSUME Manager!NoWrap, IInv, NEW cs \in ComponentTypes, RegisterComponents(cs)
  PROVE  IInv'
PROOF
  <1> DEFINE changed == Added(cs) \intersect ComponentId
             new == [c \in changed |-> << >>]
  <1>1. [Manager!Next]_managerVars /\ UNCHANGED managerVars
    BY DEF RegisterComponents
  <1>2. Manager!IInv' /\ Known \subseteq Known'
    BY <1>1, ManagerStep DEF IInv
  <1>3. new \in [changed -> Seq(Storage!Page)]
    <2>1. << >> \in Seq(Storage!Page)
      OBVIOUS
    <2> QED BY <2>1, Zenon
  <1>4. \A c \in changed : \A p \in DOMAIN new[c] : Storage!Stores(new[c][p], KnownOwned)
    BY SMT
  <1>5. m_Components' = [c \in ComponentId |-> IF c \in changed THEN new[c] ELSE m_Components[c]]
    <2> HIDE DEF Added
    <2> QED BY DEF RegisterComponents
  <1> HIDE DEF changed, new
  <1>6. changed \in SUBSET ComponentId
    BY DEF changed
  <1> QED BY <1>2, <1>3, <1>4, <1>5, <1>6, OneStorageIInv

(***************************************************************************)
(* SetComponent stores the data of an id that was handed out under the id. *)
(***************************************************************************)
LEMMA SetIInv ==
  ASSUME Manager!NoWrap, IInv, NEW c \in ComponentId, NEW e \in Known, NEW d \in Data,
         d.owner = e, SetComponent(c, e, d)
  PROVE  IInv'
PROOF
  <1> DEFINE pages == Storage!StorageSetComponent(m_Components[c], e, d)
             new == [x \in {c} |-> pages]
  <1>1. [Manager!Next]_managerVars
    BY DEF SetComponent
  <1>2. Manager!IInv' /\ Known \subseteq Known'
    BY <1>1, ManagerStep DEF IInv
  <1>3. c \in Registered /\ e \in Manager!Handle
    BY DEF SetComponent, IInv, TypeOK, Manager!TypeOK, Known
  <1>4. /\ m_Components[c] \in Seq(Storage!Page)
        /\ \A p \in DOMAIN m_Components[c] : Storage!Stores(m_Components[c][p], KnownOwned)
    BY <1>3, StorageIsWellFormed
  <1>5. [entity |-> e, data |-> d] \in KnownOwned
    BY <1>3 DEF KnownOwned, Storage!Entry
  <1>6. pages \in Seq(Storage!Page) /\ \A p \in DOMAIN pages : Storage!Stores(pages[p], KnownOwned)
    BY <1>3, <1>4, <1>5, SetKeepsPages
  <1> HIDE DEF pages
  <1>7. m_Components' = [m_Components EXCEPT ![c] = pages]
    BY DEF SetComponent, pages
  <1>8. m_Components' = [x \in ComponentId |-> IF x \in {c} THEN new[x] ELSE m_Components[x]]
    BY <1>7 DEF IInv, TypeOK
  <1>9. new \in [{c} -> Seq(Storage!Page)] /\ {c} \in SUBSET ComponentId
    BY <1>6
  <1>10. \A x \in {c} : \A p \in DOMAIN new[x] : Storage!Stores(new[x][p], KnownOwned)
    BY <1>6
  <1> HIDE DEF new
  <1> QED BY <1>2, <1>8, <1>9, <1>10, OneStorageIInv

(***************************************************************************)
(* RemoveComponent stores nothing new.                                     *)
(***************************************************************************)
LEMMA RemoveIInv ==
  ASSUME Manager!NoWrap, IInv, NEW c \in ComponentId, NEW e \in Known, RemoveComponent(c, e)
  PROVE  IInv'
PROOF
  <1> DEFINE pages == Storage!StorageRemoveComponent(m_Components[c], e)
             new == [x \in {c} |-> pages]
  <1>1. [Manager!Next]_managerVars
    BY DEF RemoveComponent
  <1>2. Manager!IInv' /\ Known \subseteq Known'
    BY <1>1, ManagerStep DEF IInv
  <1>3. c \in Registered /\ e \in Manager!Handle
    BY DEF RemoveComponent, IInv, TypeOK, Manager!TypeOK, Known
  <1>4. /\ m_Components[c] \in Seq(Storage!Page)
        /\ \A p \in DOMAIN m_Components[c] : Storage!Stores(m_Components[c][p], KnownOwned)
    BY <1>3, StorageIsWellFormed
  <1>5. pages \in Seq(Storage!Page) /\ \A p \in DOMAIN pages : Storage!Stores(pages[p], KnownOwned)
    BY <1>3, <1>4, RemoveKeepsPages
  <1> HIDE DEF pages
  <1>6. m_Components' = [m_Components EXCEPT ![c] = pages]
    BY DEF RemoveComponent, pages
  <1>7. m_Components' = [x \in ComponentId |-> IF x \in {c} THEN new[x] ELSE m_Components[x]]
    BY <1>6 DEF IInv, TypeOK
  <1>8. new \in [{c} -> Seq(Storage!Page)] /\ {c} \in SUBSET ComponentId
    BY <1>5
  <1>9. \A x \in {c} : \A p \in DOMAIN new[x] : Storage!Stores(new[x][p], KnownOwned)
    BY <1>5
  <1> HIDE DEF new
  <1> QED BY <1>2, <1>7, <1>8, <1>9, OneStorageIInv

(***************************************************************************)
(* A step of the manager alone leaves the storages as they are.            *)
(***************************************************************************)
LEMMA ManagerIInv ==
  ASSUME Manager!NoWrap, IInv, [Manager!Next]_managerVars, UNCHANGED m_Components
  PROVE  IInv'
PROOF
  <1> DEFINE new == [x \in {} |-> << >>]
  <1>1. Manager!IInv' /\ Known \subseteq Known'
    BY ManagerStep DEF IInv
  <1>2. m_Components' = [x \in ComponentId |-> IF x \in {} THEN new[x] ELSE m_Components[x]]
    BY DEF IInv, TypeOK
  <1>3. new \in [{} -> Seq(Storage!Page)] /\ {} \in SUBSET ComponentId
    OBVIOUS
  <1>4. \A x \in {} : \A p \in DOMAIN new[x] : Storage!Stores(new[x][p], KnownOwned)
    OBVIOUS
  <1> HIDE DEF new
  <1> QED BY <1>1, <1>2, <1>3, <1>4, OneStorageIInv

(***************************************************************************)
(* Every step of the scene keeps the strengthening.                        *)
(***************************************************************************)
LEMMA NextIInv == Manager!NoWrap /\ IInv /\ [Next]_vars => IInv'
PROOF
  <1> SUFFICES ASSUME Manager!NoWrap, IInv, [Next]_vars PROVE IInv'
    OBVIOUS
  <1>1. [Manager!Next]_managerVars
    BY SceneStep
  <1>2. CASE CreateEntity
    BY <1>1, <1>2, ManagerIInv DEF CreateEntity
  <1>3. ASSUME NEW cs \in ComponentTypes, RegisterComponents(cs) PROVE IInv'
    BY <1>3, RegisterIInv
  <1>4. ASSUME NEW e \in Known, DestroyEntity(e) PROVE IInv'
    BY <1>1, <1>4, ManagerIInv DEF DestroyEntity
  <1>5. ASSUME NEW e \in Known, NEW c \in ComponentId, RemoveComponent(c, e) PROVE IInv'
    BY <1>5, RemoveIInv
  <1>6. ASSUME NEW e \in Known, NEW c \in ComponentId, NEW d \in Data, d.owner = e, SetComponent(c, e, d)
        PROVE  IInv'
    BY <1>6, SetIInv
  <1>7. CASE UNCHANGED vars
    BY <1>1, <1>7, ManagerIInv DEF vars
  <1> QED BY <1>2, <1>3, <1>4, <1>5, <1>6, <1>7 DEF Next

-----------------------------------------------------------------------------

(***************************************************************************)
(* Seen through its manager's variables the scene is an entity manager:    *)
(* registering, setting and removing components never touch it, so that    *)
(* everything proved about the manager holds in a scene.                   *)
(***************************************************************************)
THEOREM SceneRunsManager == Spec => Manager!Spec
PROOF
  <1>1. Init => Manager!Init
    BY DEF Init
  <1>2. [Next]_vars => [Manager!Next]_(Manager!vars)
    BY SceneStep DEF Manager!vars, managerVars
  <1> QED BY <1>1, <1>2, PTL DEF Spec, Manager!Spec

(***************************************************************************)
(* The strengthening holds in every behaviour.                             *)
(***************************************************************************)
THEOREM Invariance ==
  ASSUME Manager!NoWrap
  PROVE  Spec => []IInv
PROOF
  BY InitIInv, NextIInv, PTL DEF Spec

(***************************************************************************)
(* The manager and every registered storage of a scene stay well formed.   *)
(***************************************************************************)
THEOREM TypeCorrectness ==
  ASSUME Manager!NoWrap
  PROVE  Spec => []TypeOK
PROOF
  <1>1. IInv => TypeOK
    BY DEF IInv
  <1> QED BY Invariance, <1>1, PTL

(***************************************************************************)
(* A live entity reads only components set for its own id: an entity that  *)
(* took over a destroyed entity's index does not inherit what was left in  *)
(* the storages (DestroyEntity of ThScene.h does not clear them).          *)
(***************************************************************************)
THEOREM NothingInherited ==
  ASSUME Manager!NoWrap
  PROVE  Spec => []NoInheritedComponent
PROOF
  <1>1. IInv => NoInheritedComponent
    <2> SUFFICES ASSUME IInv, NEW e \in live, NEW c \in ComponentId, HasEntity(c, e)
                 PROVE  GetComponent(c, e).owner = e
      BY DEF NoInheritedComponent
    <2>1. c \in Registered /\ Storage!StorageHasEntity(m_Components[c], e) /\ e \in Manager!Handle
      BY DEF HasEntity, IInv, TypeOK, Manager!TypeOK
    <2> DEFINE pages == m_Components[c]
    <2>2. pages \in Seq(Storage!Page) /\ \A p \in DOMAIN pages : Storage!Stores(pages[p], KnownOwned)
      BY <2>1, StorageIsWellFormed
    <2>3. GetComponent(c, e) = Storage!StorageGetComponent(pages, e)
      BY DEF GetComponent
    <2> HIDE DEF pages
    <2>4. \E entry \in KnownOwned :
            entry.entity = e /\ Storage!StorageGetComponent(pages, e) = entry.data
      <3>1. Storage!StorageHasEntity(pages, e) /\ e \in Manager!Handle
        BY <2>1 DEF pages
      <3> QED BY <2>2, <3>1, FoundIsStored
    <2> QED BY <2>3, <2>4 DEF KnownOwned
  <1> QED BY Invariance, <1>1, PTL

(***************************************************************************)
(* An entity is created without components.                                *)
(***************************************************************************)
THEOREM FreshEntitiesAreBare ==
  ASSUME Manager!NoWrap
  PROVE  Spec => FreshEntityIsBare
PROOF
  <1> DEFINE P == \A e \in live' \ live : \A c \in ComponentId : ~ HasEntity(c, e)'
  <1>1. IInv /\ [Next]_vars => [P]_vars
    <2> SUFFICES ASSUME IInv, Next,
                        NEW e \in live' \ live, NEW c \in ComponentId, HasEntity(c, e)'
                 PROVE  FALSE
      OBVIOUS
    <2>1. e \notin Known
      BY SceneStep, ManagerStep DEF IInv
    <2>2. UNCHANGED m_Components
      <3>1. ~ UNCHANGED managerVars
        BY DEF managerVars
      <3> QED BY <3>1
          DEF Next, CreateEntity, RegisterComponents, DestroyEntity, RemoveComponent, SetComponent
    <2>3. c \in Registered /\ Storage!StorageHasEntity(m_Components[c], e)
      BY <2>2 DEF HasEntity, Registered
    <2>4. e \in Manager!Handle
      BY NextIInv DEF IInv, TypeOK, Manager!TypeOK
    <2>5. PICK entry \in KnownOwned : entry.entity = e
      BY <2>3, <2>4, StorageIsWellFormed, FoundIsStored
    <2> QED BY <2>1, <2>5 DEF KnownOwned
  <1> HIDE DEF P
  <1>2. Spec => [][P]_vars
    BY <1>1, Invariance, PTL DEF Spec
  <1> QED BY <1>2 DEF P, FreshEntityIsBare

(***************************************************************************)
(* A registered storage is never replaced and loses no page.               *)
(***************************************************************************)
THEOREM RegistrationKeepsAll ==
  ASSUME Manager!NoWrap
  PROVE  Spec => RegistrationKeepsComponents
PROOF
  <1> DEFINE P == \A c \in Registered :
                    c \in Registered' /\ Len(m_Components[c]) <= Len(m_Components[c])'
  <1>1. IInv /\ [Next]_vars => [P]_vars
    <2> SUFFICES ASSUME IInv, Next, NEW c \in Registered
                 PROVE  c \in Registered' /\ Len(m_Components[c]) <= Len(m_Components'[c])
      OBVIOUS
    <2>1. /\ c \in ComponentId /\ m_Components[c] \in Seq(Storage!Page)
          /\ \A p \in DOMAIN m_Components[c] : Storage!Stores(m_Components[c][p], KnownOwned)
      BY StorageIsWellFormed
    <2>2. \A e \in Known : e \in Manager!Handle
      BY DEF IInv, TypeOK, Manager!TypeOK, Known
    <2>3. m_Components \in [ComponentId -> Seq(Storage!Page) \union {NoStorage}]
      BY DEF IInv, TypeOK
    <2>4. m_Components'[c] \in Seq(Storage!Page) /\ Len(m_Components[c]) <= Len(m_Components'[c])
      <3>1. CASE m_Components'[c] = m_Components[c]
        BY <2>1, <3>1
      <3>2. ASSUME NEW cs \in ComponentTypes, RegisterComponents(cs)
            PROVE  m_Components'[c] = m_Components[c]
        <4>1. DOMAIN cs \subseteq {1, 2}
          BY DEF ComponentTypes
        <4>2. \A k \in DOMAIN cs : k \in 1 .. k
          BY <4>1
        <4>3. c \notin Added(cs)
          BY <4>2 DEF Added
        <4> QED BY <2>1, <3>2, <4>3 DEF RegisterComponents
      <3>3. ASSUME NEW x \in ComponentId, NEW e \in Known, RemoveComponent(x, e)
            PROVE  m_Components'[c] \in Seq(Storage!Page) /\ Len(m_Components[c]) <= Len(m_Components'[c])
        <4> DEFINE pages == Storage!StorageRemoveComponent(m_Components[x], e)
        <4>1. m_Components' = [m_Components EXCEPT ![x] = pages]
          BY <3>3 DEF RemoveComponent
        <4>2. CASE x = c
          <5>1. pages \in Seq(Storage!Page) /\ Len(pages) = Len(m_Components[c])
            BY <2>1, <2>2, <4>2, RemoveKeepsPages
          <5> HIDE DEF pages
          <5> QED BY <2>1, <2>3, <4>1, <4>2, <5>1
        <4>3. CASE x # c
          BY <2>1, <2>3, <3>1, <4>1, <4>3
        <4> QED BY <4>2, <4>3
      <3>4. ASSUME NEW x \in ComponentId, NEW e \in Known, NEW d \in Data, d.owner = e, SetComponent(x, e, d)
            PROVE  m_Components'[c] \in Seq(Storage!Page) /\ Len(m_Components[c]) <= Len(m_Components'[c])
        <4> DEFINE pages == Storage!StorageSetComponent(m_Components[x], e, d)
        <4>1. m_Components' = [m_Components EXCEPT ![x] = pages]
          BY <3>4 DEF SetComponent
        <4>2. CASE x = c
          <5>1. [entity |-> e, data |-> d] \in KnownOwned
            BY <2>2, <3>4 DEF KnownOwned, Storage!Entry
          <5>2. pages \in Seq(Storage!Page) /\ Len(m_Components[c]) <= Len(pages)
            BY <2>1, <2>2, <4>2, <5>1, SetKeepsPages
          <5> HIDE DEF pages
          <5> QED BY <2>1, <2>3, <4>1, <4>2, <5>2
        <4>3. CASE x # c
          BY <2>1, <2>3, <3>1, <4>1, <4>3
        <4> QED BY <4>2, <4>3
      <3>5. CASE UNCHANGED m_Components
        BY <3>1, <3>5
      <3> QED BY <3>1, <3>2, <3>3, <3>4, <3>5 DEF Next, CreateEntity, DestroyEntity
    <2>5. m_Components'[c] # NoStorage
      BY <2>4, SceneAssumption
    <2> QED BY <2>1, <2>4, <2>5 DEF Registered
  <1> HIDE DEF P
  <1>2. Spec => [][P]_vars
    BY <1>1, Invariance, PTL DEF Spec
  <1> QED BY <1>2 DEF P, RegistrationKeepsComponents

=============================================================================
