------------------------------- MODULE Scene -------------------------------
(***************************************************************************)
(* ThScene (include/Thor/ECS/ThScene.h): an entity manager and one         *)
(* component storage per registered component type.  The two know nothing  *)
(* of each other.  A component is set for any entity id, alive or not;     *)
(* destroying an entity goes to the entity manager alone and leaves the    *)
(* components of the entity in their storages.                             *)
(***************************************************************************)
EXTENDS Integers, Sequences, FiniteSetsExt

CONSTANTS
  ThEntityNull, GenerationCount, MaxGeneration,     \* of the entity manager
  Data, Capacity, HashInt32, ThEntitySparseNull, ZeroEntry,   \* of the storages
  ComponentId,    \* component types
  NoStorage,      \* the type is not registered
  MaxPages        \* bound on the pages of all storages together

VARIABLES
  m_Entities, m_LastFreeSlot, m_NumAliveEntities, live, retired, freed,
  m_Components    \* component type -> its storage or NoStorage

managerVars == <<m_Entities, m_LastFreeSlot, m_NumAliveEntities, live, retired, freed>>
vars == <<managerVars, m_Components>>

Manager == INSTANCE EntityManager
Storage == INSTANCE SparseStorage WITH Entity <- Manager!Handle

(***************************************************************************)
(* What the manager and the storages assume, and values that are told      *)
(* apart.                                                                  *)
(***************************************************************************)
ASSUME SceneAssumption ==
  /\ Manager!SizesAssumption
  /\ Storage!PageAssumption
  /\ MaxPages \in Nat
  /\ \A d \in Data : "owner" \in DOMAIN d
  /\ NoStorage \notin Seq(Storage!Page) \union Data

Registered == {c \in ComponentId : m_Components[c] # NoStorage}

HasEntity(c, e)    == c \in Registered /\ Storage!StorageHasEntity(m_Components[c], e)
GetComponent(c, e) == Storage!StorageGetComponent(m_Components[c], e)

PageCount == MapThenSumSet(LAMBDA c : Len(m_Components[c]), Registered)

-----------------------------------------------------------------------------

Init ==
  /\ Manager!Init
  /\ m_Components = [c \in ComponentId |-> NoStorage]

CreateEntity ==
  /\ Manager!CreateEntity
  /\ UNCHANGED m_Components

DestroyEntity(e) ==
  /\ Manager!DestroyEntity(e)
  /\ UNCHANGED m_Components

(* Mutant: registered types are added again. *)
AddedAgain(cs) == {cs[k] : k \in DOMAIN cs}

(* The types RegisterComponents<cs...> adds: it stops at the first that is registered. *)
Added(cs) ==
  {cs[k] : k \in {j \in DOMAIN cs :
     \A i \in 1 .. j : cs[i] \notin Registered /\ \A h \in 1 .. i - 1 : cs[h] # cs[i]}}

RegisterComponents(cs) ==
  /\ m_Components' = [c \in ComponentId |-> IF c \in Added(cs) THEN << >> ELSE m_Components[c]]
  /\ UNCHANGED managerVars

(* SetComponent returning true; for an unregistered type nothing changes. *)
SetComponent(c, e, d) ==
  /\ c \in Registered
  /\ Storage!Accepting(m_Components[c], e) # {} \/ PageCount < MaxPages
  /\ m_Components' = [m_Components EXCEPT ![c] = Storage!StorageSetComponent(@, e, d)]
  /\ UNCHANGED managerVars

RemoveComponent(c, e) ==
  /\ c \in Registered
  /\ m_Components' = [m_Components EXCEPT ![c] = Storage!StorageRemoveComponent(@, e)]
  /\ UNCHANGED managerVars

(* Clients call with any id they were ever given. *)
Known == live \union retired

ComponentTypes == {<<c>> : c \in ComponentId} \union (ComponentId \X ComponentId)

Next ==
  \/ CreateEntity
  \/ \E cs \in ComponentTypes : RegisterComponents(cs)
  \/ \E e \in Known :
       \/ DestroyEntity(e)
       \/ \E c \in ComponentId :
            \/ RemoveComponent(c, e)
            \/ \E d \in Data : d.owner = e /\ SetComponent(c, e, d)

Spec == Init /\ [][Next]_vars

-----------------------------------------------------------------------------

(***************************************************************************)
(* Types: the manager's, and a well-formed list of pages for every         *)
(* registered component type.                                              *)
(***************************************************************************)
TypeOK ==
  /\ Manager!TypeOK
  /\ m_Components \in [ComponentId -> Seq(Storage!Page) \union {NoStorage}]

(***************************************************************************)
(* An entity starts without components: CreateEntity never returns an id   *)
(* under which a storage still holds the component of the index's previous *)
(* owner, which nothing ever removed.                                      *)
(***************************************************************************)
FreshEntityIsBare ==
  [][\A e \in live' \ live : \A c \in ComponentId : ~ HasEntity(c, e)']_vars

(***************************************************************************)
(* A live entity never reads a component that was set for another id.      *)
(***************************************************************************)
NoInheritedComponent ==
  \A e \in live, c \in ComponentId : HasEntity(c, e) => GetComponent(c, e).owner = e

(***************************************************************************)
(* A registered storage is never replaced: registering again, alone or in  *)
(* a list, drops no page, and so no component.                             *)
(***************************************************************************)
RegistrationKeepsComponents ==
  [][\A c \in Registered :
       c \in Registered' /\ Len(m_Components[c]) <= Len(m_Components[c])']_vars

(***************************************************************************)
(* The strengthening that is inductive: the manager's, and every entry of  *)
(* a storage is the component of an id that was handed out, set for that   *)
(* id.  The memory a page is made of is zero and reads as an entry, too;   *)
(* no cell leads there before something was set.                           *)
(***************************************************************************)
KnownOwned == {x \in Storage!Entry : x.entity \in Known /\ x.data.owner = x.entity}

IInv ==
  /\ TypeOK
  /\ Manager!IInv
  /\ \A c \in Registered : \A p \in DOMAIN m_Components[c] :
       Storage!Stores(m_Components[c][p], KnownOwned)

=============================================================================
