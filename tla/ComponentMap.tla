---------------------------- MODULE ComponentMap ----------------------------
(***************************************************************************)
(* What a client of a component storage expects: a map from entities to    *)
(* component data in which SetComponent writes one key and RemoveComponent *)
(* removes one.                                                            *)
(***************************************************************************)
CONSTANTS
  Entity,
  Data,
  NoData      \* the entity has no component of this type

VARIABLE component

Init == component = [e \in Entity |-> NoData]

Set(e, d) == component' = [component EXCEPT ![e] = d]

Remove(e) == component' = [component EXCEPT ![e] = NoData]

Next == \E e \in Entity : Remove(e) \/ \E d \in Data : Set(e, d)

Spec == Init /\ [][Next]_component

=============================================================================
