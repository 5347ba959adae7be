------------------------------ MODULE MCScene ------------------------------
(***************************************************************************)
(* TLC instance of Scene: two entity slots of two generations, whose       *)
(* indices have a cell each.  Component types are interchangeable and the  *)
(* properties are safety properties, so symmetry is sound.                 *)
(***************************************************************************)
EXTENDS Scene, TLC

CONSTANT Nobody

MCHandle == [index : 0 .. ThEntityNull - 1, generation : 0 .. GenerationCount - 1]

MCData == [owner : MCHandle \union {Nobody}]

MCHashInt32 == [i \in 0 .. ThEntityNull - 1 |-> i % Capacity]

MCZeroEntry == [entity |-> [index |-> 0, generation |-> 0], data |-> [owner |-> Nobody]]

Symmetry == Permutations(ComponentId)
=============================================================================
