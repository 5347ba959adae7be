------------------------- MODULE MCComponentStorage -------------------------
(***************************************************************************)
(* TLC instance of ComponentStorage.  Two indices, each with a cell of its *)
(* own, and two generations of index 0, which share its cell.              *)
(***************************************************************************)
EXTENDS ComponentStorage

CONSTANTS Versions, Nobody

MCEntity ==
  {[index |-> 0, generation |-> 0], [index |-> 1, generation |-> 0],
   [index |-> 0, generation |-> 1]}

MCData == [owner : MCEntity \union {Nobody}, version : Versions]

MCHashInt32 == [i \in 0 .. 1 |-> i]

MCZeroEntry == [entity |-> [index |-> 0, generation |-> 0],
                data   |-> [owner |-> Nobody, version |-> 1]]
=============================================================================
