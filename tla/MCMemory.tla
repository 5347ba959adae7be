------------------------------ MODULE MCMemory ------------------------------
(***************************************************************************)
(* TLC instance of SmallMemoryAllocator, VirtualStack and RefCounted, the  *)
(* ways in which the core library looks after memory.  They do not         *)
(* interact, so a behaviour follows one of them.                           *)
(***************************************************************************)
EXTENDS SmallMemoryAllocator, VirtualStack, RefCounted

VARIABLE part

(* Of the parts that stand still, one initial state is enough. *)
MCInit ==
  /\ Init /\ StackInit /\ RefInit
  /\ part \in {"blocks", "stack", "objects"}
  /\ part # "blocks" => ~ dirty
  /\ part # "stack" => ~ growing

MCNext ==
  /\ UNCHANGED part
  /\ \/ part = "blocks" /\ Next /\ UNCHANGED <<stackVars, refVars>>
     \/ part = "stack" /\ StackNext /\ UNCHANGED <<vars, refVars>>
     \/ part = "objects" /\ RefNext /\ UNCHANGED <<vars, stackVars>>

MCSpec == MCInit /\ [][MCNext]_<<vars, stackVars, refVars, part>>

(***************************************************************************)
(* The types of all three: no pool has more free chunks than chunks, no    *)
(* count is negative, no position lies behind its range.                   *)
(***************************************************************************)
MemoryTypeOK == TypeOK /\ StackTypeOK /\ RefTypeOK

=============================================================================
