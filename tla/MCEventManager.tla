--------------------------- MODULE MCEventManager ---------------------------
(***************************************************************************)
(* TLC instance of EventManager.  The ids are interchangeable and every    *)
(* property checked is a safety property, so symmetry is sound.            *)
(***************************************************************************)
EXTENDS EventManager, TLC

Symmetry == Permutations(EventId)
=============================================================================
