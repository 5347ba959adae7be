--------------------------- MODULE MCUidGenerator ---------------------------
(* TLC instance of UidGenerator; the bounds are in the .cfg files. *)
EXTENDS UidGenerator
=============================================================================
