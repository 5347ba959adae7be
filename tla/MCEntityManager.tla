-------------------------- MODULE MCEntityManager --------------------------
(* TLC instance of EntityManager; the bounds are in MCEntityManager.cfg. *)
EXTENDS EntityManager
=============================================================================
