-------------------------- MODULE MCMetalRenderer --------------------------
(* TLC instance of MetalRenderer; the bounds are in MCMetalRenderer.cfg. *)
EXTENDS MetalRenderer
=============================================================================
