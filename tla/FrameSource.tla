---------------------------- MODULE FrameSource ----------------------------
(***************************************************************************)
(* What the ray tracer promises the application that shows its frames: one *)
(* frame at a time is rendered, completed and fetched, FramesToRender of   *)
(* them (without end when that is 0), and it never gets stuck before.      *)
(***************************************************************************)
EXTENDS Naturals

CONSTANT FramesToRender

VARIABLES
  phase,    \* RayTracerState
  count     \* frames completed

vars == <<phase, count>>

Init == phase = "Uninitialized" /\ count = 0

Open == phase = "Uninitialized" /\ phase' = "Idle" /\ UNCHANGED count

Start ==
  /\ phase = "Idle"
  /\ FramesToRender = 0 \/ count < FramesToRender
  /\ phase' = "RenderingFrame"
  /\ UNCHANGED count

Complete ==
  /\ phase = "RenderingFrame"
  /\ phase' = "FrameReady"
  /\ count' = count + 1

Fetch == phase = "FrameReady" /\ phase' = "Idle" /\ UNCHANGED count

Next == Open \/ Start \/ Complete \/ Fetch

Spec == Init /\ [][Next]_vars /\ WF_vars(Next)

=============================================================================
