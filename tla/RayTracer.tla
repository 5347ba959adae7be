----------------------------- MODULE RayTracer -----------------------------
(***************************************************************************)
(* RayTracer (applications/MetalTracer/RayTracer.cpp) and the part of      *)
(* Grand Central Dispatch it uses.  RenderFrame runs on the main thread,   *)
(* dispatches one work item per row of the film into a group and then asks *)
(* to be notified by SyncFunc when the group is empty.  Work items run as  *)
(* soon as they are dispatched, in any order and at once; SyncFunc runs on *)
(* a worker thread.                                                        *)
(*                                                                         *)
(* m_State is atomic.  m_FramesRendered is a plain integer; the main       *)
(* thread reads it only in a state that SyncFunc has already left.  What a *)
(* row looks like is left out, and with it the random generator that the   *)
(* rows share without a lock: a row is known by the frame it belongs to.   *)
(***************************************************************************)
EXTENDS Integers

CONSTANTS
  FramesToRender,   \* m_Options.m_FramesToRender; 0 renders without end
  Size,             \* sizes of a film and of the view, as numbers of rows
  MaxFrames         \* bound on the frames rendered when FramesToRender is 0

ASSUME RayTracerAssumption ==
  /\ FramesToRender \in Nat
  /\ Size \subseteq Nat /\ Size # {}
  /\ MaxFrames \in Nat

VARIABLES
  m_State,
  m_FramesRendered,
  m_Film,      \* the film and its size, which m_Options has too; none is of size 0
  queued,      \* work items dispatched and not started: <<row, frame>>
  running,     \* work items being executed
  sync,        \* SyncFunc: "none", "registered", or "counted" half way through
  pc,          \* the main thread: "view" outside render, or its next step
  toDispatch   \* rows RenderFrame has yet to dispatch

group == <<queued, running>>
tracerVars == <<m_State, m_FramesRendered, m_Film, queued, running, sync, pc, toDispatch>>

Goto(label) == pc' = label

(* Mutant: one row too many. *)
NewFilmTaller(s) == [size |-> s, rows |-> [j \in 0 .. s |-> 0]]

(* Film::Init: the pixels are not written. *)
NewFilm(s) == [size |-> s, rows |-> [j \in 0 .. s - 1 |-> 0]]

-----------------------------------------------------------------------------

InitTracer ==
  /\ m_State = "Uninitialized"
  /\ m_FramesRendered = 0
  /\ m_Film = NewFilm(0)
  /\ queued = {} /\ running = {}
  /\ sync = "none"
  /\ pc = "view"
  /\ toDispatch = 0

(* RayTracer::Init: a film of the view's size. *)
Initialize(s) ==
  /\ m_State = "Uninitialized"
  /\ m_State' = "Idle"
  /\ m_Film' = NewFilm(s)
  /\ UNCHANGED <<m_FramesRendered, group, sync, pc, toDispatch>>

(* Mutant: one frame too many. *)
AllRenderedLate == FramesToRender > 0 /\ m_FramesRendered > FramesToRender

AllRendered == FramesToRender > 0 /\ m_FramesRendered >= FramesToRender

(* RenderFrame returning false *)
RejectFrame ==
  /\ m_State \in {"Uninitialized", "RenderingFrame"} \/ AllRendered
  /\ UNCHANGED tracerVars

(* Mutant: the notification is registered before the rows are dispatched. *)
BeginFrameNotified ==
  /\ m_State \notin {"Uninitialized", "RenderingFrame"}
  /\ ~ AllRendered
  /\ FramesToRender > 0 \/ m_FramesRendered < MaxFrames
  /\ m_State' = "RenderingFrame"
  /\ toDispatch' = m_Film.size
  /\ sync' = "registered"
  /\ Goto("dispatch")
  /\ UNCHANGED <<m_FramesRendered, m_Film, group>>

(* RenderFrame, up to the loop *)
BeginFrame ==
  /\ m_State \notin {"Uninitialized", "RenderingFrame"}
  /\ ~ AllRendered
  /\ FramesToRender > 0 \/ m_FramesRendered < MaxFrames
  /\ m_State' = "RenderingFrame"
  /\ toDispatch' = m_Film.size
  /\ Goto("dispatch")
  /\ UNCHANGED <<m_FramesRendered, m_Film, group, sync>>

RenderFrame == RejectFrame \/ BeginFrame

(* DispatchGroupAsync of the next row, from the last to the first *)
DispatchRow ==
  /\ pc = "dispatch"
  /\ toDispatch > 0
  /\ queued' = queued \union {<<toDispatch - 1, m_FramesRendered + 1>>}
  /\ toDispatch' = toDispatch - 1
  /\ UNCHANGED <<m_State, m_FramesRendered, m_Film, running, sync, pc>>

(* DispatchGroupNotify; RenderFrame returns true *)
Notify ==
  /\ pc = "dispatch"
  /\ toDispatch = 0
  /\ sync' = "registered"
  /\ Goto("view")
  /\ UNCHANGED <<m_State, m_FramesRendered, m_Film, group, toDispatch>>

(* A worker thread takes a work item. *)
StartRow(item) ==
  /\ item \in queued
  /\ queued' = queued \ {item}
  /\ running' = running \union {item}
  /\ UNCHANGED <<m_State, m_FramesRendered, m_Film, sync, pc, toDispatch>>

(* RenderFunc writes the row in whatever film m_Film is by then. *)
FinishRow(item) ==
  /\ item \in running
  /\ m_Film' = [m_Film EXCEPT !.rows =
                  [j \in DOMAIN @ |-> IF j = item[1] THEN item[2] ELSE @[j]]]
  /\ running' = running \ {item}
  /\ UNCHANGED <<m_State, m_FramesRendered, queued, sync, pc, toDispatch>>

(* Mutant: the group is not waited for. *)
SyncCountEarly ==
  /\ sync = "registered"
  /\ m_FramesRendered' = m_FramesRendered + 1
  /\ sync' = "counted"
  /\ UNCHANGED <<m_State, m_Film, group, pc, toDispatch>>

(* SyncFunc, once the group is empty: m_FramesRendered++ *)
SyncCount ==
  /\ sync = "registered"
  /\ queued = {} /\ running = {}
  /\ m_FramesRendered' = m_FramesRendered + 1
  /\ sync' = "counted"
  /\ UNCHANGED <<m_State, m_Film, group, pc, toDispatch>>

(* m_State = FrameReady *)
SyncReady ==
  /\ sync = "counted"
  /\ m_State' = "FrameReady"
  /\ sync' = "none"
  /\ UNCHANGED <<m_FramesRendered, m_Film, group, pc, toDispatch>>

Worker ==
  \/ \E item \in queued : StartRow(item)
  \/ \E item \in running : FinishRow(item)
  \/ SyncCount \/ SyncReady

(* Mutant: the state is left alone. *)
FrameFetchedNever == UNCHANGED <<m_State, m_FramesRendered, m_Film, group, sync, toDispatch>>

FrameFetched ==
  /\ m_State' = IF m_State = "FrameReady" THEN "Idle" ELSE m_State
  /\ UNCHANGED <<m_FramesRendered, m_Film, group, sync, toDispatch>>

ResizeFilm(s) ==
  /\ m_Film' = IF m_State = "Idle" THEN NewFilm(s) ELSE m_Film
  /\ UNCHANGED <<m_State, m_FramesRendered, group, sync, toDispatch>>

=============================================================================
