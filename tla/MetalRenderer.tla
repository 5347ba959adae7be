--------------------------- MODULE MetalRenderer ---------------------------
(***************************************************************************)
(* The main thread of the tracer application: the view's delegate          *)
(* (applications/MetalTracer/MetalRenderer.mm), which asks for a frame     *)
(* when the tracer is idle and copies a finished one into a texture, or    *)
(* drops it when the view has another size by then.                        *)
(*                                                                         *)
(* The view (MetalKit) draws again and again and tells of a new size       *)
(* between two calls of render; it has that size when it tells.            *)
(***************************************************************************)
EXTENDS RayTracer

CONSTANT MaxResizes    \* bound on the changes of the view's size

ASSUME MetalRendererAssumption == MaxResizes \in Nat

VARIABLES
  drawableSize,   \* the view's
  _frame,         \* the texture: row -> frame it holds, 0 when none was copied
  resizes         \* history: how often the view changed its size

viewVars == <<drawableSize, _frame, resizes>>
vars     == <<tracerVars, viewVars>>

NewTexture(s) == NewFilm(s).rows

-----------------------------------------------------------------------------

Init ==
  /\ InitTracer
  /\ drawableSize \in Size
  /\ _frame = NewTexture(drawableSize)
  /\ resizes = 0

(* initRandomScene *)
InitScene ==
  /\ Initialize(drawableSize)
  /\ UNCHANGED viewVars

(* drawableSizeWillChange: reshape *)
Reshape(s) ==
  /\ pc = "view"
  /\ m_State # "Uninitialized"
  /\ resizes < MaxResizes
  /\ s # drawableSize
  /\ drawableSize' = s
  /\ _frame' = NewTexture(s)
  /\ resizes' = resizes + 1
  /\ UNCHANGED tracerVars

(* render: GetState() == Idle, then RenderFrame *)
RenderIdle ==
  /\ pc = "view"
  /\ m_State = "Idle"
  /\ RenderFrame
  /\ UNCHANGED viewVars

(* render, any other state: it is read a second time. *)
RenderBusy ==
  /\ pc = "view"
  /\ m_State \in {"RenderingFrame", "FrameReady"}
  /\ Goto("again")
  /\ UNCHANGED <<m_State, m_FramesRendered, m_Film, group, sync, toDispatch, viewVars>>

(* else if (GetState() == FrameReady), and the comparison of the sizes *)
CheckReady ==
  /\ pc = "again"
  /\ Goto(IF m_State # "FrameReady" THEN "view"
          ELSE IF m_Film.size = drawableSize THEN "copy" ELSE "drop")
  /\ UNCHANGED <<m_State, m_FramesRendered, m_Film, group, sync, toDispatch, viewVars>>

(* replaceRegion *)
CopyFrame ==
  /\ pc = "copy"
  /\ _frame' = m_Film.rows
  /\ Goto("copied")
  /\ UNCHANGED <<m_State, m_FramesRendered, m_Film, group, sync, toDispatch, drawableSize, resizes>>

FetchFrame ==
  /\ pc \in {"copied", "drop"}
  /\ FrameFetched
  /\ Goto(IF pc = "copied" THEN "view" ELSE "resize")
  /\ UNCHANGED viewVars

FollowView ==
  /\ pc = "resize"
  /\ ResizeFilm(drawableSize)
  /\ Goto("view")
  /\ UNCHANGED viewVars

(* the rest of RenderFrame *)
Dispatching == (DispatchRow \/ Notify) /\ UNCHANGED viewVars

Main ==
  \/ InitScene
  \/ RenderIdle \/ Dispatching
  \/ RenderBusy \/ CheckReady \/ CopyFrame \/ FetchFrame \/ FollowView

Workers == Worker /\ UNCHANGED viewVars

Next ==
  \/ Main
  \/ Workers
  \/ \E s \in Size : Reshape(s)

(***************************************************************************)
(* The view draws again and again and dispatch runs what it is given.      *)
(***************************************************************************)
Fairness == WF_vars(Main) /\ WF_vars(Workers)

Spec == Init /\ [][Next]_vars /\ Fairness

-----------------------------------------------------------------------------

State == {"Uninitialized", "Idle", "RenderingFrame", "FrameReady"}

Labels == {"view", "dispatch", "again", "copy", "copied", "drop", "resize"}

(***************************************************************************)
(* Types: the film and the texture have a row for each of their size, and  *)
(* no film is larger than a view ever was.                                 *)
(***************************************************************************)
TypeOK ==
  /\ m_State \in State
  /\ m_FramesRendered \in Nat
  /\ \E s \in Size \union {0} : m_Film \in [size : {s}, rows : [0 .. s - 1 -> Nat]]
  /\ queued \subseteq Nat \X Nat
  /\ running \subseteq Nat \X Nat
  /\ sync \in {"none", "registered", "counted"}
  /\ pc \in Labels
  /\ toDispatch \in Nat
  /\ drawableSize \in Size
  /\ _frame \in [0 .. drawableSize - 1 -> Nat]
  /\ resizes \in 0 .. MaxResizes

(***************************************************************************)
(* Work items exist only while their frame is rendered, and write inside   *)
(* the film: the main thread never deletes, resizes or reads the film, nor *)
(* re-uses m_WorkItems, while a worker is at work.                         *)
(***************************************************************************)
NoStrayWorker ==
  \A item \in queued \union running :
    /\ m_State = "RenderingFrame"
    /\ item[1] < m_Film.size
    /\ item[2] = m_FramesRendered + 1

(***************************************************************************)
(* The texture is never torn: all its rows show one frame, the one counted *)
(* last when it was copied.                                                *)
(***************************************************************************)
TextureIsWhole ==
  /\ \A i, j \in DOMAIN _frame : _frame[i] = _frame[j]
  /\ pc = "copied" => \A j \in DOMAIN _frame : _frame[j] = m_FramesRendered

(***************************************************************************)
(* The strengthening that is inductive.  Where the main thread is and what *)
(* state it and SyncFunc have left the tracer in determine each other, and *)
(* there are work items only in between.                                   *)
(***************************************************************************)
PhaseExact ==
  /\ m_State = "RenderingFrame" => pc \in {"dispatch", "view", "again"}
  /\ m_State = "FrameReady" => pc \in {"view", "again", "copy", "copied", "drop"}
  /\ m_State = "Idle" => pc \in {"view", "resize"}
  /\ m_State = "Uninitialized" => pc = "view"
  /\ sync = "none" <=> (m_State = "RenderingFrame" => pc = "dispatch")
  /\ sync = "counted" => queued = {} /\ running = {}
  /\ pc # "dispatch" => toDispatch = 0
  /\ toDispatch <= m_Film.size

(* A row of the frame is yet to be dispatched, is in the group, or is done. *)
RowsAccounted ==
  \A row \in DOMAIN m_Film.rows :
    \/ m_State \in {"Uninitialized", "Idle"}
    \/ m_State = "RenderingFrame" /\ sync # "counted"
         /\ \/ row < toDispatch
            \/ <<row, m_FramesRendered + 1>> \in queued \union running
            \/ m_Film.rows[row] = m_FramesRendered + 1
    \/ (m_State = "RenderingFrame" => sync = "counted")
         /\ m_Film.rows[row] = m_FramesRendered

(* What is copied has the size of the texture. *)
CopyFits ==
  /\ pc \in {"copy", "copied"} => m_Film.size = drawableSize
  /\ pc = "copied" => _frame = m_Film.rows

IInv ==
  /\ TypeOK
  /\ PhaseExact
  /\ NoStrayWorker
  /\ RowsAccounted
  /\ CopyFits
  /\ TextureIsWhole

(***************************************************************************)
(* If the view keeps its size, the last frame gets shown.  If it does not, *)
(* it may never be: the frames dropped because of a resize are counted,    *)
(* and none is rendered in their place.                                    *)
(***************************************************************************)
ShownUnlessResized ==
  FramesToRender > 0 /\ [](resizes = 0) =>
    <>(\A j \in DOMAIN _frame : _frame[j] = FramesToRender)

(* A frame counts from the moment SyncFunc announces it. *)
Source == INSTANCE FrameSource WITH
            phase <- m_State,
            count <- m_FramesRendered - (IF sync = "counted" THEN 1 ELSE 0)

(***************************************************************************)
(* Tracer, application and dispatch together are the source of frames, and *)
(* never get stuck before the last one: each frame is rendered once,       *)
(* announced and fetched before the next.                                  *)
(***************************************************************************)
ImplementsFrameSource == Source!Spec

=============================================================================
