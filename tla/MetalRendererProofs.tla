------------------------ MODULE MetalRendererProofs ------------------------
(***************************************************************************)
(* Proofs about MetalRenderer and the RayTracer below it for all sizes of  *)
(* films, any number of frames and any number of workers and resizes.      *)
(***************************************************************************)
EXTENDS MetalRenderer, TLAPS

USE DEF State, Labels

(***************************************************************************)
(* The film is a record of its size and of one frame number per row.       *)
(***************************************************************************)
LEMMA FilmShape ==
  ASSUME TypeOK
  PROVE  /\ m_Film = [size |-> m_Film.size, rows |-> m_Film.rows]
         /\ m_Film.size \in Nat /\ m_Film.size \in Size \union {0}
         /\ m_Film.rows \in [0 .. m_Film.size - 1 -> Nat]
BY RayTracerAssumption DEF TypeOK

(* A film as Film::Init leaves it. *)
LEMMA NewFilmShape ==
  ASSUME NEW s \in Size \union {0}
  PROVE  /\ NewFilm(s).size = s
         /\ NewFilm(s).rows \in [0 .. s - 1 -> Nat]
         /\ \A j \in 0 .. s - 1 : NewFilm(s).rows[j] = 0
         /\ \E z \in Size \union {0} : NewFilm(s) \in [size : {z}, rows : [0 .. z - 1 -> Nat]]
BY RayTracerAssumption DEF NewFilm

(***************************************************************************)
(* The invariant holds at first: no film, no work items.                   *)
(***************************************************************************)
LEMMA InitIInv == Init => IInv
<1> SUFFICES ASSUME Init PROVE IInv
  OBVIOUS
<1>1. /\ m_Film.size = 0 /\ DOMAIN m_Film.rows = {} /\ _frame \in [0 .. drawableSize - 1 -> Nat]
      /\ \A j \in DOMAIN _frame : _frame[j] = 0
  <2>1. m_Film = NewFilm(0) /\ drawableSize \in Size /\ _frame = NewFilm(drawableSize).rows
    BY DEF Init, InitTracer, NewTexture
  <2>2. m_Film.size = 0 /\ DOMAIN m_Film.rows = 0 .. 0 - 1
    BY <2>1 DEF NewFilm
  <2>3. 0 .. 0 - 1 = {}
    OBVIOUS
  <2>4. /\ _frame \in [0 .. drawableSize - 1 -> Nat]
        /\ \A j \in DOMAIN _frame : _frame[j] = 0
    BY <2>1, NewFilmShape
  <2> QED BY <2>2, <2>3, <2>4
<1>2. TypeOK
  BY <1>1, NewFilmShape, MetalRendererAssumption DEF Init, InitTracer, TypeOK
<1>3. PhaseExact /\ NoStrayWorker /\ RowsAccounted /\ CopyFits /\ TextureIsWhole
  BY <1>1 DEF Init, InitTracer, PhaseExact, NoStrayWorker, RowsAccounted, CopyFits, TextureIsWhole
<1> QED BY <1>2, <1>3 DEF IInv

(***************************************************************************)
(* RayTracer::Init makes the first film, of the view's size.               *)
(***************************************************************************)
LEMMA InitSceneIInv == IInv /\ InitScene => IInv'
<1> SUFFICES ASSUME IInv, InitScene PROVE IInv'
  OBVIOUS
<1> USE DEF IInv, InitScene, Initialize, group, viewVars
<1>1. drawableSize \in Size \union {0}
  BY DEF TypeOK
<1>2. TypeOK'
  BY <1>1, NewFilmShape DEF TypeOK
<1>3. PhaseExact' /\ NoStrayWorker' /\ RowsAccounted' /\ CopyFits' /\ TextureIsWhole'
  BY <1>1, NewFilmShape, RayTracerAssumption
  DEF TypeOK, PhaseExact, NoStrayWorker, RowsAccounted, CopyFits, TextureIsWhole
<1> QED BY <1>2, <1>3

(***************************************************************************)
(* RenderFrame: it begins only when the tracer is idle, so that the group  *)
(* is empty, and then every row is yet to be dispatched.                   *)
(***************************************************************************)
LEMMA RenderIdleIInv == IInv /\ RenderIdle => IInv'
<1> SUFFICES ASSUME IInv, RenderIdle PROVE IInv'
  OBVIOUS
<1> USE FilmShape DEF IInv, RenderIdle, RenderFrame, viewVars
<1>1. CASE RejectFrame
  BY <1>1 DEF RejectFrame, tracerVars, TypeOK, PhaseExact, NoStrayWorker, RowsAccounted, CopyFits,
              TextureIsWhole
<1>2. CASE BeginFrame
  BY <1>2 DEF BeginFrame, Goto, group, TypeOK, PhaseExact, NoStrayWorker, RowsAccounted, CopyFits,
              TextureIsWhole
<1> QED BY <1>1, <1>2

(***************************************************************************)
(* A dispatched row goes from the rows to dispatch to the group; when none *)
(* is left, SyncFunc is registered.                                        *)
(***************************************************************************)
LEMMA DispatchingIInv == IInv /\ Dispatching => IInv'
<1> SUFFICES ASSUME IInv, Dispatching PROVE IInv'
  OBVIOUS
<1> USE FilmShape DEF IInv, Dispatching, viewVars
<1>1. CASE DispatchRow
  <2> USE <1>1 DEF DispatchRow
  <2>1. TypeOK' /\ PhaseExact' /\ NoStrayWorker'
    BY DEF TypeOK, PhaseExact, NoStrayWorker
  <2>2. RowsAccounted'
    BY DEF TypeOK, PhaseExact, RowsAccounted
  <2> QED BY <2>1, <2>2 DEF CopyFits, TextureIsWhole
<1>2. CASE Notify
  BY <1>2 DEF Notify, Goto, group, TypeOK, PhaseExact, NoStrayWorker, RowsAccounted, CopyFits,
              TextureIsWhole
<1> QED BY <1>1, <1>2

(***************************************************************************)
(* A worker takes a work item: the group stays the same.                   *)
(***************************************************************************)
LEMMA StartRowIInv ==
  ASSUME IInv, NEW item \in queued, StartRow(item), UNCHANGED viewVars
  PROVE  IInv'
BY FilmShape DEF IInv, StartRow, viewVars, TypeOK, PhaseExact, NoStrayWorker, RowsAccounted,
                 CopyFits, TextureIsWhole

(***************************************************************************)
(* A row that is written holds the frame of its work item, which is the    *)
(* one being rendered, and lies inside the film; the texture is not being  *)
(* compared with the film then.                                            *)
(***************************************************************************)
LEMMA FinishRowIInv ==
  ASSUME IInv, NEW item \in running, FinishRow(item), UNCHANGED viewVars
  PROVE  IInv'
<1> USE FilmShape DEF IInv, FinishRow, viewVars
<1>1. /\ m_State = "RenderingFrame" /\ sync # "counted"
      /\ item \in Nat \X Nat /\ item[2] = m_FramesRendered + 1
  BY DEF TypeOK, PhaseExact, NoStrayWorker
<1>2. /\ m_Film'.size = m_Film.size
      /\ m_Film'.rows = [j \in 0 .. m_Film.size - 1 |->
                           IF j = item[1] THEN item[2] ELSE m_Film.rows[j]]
      /\ m_Film' = [size |-> m_Film'.size, rows |-> m_Film'.rows]
  OBVIOUS
<1>3. m_Film'.rows \in [0 .. m_Film.size - 1 -> Nat]
  BY <1>1, <1>2
<1>4. TypeOK'
  <2>1. m_Film' \in [size : {m_Film.size}, rows : [0 .. m_Film.size - 1 -> Nat]]
    BY <1>2, <1>3
  <2> QED BY <2>1 DEF TypeOK
<1>5. PhaseExact' /\ NoStrayWorker'
  BY <1>1, <1>2 DEF PhaseExact, NoStrayWorker
<1>6. RowsAccounted'
  <2> SUFFICES ASSUME NEW row \in 0 .. m_Film.size - 1
               PROVE  \/ row < toDispatch
                      \/ <<row, m_FramesRendered + 1>> \in queued \union (running \ {item})
                      \/ m_Film'.rows[row] = m_FramesRendered + 1
    BY <1>1, <1>2 DEF RowsAccounted
  <2>1. CASE row = item[1]
    BY <2>1, <1>1, <1>2
  <2>2. CASE row # item[1]
    BY <2>2, <1>1, <1>2 DEF RowsAccounted
  <2> QED BY <2>1, <2>2
<1>7. CopyFits' /\ TextureIsWhole'
  BY <1>1 DEF PhaseExact, CopyFits, TextureIsWhole
<1> QED BY <1>4, <1>5, <1>6, <1>7

(***************************************************************************)
(* SyncFunc: with the group empty and no row left to dispatch, all rows of *)
(* the frame are done.                                                     *)
(***************************************************************************)
LEMMA SyncIInv == IInv /\ (SyncCount \/ SyncReady) /\ UNCHANGED viewVars => IInv'
<1> SUFFICES ASSUME IInv, SyncCount \/ SyncReady, UNCHANGED viewVars PROVE IInv'
  OBVIOUS
<1> USE FilmShape DEF IInv, group, viewVars
<1>1. CASE SyncCount
  BY <1>1 DEF SyncCount, TypeOK, PhaseExact, NoStrayWorker, RowsAccounted, CopyFits, TextureIsWhole
<1>2. CASE SyncReady
  BY <1>2 DEF SyncReady, TypeOK, PhaseExact, NoStrayWorker, RowsAccounted, CopyFits, TextureIsWhole
<1> QED BY <1>1, <1>2

(***************************************************************************)
(* render with a frame on its way or ready: what is copied is a finished   *)
(* frame, since only this thread begins another.                           *)
(***************************************************************************)
LEMMA ShowIInv == IInv /\ (RenderBusy \/ CheckReady \/ CopyFrame \/ FetchFrame) => IInv'
<1> SUFFICES ASSUME IInv, RenderBusy \/ CheckReady \/ CopyFrame \/ FetchFrame PROVE IInv'
  OBVIOUS
<1> USE FilmShape DEF IInv, Goto, group, viewVars
<1>1. CASE RenderBusy
  BY <1>1 DEF RenderBusy, TypeOK, PhaseExact, NoStrayWorker, RowsAccounted, CopyFits, TextureIsWhole
<1>2. CASE CheckReady
  BY <1>2 DEF CheckReady, TypeOK, PhaseExact, NoStrayWorker, RowsAccounted, CopyFits, TextureIsWhole
<1>3. CASE CopyFrame
  BY <1>3 DEF CopyFrame, TypeOK, PhaseExact, NoStrayWorker, RowsAccounted, CopyFits, TextureIsWhole
<1>4. CASE FetchFrame
  BY <1>4 DEF FetchFrame, FrameFetched, TypeOK, PhaseExact, NoStrayWorker, RowsAccounted, CopyFits,
              TextureIsWhole
<1> QED BY <1>1, <1>2, <1>3, <1>4

(***************************************************************************)
(* ResizeFilm comes after the frame was fetched: no work item is left that *)
(* would write outside the new film.                                       *)
(***************************************************************************)
LEMMA FollowViewIInv == IInv /\ FollowView => IInv'
<1> SUFFICES ASSUME IInv, FollowView PROVE IInv'
  OBVIOUS
<1> USE DEF IInv, FollowView, ResizeFilm, Goto, group, viewVars
<1>1. /\ drawableSize \in Size \union {0} /\ pc' = "view" /\ toDispatch' = 0
      /\ m_State' = "Idle" /\ m_Film' = NewFilm(drawableSize)
  BY DEF TypeOK, PhaseExact
<1>2. TypeOK'
  BY <1>1, NewFilmShape DEF TypeOK
<1>3. PhaseExact' /\ NoStrayWorker' /\ RowsAccounted' /\ CopyFits' /\ TextureIsWhole'
  BY <1>1, NewFilmShape, RayTracerAssumption
  DEF TypeOK, PhaseExact, NoStrayWorker, RowsAccounted, CopyFits, TextureIsWhole
<1> QED BY <1>2, <1>3

(***************************************************************************)
(* A new size of the view makes a new texture, and leaves the tracer alone.*)
(***************************************************************************)
LEMMA ReshapeIInv ==
  ASSUME IInv, NEW s \in Size, Reshape(s)
  PROVE  IInv'
<1> USE DEF IInv, Reshape, tracerVars
<1>1. _frame' \in [0 .. s - 1 -> Nat] /\ \A j \in 0 .. s - 1 : _frame'[j] = 0
  BY NewFilmShape DEF NewTexture
<1>2. TypeOK'
  BY <1>1, MetalRendererAssumption DEF TypeOK
<1>3. PhaseExact' /\ NoStrayWorker' /\ RowsAccounted' /\ CopyFits' /\ TextureIsWhole'
  BY <1>1 DEF PhaseExact, NoStrayWorker, RowsAccounted, CopyFits, TextureIsWhole
<1> QED BY <1>2, <1>3

LEMMA NextIInv == IInv /\ [Next]_vars => IInv'
<1> SUFFICES ASSUME IInv, [Next]_vars PROVE IInv'
  OBVIOUS
<1>1. CASE Workers
  BY <1>1, StartRowIInv, FinishRowIInv, SyncIInv DEF Workers, Worker
<1>2. CASE UNCHANGED vars
  BY <1>2 DEF vars, tracerVars, viewVars, IInv, TypeOK, PhaseExact, NoStrayWorker, RowsAccounted,
              CopyFits, TextureIsWhole
<1> QED BY <1>1, <1>2, InitSceneIInv, RenderIdleIInv, DispatchingIInv, ShowIInv, FollowViewIInv,
           ReshapeIInv DEF Next, Main

LEMMA Invariance == Spec => []IInv
BY InitIInv, NextIInv, PTL DEF Spec

-----------------------------------------------------------------------------

(***************************************************************************)
(* Film, texture and the state of the two threads keep their types.        *)
(***************************************************************************)
THEOREM TypeCorrect == Spec => []TypeOK
<1>1. IInv => TypeOK
  BY DEF IInv
<1> QED BY <1>1, Invariance, PTL

(***************************************************************************)
(* For films of any size, in every interleaving of the main thread and the *)
(* workers: work items exist only while their frame is rendered, and write *)
(* inside the film.                                                        *)
(***************************************************************************)
THEOREM WorkersStayInTheirFrame == Spec => []NoStrayWorker
<1>1. IInv => NoStrayWorker
  BY DEF IInv
<1> QED BY <1>1, Invariance, PTL

(***************************************************************************)
(* The texture never shows parts of two frames.                            *)
(***************************************************************************)
THEOREM TextureNeverTorn == Spec => []TextureIsWhole
<1>1. IInv => TextureIsWhole
  BY DEF IInv
<1> QED BY <1>1, Invariance, PTL

-----------------------------------------------------------------------------

(***************************************************************************)
(* SyncReady announces the frame, BeginFrame and FetchFrame do what their  *)
(* abstract counterparts do, and everything else is invisible.             *)
(***************************************************************************)
LEMMA StepImplementsSource ==
  ASSUME IInv, [Next]_vars
  PROVE  [Source!Next]_(Source!vars)
<1> USE DEF Source!Next, Source!vars
<1>1. CASE InitScene
  BY <1>1 DEF InitScene, Initialize, Source!Open, IInv, PhaseExact
<1>2. CASE RenderIdle
  <2>1. CASE RejectFrame
    BY <2>1 DEF RejectFrame, tracerVars
  <2>2. CASE BeginFrame
    BY <1>2, <2>2, RayTracerAssumption
    DEF RenderIdle, BeginFrame, AllRendered, Source!Start, IInv, TypeOK, PhaseExact
  <2> QED BY <1>2, <2>1, <2>2 DEF RenderIdle, RenderFrame
<1>3. CASE Dispatching
  BY <1>3 DEF Dispatching, DispatchRow, Notify, IInv, PhaseExact
<1>4. CASE RenderBusy \/ CheckReady \/ CopyFrame
  BY <1>4 DEF RenderBusy, CheckReady, CopyFrame
<1>5. CASE FetchFrame
  BY <1>5 DEF FetchFrame, FrameFetched, Source!Fetch, IInv, PhaseExact
<1>6. CASE FollowView
  BY <1>6 DEF FollowView, ResizeFilm
<1>7. CASE Workers
  <2>1. ASSUME NEW item, StartRow(item) \/ FinishRow(item)
        PROVE  UNCHANGED Source!vars
    BY <2>1 DEF StartRow, FinishRow
  <2>2. CASE SyncCount
    BY <2>2 DEF SyncCount, IInv, TypeOK
  <2>3. CASE SyncReady
    BY <2>3 DEF SyncReady, Source!Complete, IInv, TypeOK, PhaseExact
  <2> QED BY <1>7, <2>1, <2>2, <2>3 DEF Workers, Worker
<1>8. ASSUME NEW s \in Size, Reshape(s) PROVE UNCHANGED Source!vars
  BY <1>8 DEF Reshape, tracerVars
<1>9. CASE UNCHANGED vars
  BY <1>9 DEF vars, tracerVars
<1> QED BY <1>1, <1>2, <1>3, <1>4, <1>5, <1>6, <1>7, <1>8, <1>9 DEF Next, Main

(***************************************************************************)
(* The safety part of ImplementsFrameSource: the application sees frames   *)
(* begun, announced and fetched one after the other, each counted once and *)
(* never more than FramesToRender of them.                                 *)
(***************************************************************************)
THEOREM SourceRefinement == Spec => Source!Init /\ [][Source!Next]_(Source!vars)
<1>1. Init => Source!Init
  BY DEF Init, InitTracer, Source!Init
<1>2. IInv /\ [Next]_vars => [Source!Next]_(Source!vars)
  BY StepImplementsSource
<1> QED BY <1>1, <1>2, Invariance, PTL DEF Spec
=============================================================================
