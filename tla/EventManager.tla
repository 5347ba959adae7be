---------------------------- MODULE EventManager ----------------------------
(***************************************************************************)
(* ThEventManager (include/Thor/ECS/ThEventManager.h): one event stream    *)
(* per registered event id, and ProcessEvents, which runs through the      *)
(* streams in the order of their registration and through the callbacks of *)
(* each from the newest to the oldest.  A callback receives a pointer to   *)
(* the read buffer and its length and reads the events one by one; between *)
(* two reads it may emit events of any id and register callbacks and ids,  *)
(* its own stream included.  (Calling ProcessEvents again from a callback  *)
(* is not modelled.)                                                       *)
(*                                                                         *)
(* Three vectors can move while ProcessEvents has pointers into them: the  *)
(* read buffer, the slots with the std::function that is running, and the  *)
(* items of the hash map that it iterates over.                            *)
(***************************************************************************)
EXTENDS EventStream, FiniteSetsExt

CONSTANTS
  EventId,
  ItemsGrowth,    \* first capacity of the hash map's items (10 in the code)
  MaxEmitted,     \* bound on the events emitted, all ids together
  MaxSlots        \* bound on the callbacks of all ids together

ASSUME BoundsAssumption ==
  /\ IsFiniteSet(EventId)
  /\ ItemsGrowth \in Nat \ {0}
  /\ MaxEmitted \in Nat
  /\ MaxSlots \in Nat

VARIABLES
  m_EventStreams,   \* registered id -> stream
  order,            \* the ids in the order of the hash map's items
  frame,            \* where ProcessEvents is: see Frame
  emitted,          \* history: events of each id emitted so far, numbered from 1
  flipped,          \* history: emitted at the last flip of each stream
  seen,             \* history: <<id, slot>> -> events that callback has been given
  joined,           \* history: <<id, slot>> -> emitted when it was registered
  got,              \* history: the events the running callback has read
  misused           \* freed memory was used: nothing is known from then on

vars == <<m_EventStreams, order, frame, emitted, flipped, seen, joined, got, misused>>
history == <<emitted, flipped, seen, joined, got>>

Registered == DOMAIN m_EventStreams

(***************************************************************************)
(* The control state.  "idle": outside ProcessEvents.  "streams": about to *)
(* process order[at].  "slots": about to call slot "slot" of order[at].    *)
(* "callback": that slot is reading event "next" of the "size" it was      *)
(* given; "dangling": the buffer or the slots have moved since then.       *)
(* "adrift": the items have moved, and the iterator points to freed ones.  *)
(***************************************************************************)
Frame == [pc : {"idle", "streams", "slots", "callback"}, at : Nat, slot : Nat,
          next : Nat, size : Nat, dangling : BOOLEAN, adrift : BOOLEAN]

Idle == [pc |-> "idle", at |-> 0, slot |-> 0, next |-> 0, size |-> 0, dangling |-> FALSE,
         adrift |-> FALSE]

Current == order[frame.at]

-----------------------------------------------------------------------------

Init ==
  /\ m_EventStreams = [id \in {} |-> NewStream]
  /\ order = << >>
  /\ frame = Idle
  /\ emitted = [id \in EventId |-> 0]
  /\ flipped = [id \in EventId |-> 0]
  /\ seen = [c \in {} |-> {}]
  /\ joined = [c \in {} |-> 0]
  /\ got = << >>
  /\ misused = FALSE

(* Registration and emission, outside ProcessEvents or from a callback. *)
CanCall == frame.pc \in {"idle", "callback"}

(* The capacity of the items is 0 at first, and twice and ItemsGrowth more *)
(* whenever they are full.                                                 *)
ItemsFull == \E k \in 0 .. Len(order) : Len(order) = ItemsGrowth * (2 ^ k - 1)

(* RegisterEvent: a second registration changes nothing. *)
RegisterEvent(id) ==
  /\ CanCall
  /\ id \notin Registered
  /\ m_EventStreams' = [i \in Registered \union {id} |->
                          IF i = id THEN NewStream ELSE m_EventStreams[i]]
  /\ order' = Append(order, id)
  /\ frame' = [frame EXCEPT !.adrift = @ \/ (frame.pc = "callback" /\ ItemsFull)]
  /\ UNCHANGED <<history, misused>>

(* RegisterCallback: the slots have no spare capacity and always move. *)
RegisterSlot(id) ==
  /\ CanCall
  /\ id \in Registered
  /\ Cardinality(DOMAIN seen) < MaxSlots
  /\ m_EventStreams' = [m_EventStreams EXCEPT ![id] = RegisterCallback(@)]
  /\ LET c == <<id, m_EventStreams[id].slots + 1>>
     IN  /\ seen' = [s \in DOMAIN seen \union {c} |-> IF s = c THEN {} ELSE seen[s]]
         /\ joined' = [s \in DOMAIN joined \union {c} |-> IF s = c THEN emitted[id] ELSE joined[s]]
  /\ frame' = [frame EXCEPT !.dangling = @ \/ (frame.pc = "callback" /\ id = Current)]
  /\ UNCHANGED <<order, emitted, flipped, got, misused>>

(* The events emitted so far, of all ids. *)
Emitted == {e \in EventId \X (1 .. MaxEmitted) : e[2] <= emitted[e[1]]}

(* EmitEvent: an event of an unregistered id is dropped. *)
EmitEvent(id) ==
  /\ CanCall
  /\ id \in Registered
  /\ Cardinality(Emitted) < MaxEmitted
  /\ LET before == m_EventStreams[id]
         after  == Emit(before, emitted[id] + 1)
         moves  == frame.pc = "callback" /\ id = Current /\ ReadBufferMoved(before, after)
     IN  /\ m_EventStreams' = [m_EventStreams EXCEPT ![id] = after]
         /\ frame' = [frame EXCEPT !.dangling = @ \/ moves]
  /\ emitted' = [emitted EXCEPT ![id] = @ + 1]
  /\ UNCHANGED <<order, flipped, seen, joined, got, misused>>

(* ThEventManager::ProcessEvents is called. *)
BeginProcessing ==
  /\ frame.pc = "idle"
  /\ frame' = [Idle EXCEPT !.pc = "streams", !.at = 1]
  /\ UNCHANGED <<m_EventStreams, order, history, misused>>

(* ThEventStream::ProcessEvents: flip, then the slots from the last. *)
ProcessStream ==
  /\ frame.pc = "streams"
  /\ frame.at <= Len(order)
  /\ m_EventStreams' = [m_EventStreams EXCEPT ![Current] = Flip(@)]
  /\ flipped' = [flipped EXCEPT ![Current] = emitted[Current]]
  /\ frame' = [frame EXCEPT !.pc = "slots", !.slot = m_EventStreams[Current].slots]
  /\ UNCHANGED <<order, emitted, seen, joined, got, misused>>

CallSlot ==
  /\ frame.pc = "slots"
  /\ frame.slot > 0
  /\ frame' = [frame EXCEPT !.pc = "callback", !.next = 1, !.dangling = FALSE,
                            !.size = Len(ReadBuffer(m_EventStreams[Current]))]
  /\ got' = << >>
  /\ UNCHANGED <<m_EventStreams, order, emitted, flipped, seen, joined, misused>>

(* The running callback, or the loop over the streams, goes on in memory   *)
(* that was freed when a vector moved.                                     *)
UseFreedMemory ==
  /\ \/ frame.dangling /\ frame.pc = "callback" /\ frame.next <= frame.size
     \/ frame.adrift /\ frame.pc = "slots" /\ frame.slot = 0
  /\ misused' = TRUE
  /\ UNCHANGED <<m_EventStreams, order, frame, history>>

(* The running callback reads the next event of its batch. *)
ReadEvent ==
  /\ frame.pc = "callback"
  /\ frame.next <= frame.size
  /\ ~ frame.dangling
  /\ LET event == ReadBuffer(m_EventStreams[Current])[frame.next]
     IN  /\ got' = Append(got, event)
         /\ seen' = [seen EXCEPT ![<<Current, frame.slot>>] = @ \union {event}]
  /\ frame' = [frame EXCEPT !.next = @ + 1]
  /\ UNCHANGED <<m_EventStreams, order, emitted, flipped, joined, misused>>

EndCallback ==
  /\ frame.pc = "callback"
  /\ frame.next > frame.size
  /\ frame' = [frame EXCEPT !.pc = "slots", !.slot = @ - 1, !.next = 0, !.size = 0,
                            !.dangling = FALSE]
  /\ got' = << >>
  /\ UNCHANGED <<m_EventStreams, order, emitted, flipped, seen, joined, misused>>

EndStream ==
  /\ frame.pc = "slots"
  /\ frame.slot = 0
  /\ ~ frame.adrift
  /\ frame' = [frame EXCEPT !.pc = "streams", !.at = @ + 1]
  /\ UNCHANGED <<m_EventStreams, order, history, misused>>

EndProcessing ==
  /\ frame.pc = "streams"
  /\ frame.at > Len(order)
  /\ frame' = Idle
  /\ UNCHANGED <<m_EventStreams, order, history, misused>>

(* After that the model stops. *)
Undefined == misused /\ UNCHANGED vars

Next ==
  \/ Undefined
  \/ ~ misused /\ \E id \in EventId : RegisterEvent(id) \/ RegisterSlot(id) \/ EmitEvent(id)
  \/ ~ misused /\ \/ BeginProcessing \/ ProcessStream \/ CallSlot \/ ReadEvent
                  \/ EndCallback \/ EndStream \/ EndProcessing \/ UseFreedMemory

Spec == Init /\ [][Next]_vars

-----------------------------------------------------------------------------

Stream == [buffer : [0 .. 1 -> Seq(1 .. MaxEmitted)], capacity : [0 .. 1 -> Nat],
           write : 0 .. 1, slots : 0 .. MaxSlots]

Callback == {c \in EventId \X (1 .. MaxSlots) :
               c[1] \in Registered /\ c[2] <= m_EventStreams[c[1]].slots}

(***************************************************************************)
(* Types: the write index stays 0 or 1, and every registered callback has  *)
(* its history.                                                            *)
(***************************************************************************)
TypeOK ==
  /\ m_EventStreams \in [Registered -> Stream]
  /\ Registered \subseteq EventId
  /\ order \in Seq(Registered)
  /\ frame \in Frame
  /\ emitted \in [EventId -> 0 .. MaxEmitted]
  /\ flipped \in [EventId -> 0 .. MaxEmitted]
  /\ seen \in [Callback -> SUBSET (1 .. MaxEmitted)]
  /\ joined \in [Callback -> 0 .. MaxEmitted]
  /\ got \in Seq(1 .. MaxEmitted)
  /\ misused \in BOOLEAN

(***************************************************************************)
(* A callback is given its events in the order of their emission, and none *)
(* emitted after its stream was flipped: what callbacks emit while the     *)
(* stream is processed waits for the next ProcessEvents.  A vector that   *)
(* moves, of events, slots or streams, does no harm by itself: this holds  *)
(* until the callback or ProcessEvents goes on in the memory it left.      *)
(***************************************************************************)
BatchInOrder ==
  ~ misused =>
    \A j \in DOMAIN got : /\ got[j] \in 1 .. flipped[Current]
                          /\ j > 1 => got[j - 1] < got[j]

(***************************************************************************)
(* No event is lost: when ProcessEvents has finished, every callback has   *)
(* been given every event emitted between its registration and the flip of *)
(* its stream, in this call or in an earlier one.  This includes callbacks *)
(* and streams registered from inside a callback.                          *)
(***************************************************************************)
NothingLost ==
  frame.pc = "idle" /\ ~ misused =>
    \A c \in DOMAIN seen : joined[c] + 1 .. flipped[c[1]] \subseteq seen[c]

(***************************************************************************)
(* The buffer a callback reads does not change under it, whatever the      *)
(* callback emits: its batch keeps the length the callback was given.      *)
(***************************************************************************)
BatchIsStable ==
  [][frame.pc = "callback" /\ frame'.pc = "callback" =>
       ReadBuffer(m_EventStreams[Current])' = ReadBuffer(m_EventStreams[Current])]_vars

-----------------------------------------------------------------------------
(***************************************************************************)
(* The strengthening that is inductive.  Of each stream: what is in the    *)
(* buffers is in the order of emission, what is read was there at the last *)
(* flip, and what was emitted since is being written.                      *)
(***************************************************************************)
Ascending(events) == \A j, k \in DOMAIN events : j < k => events[j] < events[k]

StreamExact(id) ==
  LET stream == m_EventStreams[id]
      batch  == ReadBuffer(stream)
      next   == stream.buffer[stream.write]
  IN  /\ Ascending(batch) /\ \A j \in DOMAIN batch : batch[j] <= flipped[id]
      /\ Ascending(next) /\ \A j \in DOMAIN next : next[j] <= emitted[id]
      /\ flipped[id] + 1 .. emitted[id] \subseteq Range(next)

StreamsExact ==
  \A id \in EventId : /\ flipped[id] <= emitted[id]
                      /\ IF id \in Registered THEN StreamExact(id) ELSE emitted[id] = 0

(* ProcessEvents is inside its vectors; the running callback has read the  *)
(* first events of its batch.                                              *)
FrameExact ==
  LET batch == ReadBuffer(m_EventStreams[Current])
  IN  /\ frame.pc # "idle" => frame.at > 0
      /\ frame.pc \in {"slots", "callback"} =>
            frame.at <= Len(order) /\ frame.slot <= m_EventStreams[Current].slots
      /\ frame.pc = "callback" =>
            /\ frame.slot > 0 /\ frame.size = Len(batch) /\ frame.next \in 1 .. frame.size + 1
            /\ Len(got) = frame.next - 1 /\ \A j \in DOMAIN got : got[j] = batch[j]
      /\ frame.pc # "callback" => got = << >>

(* Callback c is still to be given event j of its stream's batch. *)
Awaits(c, j) ==
  /\ frame.pc \in {"slots", "callback"}
  /\ c[1] = Current
  /\ \/ c[2] < frame.slot
     \/ c[2] = frame.slot /\ (frame.pc = "callback" => j >= frame.next)

(* What was emitted between a registration and the last flip has been      *)
(* given to the callback or is still to be.                                *)
GivenOrAwaited ==
  \A c \in DOMAIN seen :
    LET batch == ReadBuffer(m_EventStreams[c[1]])
    IN  \A event \in joined[c] + 1 .. flipped[c[1]] :
          event \in seen[c] \/ \E j \in DOMAIN batch : batch[j] = event /\ Awaits(c, j)

IInv ==
  /\ TypeOK
  /\ StreamsExact
  /\ FrameExact
  /\ GivenOrAwaited

=============================================================================
