------------------------ MODULE EventManagerProofs ------------------------
(***************************************************************************)
(* Proofs about EventManager for any number of event ids, callbacks and    *)
(* events, and any growth of its vectors.                                  *)
(***************************************************************************)
EXTENDS EventManager, FiniteSetTheorems, SequenceTheorems, TLAPS

(***************************************************************************)
(* Streams: a new one is empty; an emission adds to the buffer that is     *)
(* written, whether the buffers grow or not; a flip changes the roles.     *)
(***************************************************************************)
LEMMA NewStreamIsStream ==
  /\ NewStream \in Stream
  /\ NewStream.slots = 0 /\ \A b \in 0 .. 1 : NewStream.buffer[b] = << >>
BY ReserveAssumption, BoundsAssumption DEF NewStream, Stream

LEMMA StreamShape ==
  ASSUME NEW s \in Stream
  PROVE  /\ s = [buffer |-> s.buffer, capacity |-> s.capacity, write |-> s.write, slots |-> s.slots]
         /\ s.buffer \in [0 .. 1 -> Seq(1 .. MaxEmitted)]
         /\ s.capacity \in [0 .. 1 -> Nat]
         /\ s.write \in 0 .. 1 /\ 1 - s.write \in 0 .. 1 /\ 1 - s.write # s.write
         /\ s.slots \in 0 .. MaxSlots
BY DEF Stream

LEMMA EmitWrites ==
  ASSUME NEW s \in Stream, NEW event \in 1 .. MaxEmitted
  PROVE  /\ Emit(s, event) \in Stream
         /\ Emit(s, event).write = s.write /\ Emit(s, event).slots = s.slots
         /\ ReadBuffer(Emit(s, event)) = ReadBuffer(s)
         /\ Emit(s, event).buffer[s.write] = Append(s.buffer[s.write], event)
<1> USE StreamShape
<1> DEFINE size == Len(s.buffer[s.write]) + 1
           buffer == [s.buffer EXCEPT ![s.write] = Append(s.buffer[s.write], event)]
           capacity == [s.capacity EXCEPT ![s.write] = Larger(s.capacity[s.write], size)]
           p == [buffer |-> buffer, capacity |-> capacity, write |-> s.write, slots |-> s.slots]
<1>1. Push(s, event) = p
  <2>1. Push(s, event) = [s EXCEPT !.buffer = buffer, !.capacity = capacity]
    BY Zenon DEF Push
  <2> HIDE DEF buffer, capacity
  <2> QED BY <2>1
<1>2. \A m, n \in Nat : Larger(m, n) \in Nat
  BY DEF Larger
<1>3. p \in Stream
  <2>1. size \in Nat /\ Append(s.buffer[s.write], event) \in Seq(1 .. MaxEmitted)
    OBVIOUS
  <2> QED BY <1>2, <2>1 DEF Stream
<1>4. p.buffer[1 - s.write] = s.buffer[1 - s.write]
  OBVIOUS
<1>5. p.buffer[s.write] = Append(s.buffer[s.write], event)
  OBVIOUS
<1> HIDE DEF p
<1>6. /\ Reserve(p) \in Stream /\ Reserve(p).buffer = p.buffer
      /\ Reserve(p).write = p.write /\ Reserve(p).slots = p.slots
  <2>1. Len(p.buffer[0]) + ReservedEvents \in Nat
    BY <1>3, ReserveAssumption
  <2> QED BY <1>2, <1>3, <2>1 DEF Reserve, Stream
<1>7. p.write = s.write /\ p.slots = s.slots
  BY DEF p
<1> QED BY <1>1, <1>3, <1>4, <1>5, <1>6, <1>7 DEF Emit, ReadBuffer

LEMMA FlipSwaps ==
  ASSUME NEW s \in Stream
  PROVE  /\ Flip(s) \in Stream
         /\ Flip(s).slots = s.slots
         /\ ReadBuffer(Flip(s)) = s.buffer[s.write]
         /\ Flip(s).buffer[Flip(s).write] = ReadBuffer(s)
BY StreamShape DEF Flip, ReadBuffer, Stream

LEMMA RegisterAddsSlot ==
  ASSUME NEW s \in Stream, s.slots < MaxSlots
  PROVE  /\ RegisterCallback(s) \in Stream
         /\ RegisterCallback(s).slots = s.slots + 1
         /\ RegisterCallback(s).write = s.write
         /\ RegisterCallback(s).buffer = s.buffer
BY StreamShape, BoundsAssumption DEF RegisterCallback, Stream

(* An event more at the end of a buffer, later than those in it. *)
LEMMA AppendLater ==
  ASSUME NEW s \in Seq(1 .. MaxEmitted), NEW n \in Nat, n + 1 \in 1 .. MaxEmitted,
         Ascending(s), \A j \in DOMAIN s : s[j] <= n
  PROVE  /\ Ascending(Append(s, n + 1))
         /\ \A j \in DOMAIN Append(s, n + 1) : Append(s, n + 1)[j] <= n + 1
         /\ Range(Append(s, n + 1)) = Range(s) \union {n + 1}
<1> DEFINE t == Append(s, n + 1)
<1>1. /\ DOMAIN t = 1 .. Len(s) + 1 /\ DOMAIN s = 1 .. Len(s) /\ Len(s) \in Nat
      /\ t[Len(s) + 1] = n + 1
      /\ \A j \in 1 .. Len(s) : t[j] = s[j] /\ s[j] \in Nat /\ s[j] < n + 1
  BY BoundsAssumption
<1>2. Range(t) = Range(s) \union {n + 1}
  <2>1. \A j \in DOMAIN t : j = Len(s) + 1 \/ j \in DOMAIN s
    BY <1>1
  <2>2. Len(s) + 1 \in DOMAIN t /\ \A j \in DOMAIN s : j \in DOMAIN t /\ t[j] = s[j]
    BY <1>1
  <2> HIDE DEF t
  <2> QED BY <1>1, <2>1, <2>2 DEF Range
<1> HIDE DEF t
<1>3. Ascending(t) /\ \A j \in DOMAIN t : t[j] <= n + 1
  BY <1>1 DEF Ascending
<1> QED BY <1>2, <1>3 DEF t

LEMMA BufferElements ==
  ASSUME NEW s \in Seq(1 .. MaxEmitted)
  PROVE  /\ Len(s) \in Nat /\ DOMAIN s = 1 .. Len(s)
         /\ \A j \in DOMAIN s : s[j] \in 1 .. MaxEmitted /\ s[j] \in Nat
BY BoundsAssumption

(***************************************************************************)
(* The bounds on all events and on all callbacks bound those of each id.   *)
(***************************************************************************)
LEMMA NumberedIds ==
  ASSUME NEW id \in EventId, NEW n \in Nat
  PROVE  /\ \A S \in SUBSET (EventId \X (1 .. n)) : IsFiniteSet(S)
         /\ Cardinality({id} \X (1 .. n)) = n
<1>1. IsFiniteSet(1 .. n) /\ Cardinality(1 .. n) = n
  BY FS_Interval
<1>2. IsFiniteSet({id}) /\ Cardinality({id}) = 1
  BY FS_Singleton
<1>3. IsFiniteSet(EventId \X (1 .. n))
  <2>1. IsFiniteSet(EventId)
    BY BoundsAssumption
  <2> QED BY <1>1, <2>1, FS_Product
<1>4. Cardinality({id} \X (1 .. n)) = 1 * n
  BY <1>1, <1>2, FS_Product
<1> QED BY <1>3, <1>4, FS_Subset

LEMMA RoomForEvent ==
  ASSUME TypeOK, NEW id \in EventId, Cardinality(Emitted) < MaxEmitted
  PROVE  emitted[id] + 1 \in 1 .. MaxEmitted
<1> SUFFICES ASSUME emitted[id] = MaxEmitted PROVE FALSE
  BY BoundsAssumption DEF TypeOK
<1> DEFINE S == {id} \X (1 .. MaxEmitted)
<1>1. IsFiniteSet(Emitted) /\ Cardinality(S) = MaxEmitted
  BY NumberedIds, BoundsAssumption DEF Emitted
<1>2. S \subseteq Emitted
  BY DEF Emitted
<1> HIDE DEF S
<1>3. Cardinality(S) <= Cardinality(Emitted) /\ Cardinality(Emitted) \in Nat
  BY <1>1, <1>2, FS_Subset, FS_CardinalityType
<1> QED BY <1>1, <1>3, BoundsAssumption

LEMMA RoomForSlot ==
  ASSUME TypeOK, NEW id \in Registered, Cardinality(DOMAIN seen) < MaxSlots
  PROVE  m_EventStreams[id].slots < MaxSlots
<1> SUFFICES ASSUME m_EventStreams[id].slots = MaxSlots PROVE FALSE
  BY StreamShape, BoundsAssumption DEF TypeOK
<1> DEFINE S == {id} \X (1 .. MaxSlots)
<1>1. id \in EventId /\ DOMAIN seen = Callback
  BY DEF TypeOK
<1>2. IsFiniteSet(DOMAIN seen) /\ Cardinality(S) = MaxSlots
  BY <1>1, NumberedIds, BoundsAssumption DEF Callback
<1>3. S \subseteq DOMAIN seen
  BY <1>1, BoundsAssumption DEF Callback
<1> HIDE DEF S
<1>4. Cardinality(S) <= Cardinality(DOMAIN seen) /\ Cardinality(DOMAIN seen) \in Nat
  BY <1>2, <1>3, FS_Subset, FS_CardinalityType
<1> QED BY <1>2, <1>4, BoundsAssumption

LEMMA InitIInv == Init => IInv
<1> SUFFICES ASSUME Init PROVE IInv
  OBVIOUS
<1>1. Registered = {} /\ Callback = {}
  BY DEF Init, Registered, Callback
<1>2. TypeOK
  <2>1. frame \in Frame /\ << >> \in Seq(Registered) /\ << >> \in Seq(1 .. MaxEmitted)
    BY DEF Init, Frame, Idle
  <2>2. /\ m_EventStreams \in [Registered -> Stream]
        /\ seen \in [Callback -> SUBSET (1 .. MaxEmitted)]
        /\ joined \in [Callback -> 0 .. MaxEmitted]
    BY <1>1, Zenon DEF Init
  <2>3. 0 \in 0 .. MaxEmitted
    BY BoundsAssumption
  <2> QED BY <1>1, <2>1, <2>2, <2>3 DEF Init, TypeOK
<1>3. StreamsExact /\ FrameExact /\ GivenOrAwaited
  BY <1>1 DEF Init, Idle, StreamsExact, FrameExact, GivenOrAwaited
<1> QED BY <1>2, <1>3 DEF IInv
-----------------------------------------------------------------------------

(* Where ProcessEvents is, there is a stream. *)
LEMMA CurrentIsRegistered ==
  ASSUME TypeOK, FrameExact, frame.pc \in {"slots", "callback"}
  PROVE  frame.at \in 1 .. Len(order) /\ Current \in Registered /\ Current \in EventId
BY DEF TypeOK, FrameExact, Frame, Current

(* Each registered callback has its stream. *)
LEMMA CallbackHasStream ==
  ASSUME TypeOK, NEW c \in DOMAIN seen
  PROVE  /\ c[1] \in Registered /\ c[1] \in EventId
         /\ c[2] \in Nat /\ c[2] > 0 /\ c[2] <= m_EventStreams[c[1]].slots
         /\ c = <<c[1], c[2]>> /\ c \in Callback
BY BoundsAssumption DEF TypeOK, Callback

(***************************************************************************)
(* A call that leaves the stream being processed its batch and its slots   *)
(* does not disturb ProcessEvents.                                         *)
(***************************************************************************)
LEMMA CallKeepsFrame ==
  ASSUME TypeOK, FrameExact,
         frame'.pc = frame.pc, frame'.at = frame.at, frame'.slot = frame.slot,
         frame'.next = frame.next, frame'.size = frame.size, got' = got,
         frame.pc \in {"slots", "callback"} =>
           /\ frame.at <= Len(order') /\ Current' = Current
           /\ ReadBuffer(m_EventStreams[Current])' = ReadBuffer(m_EventStreams[Current])
           /\ frame.slot <= m_EventStreams'[Current].slots
  PROVE  FrameExact' /\ \A c, j : Awaits(c, j) => Awaits(c, j)'
<1>1. \A c, j : Awaits(c, j) => Awaits(c, j)'
  BY DEF Awaits
<1>2. FrameExact'
  <2> DEFINE batch == ReadBuffer(m_EventStreams[Current])
  <2>1. frame'.pc # "idle" => frame'.at > 0
    BY DEF FrameExact
  <2>2. frame'.pc \in {"slots", "callback"} =>
          frame'.at <= Len(order') /\ frame'.slot <= m_EventStreams'[Current'].slots
    BY DEF FrameExact
  <2>3. frame.pc = "callback" => batch' = batch
    OBVIOUS
  <2>4. frame.pc = "callback" =>
          /\ frame.slot > 0 /\ frame.size = Len(batch) /\ frame.next \in 1 .. frame.size + 1
          /\ Len(got) = frame.next - 1 /\ \A j \in DOMAIN got : got[j] = batch[j]
    BY DEF FrameExact
  <2>5. frame.pc # "callback" => got = << >>
    BY DEF FrameExact
  <2> HIDE DEF batch
  <2>6. frame'.pc = "callback" =>
          /\ frame'.slot > 0 /\ frame'.size = Len(batch') /\ frame'.next \in 1 .. frame'.size + 1
          /\ Len(got') = frame'.next - 1 /\ \A j \in DOMAIN got' : got'[j] = batch'[j]
    BY <2>3, <2>4
  <2> QED BY <2>1, <2>2, <2>5, <2>6 DEF FrameExact, batch
<1> QED BY <1>1, <1>2

(***************************************************************************)
(* RegisterEvent: the other streams and the one being processed keep their *)
(* places, and nothing was emitted on the new one before.                  *)
(***************************************************************************)
LEMMA RegisterEventIInv ==
  ASSUME IInv, NEW id \in EventId, RegisterEvent(id)
  PROVE  IInv'
<1> USE DEF IInv
<1>1. /\ m_EventStreams' \in [Registered' -> Stream] /\ Registered' = Registered \union {id}
      /\ m_EventStreams'[id] = NewStream
      /\ \A i \in Registered : i # id /\ m_EventStreams'[i] = m_EventStreams[i]
  <2> DEFINE m == [i \in Registered \union {id} |-> IF i = id THEN NewStream ELSE m_EventStreams[i]]
  <2>1. m \in [Registered \union {id} -> Stream] /\ m[id] = NewStream
    BY NewStreamIsStream DEF TypeOK
  <2>2. id \notin Registered /\ m_EventStreams' = m
    BY DEF RegisterEvent
  <2>3. Registered' = Registered \union {id}
    BY <2>2 DEF Registered
  <2> QED BY <2>1, <2>2, <2>3
<1>2. /\ order' = Append(order, id)
      /\ UNCHANGED <<emitted, flipped, seen, joined, got, misused>>
  BY DEF RegisterEvent, history
<1>3. /\ frame' \in Frame
      /\ frame'.pc = frame.pc /\ frame'.at = frame.at /\ frame'.slot = frame.slot
      /\ frame'.next = frame.next /\ frame'.size = frame.size
  BY DEF RegisterEvent, TypeOK, Frame
<1>4. Callback' = Callback
  BY <1>1, NewStreamIsStream DEF Callback, TypeOK
<1>5. TypeOK'
  <2>1. order' \in Seq(Registered')
    BY <1>1, <1>2 DEF TypeOK
  <2> QED BY <1>1, <1>2, <1>3, <1>4, <2>1 DEF TypeOK
<1>7. StreamsExact'
  <2>1. ASSUME NEW i \in EventId PROVE (flipped[i] <= emitted[i])'
    BY <1>2 DEF StreamsExact
  <2>2. StreamExact(id)'
    <3>1. id \notin Registered /\ emitted[id] = 0 /\ flipped[id] <= 0 /\ flipped[id] \in Nat
      BY DEF RegisterEvent, StreamsExact, TypeOK
    <3>2. ReadBuffer(NewStream) = << >> /\ NewStream.buffer[NewStream.write] = << >>
      BY NewStreamIsStream, StreamShape DEF ReadBuffer
    <3> QED BY <1>1, <1>2, <3>1, <3>2 DEF StreamExact, Ascending
  <2>3. ASSUME NEW i \in Registered PROVE StreamExact(i)'
    BY <1>1, <1>2 DEF StreamsExact, StreamExact, TypeOK
  <2>4. ASSUME NEW i \in EventId \ Registered PROVE emitted'[i] = 0
    BY <1>2 DEF StreamsExact
  <2> QED BY <1>1, <2>1, <2>2, <2>3, <2>4 DEF StreamsExact
<1>8. FrameExact' /\ \A c, j : Awaits(c, j) => Awaits(c, j)'
  <2>1. frame.pc \in {"slots", "callback"} =>
          /\ frame.at <= Len(order') /\ Current' = Current
          /\ m_EventStreams'[Current'] = m_EventStreams[Current]
    BY <1>1, <1>2, <1>3, CurrentIsRegistered DEF Current, TypeOK
  <2>2. frame.pc \in {"slots", "callback"} => frame.slot <= m_EventStreams[Current].slots
    BY DEF FrameExact
  <2> QED BY <1>2, <1>3, <2>1, <2>2, CallKeepsFrame
<1>9. GivenOrAwaited'
  <2>1. ASSUME NEW c \in DOMAIN seen PROVE m_EventStreams'[c[1]] = m_EventStreams[c[1]]
    BY <1>1, CallbackHasStream
  <2> QED BY <1>2, <1>8, <2>1 DEF GivenOrAwaited
<1> QED BY <1>5, <1>7, <1>8, <1>9
(***************************************************************************)
(* RegisterCallback: the new slot is behind those still to be called, and  *)
(* waits for nothing that was emitted before.                              *)
(***************************************************************************)
LEMMA RegisterSlotIInv ==
  ASSUME IInv, NEW id \in EventId, RegisterSlot(id)
  PROVE  IInv'
<1> USE DEF IInv
<1> DEFINE stream == m_EventStreams[id]
           new == <<id, stream.slots + 1>>
<1>1. id \in Registered /\ stream \in Stream /\ stream.slots < MaxSlots /\ stream.slots \in Nat
  BY RoomForSlot, StreamShape DEF RegisterSlot, TypeOK
<1>2. /\ m_EventStreams' \in [Registered' -> Stream] /\ Registered' = Registered
      /\ m_EventStreams'[id].slots = stream.slots + 1
      /\ m_EventStreams'[id].write = stream.write /\ m_EventStreams'[id].buffer = stream.buffer
      /\ \A i \in Registered : i # id => m_EventStreams'[i] = m_EventStreams[i]
  BY <1>1, RegisterAddsSlot DEF RegisterSlot, Registered, TypeOK
<1>3. /\ UNCHANGED <<order, emitted, flipped, got, misused>>
      /\ seen' = [s \in Callback \union {new} |-> IF s = new THEN {} ELSE seen[s]]
      /\ joined' = [s \in Callback \union {new} |-> IF s = new THEN emitted[id] ELSE joined[s]]
  BY DEF RegisterSlot, TypeOK
<1>4. /\ frame' \in Frame
      /\ frame'.pc = frame.pc /\ frame'.at = frame.at /\ frame'.slot = frame.slot
      /\ frame'.next = frame.next /\ frame'.size = frame.size
  BY DEF RegisterSlot, TypeOK, Frame
<1>5. Callback' = Callback \union {new}
  <2>1. \A i \in Registered : m_EventStreams[i].slots \in Nat
    BY StreamShape DEF TypeOK
  <2>2. new \in EventId \X (1 .. MaxSlots)
    BY <1>1, BoundsAssumption
  <2> QED BY <1>1, <1>2, <2>1, <2>2 DEF Callback
<1>6. TypeOK'
  <2>1. emitted[id] \in 0 .. MaxEmitted
    BY DEF TypeOK
  <2> QED BY <1>2, <1>3, <1>4, <1>5, <2>1 DEF TypeOK
<1>7. \A i \in Registered : /\ m_EventStreams'[i].write = m_EventStreams[i].write
                            /\ m_EventStreams'[i].buffer = m_EventStreams[i].buffer
                            /\ ReadBuffer(m_EventStreams'[i]) = ReadBuffer(m_EventStreams[i])
  BY <1>2 DEF ReadBuffer
<1>8. StreamsExact'
  BY <1>2, <1>3, <1>7 DEF StreamsExact, StreamExact
<1>9. FrameExact' /\ \A c, j : Awaits(c, j) => Awaits(c, j)'
  <2>1. CASE frame.pc \in {"slots", "callback"}
    <3>1. /\ Current \in Registered /\ frame.at <= Len(order') /\ Current' = Current
          /\ frame.slot <= m_EventStreams[Current].slots /\ frame.slot \in Nat
      BY <1>3, <1>4, <2>1, CurrentIsRegistered DEF Current, FrameExact, TypeOK, Frame
    <3>3. m_EventStreams[Current].slots \in Nat
      BY <3>1, StreamShape DEF TypeOK
    <3>2. frame.slot <= m_EventStreams'[Current].slots
      BY <1>1, <1>2, <3>1, <3>3
    <3> QED BY <1>3, <1>4, <1>7, <3>1, <3>2, CallKeepsFrame
  <2>2. CASE frame.pc \notin {"slots", "callback"}
    BY <1>3, <1>4, <2>2, CallKeepsFrame
  <2> QED BY <2>1, <2>2
<1>10. GivenOrAwaited'
  <2> SUFFICES ASSUME NEW c \in DOMAIN seen', NEW event \in joined'[c] + 1 .. flipped[c[1]]
               PROVE  \/ event \in seen'[c]
                      \/ \E j \in DOMAIN ReadBuffer(m_EventStreams'[c[1]]) :
                           ReadBuffer(m_EventStreams'[c[1]])[j] = event /\ Awaits(c, j)'
    BY <1>3 DEF GivenOrAwaited
  <2>1. CASE c = new
    <3>1. joined'[c] = emitted[id] /\ c[1] = id
      BY <1>3, <2>1
    <3>2. flipped[id] <= emitted[id] /\ flipped[id] \in Nat /\ emitted[id] \in Nat
      BY DEF StreamsExact, TypeOK
    <3> QED BY <3>1, <3>2
  <2>2. CASE c # new
    <3>1. c \in DOMAIN seen /\ joined'[c] = joined[c] /\ seen'[c] = seen[c]
      BY <1>3, <2>2 DEF TypeOK
    <3> QED BY <1>7, <1>9, <3>1, CallbackHasStream DEF GivenOrAwaited
  <2> QED BY <2>1, <2>2
<1> QED BY <1>6, <1>8, <1>9, <1>10

(***************************************************************************)
(* EmitEvent writes behind the other events of the buffer that is written, *)
(* and leaves the one that is read alone.                                  *)
(***************************************************************************)
LEMMA EmitEventIInv ==
  ASSUME IInv, NEW id \in EventId, EmitEvent(id)
  PROVE  IInv'
<1> USE DEF IInv
<1> DEFINE stream == m_EventStreams[id]
           event == emitted[id] + 1
<1>1. id \in Registered /\ stream \in Stream /\ event \in 1 .. MaxEmitted
  BY RoomForEvent DEF EmitEvent, TypeOK
<1>2. /\ m_EventStreams' = [m_EventStreams EXCEPT ![id] = Emit(stream, event)]
      /\ emitted' = [emitted EXCEPT ![id] = event]
      /\ UNCHANGED <<order, flipped, seen, joined, got, misused>>
  BY DEF EmitEvent
<1>3. /\ m_EventStreams' \in [Registered' -> Stream] /\ Registered' = Registered
      /\ \A i \in Registered : i # id => m_EventStreams'[i] = m_EventStreams[i]
      /\ m_EventStreams'[id] = Emit(stream, event)
  BY <1>1, <1>2, EmitWrites DEF Registered, TypeOK
<1>4. /\ frame' \in Frame
      /\ frame'.pc = frame.pc /\ frame'.at = frame.at /\ frame'.slot = frame.slot
      /\ frame'.next = frame.next /\ frame'.size = frame.size
  BY DEF EmitEvent, TypeOK, Frame
<1>5. \A i \in Registered :
        /\ m_EventStreams'[i].slots = m_EventStreams[i].slots
        /\ m_EventStreams'[i].write = m_EventStreams[i].write
        /\ ReadBuffer(m_EventStreams'[i]) = ReadBuffer(m_EventStreams[i])
  BY <1>1, <1>3, EmitWrites
<1>6. Callback' = Callback
  BY <1>3, <1>5 DEF Callback
<1>7. TypeOK'
  BY <1>1, <1>2, <1>3, <1>4, <1>6 DEF TypeOK
<1>8. StreamsExact'
  <2> SUFFICES ASSUME NEW i \in EventId
               PROVE  /\ flipped[i] <= emitted'[i]
                      /\ IF i \in Registered THEN StreamExact(i)' ELSE emitted'[i] = 0
    BY <1>2, <1>3 DEF StreamsExact
  <2>1. CASE i # id
    <3>1. emitted'[i] = emitted[i] /\ flipped[i] <= emitted[i]
      BY <1>2, <2>1 DEF StreamsExact, TypeOK
    <3>2. i \in Registered => StreamExact(i)'
      BY <1>2, <1>3, <2>1, <3>1 DEF StreamsExact, StreamExact
    <3> QED BY <3>1, <3>2 DEF StreamsExact
  <2>2. CASE i = id
    <3> DEFINE next == stream.buffer[stream.write]
    <3>1. /\ flipped[id] \in Nat /\ emitted[id] \in Nat /\ flipped[id] <= emitted[id]
          /\ emitted'[id] = event /\ StreamExact(id)
      BY <1>1, <1>2 DEF StreamsExact, TypeOK
    <3>2. /\ Ascending(next) /\ \A j \in DOMAIN next : next[j] <= emitted[id]
          /\ flipped[id] + 1 .. emitted[id] \subseteq Range(next)
      BY <1>1, <3>1, StreamShape DEF StreamExact
    <3>3. next \in Seq(1 .. MaxEmitted)
      BY <1>1, StreamShape
    <3>4. m_EventStreams'[id].buffer[m_EventStreams'[id].write] = Append(next, event)
      <4>1. /\ Emit(stream, event).write = stream.write
            /\ Emit(stream, event).buffer[stream.write] = Append(next, event)
        BY <1>1, EmitWrites
      <4> QED BY <1>3, <4>1
    <3> HIDE DEF next
    <3>5. /\ Ascending(Append(next, event))
          /\ \A j \in DOMAIN Append(next, event) : Append(next, event)[j] <= event
          /\ Range(Append(next, event)) = Range(next) \union {event}
      BY <1>1, <3>1, <3>2, <3>3, AppendLater
    <3>6. flipped[id] + 1 .. event \subseteq Range(Append(next, event))
      <4>1. \A e \in flipped[id] + 1 .. event : e = event \/ e \in flipped[id] + 1 .. emitted[id]
        BY <3>1
      <4> QED BY <3>2, <3>5, <4>1
    <3>7. /\ Ascending(ReadBuffer(m_EventStreams'[id]))
          /\ \A j \in DOMAIN ReadBuffer(m_EventStreams'[id]) :
               ReadBuffer(m_EventStreams'[id])[j] <= flipped[id]
      BY <1>1, <1>5, <3>1 DEF StreamExact
    <3>8. StreamExact(id)'
      BY <1>2, <3>1, <3>4, <3>5, <3>6, <3>7 DEF StreamExact
    <3> QED BY <1>1, <2>2, <3>1, <3>8
  <2> QED BY <2>1, <2>2
<1>9. FrameExact' /\ \A c, j : Awaits(c, j) => Awaits(c, j)'
  <2>1. frame.pc \in {"slots", "callback"} =>
          /\ Current \in Registered /\ frame.at <= Len(order') /\ Current' = Current
          /\ frame.slot <= m_EventStreams[Current].slots
    BY <1>2, <1>4, CurrentIsRegistered DEF Current, FrameExact
  <2> QED BY <1>2, <1>4, <1>5, <2>1, CallKeepsFrame
<1>10. GivenOrAwaited'
  BY <1>2, <1>5, <1>9, CallbackHasStream DEF GivenOrAwaited
<1> QED BY <1>7, <1>8, <1>9, <1>10

(***************************************************************************)
(* The flip: all that was emitted since the last one becomes the batch,    *)
(* and every callback of the stream awaits it.                             *)
(***************************************************************************)
LEMMA ProcessStreamIInv == IInv /\ ProcessStream => IInv'
<1> SUFFICES ASSUME IInv, ProcessStream PROVE IInv'
  OBVIOUS
<1> USE DEF IInv
<1> DEFINE id == Current
           stream == m_EventStreams[id]
<1>1. frame.at \in 1 .. Len(order) /\ id \in Registered /\ id \in EventId /\ stream \in Stream
  BY DEF ProcessStream, TypeOK, FrameExact, Frame, Current
<1>2. /\ m_EventStreams' = [m_EventStreams EXCEPT ![id] = Flip(stream)]
      /\ flipped' = [flipped EXCEPT ![id] = emitted[id]]
      /\ UNCHANGED <<order, emitted, seen, joined, got, misused>>
      /\ frame.pc = "streams"
  BY DEF ProcessStream
<1>3. /\ m_EventStreams' \in [Registered' -> Stream] /\ Registered' = Registered
      /\ \A i \in Registered : i # id => m_EventStreams'[i] = m_EventStreams[i]
      /\ m_EventStreams'[id] = Flip(stream)
  BY <1>1, <1>2, FlipSwaps DEF Registered, TypeOK
<1>4. /\ frame' \in Frame /\ frame'.pc = "slots" /\ frame'.at = frame.at
      /\ frame'.slot = stream.slots
  <2>1. frame' = [frame EXCEPT !.pc = "slots", !.slot = stream.slots]
    BY DEF ProcessStream
  <2>2. stream.slots \in Nat
    BY <1>1, StreamShape
  <2> HIDE DEF stream
  <2> QED BY <2>1, <2>2 DEF TypeOK, Frame
<1>5. Callback' = Callback
  BY <1>1, <1>3, FlipSwaps DEF Callback
<1>6. TypeOK'
  BY <1>1, <1>2, <1>3, <1>4, <1>5 DEF TypeOK
<1>7. StreamsExact'
  <2> SUFFICES ASSUME NEW i \in EventId
               PROVE  /\ flipped'[i] <= emitted[i]
                      /\ IF i \in Registered THEN StreamExact(i)' ELSE emitted[i] = 0
    BY <1>2, <1>3 DEF StreamsExact
  <2>1. CASE i # id
    BY <1>2, <1>3, <2>1 DEF StreamsExact, StreamExact, TypeOK
  <2>2. CASE i = id
    <3>1. /\ flipped[id] \in Nat /\ emitted[id] \in Nat /\ flipped[id] <= emitted[id]
          /\ flipped'[id] = emitted[id] /\ StreamExact(id)
      BY <1>1, <1>2 DEF StreamsExact, TypeOK
    <3>2. /\ ReadBuffer(Flip(stream)) = stream.buffer[stream.write]
          /\ Flip(stream).buffer[Flip(stream).write] = ReadBuffer(stream)
      BY <1>1, FlipSwaps
    <3>3. ReadBuffer(stream) \in Seq(1 .. MaxEmitted)
      BY <1>1, StreamShape DEF ReadBuffer
    <3>4. \A j \in DOMAIN ReadBuffer(stream) : ReadBuffer(stream)[j] <= emitted[id]
      <4>1. \A j \in DOMAIN ReadBuffer(stream) : ReadBuffer(stream)[j] \in Nat
        BY <3>3, BufferElements
      <4>2. \A j \in DOMAIN ReadBuffer(stream) : ReadBuffer(stream)[j] <= flipped[id]
        BY <3>1 DEF StreamExact
      <4> HIDE DEF stream, id
      <4> QED BY <3>1, <4>1, <4>2
    <3>5. StreamExact(i)'
      <4>1. /\ Ascending(ReadBuffer(stream))
            /\ Ascending(stream.buffer[stream.write])
            /\ \A j \in DOMAIN stream.buffer[stream.write] :
                 stream.buffer[stream.write][j] <= emitted[id]
        BY <3>1 DEF StreamExact
      <4>2. emitted[id] + 1 .. emitted[id] = {}
        BY <3>1
      <4> HIDE DEF stream, id
      <4> QED BY <1>2, <1>3, <2>2, <3>1, <3>2, <3>4, <4>1, <4>2 DEF StreamExact
    <3> QED BY <1>1, <2>2, <3>1, <3>5
  <2> QED BY <2>1, <2>2
<1>8. Current' = id
  BY <1>2, <1>4 DEF Current
<1>9. FrameExact'
  <2>1. Flip(stream).slots = stream.slots /\ stream.slots \in Nat /\ got = << >>
    BY <1>1, <1>2, FlipSwaps, StreamShape DEF FrameExact
  <2> QED BY <1>1, <1>2, <1>3, <1>4, <1>8, <2>1 DEF FrameExact
<1>10. GivenOrAwaited'
  <2> SUFFICES ASSUME NEW c \in DOMAIN seen, NEW event \in joined[c] + 1 .. flipped'[c[1]]
               PROVE  \/ event \in seen[c]
                      \/ \E j \in DOMAIN ReadBuffer(m_EventStreams'[c[1]]) :
                           ReadBuffer(m_EventStreams'[c[1]])[j] = event /\ Awaits(c, j)'
    BY <1>2 DEF GivenOrAwaited
  <2>1. \A j : ~ Awaits(c, j)
    BY <1>2 DEF Awaits
  <2>2. joined[c] + 1 .. flipped[c[1]] \subseteq seen[c]
    BY <2>1 DEF GivenOrAwaited
  <2>3. /\ joined[c] \in Nat /\ flipped[c[1]] \in Nat /\ emitted[c[1]] \in Nat
        /\ c[1] \in EventId
    BY CallbackHasStream DEF TypeOK
  <2>4. CASE c[1] # id
    BY <1>2, <2>2, <2>3, <2>4 DEF TypeOK
  <2>5. CASE c[1] = id
    <3>1. flipped'[id] = emitted[id]
      BY <1>1, <1>2 DEF TypeOK
    <3>2. event \in seen[c] \/ event \in flipped[id] + 1 .. emitted[id]
      BY <2>2, <2>3, <2>5, <3>1
    <3>3. \A j : Awaits(c, j)'
      BY <1>4, <1>8, <2>5, CallbackHasStream, StreamShape, <1>1 DEF Awaits
    <3>4. flipped[id] + 1 .. emitted[id] \subseteq Range(ReadBuffer(m_EventStreams'[id]))
      BY <1>1, <1>3, FlipSwaps DEF StreamsExact, StreamExact
    <3> QED BY <2>5, <3>2, <3>3, <3>4 DEF Range
  <2> QED BY <2>4, <2>5
<1> QED BY <1>6, <1>7, <1>9, <1>10

(***************************************************************************)
(* Steps that touch neither streams nor events only have to keep the       *)
(* frame: what has been given or is awaited stays so.                      *)
(***************************************************************************)
LEMMA StreamsKept ==
  ASSUME TypeOK, StreamsExact, frame' \in Frame, got' \in Seq(1 .. MaxEmitted),
         misused' \in BOOLEAN, UNCHANGED <<m_EventStreams, order, emitted, flipped, joined>>,
         seen' \in [Callback -> SUBSET (1 .. MaxEmitted)]
  PROVE  /\ TypeOK' /\ StreamsExact' /\ Registered' = Registered
         /\ frame'.at = frame.at => Current' = Current
<1>1. Registered' = Registered /\ Callback' = Callback
  BY DEF Registered, Callback
<1>2. TypeOK'
  BY <1>1 DEF TypeOK
<1>3. StreamsExact'
  BY <1>1 DEF StreamsExact, StreamExact
<1> QED BY <1>1, <1>2, <1>3 DEF Current

(* A callback starts with its batch unread and its slot awaiting all of it.*)
LEMMA CallSlotIInv == IInv /\ CallSlot => IInv'
<1> SUFFICES ASSUME IInv, CallSlot PROVE IInv'
  OBVIOUS
<1> USE DEF IInv
<1> DEFINE batch == ReadBuffer(m_EventStreams[Current])
<1>1. UNCHANGED <<m_EventStreams, order, emitted, flipped, joined, seen, misused>> /\ got' = << >>
  BY DEF CallSlot
<1>2. Current \in Registered /\ batch \in Seq(1 .. MaxEmitted)
  BY CurrentIsRegistered, StreamShape DEF CallSlot, TypeOK, ReadBuffer
<1>3. /\ frame' \in Frame /\ frame.pc = "slots" /\ frame'.pc = "callback"
      /\ frame'.at = frame.at /\ frame'.slot = frame.slot /\ frame.slot > 0
      /\ frame'.next = 1 /\ frame'.size = Len(batch) /\ Len(batch) \in Nat
  <2>1. Len(batch) \in Nat
    BY <1>2, BufferElements
  <2>2. /\ frame.pc = "slots" /\ frame.slot > 0
        /\ frame' = [frame EXCEPT !.pc = "callback", !.next = 1, !.dangling = FALSE,
                                  !.size = Len(batch)]
    BY DEF CallSlot
  <2> HIDE DEF batch
  <2> QED BY <2>1, <2>2 DEF TypeOK, Frame
<1>4. TypeOK' /\ StreamsExact' /\ Current' = Current
  <2>1. << >> \in Seq(1 .. MaxEmitted)
    OBVIOUS
  <2> QED BY <1>1, <1>3, <2>1, StreamsKept DEF TypeOK
<1>5. FrameExact'
  BY <1>1, <1>3, <1>4 DEF FrameExact
<1>6. GivenOrAwaited'
  <2>1. ASSUME NEW c \in DOMAIN seen, NEW j \in DOMAIN ReadBuffer(m_EventStreams[c[1]]), Awaits(c, j)
        PROVE  Awaits(c, j)'
    <3>1. c[1] = Current /\ j \in 1 .. Len(batch)
      BY <1>2, <2>1 DEF Awaits
    <3> QED BY <1>3, <1>4, <2>1, <3>1 DEF Awaits
  <2> QED BY <1>1, <2>1 DEF GivenOrAwaited
<1> QED BY <1>4, <1>5, <1>6

(* An event that is read is the next of the batch. *)
LEMMA ReadEventIInv == IInv /\ ReadEvent => IInv'
<1> SUFFICES ASSUME IInv, ReadEvent PROVE IInv'
  OBVIOUS
<1> USE DEF IInv
<1> DEFINE batch == ReadBuffer(m_EventStreams[Current])
           event == batch[frame.next]
           caller == <<Current, frame.slot>>
<1>1. /\ UNCHANGED <<m_EventStreams, order, emitted, flipped, joined, misused>>
      /\ got' = Append(got, event)
      /\ seen' = [seen EXCEPT ![caller] = @ \union {event}]
      /\ frame.pc = "callback" /\ frame.next <= frame.size
  BY DEF ReadEvent
<1>2. Current \in Registered /\ batch \in Seq(1 .. MaxEmitted)
  BY <1>1, CurrentIsRegistered, StreamShape DEF TypeOK, ReadBuffer
<1>3. /\ frame.size = Len(batch) /\ frame.next \in Nat /\ frame.next > 0 /\ Len(batch) \in Nat
      /\ got \in Seq(1 .. MaxEmitted) /\ Len(got) = frame.next - 1
      /\ \A j \in DOMAIN got : got[j] = batch[j]
  BY <1>1, <1>2 DEF FrameExact, TypeOK
<1>4. event \in 1 .. MaxEmitted /\ frame.next \in DOMAIN batch
  BY <1>1, <1>2, <1>3, BufferElements
<1>5. /\ frame' \in Frame /\ frame'.pc = "callback" /\ frame'.at = frame.at
      /\ frame'.slot = frame.slot /\ frame'.next = frame.next + 1 /\ frame'.size = frame.size
  <2>1. frame' = [frame EXCEPT !.next = @ + 1] /\ frame.pc = "callback"
    BY DEF ReadEvent
  <2>2. frame \in Frame
    BY DEF TypeOK
  <2>3. frame.next + 1 \in Nat
    BY <2>2 DEF Frame
  <2> QED BY <2>1, <2>2, <2>3 DEF Frame
<1>6. /\ seen' \in [Callback -> SUBSET (1 .. MaxEmitted)]
      /\ \A c \in DOMAIN seen : seen[c] \subseteq seen'[c]
      /\ caller \in DOMAIN seen => event \in seen'[caller]
  BY <1>1, <1>4 DEF TypeOK
<1> HIDE DEF event
<1>7. TypeOK' /\ StreamsExact' /\ Current' = Current
  <2>1. got' \in Seq(1 .. MaxEmitted)
    BY <1>1, <1>3, <1>4
  <2> QED BY <1>1, <1>5, <1>6, <2>1, StreamsKept DEF TypeOK
<1>8. FrameExact'
  <2>1. Len(got') = frame.next /\ \A j \in DOMAIN got' : got'[j] = batch[j]
    BY <1>1, <1>3, <1>4 DEF event
  <2>2. /\ frame.at > 0 /\ frame.at <= Len(order)
        /\ frame.slot > 0 /\ frame.slot <= m_EventStreams[Current].slots
    BY <1>1 DEF FrameExact
  <2> QED BY <1>1, <1>3, <1>5, <1>7, <2>1, <2>2 DEF FrameExact
<1>9. GivenOrAwaited'
  <2> SUFFICES ASSUME NEW c \in DOMAIN seen, NEW e \in joined[c] + 1 .. flipped[c[1]],
                      NEW j \in DOMAIN ReadBuffer(m_EventStreams[c[1]]),
                      ReadBuffer(m_EventStreams[c[1]])[j] = e, Awaits(c, j), ~ Awaits(c, j)'
               PROVE  e \in seen'[c]
    BY <1>1, <1>6 DEF GivenOrAwaited, TypeOK
  <2>1. c = <<c[1], c[2]>> /\ c[1] = Current /\ j \in 1 .. Len(batch)
    BY <1>2, CallbackHasStream DEF Awaits
  <2>2. c[2] = frame.slot /\ j = frame.next
    BY <1>1, <1>3, <1>5, <1>7, <2>1 DEF Awaits
  <2> QED BY <1>6, <2>1, <2>2 DEF event
<1> QED BY <1>7, <1>8, <1>9

(* A callback ends when it has read its whole batch. *)
LEMMA EndCallbackIInv == IInv /\ EndCallback => IInv'
<1> SUFFICES ASSUME IInv, EndCallback PROVE IInv'
  OBVIOUS
<1> USE DEF IInv
<1>1. /\ UNCHANGED <<m_EventStreams, order, emitted, flipped, joined, seen, misused>> /\ got' = << >>
      /\ frame.pc = "callback" /\ frame.next > frame.size
  BY DEF EndCallback
<1>2. /\ frame \in Frame /\ frame.slot \in Nat /\ frame.slot > 0
      /\ frame.slot <= m_EventStreams[Current].slots /\ m_EventStreams[Current].slots \in Nat
  <2>1. m_EventStreams[Current].slots \in Nat
    BY <1>1, CurrentIsRegistered, StreamShape DEF TypeOK
  <2> QED BY <1>1, <2>1 DEF FrameExact, TypeOK, Frame
<1>3. /\ frame' \in Frame /\ frame'.pc = "slots" /\ frame'.at = frame.at
      /\ frame'.slot = frame.slot - 1
  <2>1. frame' = [frame EXCEPT !.pc = "slots", !.slot = @ - 1, !.next = 0, !.size = 0,
                               !.dangling = FALSE]
    BY DEF EndCallback
  <2>2. frame.slot - 1 \in Nat
    BY <1>2
  <2> QED BY <1>2, <2>1, <2>2 DEF Frame
<1>4. TypeOK' /\ StreamsExact' /\ Current' = Current
  <2>1. << >> \in Seq(1 .. MaxEmitted)
    OBVIOUS
  <2> QED BY <1>1, <1>3, <2>1, StreamsKept DEF TypeOK
<1>5. FrameExact'
  BY <1>1, <1>2, <1>3, <1>4 DEF FrameExact
<1>6. GivenOrAwaited'
  <2>1. ASSUME NEW c \in DOMAIN seen, NEW j \in DOMAIN ReadBuffer(m_EventStreams[c[1]]), Awaits(c, j)
        PROVE  Awaits(c, j)'
    <3>1. c[1] = Current /\ c[2] \in Nat /\ Current \in Registered
      BY <2>1, CallbackHasStream DEF Awaits
    <3>2. ReadBuffer(m_EventStreams[Current]) \in Seq(1 .. MaxEmitted)
      BY <3>1, StreamShape DEF TypeOK, ReadBuffer
    <3>3. j \in Nat /\ j <= frame.size /\ frame.size \in Nat /\ frame.next \in Nat
      BY <1>1, <1>2, <3>1, <3>2, BufferElements DEF FrameExact, Frame
    <3>4. c[2] < frame.slot
      BY <1>1, <2>1, <3>3 DEF Awaits
    <3> QED BY <1>2, <1>3, <1>4, <3>1, <3>4 DEF Awaits
  <2> QED BY <1>1, <2>1 DEF GivenOrAwaited
<1> QED BY <1>4, <1>5, <1>6

(* Where no slot is left to be called, nothing is awaited. *)
LEMMA LoopIInv ==
  IInv /\ (BeginProcessing \/ EndStream \/ EndProcessing) => IInv'
<1> SUFFICES ASSUME IInv, BeginProcessing \/ EndStream \/ EndProcessing PROVE IInv'
  OBVIOUS
<1> USE DEF IInv
<1>1. UNCHANGED <<m_EventStreams, order, emitted, flipped, joined, seen, got, misused>>
  BY DEF BeginProcessing, EndStream, EndProcessing, history
<1>2. /\ frame' \in Frame /\ frame'.pc \in {"idle", "streams"}
      /\ frame'.pc # "idle" => frame'.at > 0
  <2>1. Idle \in Frame /\ Idle.pc = "idle"
    BY DEF Idle, Frame
  <2>2. CASE BeginProcessing
    <3>1. frame' = [pc |-> "streams", at |-> 1, slot |-> 0, next |-> 0, size |-> 0,
                    dangling |-> FALSE, adrift |-> FALSE]
      BY <2>2 DEF BeginProcessing, Idle
    <3> QED BY <3>1 DEF Frame
  <2>3. CASE EndStream
    <3>1. frame' = [frame EXCEPT !.pc = "streams", !.at = @ + 1] /\ frame \in Frame
      BY <2>3 DEF EndStream, TypeOK
    <3>2. frame.at + 1 \in Nat /\ frame.at + 1 > 0
      BY <3>1 DEF Frame
    <3> QED BY <3>1, <3>2 DEF Frame
  <2>4. CASE EndProcessing
    BY <2>1, <2>4 DEF EndProcessing
  <2> QED BY <2>2, <2>3, <2>4
<1>3. got = << >>
  BY DEF FrameExact, BeginProcessing, EndStream, EndProcessing
<1>4. TypeOK' /\ StreamsExact'
  BY <1>1, <1>2, StreamsKept DEF TypeOK
<1>5. FrameExact'
  BY <1>1, <1>2, <1>3 DEF FrameExact
<1>6. ASSUME NEW c \in DOMAIN seen, NEW j PROVE ~ Awaits(c, j)
  BY CallbackHasStream DEF Awaits, BeginProcessing, EndStream, EndProcessing
<1>7. GivenOrAwaited'
  BY <1>1, <1>6 DEF GivenOrAwaited
<1> QED BY <1>4, <1>5, <1>7

LEMMA NextIInv == IInv /\ [Next]_vars => IInv'
<1> SUFFICES ASSUME IInv, [Next]_vars PROVE IInv'
  OBVIOUS
<1>1. CASE UseFreedMemory \/ UNCHANGED vars
  <2>1. /\ UNCHANGED <<m_EventStreams, order, frame, emitted, flipped, seen, joined, got>>
        /\ misused' \in BOOLEAN
    BY <1>1 DEF UseFreedMemory, vars, history, IInv, TypeOK
  <2>2. TypeOK' /\ StreamsExact' /\ Current' = Current
    BY <2>1, StreamsKept DEF IInv, TypeOK
  <2> QED BY <2>1, <2>2 DEF IInv, FrameExact, GivenOrAwaited, Awaits
<1> QED BY <1>1, RegisterEventIInv, RegisterSlotIInv, EmitEventIInv, ProcessStreamIInv, CallSlotIInv,
           ReadEventIInv, EndCallbackIInv, LoopIInv DEF Next, Undefined

LEMMA Invariance == Spec => []IInv
BY InitIInv, NextIInv, PTL DEF Spec

-----------------------------------------------------------------------------

(***************************************************************************)
(* Types hold for any number of ids, callbacks and events.                 *)
(***************************************************************************)
THEOREM TypeCorrect == Spec => []TypeOK
<1>1. IInv => TypeOK
  BY DEF IInv
<1> QED BY <1>1, Invariance, PTL

(***************************************************************************)
(* Whatever callbacks emit or register, what they read is in the order of  *)
(* emission, and older than the flip of their stream.                      *)
(***************************************************************************)
THEOREM BatchesInOrder == Spec => []BatchInOrder
<1>1. IInv => BatchInOrder
  <2> SUFFICES ASSUME IInv, NEW j \in DOMAIN got
               PROVE  got[j] \in 1 .. flipped[Current] /\ (j > 1 => got[j - 1] < got[j])
    BY DEF BatchInOrder
  <2> DEFINE batch == ReadBuffer(m_EventStreams[Current])
  <2>1. frame.pc = "callback"
    BY DEF IInv, FrameExact
  <2>2. Current \in Registered /\ Current \in EventId /\ batch \in Seq(1 .. MaxEmitted)
    BY <2>1, CurrentIsRegistered, StreamShape DEF IInv, TypeOK, ReadBuffer
  <2>3. /\ got \in Seq(1 .. MaxEmitted) /\ Len(got) < frame.next /\ frame.next <= Len(batch) + 1
        /\ \A k \in DOMAIN got : got[k] = batch[k]
        /\ frame.next \in Nat
    BY <2>1, <2>2, BufferElements DEF IInv, TypeOK, FrameExact
  <2>4. \A k \in DOMAIN got : k \in DOMAIN batch /\ k \in Nat
    BY <2>2, <2>3, BufferElements
  <2>5. Ascending(batch) /\ \A k \in DOMAIN batch : batch[k] <= flipped[Current]
    BY <2>2 DEF IInv, StreamsExact, StreamExact
  <2>6. flipped[Current] \in Nat
    BY <2>2 DEF IInv, TypeOK
  <2>7. got[j] \in 1 .. flipped[Current]
    BY <2>2, <2>3, <2>4, <2>5, <2>6, BufferElements
  <2>8. j > 1 => j - 1 \in DOMAIN got /\ j - 1 < j
    BY <2>3, BufferElements
  <2> QED BY <2>3, <2>4, <2>5, <2>7, <2>8 DEF Ascending
<1> QED BY <1>1, Invariance, PTL

(***************************************************************************)
(* After ProcessEvents every callback has been given every event emitted   *)
(* between its registration and the last flip of its stream.               *)
(***************************************************************************)
THEOREM EventsArrive == Spec => []NothingLost
<1>1. IInv => NothingLost
  <2> SUFFICES ASSUME IInv, frame.pc = "idle", NEW c \in DOMAIN seen
               PROVE  joined[c] + 1 .. flipped[c[1]] \subseteq seen[c]
    BY DEF NothingLost
  <2>1. \A j : ~ Awaits(c, j)
    BY DEF Awaits
  <2> QED BY <2>1 DEF IInv, GivenOrAwaited
<1> QED BY <1>1, Invariance, PTL

(***************************************************************************)
(* No step of a callback changes the events it reads.                      *)
(***************************************************************************)
THEOREM BatchesStable == Spec => BatchIsStable
<1> DEFINE Stable == frame.pc = "callback" /\ frame'.pc = "callback" =>
                       ReadBuffer(m_EventStreams[Current])' = ReadBuffer(m_EventStreams[Current])
<1>1. IInv /\ [Next]_vars => Stable
  <2> SUFFICES ASSUME IInv, [Next]_vars, frame.pc = "callback", frame'.pc = "callback"
               PROVE  ReadBuffer(m_EventStreams'[Current']) = ReadBuffer(m_EventStreams[Current])
    OBVIOUS
  <2>1. /\ frame.at \in 1 .. Len(order) /\ Current \in Registered /\ frame \in Frame
        /\ TypeOK
    BY CurrentIsRegistered DEF IInv, TypeOK
  <2>2. ASSUME NEW id \in EventId, RegisterEvent(id)
        PROVE  Current' = Current /\ m_EventStreams'[Current] = m_EventStreams[Current]
    BY <2>1, <2>2 DEF RegisterEvent, Current, TypeOK, Frame
  <2>3. ASSUME NEW id \in EventId, RegisterSlot(id)
        PROVE  /\ Current' = Current
               /\ ReadBuffer(m_EventStreams'[Current]) = ReadBuffer(m_EventStreams[Current])
    <3>1. Current' = Current
      BY <2>1, <2>3 DEF RegisterSlot, Current, Frame
    <3>2. m_EventStreams[id] \in Stream /\ m_EventStreams[id].slots < MaxSlots
      BY <2>1, <2>3, RoomForSlot DEF RegisterSlot, TypeOK
    <3>3. m_EventStreams' = [m_EventStreams EXCEPT ![id] = RegisterCallback(m_EventStreams[id])]
      BY <2>3 DEF RegisterSlot
    <3>4. ReadBuffer(RegisterCallback(m_EventStreams[id])) = ReadBuffer(m_EventStreams[id])
      BY <3>2, RegisterAddsSlot DEF ReadBuffer
    <3>5. ReadBuffer(m_EventStreams'[Current]) = ReadBuffer(m_EventStreams[Current])
      BY <2>1, <3>3, <3>4 DEF TypeOK
    <3> QED BY <3>1, <3>5
  <2>4. ASSUME NEW id \in EventId, EmitEvent(id)
        PROVE  /\ Current' = Current
               /\ ReadBuffer(m_EventStreams'[Current]) = ReadBuffer(m_EventStreams[Current])
    <3>1. Current' = Current
      BY <2>1, <2>4 DEF EmitEvent, Current, Frame
    <3>2. m_EventStreams[id] \in Stream /\ emitted[id] + 1 \in 1 .. MaxEmitted
      BY <2>1, <2>4, RoomForEvent DEF EmitEvent, TypeOK
    <3>3. m_EventStreams' = [m_EventStreams EXCEPT ![id] = Emit(m_EventStreams[id], emitted[id] + 1)]
      BY <2>4 DEF EmitEvent
    <3>4. ReadBuffer(Emit(m_EventStreams[id], emitted[id] + 1)) = ReadBuffer(m_EventStreams[id])
      BY <3>2, EmitWrites
    <3>5. ReadBuffer(m_EventStreams'[Current]) = ReadBuffer(m_EventStreams[Current])
      BY <2>1, <3>3, <3>4 DEF TypeOK
    <3> QED BY <3>1, <3>5
  <2>5. CASE ReadEvent \/ UseFreedMemory \/ UNCHANGED vars
    BY <2>1, <2>5 DEF ReadEvent, UseFreedMemory, vars, history, Current, Frame
  <2>6. ~ (BeginProcessing \/ ProcessStream \/ CallSlot \/ EndCallback \/ EndStream \/ EndProcessing)
    BY <2>1 DEF BeginProcessing, ProcessStream, CallSlot, EndCallback, EndStream, EndProcessing, Frame
  <2> QED BY <2>2, <2>3, <2>4, <2>5, <2>6 DEF Next, Undefined
<1>2. IInv /\ [Next]_vars => [Stable]_vars
  BY <1>1
<1> HIDE DEF Stable
<1>3. Spec => [][Stable]_vars
  BY <1>2, Invariance, PTL DEF Spec
<1> QED BY <1>3 DEF Stable, BatchIsStable

=============================================================================
