---------------------------- MODULE EventStream ----------------------------
(***************************************************************************)
(* ThEventStream (include/Thor/ECS/ThEventStream.h) as functions of a      *)
(* stream record                                                           *)
(*   buffer   : m_EventStream, the two event vectors                       *)
(*   capacity : their capacities                                           *)
(*   write    : m_WriteBufferIndex                                         *)
(*   slots    : number of registered callbacks, numbered in that order     *)
(* Neither buffer is ever cleared: a flip only changes the roles.          *)
(***************************************************************************)
EXTENDS Integers, Sequences

CONSTANT ReservedEvents    \* growth step of the buffers (64 in the code)

ASSUME ReserveAssumption == ReservedEvents \in Nat \ {0}

NewStream == [buffer   |-> [b \in 0 .. 1 |-> << >>],
              capacity |-> [b \in 0 .. 1 |-> ReservedEvents],
              write    |-> 0,
              slots    |-> 0]

Larger(m, n) == IF m > n THEN m ELSE n

(* Mutant: events go to the buffer that is read. *)
PushToReadBuffer(stream, event) ==
  LET b == 1 - stream.write
      size == Len(stream.buffer[b]) + 1
  IN  [stream EXCEPT !.buffer[b] = Append(@, event),
                     !.capacity[b] = Larger(@, size)]

(* PushBack: ThVector grows to exactly the new size when it has to. *)
Push(stream, event) ==
  LET b == stream.write
      size == Len(stream.buffer[b]) + 1
  IN  [stream EXCEPT !.buffer[b] = Append(@, event),
                     !.capacity[b] = Larger(@, size)]

(* Reserve: both buffers, from the size of the first one. *)
Reserve(stream) ==
  [stream EXCEPT !.capacity =
     [b \in 0 .. 1 |-> Larger(@[b], Len(stream.buffer[0]) + ReservedEvents)]]

IsFull(stream) == Len(stream.buffer[stream.write]) >= stream.capacity[stream.write]

Emit(stream, event) ==
  LET pushed == Push(stream, event)
  IN  IF IsFull(pushed) THEN Reserve(pushed) ELSE pushed

(* Mutant: the buffers keep their roles. *)
FlipNothing(stream) == stream

(* Mutant: the index does not wrap around. *)
FlipOnward(stream) == [stream EXCEPT !.write = @ + 1]

(* The start of ProcessEvents: the write buffer becomes the read buffer. *)
Flip(stream) == [stream EXCEPT !.write = (@ + 1) % 2]

(* Mutant: the callbacks are given the write buffer. *)
WriteBuffer(stream) == stream.buffer[stream.write]

ReadBuffer(stream) == stream.buffer[1 - stream.write]

RegisterCallback(stream) == [stream EXCEPT !.slots = @ + 1]

(***************************************************************************)
(* A vector that grows moves to new memory: a pointer into the read buffer *)
(* dangles after a step that changes its capacity.                         *)
(***************************************************************************)
ReadBufferMoved(before, after) ==
  after.capacity[1 - before.write] # before.capacity[1 - before.write]

=============================================================================
