---------------------------- MODULE UidGenerator ----------------------------
(***************************************************************************)
(* ThUidGenerator::GenerateSnowflake (lib/Core/Util/ThUidGenerator.cpp),   *)
(* called by any number of threads: every ThString takes a uid from the    *)
(* one generator of ThCore.  m_Sequence and m_LastTimestamp are atomic     *)
(* one by one; the steps below are the accesses to them, in order.         *)
(*                                                                         *)
(* A uid is (timestamp - epoch) << 22 | m_Constant << 14 | sequence.  The  *)
(* sequence is given 14 bits (m_SequenceBits) but masked to 15             *)
(* (m_SequenceMask): numbers from 0x4000 on spill into the 8 bits of       *)
(* m_Constant, which is always 0.  Timestamps count from the epoch here.   *)
(***************************************************************************)
EXTENDS Integers, FiniteSets

CONSTANTS
  Thread,
  SequenceCount,   \* m_SequenceMask + 1
  TimestampUnit,   \* 2^m_TimestampShift
  MaxCalls,        \* bound on the calls of each thread
  LastCall,        \* bound: no call is made after this many milliseconds
  MaxSetback       \* bound on the milliseconds the system time is set back

ASSUME UidAssumption ==
  /\ SequenceCount \in Nat \ {0}
  /\ TimestampUnit \in Nat /\ SequenceCount <= TimestampUnit
  /\ MaxCalls \in Nat /\ LastCall \in Nat /\ MaxSetback \in Nat

VARIABLES
  m_Sequence, m_LastTimestamp,
  now,            \* milliseconds of steady time
  setback,        \* how far the system time has been set back
  pc,             \* thread -> the next access of its call
  timestamp,      \* thread -> local timestamp
  sequence,       \* thread -> local sequence
  wake,           \* thread -> when its sleep ends
  calls,          \* history: thread -> calls made
  issued,         \* history: the uids returned, as <<timestamp, sequence>>
  repeated,       \* history: the uids whose number had been returned before
  failed,         \* history: UINT64_MAX has been returned
  exhausted,      \* history: more than SequenceCount numbers were drawn in a row
  raced           \* history: two calls have overlapped

shared  == <<m_Sequence, m_LastTimestamp>>
locals  == <<pc, timestamp, sequence, wake>>
clock   == <<now, setback>>
returns == <<issued, repeated, failed>>
history == <<calls, raced, exhausted>>
vars    == <<shared, locals, clock, returns, history>>

(* GetMilliseconds: system time.  It starts after any setback can reach 0. *)
Milliseconds == now + MaxSetback + 1 - setback

(* A thread is inside the computation, neither between calls nor asleep. *)
Busy(t) == pc[t] \notin {"idle", "asleep"}

-----------------------------------------------------------------------------

Init ==
  /\ m_Sequence = 0
  /\ m_LastTimestamp = 0
  /\ now = 0
  /\ setback = 0
  /\ pc = [t \in Thread |-> "idle"]
  /\ timestamp = [t \in Thread |-> 0]
  /\ sequence = [t \in Thread |-> 0]
  /\ wake = [t \in Thread |-> 0]
  /\ calls = [t \in Thread |-> 0]
  /\ issued = {}
  /\ repeated = {}
  /\ failed = FALSE
  /\ exhausted = FALSE
  /\ raced = FALSE

Goto(t, label) == pc' = [pc EXCEPT ![t] = label]

(* GenerateSnowflake up to the first shared access: read the clock. *)
ReadClock(t) ==
  /\ timestamp' = [timestamp EXCEPT ![t] = Milliseconds]
  /\ Goto(t, "count")
  /\ raced' = (raced \/ \E u \in Thread \ {t} : Busy(u))
  /\ UNCHANGED <<shared, clock, returns, exhausted>>

Call(t) ==
  /\ pc[t] = "idle"
  /\ calls[t] < MaxCalls
  /\ now <= LastCall
  /\ calls' = [calls EXCEPT ![t] = @ + 1]
  /\ ReadClock(t)
  /\ UNCHANGED <<sequence, wake>>

(* sequence = m_Sequence++ *)
Count(t) ==
  /\ pc[t] = "count"
  /\ sequence' = [sequence EXCEPT ![t] = m_Sequence]
  /\ m_Sequence' = m_Sequence + 1
  /\ Goto(t, "order")
  /\ exhausted' = (exhausted \/ m_Sequence >= SequenceCount)
  /\ UNCHANGED <<m_LastTimestamp, timestamp, wake, clock, returns, calls, raced>>

(* Mutant: a second uid in the millisecond is refused. *)
CheckOrderStrictly(t) ==
  /\ pc[t] = "order"
  /\ IF timestamp[t] <= m_LastTimestamp
     THEN /\ Goto(t, "idle")
          /\ failed' = TRUE
     ELSE Goto(t, "compare") /\ UNCHANGED failed
  /\ UNCHANGED <<shared, timestamp, sequence, wake, clock, issued, repeated, history>>

(* if (timestamp < m_LastTimestamp): the time went backwards, UINT64_MAX *)
CheckOrder(t) ==
  /\ pc[t] = "order"
  /\ IF timestamp[t] < m_LastTimestamp
     THEN /\ Goto(t, "idle")
          /\ failed' = TRUE
     ELSE Goto(t, "compare") /\ UNCHANGED failed
  /\ UNCHANGED <<shared, timestamp, sequence, wake, clock, issued, repeated, history>>

(* Mutant: the caller does not wait for the next millisecond. *)
SameMillisecondAwake(t) ==
  /\ pc[t] = "compare"
  /\ m_LastTimestamp = timestamp[t]
  /\ sequence' = [sequence EXCEPT ![t] = @ % SequenceCount]
  /\ Goto(t, "advance")
  /\ UNCHANGED <<shared, timestamp, wake, clock, returns, history>>

(* Mutant: the sequence is not masked. *)
SameMillisecondUnmasked(t) ==
  /\ pc[t] = "compare"
  /\ m_LastTimestamp = timestamp[t]
  /\ IF sequence[t] = 0
     THEN Goto(t, "asleep") /\ wake' = [wake EXCEPT ![t] = now + 2]
     ELSE Goto(t, "advance") /\ UNCHANGED wake
  /\ UNCHANGED <<shared, timestamp, sequence, clock, returns, history>>

(* if (m_LastTimestamp == timestamp): the sequence tells uids of one       *)
(* millisecond apart; sequence 0 warns and sleeps for two milliseconds.    *)
SameMillisecond(t) ==
  /\ pc[t] = "compare"
  /\ m_LastTimestamp = timestamp[t]
  /\ sequence' = [sequence EXCEPT ![t] = @ % SequenceCount]
  /\ IF sequence[t] % SequenceCount = 0
     THEN Goto(t, "asleep") /\ wake' = [wake EXCEPT ![t] = now + 2]
     ELSE Goto(t, "advance") /\ UNCHANGED wake
  /\ UNCHANGED <<shared, timestamp, clock, returns, history>>

NewMillisecond(t) ==
  /\ pc[t] = "compare"
  /\ m_LastTimestamp # timestamp[t]
  /\ sequence' = [sequence EXCEPT ![t] = 0]
  /\ Goto(t, "reset")
  /\ UNCHANGED <<shared, timestamp, wake, clock, returns, history>>

(* m_Sequence = 0 *)
ResetSequence(t) ==
  /\ pc[t] = "reset"
  /\ m_Sequence' = 0
  /\ Goto(t, "advance")
  /\ UNCHANGED <<m_LastTimestamp, timestamp, sequence, wake, clock, returns, history>>

(* The number returned.  No sequence reaches the timestamp, so or is plus. *)
Snowflake(uid) == uid[1] * TimestampUnit + uid[2]

Return(t) ==
  LET uid == <<timestamp[t], sequence[t]>>
  IN  /\ Goto(t, "idle")
      /\ issued' = issued \union {uid}
      /\ repeated' = repeated \union
           {u \in {uid} : \E given \in issued : Snowflake(given) = Snowflake(u)}
      /\ UNCHANGED failed

(* Mutant: m_LastTimestamp is left alone. *)
AdvanceWithoutStore(t) ==
  /\ pc[t] = "advance"
  /\ Return(t)
  /\ UNCHANGED <<shared, timestamp, sequence, wake, clock, history>>

(* if (timestamp > m_LastTimestamp) ...; otherwise return *)
Advance(t) ==
  /\ pc[t] = "advance"
  /\ IF timestamp[t] > m_LastTimestamp
     THEN Goto(t, "store") /\ UNCHANGED returns
     ELSE Return(t)
  /\ UNCHANGED <<shared, timestamp, sequence, wake, clock, history>>

(* m_LastTimestamp = timestamp; return *)
StoreTimestamp(t) ==
  /\ pc[t] = "store"
  /\ m_LastTimestamp' = timestamp[t]
  /\ Return(t)
  /\ UNCHANGED <<m_Sequence, timestamp, sequence, wake, clock, history>>

(* The sleep is over: GenerateSnowflake calls itself. *)
Wake(t) ==
  /\ pc[t] = "asleep"
  /\ now >= wake[t]
  /\ ReadClock(t)
  /\ UNCHANGED <<sequence, wake, calls>>

(* Time passes as long as calls may come, or a sleep has to end. *)
Tick ==
  /\ now < LastCall \/ \E t \in Thread : pc[t] = "asleep" /\ now < wake[t]
  /\ now' = now + 1
  /\ UNCHANGED <<shared, locals, setback, returns, history>>

SetBack ==
  /\ setback < MaxSetback
  /\ setback' = setback + 1
  /\ UNCHANGED <<shared, locals, now, returns, history>>

Step(t) ==
  \/ Count(t) \/ CheckOrder(t) \/ SameMillisecond(t) \/ NewMillisecond(t)
  \/ ResetSequence(t) \/ Advance(t) \/ StoreTimestamp(t) \/ Wake(t)

Next ==
  \/ \E t \in Thread : Call(t) \/ Step(t)
  \/ Tick
  \/ SetBack

Spec == Init /\ [][Next]_vars

-----------------------------------------------------------------------------

Labels == {"idle", "count", "order", "compare", "reset", "advance", "store", "asleep"}

(***************************************************************************)
(* Types.  A sequence returned is a masked one, which may be one bit wider *)
(* than its field in the uid.                                              *)
(***************************************************************************)
TypeOK ==
  /\ m_Sequence \in Nat
  /\ m_LastTimestamp \in Nat
  /\ now \in Nat
  /\ setback \in 0 .. MaxSetback
  /\ pc \in [Thread -> Labels]
  /\ timestamp \in [Thread -> Nat]
  /\ sequence \in [Thread -> Nat]
  /\ wake \in [Thread -> Nat]
  /\ calls \in [Thread -> 0 .. MaxCalls]
  /\ issued \subseteq Nat \X (0 .. SequenceCount - 1)
  /\ repeated \subseteq issued
  /\ failed \in BOOLEAN /\ exhausted \in BOOLEAN /\ raced \in BOOLEAN

(***************************************************************************)
(* As long as calls do not overlap, from whichever threads they come, no   *)
(* number is returned twice, also when the system time is set back or a    *)
(* sequence spills over its field -- until the sequence numbers of a       *)
(* millisecond are used up: then the call that draws number 0 sleeps, but  *)
(* calls of other threads go on and get the numbers given before.          *)
(***************************************************************************)
UniqueUntilRace == ~ raced /\ ~ exhausted => repeated = {}

(***************************************************************************)
(* As long as calls do not overlap, m_LastTimestamp is the newest          *)
(* timestamp of a uid, and it never goes back.                             *)
(***************************************************************************)
LastIsNewestUntilRace ==
  ~ raced => \A uid \in issued : uid[1] <= m_LastTimestamp

(***************************************************************************)
(* The "going backwards" result is given only when the system time was     *)
(* set back, as long as calls do not overlap.                              *)
(***************************************************************************)
FailsOnlyAfterSetback == failed /\ ~ raced => setback > 0

(***************************************************************************)
(* The number returned tells its timestamp and sequence: a sequence wider  *)
(* than its field neither reaches the timestamp nor hides another one.     *)
(***************************************************************************)
TellsApart == \A u, v \in issued : Snowflake(u) = Snowflake(v) => u = v

(***************************************************************************)
(* The strengthening that is inductive.  Without a race one call is under  *)
(* way at a time, so that what it has read of m_LastTimestamp and          *)
(* m_Sequence still holds when it uses it.                                 *)
(***************************************************************************)
Masked == \A t \in Thread : pc[t] \in {"reset", "advance", "store"} => sequence[t] < SequenceCount

ClockAhead ==
  setback = 0 => /\ m_LastTimestamp <= Milliseconds
                 /\ \A t \in Thread : timestamp[t] <= Milliseconds

Alone == \A t, u \in Thread : Busy(t) /\ Busy(u) => t = u

(* What the call knows of m_LastTimestamp. *)
InOrder(t) ==
  /\ (pc[t] \in {"count", "order"} /\ setback = 0) => m_LastTimestamp <= timestamp[t]
  /\ pc[t] \in {"compare", "advance"} => m_LastTimestamp <= timestamp[t]
  /\ pc[t] \in {"reset", "store"} => m_LastTimestamp < timestamp[t]

(* The numbers given in the newest millisecond: 0 to its first uid, and some below n. *)
GivenBelow(n) == \A uid \in issued : uid[1] = m_LastTimestamp => (uid[2] = 0 \/ uid[2] < n)

(* About to return a number of the newest millisecond. *)
Repeats(t) == pc[t] = "advance" /\ timestamp[t] = m_LastTimestamp

(* About to return number 0 of a new one. *)
Opens(t) ==
  \/ pc[t] \in {"reset", "store"}
  \/ pc[t] = "advance" /\ timestamp[t] # m_LastTimestamp

(* What the call knows of its number. *)
Numbered(t) ==
  /\ pc[t] \in {"order", "compare"} => sequence[t] < SequenceCount
  /\ (pc[t] \in {"order", "compare"} \/ Repeats(t)) =>
       sequence[t] < m_Sequence /\ GivenBelow(sequence[t])
  /\ Repeats(t) => sequence[t] # 0
  /\ Opens(t) => sequence[t] = 0

(* The next number is fresh, unless a new millisecond is about to be stored. *)
NextIsFresh ==
  \/ GivenBelow(m_Sequence)
  \/ \E t \in Thread : pc[t] \in {"advance", "store"} /\ m_LastTimestamp < timestamp[t]

IInv ==
  /\ TypeOK
  /\ Masked
  /\ ClockAhead
  /\ ~ raced => (Alone /\ \A t \in Thread : InOrder(t))
  /\ LastIsNewestUntilRace
  /\ FailsOnlyAfterSetback
  /\ (~ raced /\ ~ exhausted) => (NextIsFresh /\ \A t \in Thread : Numbered(t))
  /\ UniqueUntilRace

-----------------------------------------------------------------------------

(***************************************************************************)
(* "Generating too many uids" (ThUidGenerator.cpp), before the sleep: the  *)
(* sequence numbers of the millisecond are used up.                        *)
(***************************************************************************)
WarnsOnlyWhenExhausted ==
  [][\A t \in Thread : pc[t] # "asleep" /\ pc'[t] = "asleep" =>
       Cardinality({uid \in issued : uid[1] = timestamp[t]}) >= SequenceCount]_vars

(***************************************************************************)
(* "System time is reset or is going backwards" (ThUidGenerator.cpp),      *)
(* returning UINT64_MAX: the system time was set back.                     *)
(***************************************************************************)
FailsOnlyBackwards == failed => setback > 0

=============================================================================
