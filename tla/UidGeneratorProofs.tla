------------------------- MODULE UidGeneratorProofs -------------------------
(***************************************************************************)
(* Proofs about UidGenerator, for any threads, sequence size and bounds.   *)
(* Without a race the calls run one after another: what a call has read    *)
(* of m_LastTimestamp and m_Sequence still holds when it uses it.          *)
(***************************************************************************)
EXTENDS UidGenerator, TLAPS

(* The sequence mask yields a number of the range, and keeps those in it. *)
LEMMA MaskBounds ==
  ASSUME NEW n \in Nat
  PROVE  /\ n % SequenceCount \in 0 .. SequenceCount - 1
         /\ n < SequenceCount => n % SequenceCount = n
BY UidAssumption DEF UidAssumption

(* System time is past the epoch, whatever it has been set back. *)
LEMMA MillisecondsPositive ==
  ASSUME TypeOK
  PROVE  Milliseconds \in Nat /\ Milliseconds > 0
BY UidAssumption DEF UidAssumption, TypeOK, Milliseconds

-----------------------------------------------------------------------------

(* The fields of a result do not overlap: a sequence may be wider than the *)
(* bits it is given, but never reaches the timestamp.                      *)
LEMMA SnowflakeInjective ==
  ASSUME NEW u \in Nat \X (0 .. SequenceCount - 1),
         NEW v \in Nat \X (0 .. SequenceCount - 1),
         Snowflake(u) = Snowflake(v)
  PROVE  u = v
<1> DEFINE Unit == TimestampUnit
<1>1. /\ u[1] \in Nat /\ u[2] \in Nat /\ u[2] < Unit
      /\ v[1] \in Nat /\ v[2] \in Nat /\ v[2] < Unit
      /\ Unit \in Nat
  BY UidAssumption DEF UidAssumption
<1>2. u[1] * Unit + u[2] = v[1] * Unit + v[2]
  BY DEF Snowflake
<1> HIDE DEF Unit
<1>3. ASSUME NEW a \in Nat, NEW b \in Nat, NEW x \in Nat, NEW y \in Nat,
             x < Unit, a < b
      PROVE  a * Unit + x # b * Unit + y
  <2>1. PICK d \in Nat : b = a + 1 + d
    <3>1. b - a - 1 \in Nat /\ b = a + 1 + (b - a - 1)
      BY <1>3
    <3> QED BY <3>1
  <2>2. b * Unit = a * Unit + Unit + d * Unit
    BY <1>1, <2>1
  <2>3. a * Unit \in Nat /\ b * Unit \in Nat /\ d * Unit \in Nat
    BY <1>1
  <2> QED BY <1>1, <1>3, <2>2, <2>3
<1>4. ~ (u[1] < v[1]) /\ ~ (v[1] < u[1])
  BY <1>1, <1>2, <1>3
<1>5. u[1] = v[1]
  BY <1>1, <1>4
<1>6. u[2] = v[2]
  <2>1. u[1] * Unit \in Nat
    BY <1>1
  <2> QED BY <1>1, <1>2, <1>5, <2>1
<1> QED BY <1>5, <1>6

-----------------------------------------------------------------------------

(* Types, and the numbers about to be returned, which are masked.          *)
LEMMA InitTyped == Init => TypeOK /\ Masked
<1> SUFFICES ASSUME Init PROVE TypeOK /\ Masked
  OBVIOUS
<1>1. issued \subseteq Nat \X (0 .. SequenceCount - 1) /\ repeated \subseteq issued
  BY Zenon DEF Init
<1>2. failed \in BOOLEAN /\ exhausted \in BOOLEAN /\ raced \in BOOLEAN
  BY Zenon DEF Init
<1>3. /\ m_Sequence \in Nat /\ m_LastTimestamp \in Nat /\ now \in Nat
      /\ setback \in 0 .. MaxSetback
      /\ pc \in [Thread -> Labels] /\ timestamp \in [Thread -> Nat]
      /\ sequence \in [Thread -> Nat] /\ wake \in [Thread -> Nat]
      /\ calls \in [Thread -> 0 .. MaxCalls]
  BY UidAssumption DEF UidAssumption, Init, Labels
<1>4. Masked
  BY DEF Init, Masked
<1> QED BY <1>1, <1>2, <1>3, <1>4, Zenon DEF TypeOK

(* A result has been returned before exactly when its uid has. *)
LEMMA ReturnRepeats ==
  ASSUME TypeOK, Masked, NEW t \in Thread, pc[t] \in {"advance", "store"}, Return(t)
  PROVE  repeated' = repeated \union ({<<timestamp[t], sequence[t]>>} \intersect issued)
<1> DEFINE uid == <<timestamp[t], sequence[t]>>
           Uids == Nat \X (0 .. SequenceCount - 1)
<1>1. timestamp[t] \in Nat /\ sequence[t] \in 0 .. SequenceCount - 1
  BY UidAssumption DEF UidAssumption, TypeOK, Masked
<1>2. uid \in Uids /\ issued \subseteq Uids
  BY <1>1 DEF TypeOK
<1>3. repeated' = repeated \union
        {u \in {uid} : \E given \in issued : Snowflake(given) = Snowflake(u)}
  BY DEF Return
<1>4. (\E given \in issued : Snowflake(given) = Snowflake(uid)) <=> uid \in issued
  BY <1>2, SnowflakeInjective
<1> HIDE DEF uid
<1>5. {u \in {uid} : \E given \in issued : Snowflake(given) = Snowflake(u)}
        = {uid} \intersect issued
  BY <1>4
<1> QED BY <1>3, <1>5 DEF uid

LEMMA ReturnTyped ==
  ASSUME TypeOK, Masked, NEW t \in Thread, pc[t] \in {"advance", "store"}, Return(t)
  PROVE  issued' \subseteq Nat \X (0 .. SequenceCount - 1) /\ repeated' \subseteq issued'
<1>1. timestamp[t] \in Nat /\ sequence[t] \in 0 .. SequenceCount - 1
  BY UidAssumption DEF UidAssumption, TypeOK, Masked
<1>2. <<timestamp[t], sequence[t]>> \in Nat \X (0 .. SequenceCount - 1)
  BY <1>1
<1>3. /\ issued' = issued \union {<<timestamp[t], sequence[t]>>}
      /\ repeated' = repeated \union ({<<timestamp[t], sequence[t]>>} \intersect issued)
  BY ReturnRepeats DEF Return
<1>4. issued \subseteq Nat \X (0 .. SequenceCount - 1) /\ repeated \subseteq issued
  BY DEF TypeOK
<1> QED BY <1>2, <1>3, <1>4, Zenon

LEMMA StepTyped ==
  ASSUME TypeOK, Masked, [Next]_vars
  PROVE  TypeOK' /\ Masked'
<1> USE UidAssumption DEF UidAssumption
<1> DEFINE Uids == Nat \X (0 .. SequenceCount - 1)
<1>1. ASSUME NEW t \in Thread, Call(t) \/ Wake(t)
      PROVE  TypeOK' /\ Masked'
  <2>1. Milliseconds \in Nat
    BY MillisecondsPositive
  <2>2. calls' \in [Thread -> 0 .. MaxCalls]
    BY <1>1 DEF TypeOK, Call, Wake
  <2>3. issued' \subseteq Uids /\ repeated' \subseteq issued'
    BY <1>1, Zenon DEF TypeOK, Call, Wake, ReadClock, returns
  <2> HIDE DEF Uids
  <2>4. raced' \in BOOLEAN
    BY <1>1, Zenon DEF TypeOK, Call, Wake, ReadClock
  <2>5. Masked'
    BY <1>1 DEF TypeOK, Masked, Call, Wake, ReadClock, Goto, Labels
  <2>6. /\ pc' \in [Thread -> Labels]
        /\ timestamp' \in [Thread -> Nat] /\ sequence' \in [Thread -> Nat]
        /\ wake' \in [Thread -> Nat]
        /\ m_Sequence' \in Nat /\ m_LastTimestamp' \in Nat
        /\ now' \in Nat /\ setback' \in 0 .. MaxSetback
    BY <1>1, <2>1 DEF TypeOK, Call, Wake, ReadClock, Goto, Labels, shared, clock
  <2>7. failed' \in BOOLEAN /\ exhausted' \in BOOLEAN
    BY <1>1, Zenon DEF TypeOK, Call, Wake, ReadClock, returns
  <2> QED BY <2>2, <2>3, <2>4, <2>5, <2>6, <2>7, Zenon DEF TypeOK, Uids
<1>2. ASSUME NEW t \in Thread, Count(t)
      PROVE  TypeOK' /\ Masked'
  <2>1. exhausted' \in BOOLEAN
    BY <1>2, Zenon DEF TypeOK, Count
  <2>2. UNCHANGED <<issued, repeated, failed, raced>>
    BY <1>2 DEF Count, returns
  <2> QED BY <1>2, <2>1, <2>2 DEF TypeOK, Masked, Count, Goto, Labels, clock
<1>3. ASSUME NEW t \in Thread, CheckOrder(t)
      PROVE  TypeOK' /\ Masked'
  BY <1>3 DEF TypeOK, Masked, CheckOrder, Goto, Labels, shared, clock, history
<1>4. ASSUME NEW t \in Thread, SameMillisecond(t)
      PROVE  TypeOK' /\ Masked'
  <2>1. sequence[t] % SequenceCount \in 0 .. SequenceCount - 1
    BY MaskBounds DEF TypeOK
  <2>2. sequence' = [sequence EXCEPT ![t] = sequence[t] % SequenceCount]
    BY <1>4 DEF SameMillisecond
  <2> QED BY <1>4, <2>1, <2>2
          DEF TypeOK, Masked, SameMillisecond, Goto, Labels, shared, clock, returns, history
<1>5. ASSUME NEW t \in Thread, NewMillisecond(t)
      PROVE  TypeOK' /\ Masked'
  BY <1>5 DEF TypeOK, Masked, NewMillisecond, Goto, Labels, shared, clock, returns, history
<1>6. ASSUME NEW t \in Thread, ResetSequence(t)
      PROVE  TypeOK' /\ Masked'
  BY <1>6 DEF TypeOK, Masked, ResetSequence, Goto, Labels, clock, returns, history
<1>7. ASSUME NEW t \in Thread, Advance(t) \/ StoreTimestamp(t)
      PROVE  TypeOK' /\ Masked'
  <2>1. issued' \subseteq Uids /\ repeated' \subseteq issued'
    <3>1. CASE Return(t)
      <4>1. pc[t] \in {"advance", "store"}
        BY <1>7 DEF Advance, StoreTimestamp
      <4> QED BY <3>1, <4>1, ReturnTyped
    <3>2. CASE UNCHANGED returns
      BY <3>2, Zenon DEF TypeOK, returns
    <3> QED BY <1>7, <3>1, <3>2 DEF Advance, StoreTimestamp
  <2> HIDE DEF Uids
  <2>2. failed' \in BOOLEAN /\ exhausted' \in BOOLEAN /\ raced' \in BOOLEAN
    BY <1>7, Zenon DEF TypeOK, Advance, StoreTimestamp, Return, returns, history
  <2>3. /\ pc' \in [Thread -> Labels] /\ timestamp' = timestamp /\ sequence' = sequence
        /\ wake' = wake /\ calls' = calls /\ now' = now /\ setback' = setback
        /\ m_Sequence' = m_Sequence /\ m_LastTimestamp' \in Nat
    BY <1>7 DEF TypeOK, Advance, StoreTimestamp, Return, Goto, Labels, shared, clock, history
  <2>4. Masked'
    BY <1>7 DEF TypeOK, Masked, Advance, StoreTimestamp, Return, Goto
  <2> QED BY <2>1, <2>2, <2>3, <2>4, Zenon DEF TypeOK, Uids
<1>8. CASE Tick \/ SetBack
  BY <1>8 DEF TypeOK, Masked, Tick, SetBack, shared, locals, clock, returns, history
<1>9. CASE UNCHANGED vars
  BY <1>9 DEF TypeOK, Masked, vars, shared, locals, clock, returns, history
<1> QED BY <1>1, <1>2, <1>3, <1>4, <1>5, <1>6, <1>7, <1>8, <1>9 DEF Next, Step

-----------------------------------------------------------------------------

(* Which call is under way: the thread of a shared access is busy, and     *)
(* the others are at rest as long as calls do not overlap.                 *)
LEMMA OthersRest ==
  ASSUME IInv, ~ raced, NEW t \in Thread, Busy(t), NEW u \in Thread, u # t
  PROVE  pc[u] \in {"idle", "asleep"}
BY DEF IInv, Alone, Busy

(* A call that starts or goes on after its sleep finds them at rest.       *)
LEMMA OthersRestAtStart ==
  ASSUME NEW t \in Thread, ReadClock(t), ~ raced', NEW u \in Thread, u # t
  PROVE  pc[u] \in {"idle", "asleep"}
BY DEF ReadClock, Busy

(* Nothing is claimed about a thread at rest. *)
LEMMA RestClaimsNothing ==
  ASSUME NEW u \in Thread, pc[u] \in {"idle", "asleep"}
  PROVE  InOrder(u) /\ Numbered(u) /\ ~ Busy(u)
BY DEF InOrder, Numbered, Repeats, Opens, Busy

(* What a step of t that leaves the others at rest has to establish.       *)
LEMMA OneMoves ==
  ASSUME TypeOK, NEW t \in Thread, NEW label \in Labels, Goto(t, label),
         \A u \in Thread \ {t} : pc[u] \in {"idle", "asleep"}
  PROVE  /\ pc'[t] = label
         /\ Alone'
         /\ InOrder(t)' => \A u \in Thread : InOrder(u)'
         /\ Numbered(t)' => \A u \in Thread : Numbered(u)'
<1>1. \A u \in Thread \ {t} : pc'[u] \in {"idle", "asleep"}
  BY DEF Goto, TypeOK
<1>2. \A u \in Thread \ {t} : InOrder(u)' /\ Numbered(u)' /\ ~ Busy(u)'
  BY <1>1 DEF InOrder, Numbered, Repeats, Opens, Busy
<1>3. pc'[t] = label
  BY DEF Goto, TypeOK
<1>4. Alone'
  BY <1>2 DEF Alone
<1> QED BY <1>2, <1>3, <1>4

(* The system time is ahead of every timestamp until it is set back.       *)
LEMMA ClockStep ==
  ASSUME TypeOK, ClockAhead, [Next]_vars
  PROVE  ClockAhead'
<1> USE UidAssumption DEF UidAssumption
<1>1. ASSUME NEW t \in Thread, Call(t) \/ Wake(t)
      PROVE  ClockAhead'
  <2>1. Milliseconds \in Nat
    BY MillisecondsPositive
  <2> QED BY <1>1, <2>1
          DEF TypeOK, ClockAhead, Milliseconds, Call, Wake, ReadClock, shared, clock
<1>2. ASSUME NEW t \in Thread, \/ Count(t) \/ CheckOrder(t) \/ SameMillisecond(t)
                              \/ NewMillisecond(t) \/ ResetSequence(t) \/ Advance(t)
                              \/ StoreTimestamp(t)
      PROVE  ClockAhead'
  <2>1. /\ timestamp' = timestamp /\ now' = now /\ setback' = setback
        /\ m_LastTimestamp' \in {m_LastTimestamp, timestamp[t]}
    BY <1>2 DEF Count, CheckOrder, SameMillisecond, NewMillisecond, ResetSequence,
                Advance, StoreTimestamp, shared, clock
  <2> QED BY <2>1 DEF TypeOK, ClockAhead, Milliseconds
<1>3. CASE Tick \/ SetBack
  BY <1>3 DEF TypeOK, ClockAhead, Milliseconds, Tick, SetBack, shared, locals
<1>4. CASE UNCHANGED vars
  BY <1>4 DEF ClockAhead, Milliseconds, vars, shared, locals, clock
<1> QED BY <1>1, <1>2, <1>3, <1>4 DEF Next, Step

-----------------------------------------------------------------------------

(* The part of the invariant that a race, or a sequence used up, ends.     *)
Protocol ==
  /\ ~ raced => (Alone /\ \A t \in Thread : InOrder(t))
  /\ LastIsNewestUntilRace
  /\ FailsOnlyAfterSetback
  /\ (~ raced /\ ~ exhausted) => (NextIsFresh /\ \A t \in Thread : Numbered(t))
  /\ UniqueUntilRace

LEMMA Parts == IInv <=> TypeOK /\ Masked /\ ClockAhead /\ Protocol
BY DEF IInv, Protocol

(* What holds of a state without a race. *)
LEMMA Calm ==
  ASSUME IInv, ~ raced
  PROVE  /\ Alone
         /\ \A t \in Thread : InOrder(t)
         /\ \A uid \in issued : uid[1] <= m_LastTimestamp
         /\ failed => setback > 0
         /\ ~ exhausted => /\ NextIsFresh
                          /\ \A t \in Thread : Numbered(t)
                          /\ repeated = {}
BY DEF IInv, LastIsNewestUntilRace, FailsOnlyAfterSetback, UniqueUntilRace

LEMMA CallKeepsProtocol ==
  ASSUME IInv, NEW t \in Thread, Call(t) \/ Wake(t)
  PROVE  Protocol'
<1>1. ReadClock(t) /\ pc[t] \in {"idle", "asleep"}
  BY DEF Call, Wake
<1>2. /\ Goto(t, "count") /\ timestamp' = [timestamp EXCEPT ![t] = Milliseconds]
      /\ m_LastTimestamp' = m_LastTimestamp /\ m_Sequence' = m_Sequence
      /\ setback' = setback /\ exhausted' = exhausted
      /\ issued' = issued /\ repeated' = repeated /\ failed' = failed
      /\ ~ raced' => ~ raced
  BY <1>1 DEF ReadClock, shared, clock, returns
<1> SUFFICES ASSUME ~ raced' PROVE Protocol'
  BY DEF Protocol, LastIsNewestUntilRace, FailsOnlyAfterSetback, UniqueUntilRace
<1>3. \A u \in Thread \ {t} : pc[u] \in {"idle", "asleep"}
  BY <1>1, OthersRestAtStart
<1>4. TypeOK /\ "count" \in Labels
  BY DEF IInv, Labels
<1>5. /\ pc'[t] = "count" /\ Alone'
      /\ InOrder(t)' => \A u \in Thread : InOrder(u)'
      /\ Numbered(t)' => \A u \in Thread : Numbered(u)'
  BY <1>2, <1>3, <1>4, OneMoves
<1>6. InOrder(t)'
  <2>1. timestamp'[t] = Milliseconds
    BY <1>2, <1>4 DEF TypeOK
  <2>2. setback = 0 => m_LastTimestamp <= Milliseconds
    BY DEF IInv, ClockAhead
  <2> QED BY <1>2, <1>5, <2>1, <2>2 DEF InOrder
<1>7. Numbered(t)'
  BY <1>5 DEF Numbered, Repeats, Opens
<1>8. ~ exhausted' => NextIsFresh'
  <2> SUFFICES ASSUME ~ exhausted PROVE NextIsFresh'
    BY <1>2
  <2>1. NextIsFresh
    BY <1>2, Calm
  <2>2. ~ \E u \in Thread : pc[u] \in {"advance", "store"}
    BY <1>1, <1>3
  <2> QED BY <1>2, <2>1, <2>2 DEF NextIsFresh, GivenBelow
<1>9. LastIsNewestUntilRace' /\ FailsOnlyAfterSetback' /\ UniqueUntilRace'
  BY <1>2, Calm DEF LastIsNewestUntilRace, FailsOnlyAfterSetback, UniqueUntilRace
<1> QED BY <1>5, <1>6, <1>7, <1>8, <1>9 DEF Protocol

(* sequence = m_Sequence++: the number is fresh. *)
LEMMA CountKeepsProtocol ==
  ASSUME IInv, NEW t \in Thread, Count(t)
  PROVE  Protocol'
<1>1. /\ pc[t] = "count" /\ Goto(t, "order")
      /\ sequence' = [sequence EXCEPT ![t] = m_Sequence]
      /\ m_Sequence' = m_Sequence + 1
      /\ exhausted' = (exhausted \/ m_Sequence >= SequenceCount)
      /\ m_LastTimestamp' = m_LastTimestamp /\ timestamp' = timestamp
      /\ setback' = setback /\ raced' = raced
      /\ issued' = issued /\ repeated' = repeated /\ failed' = failed
  BY DEF Count, clock, returns
<1>2. ~ exhausted' => ~ exhausted /\ m_Sequence < SequenceCount
  <2>1. ~ exhausted' => ~ exhausted /\ ~ (m_Sequence >= SequenceCount)
    BY <1>1, Zenon
  <2>2. m_Sequence \in Nat
    BY DEF IInv, TypeOK
  <2> QED BY <2>1, <2>2, UidAssumption DEF UidAssumption
<1> SUFFICES ASSUME ~ raced PROVE Protocol'
  BY <1>1 DEF Protocol, LastIsNewestUntilRace, FailsOnlyAfterSetback, UniqueUntilRace
<1>3. \A u \in Thread \ {t} : pc[u] \in {"idle", "asleep"}
  BY <1>1, OthersRest DEF Busy
<1>4. TypeOK /\ "order" \in Labels
  BY DEF IInv, Labels
<1>5. /\ pc'[t] = "order" /\ Alone'
      /\ InOrder(t)' => \A u \in Thread : InOrder(u)'
      /\ Numbered(t)' => \A u \in Thread : Numbered(u)'
  BY <1>1, <1>3, <1>4, OneMoves
<1>6. InOrder(t)'
  BY <1>1, <1>5, Calm DEF InOrder
<1>7. ASSUME ~ exhausted'
      PROVE  NextIsFresh' /\ Numbered(t)'
  <2>1. ~ exhausted /\ m_Sequence < SequenceCount
    BY <1>2, <1>7
  <2>2. GivenBelow(m_Sequence)
    <3>1. NextIsFresh
      BY <2>1, Calm
    <3>2. ~ \E u \in Thread : pc[u] \in {"advance", "store"}
      BY <1>1, <1>3
    <3> QED BY <3>1, <3>2 DEF NextIsFresh
  <2>3. sequence'[t] = m_Sequence /\ m_Sequence \in Nat
    BY <1>1, <1>4 DEF TypeOK
  <2>4. \A uid \in issued : uid[2] \in Nat
    BY <1>4, UidAssumption DEF TypeOK, UidAssumption
  <2>5. GivenBelow(m_Sequence)' /\ GivenBelow(sequence[t])'
    BY <1>1, <2>2, <2>3, <2>4 DEF GivenBelow
  <2>6. NextIsFresh'
    BY <2>5 DEF NextIsFresh
  <2>7. Numbered(t)'
    BY <1>1, <1>5, <2>1, <2>3, <2>5 DEF Numbered, Repeats, Opens
  <2> QED BY <2>6, <2>7
<1>8. LastIsNewestUntilRace' /\ FailsOnlyAfterSetback' /\ UniqueUntilRace'
  BY <1>1, Calm DEF LastIsNewestUntilRace, FailsOnlyAfterSetback, UniqueUntilRace
<1> QED BY <1>5, <1>6, <1>7, <1>8 DEF Protocol

(* Without a setback the clock is not behind m_LastTimestamp. *)
LEMMA CheckOrderKeepsProtocol ==
  ASSUME IInv, NEW t \in Thread, CheckOrder(t)
  PROVE  Protocol'
<1>1. /\ pc[t] = "order" /\ sequence' = sequence /\ m_Sequence' = m_Sequence
      /\ m_LastTimestamp' = m_LastTimestamp /\ timestamp' = timestamp
      /\ setback' = setback /\ raced' = raced /\ exhausted' = exhausted
      /\ issued' = issued /\ repeated' = repeated
  BY DEF CheckOrder, shared, clock, history
<1> SUFFICES ASSUME ~ raced PROVE Protocol'
  BY <1>1 DEF Protocol, LastIsNewestUntilRace, FailsOnlyAfterSetback, UniqueUntilRace
<1>2. PICK label \in {"idle", "compare"} :
         /\ Goto(t, label)
         /\ label = "idle" => failed' = TRUE /\ timestamp[t] < m_LastTimestamp
         /\ label = "compare" => failed' = failed /\ ~ (timestamp[t] < m_LastTimestamp)
  BY DEF CheckOrder
<1>3. \A u \in Thread \ {t} : pc[u] \in {"idle", "asleep"}
  BY <1>1, OthersRest DEF Busy
<1>4. TypeOK /\ label \in Labels
  BY DEF IInv, Labels
<1>5. /\ pc'[t] = label /\ Alone'
      /\ InOrder(t)' => \A u \in Thread : InOrder(u)'
      /\ Numbered(t)' => \A u \in Thread : Numbered(u)'
  BY <1>2, <1>3, <1>4, OneMoves
<1>6. timestamp[t] \in Nat /\ m_LastTimestamp \in Nat
  BY <1>4 DEF TypeOK
<1>7. InOrder(t)'
  BY <1>1, <1>2, <1>5, <1>6 DEF InOrder
<1>8. ASSUME ~ exhausted'
      PROVE  NextIsFresh' /\ Numbered(t)'
  <2>1. NextIsFresh /\ Numbered(t)
    BY <1>1, <1>8, Calm
  <2>2. NextIsFresh'
    <3>1. ~ \E u \in Thread : pc[u] \in {"advance", "store"}
      BY <1>1, <1>3
    <3> QED BY <1>1, <2>1, <3>1 DEF NextIsFresh, GivenBelow
  <2>3. Numbered(t)'
    BY <1>1, <1>2, <1>5, <2>1 DEF Numbered, Repeats, Opens, GivenBelow
  <2> QED BY <2>2, <2>3
<1>9. FailsOnlyAfterSetback'
  <2>1. label = "idle" => setback # 0
    BY <1>1, <1>2, <1>6, Calm DEF InOrder
  <2>2. setback \in Nat
    BY <1>4, UidAssumption DEF TypeOK, UidAssumption
  <2>3. label = "idle" => setback > 0
    BY <2>1, <2>2
  <2>4. label = "compare" => (failed' => setback > 0)
    BY <1>2, Calm
  <2>5. failed' => setback' > 0
    BY <1>1, <1>2, <2>3, <2>4
  <2> QED BY <2>5 DEF FailsOnlyAfterSetback
<1>10. LastIsNewestUntilRace' /\ UniqueUntilRace'
  BY <1>1, Calm DEF LastIsNewestUntilRace, UniqueUntilRace
<1> QED BY <1>5, <1>7, <1>8, <1>9, <1>10 DEF Protocol

(* A number that follows others of its millisecond is below the mask, so   *)
(* masking keeps it, and number 0 sleeps instead of being returned.        *)
LEMMA SameMillisecondKeepsProtocol ==
  ASSUME IInv, NEW t \in Thread, SameMillisecond(t)
  PROVE  Protocol'
<1> DEFINE masked == sequence[t] % SequenceCount
<1>1. /\ pc[t] = "compare" /\ m_LastTimestamp = timestamp[t]
      /\ sequence' = [sequence EXCEPT ![t] = masked] /\ m_Sequence' = m_Sequence
      /\ m_LastTimestamp' = m_LastTimestamp /\ timestamp' = timestamp
      /\ setback' = setback /\ raced' = raced /\ exhausted' = exhausted
      /\ issued' = issued /\ repeated' = repeated /\ failed' = failed
  BY DEF SameMillisecond, shared, clock, returns, history
<1>2. PICK label \in {"asleep", "advance"} :
         Goto(t, label) /\ (label = "advance" => masked # 0)
  BY DEF SameMillisecond
<1>3. /\ sequence[t] \in Nat /\ masked \in Nat
      /\ sequence[t] < SequenceCount => masked = sequence[t]
  BY MaskBounds DEF IInv, TypeOK
<1> HIDE DEF masked
<1> SUFFICES ASSUME ~ raced PROVE Protocol'
  BY <1>1 DEF Protocol, LastIsNewestUntilRace, FailsOnlyAfterSetback, UniqueUntilRace
<1>4. \A u \in Thread \ {t} : pc[u] \in {"idle", "asleep"}
  BY <1>1, OthersRest DEF Busy
<1>5. TypeOK /\ label \in Labels
  BY DEF IInv, Labels
<1>6. /\ pc'[t] = label /\ Alone'
      /\ InOrder(t)' => \A u \in Thread : InOrder(u)'
      /\ Numbered(t)' => \A u \in Thread : Numbered(u)'
  BY <1>2, <1>4, <1>5, OneMoves
<1>7. InOrder(t)'
  <2>1. m_LastTimestamp <= timestamp[t]
    BY <1>1, <1>5 DEF TypeOK
  <2> QED BY <1>1, <1>2, <1>6, <2>1 DEF InOrder
<1>8. ASSUME ~ exhausted'
      PROVE  NextIsFresh' /\ Numbered(t)'
  <2>1. NextIsFresh /\ Numbered(t)
    BY <1>1, <1>8, Calm
  <2>2. sequence[t] < SequenceCount /\ sequence[t] < m_Sequence /\ GivenBelow(sequence[t])
    BY <1>1, <2>1 DEF Numbered
  <2>3. sequence'[t] = sequence[t] /\ (label = "advance" => sequence[t] # 0)
    BY <1>1, <1>2, <1>3, <1>5, <2>2 DEF TypeOK
  <2>4. NextIsFresh'
    <3>1. ~ \E u \in Thread : pc[u] \in {"advance", "store"}
      BY <1>1, <1>4
    <3> QED BY <1>1, <2>1, <3>1 DEF NextIsFresh, GivenBelow
  <2>5. GivenBelow(sequence[t])'
    BY <1>1, <2>2, <2>3 DEF GivenBelow
  <2>6. Numbered(t)'
    BY <1>1, <1>2, <1>6, <2>2, <2>3, <2>5 DEF Numbered, Repeats, Opens
  <2> QED BY <2>4, <2>6
<1>9. LastIsNewestUntilRace' /\ FailsOnlyAfterSetback' /\ UniqueUntilRace'
  BY <1>1, Calm DEF LastIsNewestUntilRace, FailsOnlyAfterSetback, UniqueUntilRace
<1> QED BY <1>6, <1>7, <1>8, <1>9 DEF Protocol

(* The first number of a millisecond is 0, and the check has found the     *)
(* timestamp not below m_LastTimestamp.                                    *)
LEMMA NewMillisecondKeepsProtocol ==
  ASSUME IInv, NEW t \in Thread, NewMillisecond(t)
  PROVE  Protocol'
<1>1. /\ pc[t] = "compare" /\ m_LastTimestamp # timestamp[t] /\ Goto(t, "reset")
      /\ sequence' = [sequence EXCEPT ![t] = 0] /\ m_Sequence' = m_Sequence
      /\ m_LastTimestamp' = m_LastTimestamp /\ timestamp' = timestamp
      /\ setback' = setback /\ raced' = raced /\ exhausted' = exhausted
      /\ issued' = issued /\ repeated' = repeated /\ failed' = failed
  BY DEF NewMillisecond, shared, clock, returns, history
<1> SUFFICES ASSUME ~ raced PROVE Protocol'
  BY <1>1 DEF Protocol, LastIsNewestUntilRace, FailsOnlyAfterSetback, UniqueUntilRace
<1>2. \A u \in Thread \ {t} : pc[u] \in {"idle", "asleep"}
  BY <1>1, OthersRest DEF Busy
<1>3. TypeOK /\ "reset" \in Labels
  BY DEF IInv, Labels
<1>4. /\ pc'[t] = "reset" /\ Alone'
      /\ InOrder(t)' => \A u \in Thread : InOrder(u)'
      /\ Numbered(t)' => \A u \in Thread : Numbered(u)'
  BY <1>1, <1>2, <1>3, OneMoves
<1>5. InOrder(t)'
  <2>1. m_LastTimestamp <= timestamp[t]
    BY <1>1, Calm DEF InOrder
  <2>2. m_LastTimestamp < timestamp[t]
    BY <1>1, <1>3, <2>1 DEF TypeOK
  <2> QED BY <1>1, <1>4, <2>2 DEF InOrder
<1>6. sequence'[t] = 0
  BY <1>1, <1>3 DEF TypeOK
<1>7. Numbered(t)'
  BY <1>4, <1>6 DEF Numbered, Repeats, Opens
<1>8. ~ exhausted' => NextIsFresh'
  <2> SUFFICES ASSUME ~ exhausted PROVE NextIsFresh'
    BY <1>1
  <2>1. NextIsFresh
    BY Calm
  <2>2. ~ \E u \in Thread : pc[u] \in {"advance", "store"}
    BY <1>1, <1>2
  <2> QED BY <1>1, <2>1, <2>2 DEF NextIsFresh, GivenBelow
<1>9. LastIsNewestUntilRace' /\ FailsOnlyAfterSetback' /\ UniqueUntilRace'
  BY <1>1, Calm DEF LastIsNewestUntilRace, FailsOnlyAfterSetback, UniqueUntilRace
<1> QED BY <1>4, <1>5, <1>7, <1>8, <1>9 DEF Protocol

(* m_Sequence = 0 while the new millisecond is not yet stored. *)
LEMMA ResetKeepsProtocol ==
  ASSUME IInv, NEW t \in Thread, ResetSequence(t)
  PROVE  Protocol'
<1>1. /\ pc[t] = "reset" /\ Goto(t, "advance") /\ sequence' = sequence
      /\ m_LastTimestamp' = m_LastTimestamp /\ timestamp' = timestamp
      /\ setback' = setback /\ raced' = raced /\ exhausted' = exhausted
      /\ issued' = issued /\ repeated' = repeated /\ failed' = failed
  BY DEF ResetSequence, clock, returns, history
<1> SUFFICES ASSUME ~ raced PROVE Protocol'
  BY <1>1 DEF Protocol, LastIsNewestUntilRace, FailsOnlyAfterSetback, UniqueUntilRace
<1>2. \A u \in Thread \ {t} : pc[u] \in {"idle", "asleep"}
  BY <1>1, OthersRest DEF Busy
<1>3. TypeOK /\ "advance" \in Labels
  BY DEF IInv, Labels
<1>4. /\ pc'[t] = "advance" /\ Alone'
      /\ InOrder(t)' => \A u \in Thread : InOrder(u)'
      /\ Numbered(t)' => \A u \in Thread : Numbered(u)'
  BY <1>1, <1>2, <1>3, OneMoves
<1>5. m_LastTimestamp < timestamp[t]
  BY <1>1, Calm DEF InOrder
<1>6. m_LastTimestamp \in Nat /\ timestamp[t] \in Nat
  BY <1>3 DEF TypeOK
<1>7. InOrder(t)'
  BY <1>1, <1>4, <1>5, <1>6 DEF InOrder
<1>8. ASSUME ~ exhausted'
      PROVE  NextIsFresh' /\ Numbered(t)'
  <2>1. Numbered(t)
    BY <1>1, <1>8, Calm
  <2>2. sequence[t] = 0
    BY <1>1, <2>1 DEF Numbered, Opens
  <2>3. NextIsFresh'
    BY <1>1, <1>4, <1>5 DEF NextIsFresh
  <2>4. ~ Repeats(t)'
    BY <1>1, <1>5, <1>6 DEF Repeats
  <2>5. Numbered(t)'
    BY <1>1, <1>4, <2>2, <2>4 DEF Numbered
  <2> QED BY <2>3, <2>5
<1>9. LastIsNewestUntilRace' /\ FailsOnlyAfterSetback' /\ UniqueUntilRace'
  BY <1>1, Calm DEF LastIsNewestUntilRace, FailsOnlyAfterSetback, UniqueUntilRace
<1> QED BY <1>4, <1>5, <1>7, <1>8, <1>9 DEF Protocol

(* if (timestamp > m_LastTimestamp): the store is the next step. *)
LEMMA AdvanceToStoreKeepsProtocol ==
  ASSUME IInv, NEW t \in Thread, Advance(t), timestamp[t] > m_LastTimestamp
  PROVE  Protocol'
<1>1. /\ pc[t] = "advance" /\ Goto(t, "store") /\ sequence' = sequence
      /\ m_LastTimestamp' = m_LastTimestamp /\ timestamp' = timestamp
      /\ setback' = setback /\ raced' = raced /\ exhausted' = exhausted
      /\ issued' = issued /\ repeated' = repeated /\ failed' = failed
  BY DEF Advance, shared, clock, returns, history
<1> SUFFICES ASSUME ~ raced PROVE Protocol'
  BY <1>1 DEF Protocol, LastIsNewestUntilRace, FailsOnlyAfterSetback, UniqueUntilRace
<1>2. \A u \in Thread \ {t} : pc[u] \in {"idle", "asleep"}
  BY <1>1, OthersRest DEF Busy
<1>3. TypeOK /\ "store" \in Labels
  BY DEF IInv, Labels
<1>4. /\ pc'[t] = "store" /\ Alone'
      /\ InOrder(t)' => \A u \in Thread : InOrder(u)'
      /\ Numbered(t)' => \A u \in Thread : Numbered(u)'
  BY <1>1, <1>2, <1>3, OneMoves
<1>5. m_LastTimestamp \in Nat /\ timestamp[t] \in Nat
  BY <1>3 DEF TypeOK
<1>6. m_LastTimestamp < timestamp[t] /\ timestamp[t] # m_LastTimestamp
  BY <1>5
<1>7. InOrder(t)'
  BY <1>1, <1>4, <1>6 DEF InOrder
<1>8. ASSUME ~ exhausted'
      PROVE  NextIsFresh' /\ Numbered(t)'
  <2>1. Numbered(t)
    BY <1>1, <1>8, Calm
  <2>2. sequence[t] = 0
    BY <1>1, <1>6, <2>1 DEF Numbered, Opens
  <2>3. NextIsFresh'
    BY <1>1, <1>4, <1>6 DEF NextIsFresh
  <2>4. Numbered(t)'
    BY <1>1, <1>4, <2>2 DEF Numbered, Repeats
  <2> QED BY <2>3, <2>4
<1>9. LastIsNewestUntilRace' /\ FailsOnlyAfterSetback' /\ UniqueUntilRace'
  BY <1>1, Calm DEF LastIsNewestUntilRace, FailsOnlyAfterSetback, UniqueUntilRace
<1> QED BY <1>4, <1>7, <1>8, <1>9 DEF Protocol

(* Otherwise the uid has the newest timestamp and a number not given yet. *)
LEMMA AdvanceAndReturnKeepsProtocol ==
  ASSUME IInv, NEW t \in Thread, Advance(t), ~ (timestamp[t] > m_LastTimestamp)
  PROVE  Protocol'
<1> DEFINE uid == <<timestamp[t], sequence[t]>>
<1>1. /\ pc[t] = "advance" /\ Goto(t, "idle") /\ m_Sequence' = m_Sequence
      /\ m_LastTimestamp' = m_LastTimestamp
      /\ setback' = setback /\ raced' = raced /\ exhausted' = exhausted
      /\ issued' = issued \union {uid} /\ failed' = failed
      /\ repeated' = repeated \union ({uid} \intersect issued)
  BY ReturnRepeats DEF IInv, Advance, Return, shared, clock, history
<1> SUFFICES ASSUME ~ raced PROVE Protocol'
  BY <1>1 DEF Protocol, LastIsNewestUntilRace, FailsOnlyAfterSetback, UniqueUntilRace
<1>2. \A u \in Thread \ {t} : pc[u] \in {"idle", "asleep"}
  BY <1>1, OthersRest DEF Busy
<1>3. TypeOK /\ "idle" \in Labels
  BY DEF IInv, Labels
<1>4. /\ pc'[t] = "idle" /\ Alone'
      /\ InOrder(t)' => \A u \in Thread : InOrder(u)'
      /\ Numbered(t)' => \A u \in Thread : Numbered(u)'
  BY <1>1, <1>2, <1>3, OneMoves
<1>5. InOrder(t)' /\ Numbered(t)'
  BY <1>4 DEF InOrder, Numbered, Repeats, Opens
<1>6. timestamp[t] = m_LastTimestamp
  <2>1. m_LastTimestamp <= timestamp[t]
    BY <1>1, Calm DEF InOrder
  <2>2. m_LastTimestamp \in Nat /\ timestamp[t] \in Nat
    BY <1>3 DEF TypeOK
  <2> QED BY <2>1, <2>2
<1>7. uid[1] = timestamp[t] /\ uid[2] = sequence[t]
  OBVIOUS
<1>8. m_LastTimestamp \in Nat /\ sequence[t] \in Nat /\ m_Sequence \in Nat
  BY <1>3 DEF TypeOK
<1>9. LastIsNewestUntilRace'
  <2>1. \A old \in issued : old[1] <= m_LastTimestamp
    BY Calm
  <2>2. uid[1] <= m_LastTimestamp
    BY <1>6, <1>7, <1>8
  <2> HIDE DEF uid
  <2> QED BY <1>1, <2>1, <2>2 DEF LastIsNewestUntilRace
<1>10. FailsOnlyAfterSetback'
  BY <1>1, Calm DEF FailsOnlyAfterSetback
<1>11. ASSUME ~ exhausted
       PROVE  NextIsFresh' /\ repeated' = {}
  <2>1. NextIsFresh /\ Numbered(t) /\ repeated = {}
    BY <1>11, Calm
  <2>2. Repeats(t)
    BY <1>1, <1>6 DEF Repeats
  <2>3. sequence[t] < m_Sequence /\ GivenBelow(sequence[t]) /\ sequence[t] # 0
    BY <2>1, <2>2 DEF Numbered
  <2>4. uid \notin issued
    <3> SUFFICES ASSUME uid \in issued PROVE FALSE
      OBVIOUS
    <3>1. uid[2] = 0 \/ uid[2] < sequence[t]
      BY <1>6, <1>7, <2>3 DEF GivenBelow
    <3> QED BY <1>7, <1>8, <2>3, <3>1
  <2>5. repeated' = {}
    BY <1>1, <2>1, <2>4, Zenon
  <2>6. GivenBelow(m_Sequence)
    <3>1. ~ \E u \in Thread : /\ pc[u] \in {"advance", "store"}
                             /\ m_LastTimestamp < timestamp[u]
      BY <1>2, <1>6, <1>8
    <3> QED BY <2>1, <3>1 DEF NextIsFresh
  <2>7. uid[2] < m_Sequence
    BY <1>7, <2>3
  <2> HIDE DEF uid
  <2>8. GivenBelow(m_Sequence)'
    BY <1>1, <2>6, <2>7 DEF GivenBelow
  <2> QED BY <2>5, <2>8 DEF NextIsFresh
<1>12. UniqueUntilRace'
  BY <1>1, <1>11 DEF UniqueUntilRace
<1> QED BY <1>1, <1>4, <1>5, <1>9, <1>10, <1>11, <1>12 DEF Protocol

(* Every uid given before is older than the new millisecond. *)
LEMMA StoreKeepsProtocol ==
  ASSUME IInv, NEW t \in Thread, StoreTimestamp(t)
  PROVE  Protocol'
<1> DEFINE uid == <<timestamp[t], sequence[t]>>
<1>1. /\ pc[t] = "store" /\ Goto(t, "idle") /\ m_Sequence' = m_Sequence
      /\ m_LastTimestamp' = timestamp[t]
      /\ setback' = setback /\ raced' = raced /\ exhausted' = exhausted
      /\ issued' = issued \union {uid} /\ failed' = failed
      /\ repeated' = repeated \union ({uid} \intersect issued)
  BY ReturnRepeats DEF IInv, StoreTimestamp, Return, clock, history
<1> SUFFICES ASSUME ~ raced PROVE Protocol'
  BY <1>1 DEF Protocol, LastIsNewestUntilRace, FailsOnlyAfterSetback, UniqueUntilRace
<1>2. \A u \in Thread \ {t} : pc[u] \in {"idle", "asleep"}
  BY <1>1, OthersRest DEF Busy
<1>3. TypeOK /\ "idle" \in Labels
  BY DEF IInv, Labels
<1>4. /\ pc'[t] = "idle" /\ Alone'
      /\ InOrder(t)' => \A u \in Thread : InOrder(u)'
      /\ Numbered(t)' => \A u \in Thread : Numbered(u)'
  BY <1>1, <1>2, <1>3, OneMoves
<1>5. InOrder(t)' /\ Numbered(t)'
  BY <1>4 DEF InOrder, Numbered, Repeats, Opens
<1>6. m_LastTimestamp < timestamp[t]
  BY <1>1, Calm DEF InOrder
<1>7. uid[1] = timestamp[t] /\ uid[2] = sequence[t]
  OBVIOUS
<1>8. m_LastTimestamp \in Nat /\ timestamp[t] \in Nat
  BY <1>3 DEF TypeOK
<1>9. \A old \in issued : old[1] < timestamp[t]
  <2>1. \A old \in issued : old[1] \in Nat
    BY <1>3, UidAssumption DEF TypeOK, UidAssumption
  <2>2. \A old \in issued : old[1] <= m_LastTimestamp
    BY Calm
  <2> QED BY <1>6, <1>8, <2>1, <2>2
<1>10. LastIsNewestUntilRace'
  <2>1. uid[1] <= timestamp[t]
    BY <1>7, <1>8
  <2>2. \A old \in issued : old[1] <= timestamp[t]
    BY <1>3, <1>8, <1>9, UidAssumption DEF TypeOK, UidAssumption
  <2> HIDE DEF uid
  <2> QED BY <1>1, <2>1, <2>2 DEF LastIsNewestUntilRace
<1>11. FailsOnlyAfterSetback'
  BY <1>1, Calm DEF FailsOnlyAfterSetback
<1>12. ASSUME ~ exhausted
       PROVE  NextIsFresh' /\ repeated' = {}
  <2>1. Numbered(t) /\ repeated = {}
    BY <1>12, Calm
  <2>2. sequence[t] = 0
    BY <1>1, <2>1 DEF Numbered, Opens
  <2>3. uid \notin issued
    BY <1>7, <1>8, <1>9
  <2>4. repeated' = {}
    BY <1>1, <2>1, <2>3, Zenon
  <2>5. uid[2] = 0
    BY <1>7, <2>2
  <2>6. \A old \in issued : old[1] # timestamp[t]
    BY <1>8, <1>9
  <2> HIDE DEF uid
  <2>7. GivenBelow(m_Sequence)'
    BY <1>1, <2>5, <2>6 DEF GivenBelow
  <2> QED BY <2>4, <2>7 DEF NextIsFresh
<1>13. UniqueUntilRace'
  BY <1>1, <1>12 DEF UniqueUntilRace
<1> QED BY <1>1, <1>4, <1>5, <1>10, <1>11, <1>12, <1>13 DEF Protocol

(* Time passes, forwards or set back. *)
LEMMA ClockKeepsProtocol ==
  ASSUME IInv, Tick \/ SetBack \/ UNCHANGED vars
  PROVE  Protocol'
<1>1. /\ pc' = pc /\ timestamp' = timestamp /\ sequence' = sequence
      /\ m_Sequence' = m_Sequence /\ m_LastTimestamp' = m_LastTimestamp
      /\ raced' = raced /\ exhausted' = exhausted
      /\ issued' = issued /\ repeated' = repeated /\ failed' = failed
      /\ setback' \in {setback, setback + 1}
  BY DEF Tick, SetBack, vars, shared, locals, clock, returns, history
<1>2. setback \in Nat
  BY UidAssumption DEF UidAssumption, IInv, TypeOK
<1>3. (setback' = 0 => setback = 0) /\ (setback > 0 => setback' > 0)
  BY <1>1, <1>2
<1>4. Protocol
  BY Parts
<1>5. \A t \in Thread : InOrder(t) => InOrder(t)'
  BY <1>1, <1>3 DEF InOrder
<1>6. \A t \in Thread : Numbered(t) => Numbered(t)'
  BY <1>1 DEF Numbered, Repeats, Opens, GivenBelow
<1>7. (Alone => Alone') /\ (NextIsFresh => NextIsFresh')
  BY <1>1 DEF Alone, Busy, NextIsFresh, GivenBelow
<1>8. LastIsNewestUntilRace' /\ FailsOnlyAfterSetback' /\ UniqueUntilRace'
  BY <1>1, <1>3, <1>4
     DEF Protocol, LastIsNewestUntilRace, FailsOnlyAfterSetback, UniqueUntilRace
<1> QED BY <1>1, <1>4, <1>5, <1>6, <1>7, <1>8 DEF Protocol

-----------------------------------------------------------------------------

LEMMA InitInvariant == Init => IInv
<1> SUFFICES ASSUME Init PROVE IInv
  OBVIOUS
<1>1. TypeOK /\ Masked
  BY InitTyped
<1>2. ClockAhead
  BY UidAssumption DEF UidAssumption, Init, ClockAhead, Milliseconds
<1>3. /\ \A t \in Thread : pc[t] = "idle"
      /\ issued = {} /\ repeated = {} /\ failed = FALSE
  BY DEF Init
<1>4. Alone /\ \A t \in Thread : InOrder(t) /\ Numbered(t)
  BY <1>3 DEF Alone, Busy, InOrder, Numbered, Repeats, Opens
<1>5. NextIsFresh
  BY <1>3 DEF NextIsFresh, GivenBelow
<1>6. LastIsNewestUntilRace /\ FailsOnlyAfterSetback /\ UniqueUntilRace
  BY <1>3 DEF LastIsNewestUntilRace, FailsOnlyAfterSetback, UniqueUntilRace
<1> QED BY <1>1, <1>2, <1>4, <1>5, <1>6 DEF IInv

LEMMA StepInvariant == IInv /\ [Next]_vars => IInv'
<1> SUFFICES ASSUME IInv, [Next]_vars PROVE IInv'
  OBVIOUS
<1>1. TypeOK' /\ Masked'
  BY StepTyped DEF IInv
<1>2. ClockAhead'
  BY ClockStep DEF IInv
<1>3. ASSUME NEW t \in Thread, Call(t) \/ Step(t)
      PROVE  Protocol'
  <2>1. CASE Call(t) \/ Wake(t)
    BY <2>1, CallKeepsProtocol
  <2>2. CASE Count(t)
    BY <2>2, CountKeepsProtocol
  <2>3. CASE CheckOrder(t)
    BY <2>3, CheckOrderKeepsProtocol
  <2>4. CASE SameMillisecond(t)
    BY <2>4, SameMillisecondKeepsProtocol
  <2>5. CASE NewMillisecond(t)
    BY <2>5, NewMillisecondKeepsProtocol
  <2>6. CASE ResetSequence(t)
    BY <2>6, ResetKeepsProtocol
  <2>7. CASE Advance(t)
    BY <2>7, AdvanceToStoreKeepsProtocol, AdvanceAndReturnKeepsProtocol
  <2>8. CASE StoreTimestamp(t)
    BY <2>8, StoreKeepsProtocol
  <2> QED BY <1>3, <2>1, <2>2, <2>3, <2>4, <2>5, <2>6, <2>7, <2>8 DEF Step
<1>4. ASSUME Tick \/ SetBack \/ UNCHANGED vars
      PROVE  Protocol'
  BY <1>4, ClockKeepsProtocol
<1>5. Protocol'
  BY <1>3, <1>4 DEF Next
<1> QED BY <1>1, <1>2, <1>5 DEF IInv, Protocol

(* The inductive invariant holds in every state. *)
THEOREM Invariance == Spec => []IInv
BY InitInvariant, StepInvariant, PTL DEF Spec

(* Type correctness, races or not. *)
THEOREM TypeCorrect == Spec => []TypeOK
<1>1. IInv => TypeOK
  BY DEF IInv
<1> QED BY Invariance, <1>1, PTL

(* Races or not, a number that GenerateSnowflake returned determines the   *)
(* timestamp and the sequence it was made of, although a sequence may be   *)
(* wider than the bits the layout gives it.                                *)
THEOREM ResultsTellUidsApart == Spec => []TellsApart
<1>1. TypeOK => TellsApart
  BY SnowflakeInjective DEF TypeOK, TellsApart
<1> QED BY TypeCorrect, <1>1, PTL

(* Calls of GenerateSnowflake that do not overlap return no number twice,  *)
(* also when the system time is set back, until a millisecond's sequence   *)
(* numbers are used up.                                                    *)
THEOREM UidsAreUnique == Spec => []UniqueUntilRace
<1>1. IInv => UniqueUntilRace
  BY DEF IInv
<1> QED BY Invariance, <1>1, PTL

(* m_LastTimestamp is never older than a uid returned, as long as calls do *)
(* not overlap.                                                            *)
THEOREM LastIsNewest == Spec => []LastIsNewestUntilRace
<1>1. IInv => LastIsNewestUntilRace
  BY DEF IInv
<1> QED BY Invariance, <1>1, PTL

(* Without a race UINT64_MAX is returned only after the system time has    *)
(* been set back.                                                          *)
THEOREM FailsAfterSetback == Spec => []FailsOnlyAfterSetback
<1>1. IInv => FailsOnlyAfterSetback
  BY DEF IInv
<1> QED BY Invariance, <1>1, PTL

=============================================================================
