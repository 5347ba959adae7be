------------------------ MODULE EntityManagerProofs ------------------------
(***************************************************************************)
(* Proofs about EntityManager, for every number of slots and generations,  *)
(* under NoWrap: no slot is destroyed GenerationCount times.               *)
(***************************************************************************)
EXTENDS EntityManager, FiniteSetTheorems, SequenceTheorems, TLAPS

(* Without a wrap the next generation is the next number. *)
LEMMA NextGenerationNoWrap ==
  ASSUME NoWrap, NEW g \in Generation, g < MaxGeneration
  PROVE  NextGeneration(g) = g + 1 /\ g + 1 \in Generation /\ g + 1 <= MaxGeneration
<1>1. g + 1 \in 0 .. GenerationCount - 1
  BY SizesAssumption DEF NoWrap, Generation
<1>2. (g + 1) % GenerationCount = g + 1
  BY <1>1, SizesAssumption
<1> QED BY <1>1, <1>2, SizesAssumption DEF NextGeneration, Generation

(* Handles are records: two with the same fields are the same handle. *)
LEMMA HandleEqual ==
  ASSUME NEW g \in Handle, NEW h \in Handle, g.index = h.index, g.generation = h.generation
  PROVE  g = h
BY DEF Handle

(* The manager starts empty, which satisfies the invariant. *)
LEMMA InitIInv == Init => IInv
<1> SUFFICES ASSUME Init PROVE IInv
  OBVIOUS
<1>1. m_Entities \in [0 .. 0 - 1 -> Slot] /\ Slots = {}
  BY DEF Init, Slots
<1>2. TypeOK
  BY <1>1, SizesAssumption DEF Init, TypeOK
<1>3. FreeListExact
  BY <1>1 DEF Init, FreeListExact, FreeListThreaded, Link
<1>4. IsFiniteSet(live) /\ AliveCountExact
  BY FS_EmptySet DEF Init, AliveCountExact
<1> QED
  BY <1>1, <1>2, <1>3, <1>4 DEF Init, IInv, LiveStored, RetiredOlder, GenerationsBounded

(* Popping the free list preserves the invariant. *)
LEMMA ReuseSlotIInv == IInv /\ ReuseSlot => IInv'
<1> SUFFICES ASSUME IInv, ReuseSlot PROVE IInv'
  OBVIOUS
<1> DEFINE i == m_LastFreeSlot
           h == CreateEntityId(i, m_Entities[i].generation)
           n == Len(freed)
<1>1. PICK size \in 0 .. ThEntityNull : m_Entities \in [0 .. size - 1 -> Slot]
  BY DEF IInv, TypeOK
<1>2. Slots = 0 .. size - 1 /\ Slots' = Slots
  BY <1>1 DEF Slots, ReuseSlot
<1>3. /\ n \in Nat \ {0}
      /\ i = freed[n] /\ i \in Slots /\ i \in Index
      /\ m_Entities[i].index = Link(n - 1)
      /\ \A k \in 1 .. n : freed[k] \in Index
  <2>1. freed \in Seq(Index) /\ n \in Nat /\ i # ThEntityNull
    BY DEF IInv, TypeOK, ReuseSlot
  <2>2. n # 0
    BY <2>1 DEF IInv, FreeListExact, FreeListThreaded, Link
  <2>3. i = freed[n]
    BY <2>1, <2>2 DEF IInv, FreeListExact, FreeListThreaded, Link
  <2>4. i \in Slots /\ m_Entities[i].index = Link(n - 1)
    BY <2>1, <2>2, <2>3 DEF IInv, FreeListExact, FreeListThreaded
  <2> QED BY <2>1, <2>2, <2>3, <2>4
<1>4. /\ freed' \in Seq(Index)
      /\ Len(freed') = n - 1
      /\ \A k \in 1 .. n - 1 : freed'[k] = freed[k]
  <2>1. \A k \in 1 .. n - 1 : freed[k] \in Index
    BY <1>3
  <2>2. /\ SubSeq(freed, 1, n - 1) \in Seq(Index)
        /\ Len(SubSeq(freed, 1, n - 1)) = IF 1 <= n - 1 THEN n - 1 - 1 + 1 ELSE 0
        /\ \A k \in 1 .. n - 1 - 1 + 1 : SubSeq(freed, 1, n - 1)[k] = freed[1 + k - 1]
    <3> HIDE DEF n
    <3> QED BY <1>3, <2>1, SubSeqProperties
  <2>3. freed' = SubSeq(freed, 1, n - 1)
    BY DEF ReuseSlot
  <2> HIDE DEF n
  <2> QED BY <1>3, <2>2, <2>3
<1>5. h \in Handle
  BY <1>1, <1>2, <1>3 DEF Handle, Slot, CreateEntityId
<1>6. \A l \in live : l.index # i
  BY <1>3 DEF IInv, FreeListExact
<1>7. live' = live \union {h} /\ retired' = retired /\ m_Entities' = m_Entities
  BY DEF ReuseSlot
<1>8. TypeOK'
  BY <1>1, <1>2, <1>3, <1>4, <1>5, <1>7 DEF IInv, TypeOK, ReuseSlot, Slot, Link
<1>9. LiveStored' /\ RetiredOlder' /\ GenerationsBounded'
  BY <1>2, <1>3, <1>7 DEF IInv, LiveStored, RetiredOlder, GenerationsBounded, CreateEntityId
<1>10. FreeListThreaded'
  <2>1. m_LastFreeSlot' = Link(Len(freed))'
    BY <1>3, <1>4 DEF ReuseSlot, Link
  <2>2. ASSUME NEW k \in 1 .. n - 1
        PROVE  freed'[k] \in Slots' /\ m_Entities'[freed'[k]].index = Link(k - 1)'
    BY <1>2, <1>3, <1>4, <1>7 DEF IInv, FreeListExact, FreeListThreaded, Link
  <2>3. ASSUME NEW j \in 1 .. n - 1, NEW k \in 1 .. n - 1, freed'[j] = freed'[k]
        PROVE  j = k
    BY <1>3, <1>4, <2>3 DEF IInv, FreeListExact, FreeListThreaded
  <2> QED BY <1>4, <2>1, <2>2, <2>3 DEF FreeListThreaded
<1>11. ASSUME NEW s \in Slots'
       PROVE  (\E k \in 1 .. n - 1 : freed'[k] = s) <=> ~ \E l \in live' : l.index = s
  <2>1. CASE s = i
    <3>1. \A k \in 1 .. n - 1 : freed'[k] # s
      BY <1>3, <1>4, <2>1 DEF IInv, FreeListExact, FreeListThreaded
    <3>2. h \in live' /\ h.index = s
      BY <2>1, <1>7 DEF CreateEntityId
    <3> QED BY <3>1, <3>2
  <2>2. CASE s # i
    <3>1. (\E k \in 1 .. n - 1 : freed'[k] = s) <=> \E k \in 1 .. n : freed[k] = s
      BY <1>3, <1>4, <2>2
    <3>2. (\E l \in live' : l.index = s) <=> \E l \in live : l.index = s
      BY <1>7, <2>2 DEF CreateEntityId
    <3> QED BY <3>1, <3>2, <1>2 DEF IInv, FreeListExact
  <2> QED BY <2>1, <2>2
<1>12. FreeListExact'
  BY <1>4, <1>10, <1>11 DEF FreeListExact
<1>13. IsFiniteSet(live') /\ AliveCountExact'
  <2>1. h \notin live
    BY <1>6 DEF CreateEntityId
  <2> QED BY <2>1, <1>7, FS_AddElement DEF IInv, AliveCountExact, ReuseSlot
<1> QED BY <1>8, <1>9, <1>12, <1>13 DEF IInv

(* Appending a slot of generation 0 preserves the invariant. *)
LEMMA AppendSlotIInv == IInv /\ AppendSlot => IInv'
<1> SUFFICES ASSUME IInv, AppendSlot PROVE IInv'
  OBVIOUS
<1>1. PICK n \in Index :
        /\ Slots = 0 .. n - 1
        /\ m_Entities' = [i \in 0 .. n |-> IF i = n THEN CreateEntityId(n, 0) ELSE m_Entities[i]]
        /\ live' = live \union {CreateEntityId(n, 0)}
  BY DEF AppendSlot
<1> DEFINE h == CreateEntityId(n, 0)
<1>2. n \in Nat /\ n < ThEntityNull
  BY SizesAssumption DEF Index
<1>3. /\ m_Entities \in [0 .. n - 1 -> Slot]
      /\ Slots' = 0 .. n
      /\ \A i \in Slots : i \in Slots' /\ m_Entities'[i] = m_Entities[i]
      /\ m_Entities'[n] = h
  <2>1. m_Entities \in [0 .. n - 1 -> Slot]
    BY <1>1 DEF IInv, TypeOK, Slots
  <2> QED BY <1>1, <1>2, <2>1 DEF Slots
<1>4. h \in Handle /\ h \in Slot /\ h.index = n /\ h.generation = 0
  BY <1>2, SizesAssumption DEF Handle, Slot, CreateEntityId, Generation, Index
<1>5. m_Entities' \in [0 .. (n + 1) - 1 -> Slot]
  BY <1>1, <1>2, <1>3, <1>4
<1>6. UNCHANGED <<retired, freed, m_LastFreeSlot>>
  BY DEF AppendSlot
<1>7. TypeOK'
  <2>1. n + 1 \in 0 .. ThEntityNull
    BY <1>2, SizesAssumption
  <2>2. live' \subseteq Handle
    BY <1>1, <1>4 DEF IInv, TypeOK
  <2> QED BY <1>5, <1>6, <2>1, <2>2 DEF IInv, TypeOK, AppendSlot
<1>8. LiveStored' /\ RetiredOlder' /\ GenerationsBounded'
  BY <1>1, <1>2, <1>3, <1>4, <1>6, SizesAssumption
     DEF IInv, LiveStored, RetiredOlder, GenerationsBounded
<1>9. FreeListThreaded'
  BY <1>3, <1>6 DEF IInv, FreeListExact, FreeListThreaded, Link
<1>10. \A l \in live : l.index # n
  BY <1>1, <1>2 DEF IInv, LiveStored
<1>11. \A k \in 1 .. Len(freed) : freed[k] # n
  BY <1>1, <1>2 DEF IInv, FreeListExact, FreeListThreaded
<1>12. FreeListExact'
  <2>1. ASSUME NEW s \in Slots'
        PROVE  (\E k \in 1 .. Len(freed') : freed'[k] = s) <=> ~ \E l \in live' : l.index = s
    <3>1. CASE s = n
      BY <3>1, <1>1, <1>4, <1>6, <1>11
    <3>2. CASE s # n
      <4>1. s \in Slots
        BY <3>2, <1>1, <1>2, <1>3
      <4>2. (\E l \in live' : l.index = s) <=> \E l \in live : l.index = s
        BY <1>1, <1>4, <3>2
      <4> QED BY <4>1, <4>2, <1>6 DEF IInv, FreeListExact
    <3> QED BY <3>1, <3>2
  <2> QED BY <1>9, <2>1 DEF FreeListExact
<1>13. IsFiniteSet(live') /\ AliveCountExact'
  <2>1. h \notin live
    BY <1>4, <1>10
  <2> QED BY <2>1, <1>1, FS_AddElement DEF IInv, AliveCountExact, AppendSlot
<1> QED BY <1>7, <1>8, <1>12, <1>13 DEF IInv

(* Destroying a live entity preserves the invariant: here NoWrap is needed. *)
LEMMA FreeSlotIInv ==
  ASSUME NoWrap, IInv, NEW h \in live \union retired, FreeSlot(h)
  PROVE  IInv'
<1> DEFINE i == h.index
           g == h.generation
           n == Len(freed)
<1>1. PICK size \in 0 .. ThEntityNull : m_Entities \in [0 .. size - 1 -> Slot]
  BY DEF IInv, TypeOK
<1>2. Slots = 0 .. size - 1 /\ Slots' = Slots
  BY <1>1 DEF Slots, FreeSlot
<1>3. /\ h \in live /\ h \notin retired
      /\ h \in Handle /\ i \in Index /\ g \in Generation
      /\ i \in Slots /\ m_Entities[i].generation = g
  BY <1>1, <1>2 DEF IInv, TypeOK, LiveStored, RetiredOlder, FreeSlot, IsAlive, Handle, Index,
       Generation, Slot
<1>4. NextGeneration(g) = g + 1 /\ g + 1 \in Generation /\ g + 1 <= MaxGeneration
  BY <1>3, NextGenerationNoWrap DEF FreeSlot
<1>5. m_Entities' = [m_Entities EXCEPT ![i] = CreateEntityId(m_LastFreeSlot, g + 1)]
  BY <1>4 DEF FreeSlot
<1>6. \A l \in live : l.index = i => l = h
  BY <1>3, HandleEqual DEF IInv, TypeOK, LiveStored
<1>7. /\ n \in Nat
      /\ freed' \in Seq(Index) /\ Len(freed') = n + 1
      /\ freed'[n + 1] = i
      /\ \A k \in 1 .. n : freed'[k] = freed[k]
  BY <1>3, AppendProperties DEF IInv, TypeOK, FreeSlot
<1>8. \A k \in 1 .. n : freed[k] # i /\ freed[k] \in Slots
  BY <1>3 DEF IInv, FreeListExact, FreeListThreaded
<1>9. TypeOK'
  <2>1. CreateEntityId(m_LastFreeSlot, g + 1) \in Slot
    BY <1>4 DEF IInv, TypeOK, Slot, CreateEntityId
  <2>2. m_Entities' \in [0 .. size - 1 -> Slot]
    BY <1>1, <1>5, <2>1
  <2> QED BY <1>3, <1>7, <2>2 DEF IInv, TypeOK, FreeSlot
<1>10. LiveStored'
  BY <1>1, <1>2, <1>5, <1>6 DEF IInv, LiveStored, FreeSlot
<1>11. RetiredOlder'
  <2> SUFFICES ASSUME NEW r \in retired'
               PROVE  r.index \in Slots' /\ r.generation < m_Entities'[r.index].generation
    BY DEF RetiredOlder
  <2>1. CASE r = h
    BY <2>1, <1>1, <1>2, <1>3, <1>4, <1>5 DEF CreateEntityId, Generation
  <2>2. CASE r # h
    <3>1. r \in retired /\ r \in Handle
      BY <2>2 DEF FreeSlot, IInv, TypeOK
    <3>2. r.index \in Slots /\ r.generation < m_Entities[r.index].generation
      BY <3>1 DEF IInv, RetiredOlder
    <3> QED BY <3>1, <3>2, <1>1, <1>2, <1>3, <1>5 DEF CreateEntityId, Generation, Handle
  <2> QED BY <2>1, <2>2
<1>12. GenerationsBounded'
  BY <1>1, <1>2, <1>4, <1>5 DEF IInv, GenerationsBounded, CreateEntityId
<1>13. FreeListThreaded'
  <2>1. m_LastFreeSlot' = Link(Len(freed))'
    BY <1>7 DEF FreeSlot, Link
  <2>2. ASSUME NEW k \in 1 .. n + 1
        PROVE  freed'[k] \in Slots' /\ m_Entities'[freed'[k]].index = Link(k - 1)'
    <3>1. CASE k = n + 1
      <4>1. m_Entities'[i].index = m_LastFreeSlot
        BY <1>1, <1>2, <1>3, <1>5 DEF CreateEntityId
      <4>2. m_LastFreeSlot = Link(n)
        BY DEF IInv, FreeListExact, FreeListThreaded
      <4>3. Link(k - 1)' = Link(n)
        BY <3>1, <1>7 DEF Link
      <4>4. freed'[k] = i
        BY <3>1, <1>7
      <4> HIDE DEF i
      <4> QED BY <4>1, <4>2, <4>3, <4>4, <1>2, <1>3
    <3>2. CASE k \in 1 .. n
      <4>1. m_Entities'[freed[k]] = m_Entities[freed[k]]
        BY <3>2, <1>1, <1>2, <1>5, <1>8
      <4>2. m_Entities[freed[k]].index = Link(k - 1) /\ Link(k - 1)' = Link(k - 1)
        BY <3>2, <1>7 DEF IInv, FreeListExact, FreeListThreaded, Link
      <4> QED BY <3>2, <4>1, <4>2, <1>2, <1>7, <1>8
    <3> QED BY <3>1, <3>2, <1>7
  <2>3. ASSUME NEW j \in 1 .. n + 1, NEW k \in 1 .. n + 1, freed'[j] = freed'[k]
        PROVE  j = k
    BY <1>7, <1>8, <2>3 DEF IInv, FreeListExact, FreeListThreaded
  <2> QED BY <1>7, <2>1, <2>2, <2>3 DEF FreeListThreaded
<1>14. FreeListExact'
  <2>1. ASSUME NEW s \in Slots'
        PROVE  (\E k \in 1 .. n + 1 : freed'[k] = s) <=> ~ \E l \in live' : l.index = s
    <3>1. live' = live \ {h}
      BY DEF FreeSlot
    <3>2. CASE s = i
      <4>1. \E k \in 1 .. n + 1 : freed'[k] = s
        BY <3>2, <1>7
      <4>2. ~ \E l \in live' : l.index = s
        BY <3>1, <3>2, <1>6
      <4> QED BY <4>1, <4>2
    <3>3. CASE s # i
      <4>1. (\E k \in 1 .. n + 1 : freed'[k] = s) <=> \E k \in 1 .. n : freed[k] = s
        BY <3>3, <1>7
      <4>2. (\E l \in live' : l.index = s) <=> \E l \in live : l.index = s
        BY <3>1, <3>3
      <4> QED BY <4>1, <4>2, <1>2 DEF IInv, FreeListExact
    <3> QED BY <3>2, <3>3
  <2> QED BY <1>7, <1>13, <2>1 DEF FreeListExact
<1>15. IsFiniteSet(live') /\ AliveCountExact'
  BY <1>3, FS_RemoveElement DEF IInv, AliveCountExact, FreeSlot
<1> QED BY <1>9, <1>10, <1>11, <1>12, <1>14, <1>15 DEF IInv

(* CreateEntity and DestroyEntity preserve the invariant, whatever handle is destroyed. *)
LEMMA NextIInv == NoWrap /\ IInv /\ [Next]_vars => IInv'
<1> SUFFICES ASSUME NoWrap, IInv, [Next]_vars PROVE IInv'
  OBVIOUS
<1>1. CASE ReuseSlot
  BY <1>1, ReuseSlotIInv
<1>2. CASE AppendSlot
  BY <1>2, AppendSlotIInv
<1>3. ASSUME NEW h \in live \union retired, FreeSlot(h) PROVE IInv'
  BY <1>3, FreeSlotIInv
<1>4. CASE UNCHANGED vars
  BY <1>4 DEF vars, IInv, TypeOK, LiveStored, RetiredOlder, GenerationsBounded, FreeListExact,
       FreeListThreaded, Link, AliveCountExact, Slots
<1> QED BY <1>1, <1>2, <1>3, <1>4 DEF Next, CreateEntity, DestroyEntity, RejectDestroy

(***************************************************************************)
(* Without a wrap, the manager keeps its inductive invariant.              *)
(***************************************************************************)
THEOREM Invariance ==
  ASSUME NoWrap
  PROVE  Spec => []IInv
<1>1. IInv /\ [Next]_vars => IInv'
  BY NextIInv
<1> QED BY <1>1, InitIInv, PTL DEF Spec

(* What the invariant says of the handles clients hold. *)
LEMMA IInvImpliesSafety == IInv => AliveIsExact /\ LiveIndicesDistinct
<1> SUFFICES ASSUME IInv PROVE AliveIsExact /\ LiveIndicesDistinct
  OBVIOUS
<1>1. PICK size \in 0 .. ThEntityNull : m_Entities \in [0 .. size - 1 -> Slot]
  BY DEF IInv, TypeOK
<1>2. \A h \in retired : h.generation # m_Entities[h.index].generation
  BY <1>1 DEF IInv, TypeOK, RetiredOlder, Slots, Slot, Handle, Generation
<1>3. AliveIsExact
  BY <1>2 DEF IInv, LiveStored, AliveIsExact, IsAlive
<1>4. LiveIndicesDistinct
  BY HandleEqual DEF IInv, TypeOK, LiveStored, LiveIndicesDistinct
<1> QED BY <1>3, <1>4

(***************************************************************************)
(* The slots, the free list and the handles have their types: every index  *)
(* the manager uses is inside m_Entities or ThEntityNull.                  *)
(***************************************************************************)
THEOREM TypeCorrectness ==
  ASSUME NoWrap
  PROVE  Spec => []TypeOK
<1>1. IInv => TypeOK
  BY DEF IInv
<1> QED BY <1>1, Invariance, PTL

(***************************************************************************)
(* For any number of slots and generations, as long as no slot is          *)
(* destroyed GenerationCount times: IsAlive tells live handles from        *)
(* destroyed ones.                                                         *)
(***************************************************************************)
THEOREM AliveExactness ==
  ASSUME NoWrap
  PROVE  Spec => []AliveIsExact
<1>1. IInv => AliveIsExact
  BY IInvImpliesSafety
<1> QED BY <1>1, Invariance, PTL

(***************************************************************************)
(* CreateEntity never returns the slot of a live entity.                   *)
(***************************************************************************)
THEOREM LiveIndices ==
  ASSUME NoWrap
  PROVE  Spec => []LiveIndicesDistinct
<1>1. IInv => LiveIndicesDistinct
  BY IInvImpliesSafety
<1> QED BY <1>1, Invariance, PTL

(***************************************************************************)
(* GetNumAliveEntities is the number of live handles.                      *)
(***************************************************************************)
THEOREM AliveCount ==
  ASSUME NoWrap
  PROVE  Spec => []AliveCountExact
<1>1. IInv => AliveCountExact
  BY DEF IInv
<1> QED BY <1>1, Invariance, PTL

(***************************************************************************)
(* The free list threads exactly the dead slots, the last one freed first. *)
(***************************************************************************)
THEOREM FreeList ==
  ASSUME NoWrap
  PROVE  Spec => []FreeListExact
<1>1. IInv => FreeListExact
  BY DEF IInv
<1> QED BY <1>1, Invariance, PTL

(***************************************************************************)
(* CreateEntity hands out a handle never handed out before, DestroyEntity  *)
(* takes back a live one, and a refused DestroyEntity changes nothing.     *)
(***************************************************************************)
LEMMA StepImplementsHandles ==
  ASSUME NoWrap, IInv, [Next]_vars
  PROVE  [Handles!Next]_<<live, retired>>
<1> USE DEF Handles!Next, Handles!Create, Handles!Destroy
<1>1. IInv'
  BY NextIInv
<1>2. ASSUME NEW h \in Handle, live' = live \union {h}, retired' = retired,
             h \notin retired, \A l \in live : l.index # h.index
      PROVE  Handles!Next
  BY <1>2
<1>3. CASE ReuseSlot
  <2> DEFINE h == CreateEntityId(m_LastFreeSlot, m_Entities[m_LastFreeSlot].generation)
  <2>1. live' = live \union {h} /\ retired' = retired /\ m_Entities' = m_Entities
    BY <1>3 DEF ReuseSlot
  <2>2. h \in Handle
    BY <1>1, <2>1 DEF IInv, TypeOK
  <2>3. m_LastFreeSlot \in Slots /\ \A l \in live : l.index # m_LastFreeSlot
    <3>1. freed \in Seq(Index) /\ Len(freed) \in Nat
      BY DEF IInv, TypeOK
    <3>2. Len(freed) # 0 /\ m_LastFreeSlot = freed[Len(freed)]
      BY <1>3, <3>1 DEF IInv, FreeListExact, FreeListThreaded, Link, ReuseSlot
    <3> QED BY <3>1, <3>2 DEF IInv, FreeListExact, FreeListThreaded
  <2>4. h \notin retired
    <3>1. ~ (m_Entities[m_LastFreeSlot].generation < m_Entities[m_LastFreeSlot].generation)
      BY <2>2 DEF Handle, CreateEntityId, Generation
    <3> QED BY <3>1 DEF IInv, RetiredOlder, CreateEntityId
  <2>5. \A l \in live : l.index # h.index
    BY <2>3 DEF CreateEntityId
  <2> HIDE DEF h
  <2> QED BY <1>2, <2>1, <2>2, <2>4, <2>5
<1>4. CASE AppendSlot
  <2>1. PICK n \in Index :
          Slots = 0 .. n - 1 /\ live' = live \union {CreateEntityId(n, 0)}
    BY <1>4 DEF AppendSlot
  <2>2. n \notin Slots
    BY <2>1 DEF Index
  <2>3. CreateEntityId(n, 0) \in Handle
    BY <2>1, SizesAssumption DEF Handle, CreateEntityId, Generation
  <2>4. CreateEntityId(n, 0) \notin retired /\ \A l \in live : l.index # n
    BY <2>2 DEF IInv, LiveStored, RetiredOlder, CreateEntityId
  <2>5. retired' = retired /\ CreateEntityId(n, 0).index = n
    BY <1>4 DEF AppendSlot, CreateEntityId
  <2> QED BY <1>2, <2>1, <2>3, <2>4, <2>5
<1>5. ASSUME NEW h \in live \union retired, FreeSlot(h) PROVE Handles!Next
  <2>1. AliveIsExact
    BY IInvImpliesSafety
  <2>2. h \in live /\ h \in Handle
    BY <1>5, <2>1 DEF AliveIsExact, FreeSlot, IInv, TypeOK
  <2> QED BY <1>5, <2>2 DEF FreeSlot
<1>6. CASE UNCHANGED vars
  BY <1>6 DEF vars
<1> QED BY <1>3, <1>4, <1>5, <1>6 DEF Next, CreateEntity, DestroyEntity, RejectDestroy

(***************************************************************************)
(* The manager implements EntityHandles: a handle is handed out once, and  *)
(* only handles alive are destroyed.                                       *)
(***************************************************************************)
THEOREM Refinement ==
  ASSUME NoWrap
  PROVE  Spec => ImplementsHandles
<1>1. Init => Handles!Init
  BY DEF Init, Handles!Init
<1>2. IInv /\ [Next]_vars => [Handles!Next]_<<live, retired>>
  BY StepImplementsHandles
<1> QED BY <1>1, <1>2, Invariance, PTL DEF Spec, ImplementsHandles, Handles!Spec
=============================================================================
