----------------------------- MODULE RefCounted -----------------------------
(***************************************************************************)
(* An object of a class derived from ThRefCounted, used by several threads *)
(* through ThRefPtr and ThWeakPtr (include/Thor/Core/Containers/ThRefPtr.h)*)
(*                                                                         *)
(* Each thread uses pointers of its own only, which the documentation      *)
(* calls thread safe.  The counts are plain integers: ++ and -- are a load *)
(* and a store.  A call is a list of steps; the steps of different threads *)
(* interleave.                                                             *)
(***************************************************************************)
EXTENDS Integers, Sequences, FiniteSets

CONSTANTS
  Thread,
  MaxStrong       \* bound on the ThRefPtr of each thread

ASSUME RefAssumption ==
  /\ IsFiniteSet(Thread) /\ Thread # {}
  /\ MaxStrong \in Nat \ {0}

VARIABLES
  refs,           \* m_Refcount of "object" and of "counter", its ThWeakCounter
  life,           \* of each: "none" (not made yet), "alive", "dying", "deleted"
  valid,          \* ThWeakCounter::m_IsValid
  strong,         \* thread -> the number of its ThRefPtr to the object
  weak,           \* thread -> whether it has a ThWeakPtr to the object
  todo,           \* thread -> the steps left of its call
  seen,           \* thread -> the count it loaded
  mishap          \* history: what has gone wrong, or "none"

refVars == <<refs, life, valid, strong, weak, todo, seen, mishap>>

(* ThRefCounted and ThWeakCounter have the same AddRef and Release. *)
AddRef(x)  == << <<"load", x>>, <<"add", x>> >>
Release(x) == << <<"load", x>>, <<"sub", x>> >>

(* The object has been made, and each thread was given a pointer to it. *)
RefInit ==
  /\ refs = [object |-> Cardinality(Thread), counter |-> 0]
  /\ life = [object |-> "alive", counter |-> "none"]
  /\ valid = FALSE
  /\ strong = [t \in Thread |-> 1]
  /\ weak = [t \in Thread |-> FALSE]
  /\ todo = [t \in Thread |-> <<>>]
  /\ seen = [t \in Thread |-> 0]
  /\ mishap = "none"

-----------------------------------------------------------------------------
(* Calls. *)

At(t, step) == todo[t] # <<>> /\ Head(todo[t]) = step

Begin(t, steps) ==
  /\ todo[t] = <<>>
  /\ todo' = [todo EXCEPT ![t] = steps]
  /\ UNCHANGED <<refs, life, valid, seen, mishap>>

(* ThRefPtr(const ThRefPtr&) *)
Copy(t) ==
  /\ strong[t] \in 1 .. MaxStrong - 1
  /\ Begin(t, AddRef("object"))
  /\ UNCHANGED <<strong, weak>>

(* ~ThRefPtr *)
Drop(t) ==
  /\ strong[t] > 0
  /\ strong' = [strong EXCEPT ![t] = @ - 1]
  /\ Begin(t, Release("object"))
  /\ UNCHANGED weak

(* ThWeakPtr(const ThRefPtr&) *)
MakeWeak(t) ==
  /\ strong[t] > 0 /\ ~ weak[t]
  /\ Begin(t, << <<"look", "counter">> >>)
  /\ UNCHANGED <<strong, weak>>

DropWeak(t) ==
  /\ weak[t]
  /\ weak' = [weak EXCEPT ![t] = FALSE]
  /\ Begin(t, Release("counter"))
  /\ UNCHANGED strong

(* ThWeakPtr::Lock; also from the destructor of a derived class, which     *)
(* runs before that of ThRefCounted.                                       *)
Lock(t) ==
  /\ weak[t] /\ strong[t] < MaxStrong
  /\ todo[t] = <<>> \/ At(t, <<"destroy", "object">>)
  /\ todo' = [todo EXCEPT ![t] = << <<"check", "counter">> >> \o @]
  /\ UNCHANGED <<refs, life, valid, seen, mishap, strong, weak>>

-----------------------------------------------------------------------------
(* Steps.  Then(t, s) goes on with the steps s and what was left.          *)

Then(t, steps) == todo' = [todo EXCEPT ![t] = steps \o Tail(@)]

(* The first half of ++m_Refcount or --m_Refcount.  Lock has not made sure *)
(* that the object it is about to count up is still there.                 *)
Load(t, x) ==
  /\ At(t, <<"load", x>>)
  /\ seen' = [seen EXCEPT ![t] = refs[x]]
  /\ mishap' = IF x = "object" /\ strong[t] = 0 /\ todo[t][2] = <<"add", x>>
                             /\ life[x] # "alive"
             THEN "late lock" ELSE mishap
  /\ Then(t, <<>>)
  /\ UNCHANGED <<refs, life, valid, strong, weak>>

(* The second half.  A count that was changed since the load is lost. *)
Store(t, x, count) ==
  /\ refs' = [refs EXCEPT ![x] = count]
  /\ mishap' = IF refs[x] # seen[t] THEN "lost update" ELSE mishap

Add(t, x) ==
  /\ At(t, <<"add", x>>)
  /\ Store(t, x, seen[t] + 1)
  /\ strong' = IF x = "object" THEN [strong EXCEPT ![t] = @ + 1] ELSE strong
  /\ weak' = IF x = "counter" THEN [weak EXCEPT ![t] = TRUE] ELSE weak
  /\ Then(t, <<>>)
  /\ UNCHANGED <<life, valid, seen>>

(* Mutant: the last reference but one deletes. *)
SubEarly(t, x) ==
  /\ At(t, <<"sub", x>>)
  /\ Store(t, x, seen[t] - 1)
  /\ IF seen[t] > 2 THEN Then(t, <<>>) /\ UNCHANGED life
     ELSE IF x = "counter"
     THEN Then(t, <<>>) /\ life' = [life EXCEPT ![x] = "deleted"]
     ELSE Then(t, << <<"destroy", "object">> >>) /\ life' = [life EXCEPT ![x] = "dying"]
  /\ UNCHANGED <<valid, strong, weak, seen>>

(* if (--m_Refcount == 0) delete this: the destructors of the object are   *)
(* further steps, ThWeakCounter has an empty one.                          *)
Sub(t, x) ==
  /\ At(t, <<"sub", x>>)
  /\ Store(t, x, seen[t] - 1)
  /\ IF seen[t] # 1 THEN Then(t, <<>>) /\ UNCHANGED life
     ELSE IF x = "counter"
     THEN Then(t, <<>>) /\ life' = [life EXCEPT ![x] = "deleted"]
     ELSE Then(t, << <<"destroy", "object">> >>) /\ life' = [life EXCEPT ![x] = "dying"]
  /\ UNCHANGED <<valid, strong, weak, seen>>

(* Mutant: weak pointers are not told. *)
DestroySilently(t) ==
  /\ At(t, <<"destroy", "object">>)
  /\ Then(t, (IF life.counter = "none" THEN <<>> ELSE Release("counter"))
             \o << <<"free", "object">> >>)
  /\ UNCHANGED <<refs, life, valid, strong, weak, seen, mishap>>

(* The destructors of derived classes have run: ~ThRefCounted invalidates *)
(* the counter; then m_Weak is destroyed.                                  *)
Destroy(t) ==
  /\ At(t, <<"destroy", "object">>)
  /\ valid' = FALSE
  /\ Then(t, (IF life.counter = "none" THEN <<>> ELSE Release("counter"))
             \o << <<"free", "object">> >>)
  /\ UNCHANGED <<refs, life, strong, weak, seen, mishap>>

Free(t) ==
  /\ At(t, <<"free", "object">>)
  /\ life' = [life EXCEPT !.object = "deleted"]
  /\ Then(t, <<>>)
  /\ UNCHANGED <<refs, valid, strong, weak, seen, mishap>>

(* GetWeakCounter: if (!m_Weak) *)
Look(t) ==
  /\ At(t, <<"look", "counter">>)
  /\ Then(t, (IF life.counter = "none" THEN << <<"make", "counter">> >> ELSE <<>>) \o AddRef("counter"))
  /\ UNCHANGED <<refs, life, valid, strong, weak, seen, mishap>>

(* m_Weak = new ThWeakCounter(true), which m_Weak holds a reference to.    *)
(* If another thread has stored one since, that one is replaced.           *)
Make(t) ==
  /\ At(t, <<"make", "counter">>)
  /\ refs' = [refs EXCEPT !.counter = 1]
  /\ life' = [life EXCEPT !.counter = "alive"]
  /\ valid' = TRUE
  /\ mishap' = IF life.counter # "none" THEN "two counters" ELSE mishap
  /\ Then(t, <<>>)
  /\ UNCHANGED <<strong, weak, seen>>

(* m_Counter->IsValid() ? ThRefPtr(m_Pointee) : ThRefPtr(0) *)
Check(t) ==
  /\ At(t, <<"check", "counter">>)
  /\ Then(t, IF valid THEN AddRef("object") ELSE <<>>)
  /\ UNCHANGED <<refs, life, valid, strong, weak, seen, mishap>>

(* After a mishap nothing is known; the model ends there. *)
RefNext ==
  /\ mishap = "none"
  /\ \E t \in Thread :
       \/ Copy(t) \/ Drop(t) \/ MakeWeak(t) \/ DropWeak(t) \/ Lock(t)
       \/ \E x \in {"object", "counter"} : Load(t, x) \/ Add(t, x) \/ Sub(t, x)
       \/ Destroy(t) \/ Free(t) \/ Look(t) \/ Make(t) \/ Check(t)

RefSpec == RefInit /\ [][RefNext]_refVars

-----------------------------------------------------------------------------

(* What may be left of a call. *)
CallsLeft ==
  {<< >>, << <<"check", "counter">> >>, << <<"look", "counter">> >>,
   << <<"make", "counter">>, <<"load", "counter">>, <<"add", "counter">> >>,
   << <<"load", "object">>, <<"add", "object">> >>, << <<"add", "object">> >>,
   << <<"load", "counter">>, <<"add", "counter">> >>, << <<"add", "counter">> >>,
   << <<"load", "object">>, <<"sub", "object">> >>, << <<"sub", "object">> >>,
   << <<"load", "counter">>, <<"sub", "counter">> >>, << <<"sub", "counter">> >>,
   << <<"destroy", "object">> >>, << <<"check", "counter">>, <<"destroy", "object">> >>,
   << <<"load", "object">>, <<"add", "object">>, <<"destroy", "object">> >>,
   << <<"add", "object">>, <<"destroy", "object">> >>,
   << <<"load", "counter">>, <<"sub", "counter">>, <<"free", "object">> >>,
   << <<"sub", "counter">>, <<"free", "object">> >>, << <<"free", "object">> >>}

RefTypeOK ==
  /\ refs \in [{"object", "counter"} -> Nat]
  /\ life \in [{"object", "counter"} -> {"none", "alive", "dying", "deleted"}]
  /\ valid \in BOOLEAN
  /\ strong \in [Thread -> 0 .. MaxStrong]
  /\ weak \in [Thread -> BOOLEAN]
  /\ todo \in [Thread -> CallsLeft]
  /\ seen \in [Thread -> Nat]
  /\ mishap \in {"none", "lost update", "late lock", "two counters"}

(***************************************************************************)
(* Whoever has a ThRefPtr has a living object, and whoever has a ThWeakPtr *)
(* a living counter, in whichever order threads drop theirs -- as long as  *)
(* no count was stored over another one, no weak pointer was locked while  *)
(* the object was being deleted, and no two counters were made.            *)
(***************************************************************************)
OwnedIsAlive ==
  mishap = "none" =>
    \A t \in Thread : /\ strong[t] > 0 => life.object = "alive"
                      /\ weak[t] => life.counter = "alive"

(* All ThRefPtr to the object, as <<thread, number>>. *)
Pointers == {p \in Thread \X (1 .. MaxStrong) : p[2] <= strong[p[1]]}

(***************************************************************************)
(* Between calls, under the same condition: the counts are the numbers of  *)
(* pointers, the object and its counter are deleted once nobody refers to  *)
(* them, and a weak pointer can be locked exactly as long as the object is *)
(* there.                                                                  *)
(***************************************************************************)
CountsExactBetweenCalls ==
  mishap = "none" /\ (\A t \in Thread : todo[t] = <<>>) =>
    LET weaks == Cardinality({t \in Thread : weak[t]})
        own   == IF life.object = "alive" /\ life.counter # "none" THEN 1 ELSE 0
    IN  /\ refs.object = Cardinality(Pointers)
        /\ refs.counter = weaks + own
        /\ life.object = (IF refs.object > 0 THEN "alive" ELSE "deleted")
        /\ life.counter = "alive" <=> refs.counter > 0
        /\ life.counter = "alive" => (valid <=> life.object = "alive")

-----------------------------------------------------------------------------
(***************************************************************************)
(* The strengthening that is inductive.                                    *)
(***************************************************************************)
Has(steps, step) == \E i \in DOMAIN steps : steps[i] = step

(* Those who have given up a reference that is still counted. *)
Releasing(x) == {t \in Thread : Has(todo[t], <<"sub", x>>)}

Deleting(t) == Has(todo[t], <<"destroy", "object">>) \/ Has(todo[t], <<"free", "object">>)

(* Each count is the number of those who refer and of those who did so.    *)
(* The counter is valid as long as the object's own reference to it counts.*)
CountsExact ==
  /\ refs.object = Cardinality(Pointers) + Cardinality(Releasing("object"))
  /\ refs.counter = Cardinality({t \in Thread : weak[t]}) + Cardinality(Releasing("counter"))
                      + (IF valid THEN 1 ELSE 0)

LivesExact ==
  /\ life.object = "alive" <=> refs.object > 0
  /\ life.counter = "alive" <=> refs.counter > 0
  /\ valid <=> /\ life.counter # "none"
              /\ \/ life.object = "alive"
                 \/ \E t \in Thread : Has(todo[t], <<"destroy", "object">>)
  /\ life.object \in {"alive", "dying", "deleted"}
  /\ life.object = "dying" <=> \E t \in Thread : Deleting(t)
  /\ \A t, u \in Thread : Deleting(t) /\ Deleting(u) => t = u

(* What a thread relies on in the middle of a call. *)
CallExact(t) ==
  /\ (Has(todo[t], <<"check", "counter">>) \/ Has(todo[t], <<"add", "object">>)) => strong[t] < MaxStrong
  /\ At(t, <<"add", "object">>) => seen[t] > 0
  /\ \A x \in {"object", "counter"} : At(t, <<"sub", x>>) => seen[t] > 0
  /\ (Has(todo[t], <<"look", "counter">>) \/ Has(todo[t], <<"add", "counter">>)) => strong[t] > 0 /\ ~ weak[t]
  /\ (Has(todo[t], <<"add", "counter">>) /\ ~ Has(todo[t], <<"make", "counter">>)) => life.counter # "none"

RefIInv ==
  /\ RefTypeOK
  /\ mishap = "none" => CountsExact /\ LivesExact /\ \A t \in Thread : CallExact(t)

=============================================================================
