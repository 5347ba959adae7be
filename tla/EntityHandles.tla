--------------------------- MODULE EntityHandles ---------------------------
(***************************************************************************)
(* What ThEntityManager promises its clients, without slots or free lists: *)
(* an entity handle is handed out once, is alive until it is destroyed and *)
(* is never handed out again, and no two handles alive at the same time    *)
(* name the same index.                                                    *)
(***************************************************************************)

CONSTANT Handle   \* the handles the manager can hand out, records with a field "index"

VARIABLES
  live,           \* handles created and not destroyed
  retired         \* handles destroyed

Init ==
  /\ live = {}
  /\ retired = {}

Create(h) ==
  /\ h \notin live \union retired
  /\ \A l \in live : l.index # h.index
  /\ live' = live \union {h}
  /\ UNCHANGED retired

Destroy(h) ==
  /\ h \in live
  /\ live' = live \ {h}
  /\ retired' = retired \union {h}

Next == \E h \in Handle : Create(h) \/ Destroy(h)

Spec == Init /\ [][Next]_<<live, retired>>

=============================================================================
