---------------------------- MODULE KeyValueMap ----------------------------
(***************************************************************************)
(* What a client of ThHashMap expects: a map from keys to values, and the  *)
(* answer of the last call.                                                *)
(***************************************************************************)
CONSTANTS
  Key,
  Value,
  NoValue     \* the key is not in the map

VARIABLES content, answer

Init ==
  /\ content = [k \in Key |-> NoValue]
  /\ answer = <<"new">>

(* Only a key that is not in the map is inserted; the answer says so. *)
Insert(k, v) ==
  /\ answer' = <<"Insert", k, content[k] = NoValue>>
  /\ content' = [content EXCEPT ![k] = IF @ = NoValue THEN v ELSE @]

Assign(k, v) ==
  /\ answer' = <<"Assign", k>>
  /\ content' = [content EXCEPT ![k] = v]

Erase(k) ==
  /\ answer' = <<"Erase", k, content[k] # NoValue>>
  /\ content' = [content EXCEPT ![k] = NoValue]

Find(k) ==
  /\ answer' = <<"Find", k, content[k]>>
  /\ UNCHANGED content

Clear ==
  /\ answer' = <<"Clear">>
  /\ content' = [k \in Key |-> NoValue]

Next ==
  \/ \E k \in Key : Erase(k) \/ Find(k)
  \/ \E k \in Key, v \in Value : Insert(k, v) \/ Assign(k, v)
  \/ Clear

Spec == Init /\ [][Next]_<<content, answer>>

=============================================================================
