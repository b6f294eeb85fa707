------------------------------- MODULE RawKeys -------------------------------
(***************************************************************************)
(* What the Raw lake promises for every idempotency key: the content is    *)
(* chosen once and for ever, it goes from hot through leaving to archived, *)
(* and never back.  RawLake implements it.                                 *)
(***************************************************************************)
CONSTANTS Keys, Contents, None

VARIABLES
  content,  \* the content a key is bound to, None before the first write
  stage     \* where the key's bytes are

vars == <<content, stage>>

Init ==
  /\ content \in [Keys -> Contents \cup {None}]
  /\ stage \in [Keys -> {"absent", "archived"}]
  /\ \A k \in Keys : stage[k] = "archived" => content[k] # None

Bind(k) ==
  /\ content[k] = None /\ stage[k] = "absent"
  /\ \E c \in Contents : content' = [content EXCEPT ![k] = c]
  /\ UNCHANGED stage

Move(k, from, to) ==
  /\ content[k] # None
  /\ stage[k] = from
  /\ stage' = [stage EXCEPT ![k] = to]
  /\ UNCHANGED content

Publish(k) == Move(k, "absent", "hot")

\* The object was damaged from outside and is put aside to be written again.
Withdraw(k) == Move(k, "hot", "absent")

Leave(k) == Move(k, "hot", "leaving")

Archive(k) == Move(k, "leaving", "archived")

Next == \E k \in Keys : Bind(k) \/ Publish(k) \/ Withdraw(k) \/ Leave(k) \/ Archive(k)

Spec == Init /\ [][Next]_vars

=============================================================================
