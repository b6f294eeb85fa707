---------------------------- MODULE EpochDecision ----------------------------
(***************************************************************************)
(* What one Normalized epoch promises to everybody who only looks at the   *)
(* lake: a write-ahead PREPARED decision, then at most one final decision, *)
(* with the snapshot visible only after PREPARED and never for an epoch    *)
(* that ended aborted.  EpochJournal implements it.                        *)
(***************************************************************************)

VARIABLES
  decision,  \* what the epoch's durable files decide
  visible    \* whether a snapshot of the epoch can be read

vars == <<decision, visible>>

Init == decision = "open" /\ visible = FALSE

Prepare ==
  /\ decision = "open"
  /\ decision' = "prepared"
  /\ UNCHANGED visible

Publish ==
  /\ decision = "prepared"
  /\ visible' = TRUE
  /\ UNCHANGED decision

Commit ==
  /\ decision = "prepared"
  /\ decision' = "committed"
  /\ UNCHANGED visible

Abort ==
  /\ decision \in {"open", "prepared"} /\ ~visible
  /\ decision' = "aborted"
  /\ UNCHANGED visible

Next == Prepare \/ Publish \/ Commit \/ Abort

Spec == Init /\ [][Next]_vars

=============================================================================
