--------------------------- MODULE MCEpochJournal ---------------------------
(* Model-checking instances of EpochJournal. *)
EXTENDS EpochJournal, TLC

=============================================================================
