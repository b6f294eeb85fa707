--------------------------- MODULE MCCaptureRunner ---------------------------
(* Model-checking instances of CaptureRunner. *)
EXTENDS CaptureRunner

=============================================================================
