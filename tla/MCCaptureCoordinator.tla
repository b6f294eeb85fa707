------------------------ MODULE MCCaptureCoordinator ------------------------
(* Model-checking instances of CaptureCoordinator. *)
EXTENDS CaptureCoordinator

=============================================================================
