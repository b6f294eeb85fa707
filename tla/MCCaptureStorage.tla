-------------------------- MODULE MCCaptureStorage --------------------------
(* The model-checking instance of CaptureStorage. *)
EXTENDS CaptureStorage
=============================================================================
