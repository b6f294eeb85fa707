------------------------------ MODULE MCRawLake ------------------------------
(* The model-checking instance of RawLake. *)
EXTENDS RawLake
=============================================================================
