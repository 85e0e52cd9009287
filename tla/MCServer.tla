------------------------------ MODULE MCServer ------------------------------
(* Constants for model checking Server. *)
EXTENDS Server, MCFanOut
=============================================================================
