------------------------------- MODULE MCPrefix -------------------------------
(* Instances of Prefix for TLC. *)
EXTENDS Prefix
=============================================================================
