------------------------------- MODULE MCSlab -------------------------------
(* An instance of Slab for TLC: two elements, up to four objects.          *)
EXTENDS Slab
=============================================================================
