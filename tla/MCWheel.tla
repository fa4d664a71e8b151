------------------------------- MODULE MCWheel -------------------------------
(* Instances of Wheel for TLC: a wheel of four slots.                       *)
EXTENDS Wheel

CONSTANTS t1, t2, t3, A, B

MCOwner == [t \in Names |-> IF t = t3 THEN B ELSE A]
=============================================================================
