------------------------------- MODULE MCSpsc -------------------------------
(* Instances of Spsc for TLC.                                              *)
EXTENDS Spsc

BothOrders == {TRUE, FALSE}
Buffered == {TRUE}
Sequential == {FALSE}
=============================================================================
