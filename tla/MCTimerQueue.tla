---------------------------- MODULE MCTimerQueue ----------------------------
(* Instances of TimerQueue for TLC: two tasks, of which one holds a        *)
(* one-shot and a periodic timer.                                          *)
EXTENDS TimerQueue

CONSTANTS t1, t2, p1, A, B

MCOwner == [t \in Timers |-> IF t = t2 THEN B ELSE A]
=============================================================================
