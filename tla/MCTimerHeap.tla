----------------------------- MODULE MCTimerHeap ------------------------------
(* TimerHeap for TLC: nodes are interchangeable. *)
EXTENDS TimerHeap, TLC

TimerSymmetry == Permutations(Timers)
===============================================================================
