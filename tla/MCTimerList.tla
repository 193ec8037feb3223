------------------------------ MODULE MCTimerList ------------------------------
(* TLC instance of TimerList.                                                  *)
EXTENDS TimerList, TLC

Symmetry == Permutations(Timers)
===============================================================================
