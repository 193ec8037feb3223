------------------------------ MODULE MCThreadPool ------------------------------
(* TLC instance of ThreadPool.                                                 *)
EXTENDS ThreadPool, TLC

Symmetry == Permutations(Workers)
===============================================================================
