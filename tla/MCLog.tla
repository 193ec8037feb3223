---------------------------------- MODULE MCLog ----------------------------------
(***************************************************************************)
(* Log for TLC: the threads are model values.                              *)
(***************************************************************************)
EXTENDS Log, TLC

Symmetric == Permutations(Writers)
===============================================================================
