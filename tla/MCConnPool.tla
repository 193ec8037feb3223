-------------------------------- MODULE MCConnPool --------------------------------
(* TLC instance of ConnPool.                                                   *)
EXTENDS ConnPool, TLC

Symmetry == Permutations(Threads)
===============================================================================
