---------------------------- MODULE MCBlockingQueue ----------------------------
(***************************************************************************)
(* BlockingQueue for TLC: the consumers and the items are model values.    *)
(***************************************************************************)
EXTENDS BlockingQueue, TLC

Symmetric == Permutations(Consumers)
===============================================================================
