-------------------------------- MODULE MCServer --------------------------------
(***************************************************************************)
(* Server for TLC: the descriptors and the workers are model values.       *)
(***************************************************************************)
EXTENDS Server, TLC

CONSTANTS f1, f2, f3, w1, w2

OneFd    == {f1}
TwoFds   == {f1, f2}
ThreeFds == {f1, f2, f3}
OneWorker == {w1}
TwoWorkers == {w1, w2}
Symmetric == Permutations(Fds) \cup Permutations(Workers)
===============================================================================
