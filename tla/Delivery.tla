-------------------------------- MODULE Delivery --------------------------------
(***************************************************************************)
(* What a client may expect of the answers on a connection: while an       *)
(* answer is sent its bytes come in order, each once, and the connection   *)
(* turns to the next request only when all of them have come.  It may be   *)
(* closed at any time.                                                     *)
(***************************************************************************)
EXTENDS Sequences, SequencesExt

VARIABLES state,      \* "closed", "reading" or "sending"
          answer,     \* the bytes of the current answer
          received    \* those that have come

vars == <<state, answer, received>>

Init == state = "reading" /\ answer = <<>> /\ received = <<>>

Begin ==
    /\ state = "reading" /\ state' = "sending"
    /\ answer' # <<>> /\ received' = <<>>

\* received' is received and what follows it in the answer.
Comes == IsPrefix(received, received') /\ IsPrefix(received', answer) /\ received' # received

Send     == state = "sending" /\ Comes /\ UNCHANGED <<state, answer>>
Complete == state = "sending" /\ Comes /\ received' = answer
            /\ state' \in {"reading", "closed"} /\ UNCHANGED answer
Close    == state # "closed" /\ state' = "closed" /\ UNCHANGED <<answer, received>>
Accept   == state = "closed" /\ state' = "reading" /\ UNCHANGED <<answer, received>>

Next == Begin \/ Send \/ Complete \/ Close \/ Accept

Spec == Init /\ [][Next]_vars
===============================================================================
