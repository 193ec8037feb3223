----------------------------- MODULE MCRegistration -----------------------------
(***************************************************************************)
(* Registration for TLC: two clients who want one name with different      *)
(* passwords, one of whom logs in too, and one who registers another name. *)
(***************************************************************************)
EXTENDS Registration

CONSTANTS n1, n2, p1, p2

ClientRequests ==
    [kind : {"register"}, name : {n1}, password : {p1, p2}]
        \cup [kind : {"login"}, name : {n1}, password : {p1}]
        \cup [kind : {"register"}, name : {n2}, password : {p1}]
===============================================================================
