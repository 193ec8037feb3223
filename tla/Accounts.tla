-------------------------------- MODULE Accounts --------------------------------
(***************************************************************************)
(* What the login pages promise: there is one account for a name.  Each    *)
(* request takes effect at one moment between its arrival and its answer:  *)
(* a registration makes the account or finds that there is one, a login    *)
(* compares the password with that of the account.  Accounts survive a     *)
(* restart, and a registration that was not answered may have taken effect.*)
(***************************************************************************)
CONSTANTS Workers, Requests, Names, NoAccount, NoRequest

VARIABLES accounts,   \* name -> password or NoAccount
          asked,      \* the request each worker has
          page        \* the page that answers it, once it took effect

vars == <<accounts, asked, page>>

Init ==
    /\ accounts = [n \in Names |-> NoAccount]
    /\ asked = [w \in Workers |-> NoRequest]
    /\ page = [w \in Workers |-> "none"]

Ask(w, r) ==
    /\ asked[w] = NoRequest
    /\ asked' = [asked EXCEPT ![w] = r]
    /\ UNCHANGED <<accounts, page>>

Answer(w, kind, p) ==
    /\ asked[w] # NoRequest /\ asked[w].kind = kind /\ page[w] = "none"
    /\ page' = [page EXCEPT ![w] = p]
    /\ UNCHANGED asked

Register(w) ==
    /\ Answer(w, "register", "log")
    /\ accounts[asked[w].name] = NoAccount
    /\ accounts' = [accounts EXCEPT ![asked[w].name] = asked[w].password]

NameTaken(w) ==
    /\ Answer(w, "register", "registerError")
    /\ accounts[asked[w].name] # NoAccount
    /\ UNCHANGED accounts

Login(w) ==
    /\ Answer(w, "login", IF accounts[asked[w].name] = asked[w].password
                          THEN "welcome" ELSE "logError")
    /\ UNCHANGED accounts

Reply(w) ==
    /\ page[w] # "none"
    /\ page' = [page EXCEPT ![w] = "none"]
    /\ asked' = [asked EXCEPT ![w] = NoRequest]
    /\ UNCHANGED accounts

\* The accounts that registrations without an answer may have made.
Pending(n) ==
    {asked[w].password : w \in {v \in Workers : /\ asked[v] # NoRequest /\ page[v] = "none"
                                               /\ asked[v].kind = "register"
                                               /\ asked[v].name = n}}

Restart ==
    /\ \A n \in Names :
          \/ accounts'[n] = accounts[n]
          \/ accounts[n] = NoAccount /\ accounts'[n] \in Pending(n)
    /\ DOMAIN accounts' = Names
    /\ asked' = [w \in Workers |-> NoRequest]
    /\ page' = [w \in Workers |-> "none"]

Next == \/ Restart
        \/ \E w \in Workers : \/ \E r \in Requests : Ask(w, r)
                              \/ Register(w) \/ NameTaken(w) \/ Login(w) \/ Reply(w)

Spec == Init /\ [][Next]_vars
===============================================================================
