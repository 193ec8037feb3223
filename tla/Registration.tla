------------------------------ MODULE Registration ------------------------------
(***************************************************************************)
(* http/http_conn.cc: registration and login, the part of do_request that  *)
(* uses the map users and the table of the database.  Workers look a name  *)
(* up without the mutex; a registration that does not find it locks the    *)
(* mutex, inserts a row into the table and an entry into the map, whatever *)
(* the database said, and unlocks.  The map is read from the table when    *)
(* the server starts.                                                      *)
(*                                                                         *)
(* users.insert is not one step: a lookup that overlaps it is a data race  *)
(* (the insertion may link the entry, or move all of them, meanwhile), in  *)
(* which a name that is there may be missed, and the new one found or not. *)
(***************************************************************************)
EXTENDS FiniteSets

CONSTANTS Workers, Nobody,          \* the mutex has no owner
          Names, Passwords,
          Requests,                 \* what clients may ask for
          NoUser,                   \* users.end()
          Empty                     \* the password that operator[] makes

ASSUME RegistrationAssumption ==
    /\ Nobody \notin Workers
    /\ Requests \subseteq [kind : {"register", "login"}, name : Names, password : Passwords]
    /\ NoUser \notin Passwords /\ Empty \notin Passwords /\ NoUser # Empty

VARIABLES
    users,      \* the map: name -> password or NoUser
    table,      \* the rows of the database
    mutex,      \* the worker that holds it
    pc, req,    \* where each worker is in do_request, with which request
    res,        \* did mysql_query succeed?
    url_,       \* the page do_request chose
    told,       \* history: what clients were told to be registered
    doubtful    \* history: the names for which the query failed and the map or
                \* the table took the row, or that have two rows, or that were
                \* looked up while the map was changed

work == <<pc, req, res, url_>>
vars == <<users, table, mutex, work, told, doubtful>>

NoRequest == [kind |-> "none"]
Rows      == Names \X Passwords
RowsOf(n) == {row \in table : row[1] = n}

TypeOK ==
    /\ users \in [Names -> Passwords \cup {NoUser, Empty}]
    /\ table \subseteq Rows /\ told \subseteq Rows /\ doubtful \subseteq Names
    /\ mutex \in Workers \cup {Nobody}
    /\ pc \in [Workers -> {"idle", "find", "compare", "lock", "query", "insert",
                            "inserting", "unlock", "reply"}]
    /\ req \in [Workers -> Requests \cup {NoRequest}]
    /\ \A w \in Workers : req[w] = NoRequest <=> pc[w] = "idle"
    /\ res \in [Workers -> BOOLEAN]
    /\ url_ \in [Workers -> {"none", "log", "registerError", "welcome", "logError"}]

Init ==
    /\ users = [n \in Names |-> NoUser] /\ table = {} /\ mutex = Nobody
    /\ pc = [w \in Workers |-> "idle"] /\ req = [w \in Workers |-> NoRequest]
    /\ res = [w \in Workers |-> FALSE] /\ url_ = [w \in Workers |-> "none"]
    /\ told = {} /\ doubtful = {}

Goto(w, label) == pc' = [pc EXCEPT ![w] = label]

\* do_request sets url_ and goes on to the file.
Choose(w, page) == url_' = [url_ EXCEPT ![w] = page] /\ Goto(w, "reply")

-----------------------------------------------------------------------------
(* Lookups.                                                                *)

Inserters == {v \in Workers : pc[v] = "inserting"}

\* What a lookup of the name may find.
Found(n) ==
    {users[n]} \cup (IF Inserters = {} THEN {} ELSE {NoUser})
               \cup {req[v].password : v \in {u \in Inserters : req[u].name = n /\ users[n] = NoUser}}

Overlaps(n) ==
    doubtful' = IF Inserters = {} THEN doubtful ELSE doubtful \cup {n}

-----------------------------------------------------------------------------
(* do_request.                                                             *)

\* The request was parsed: name and password are taken from the content.
Ask(w, r) ==
    /\ pc[w] = "idle" /\ Goto(w, "find")
    /\ req' = [req EXCEPT ![w] = r]
    /\ UNCHANGED <<users, table, mutex, res, url_, told, doubtful>>

\* users.find(name) == users.end(), for a registration.
FindFree(w) ==
    /\ pc[w] = "find" /\ req[w].kind = "register"
    /\ NoUser \in Found(req[w].name) /\ Overlaps(req[w].name)
    /\ Goto(w, "lock")
    /\ UNCHANGED <<users, table, mutex, req, res, url_, told>>

FindTaken(w) ==
    /\ pc[w] = "find" /\ req[w].kind = "register"
    /\ Found(req[w].name) # {NoUser} /\ Overlaps(req[w].name)
    /\ Choose(w, "registerError")
    /\ UNCHANGED <<users, table, mutex, req, res, told>>

\* Mutant of Lock: the mutex is not asked for.
LockNot(w) ==
    /\ pc[w] = "lock" /\ Goto(w, "query") /\ mutex' = w
    /\ UNCHANGED <<users, table, req, res, url_, told, doubtful>>

Lock(w) ==
    /\ pc[w] = "lock" /\ mutex = Nobody
    /\ mutex' = w /\ Goto(w, "query")
    /\ UNCHANGED <<users, table, req, res, url_, told, doubtful>>

\* mysql_query inserts the row.
QueryInserts(w) ==
    LET n == req[w].name IN
    /\ pc[w] = "query" /\ Goto(w, "insert")
    /\ table' = table \cup {<<n, req[w].password>>}
    /\ res' = [res EXCEPT ![w] = TRUE]
    /\ doubtful' = IF RowsOf(n) = {} THEN doubtful ELSE doubtful \cup {n}
    /\ UNCHANGED <<users, mutex, req, url_, told>>

\* It fails: the database cannot be reached, or the query is not what it
\* should be (strcat appends it to what malloc returned), or the name is a
\* key of the table and taken.  Or the row is there and only the answer is
\* lost on its way to the server.
QueryFails(w) ==
    LET n == req[w].name IN
    /\ pc[w] = "query" /\ Goto(w, "insert")
    /\ res' = [res EXCEPT ![w] = FALSE]
    /\ \/ /\ table' = table
          /\ doubtful' = IF RowsOf(n) = {} THEN doubtful \cup {n} ELSE doubtful
       \/ /\ table' = table \cup {<<n, req[w].password>>}
          /\ doubtful' = doubtful \cup {n}
    /\ UNCHANGED <<users, mutex, req, url_, told>>

BeginInsert(w) ==
    /\ pc[w] = "insert" /\ Goto(w, "inserting")
    /\ UNCHANGED <<users, table, mutex, req, res, url_, told, doubtful>>

\* Mutant of EndInsert: the entry is assigned, not inserted.
EndAssign(w) ==
    /\ pc[w] = "inserting" /\ Goto(w, "unlock")
    /\ users' = [users EXCEPT ![req[w].name] = req[w].password]
    /\ UNCHANGED <<table, mutex, req, res, url_, told, doubtful>>

\* insert leaves an entry that is there already.
EndInsert(w) ==
    /\ pc[w] = "inserting" /\ Goto(w, "unlock")
    /\ users' = [users EXCEPT ![req[w].name] = IF @ = NoUser THEN req[w].password ELSE @]
    /\ UNCHANGED <<table, mutex, req, res, url_, told, doubtful>>

\* Mutant of Unlock: after a failed query the mutex stays locked.
UnlockOnSuccess(w) ==
    /\ pc[w] = "unlock"
    /\ mutex' = IF res[w] THEN Nobody ELSE mutex
    /\ Choose(w, IF res[w] THEN "log" ELSE "registerError")
    /\ UNCHANGED <<users, table, req, res, told, doubtful>>

Unlock(w) ==
    /\ pc[w] = "unlock" /\ mutex' = Nobody
    /\ Choose(w, IF res[w] THEN "log" ELSE "registerError")
    /\ UNCHANGED <<users, table, req, res, told, doubtful>>

\* users.find(name) != users.end(), for a login.
FindUser(w) ==
    /\ pc[w] = "find" /\ req[w].kind = "login"
    /\ Found(req[w].name) # {NoUser} /\ Overlaps(req[w].name)
    /\ Goto(w, "compare")
    /\ UNCHANGED <<users, table, mutex, req, res, url_, told>>

FindNone(w) ==
    /\ pc[w] = "find" /\ req[w].kind = "login"
    /\ NoUser \in Found(req[w].name) /\ Overlaps(req[w].name)
    /\ Choose(w, "logError")
    /\ UNCHANGED <<users, table, mutex, req, res, told>>

\* users[name] == password.  A race may miss the entry here; operator[] then
\* makes an empty one, which hides the other.
Compare(w) ==
    LET n == req[w].name IN
    /\ pc[w] = "compare" /\ Overlaps(n)
    /\ \E p \in Found(n) :
          /\ Choose(w, IF p = req[w].password THEN "welcome" ELSE "logError")
          /\ users' = IF p = NoUser THEN [users EXCEPT ![n] = Empty] ELSE users
    /\ UNCHANGED <<table, mutex, req, res, told>>

\* The page is sent; the worker takes the next request.
Reply(w) ==
    /\ pc[w] = "reply" /\ Goto(w, "idle")
    /\ told' = IF url_[w] = "log" THEN told \cup {<<req[w].name, req[w].password>>} ELSE told
    /\ req' = [req EXCEPT ![w] = NoRequest]
    /\ res' = [res EXCEPT ![w] = FALSE]
    /\ url_' = [url_ EXCEPT ![w] = "none"]
    /\ UNCHANGED <<users, table, mutex, doubtful>>

-----------------------------------------------------------------------------
(* Restart.                                                                *)

\* Mutant of Restart: the table is not read.
RestartEmpty ==
    /\ users' = [n \in Names |-> NoUser] /\ mutex' = Nobody
    /\ pc' = [w \in Workers |-> "idle"] /\ req' = [w \in Workers |-> NoRequest]
    /\ res' = [w \in Workers |-> FALSE] /\ url_' = [w \in Workers |-> "none"]
    /\ UNCHANGED <<table, told, doubtful>>

\* The server stops at any moment, and starts: init_mysql_result fills the
\* map from the table, whose rows come in any order.
Restart ==
    /\ users' \in [Names -> Passwords \cup {NoUser}]
    /\ \A n \in Names : IF RowsOf(n) = {} THEN users'[n] = NoUser
                        ELSE <<n, users'[n]>> \in table
    /\ mutex' = Nobody
    /\ pc' = [w \in Workers |-> "idle"] /\ req' = [w \in Workers |-> NoRequest]
    /\ res' = [w \in Workers |-> FALSE] /\ url_' = [w \in Workers |-> "none"]
    /\ UNCHANGED <<table, told, doubtful>>

Register(w) == \/ FindFree(w) \/ FindTaken(w) \/ Lock(w) \/ QueryInserts(w) \/ QueryFails(w)
               \/ BeginInsert(w) \/ EndInsert(w) \/ Unlock(w)

Login(w) == FindUser(w) \/ FindNone(w) \/ Compare(w)

DoRequest(w) == Register(w) \/ Login(w) \/ Reply(w)

Next == \/ Restart
        \/ \E w \in Workers : DoRequest(w) \/ \E r \in Requests : Ask(w, r)

Spec == Init /\ [][Next]_vars

\* A worker runs on; mysql_query returns; the mutex is given to a worker that
\* waits for it, if it becomes free again and again.
FairSpec == Spec /\ \A w \in Workers : WF_vars(DoRequest(w)) /\ SF_vars(Lock(w))

-----------------------------------------------------------------------------
(* Properties.                                                             *)

\* Only the worker that holds the mutex is between lock and unlock, and while
\* nobody is, the map has exactly the users of the table: what a restart would
\* read is what the running server knows.  (Except for doubtful names.)
InSection(w) == pc[w] \in {"query", "insert", "inserting", "unlock"}
MapAgreesWithTable ==
    /\ \A w \in Workers : InSection(w) <=> mutex = w
    /\ \A n \in Names \ doubtful :
          (\A w \in Workers : InSection(w) => req[w].name # n) =>
              RowsOf(n) = IF users[n] = NoUser THEN {} ELSE {<<n, users[n]>>}

\* A client that was told it is registered stays registered: its row is in the
\* table, and its name and password are in the map, whatever other clients ask
\* for and however often the server restarts.  (The password unless the name
\* is doubtful: two clients may have been told so for one name.)
ToldStayRegistered ==
    \A row \in told : /\ row \in table
                      /\ users[row[1]] # NoUser
                      /\ row[1] \notin doubtful => users[row[1]] = row[2]

\* Lookups without the mutex and a map and a table that are changed one after
\* the other look like requests that take effect at one moment each, though
\* the server may stop between any two steps.  (Until a name is doubtful.)
Effective(w) == IF pc[w] = "unlock" THEN (IF res[w] THEN "log" ELSE "registerError")
                ELSE url_[w]
A == INSTANCE Accounts WITH
         accounts <- users, asked <- req, page <- [w \in Workers |-> Effective(w)],
         NoAccount <- NoUser
RefinesAccounts == A!Init /\ [][doubtful' # {} \/ A!Next]_(A!vars)

\* Every login and every registration is answered, unless the server stops:
\* no worker keeps the mutex.
EveryRequestAnswered == \A w \in Workers : pc[w] # "idle" ~> pc[w] = "idle"
===============================================================================
