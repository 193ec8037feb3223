--------------------------- MODULE RegistrationProofs ---------------------------
(***************************************************************************)
(* Proofs about Registration, for any number of workers, names and         *)
(* passwords and any set of requests.                                      *)
(***************************************************************************)
EXTENDS Registration, TLAPS

USE RegistrationAssumption

-----------------------------------------------------------------------------
(* Types.                                                                  *)

\* A worker that has a request has one of Requests.
LEMMA RequestFields ==
  ASSUME TypeOK, NEW w \in Workers, pc[w] # "idle"
  PROVE  /\ req[w] \in Requests
         /\ req[w].kind \in {"register", "login"}
         /\ req[w].name \in Names /\ req[w].password \in Passwords
  <1>1. req[w] \in Requests
    BY DEF TypeOK
  <1>2. QED
    BY <1>1

LEMMA NoRequestIsNone == NoRequest \notin Requests
  <1>1. \A r \in Requests : r.kind # NoRequest.kind
    BY DEF NoRequest
  <1>2. QED
    BY <1>1

LEMMA TypeStep == TypeOK /\ [Next]_vars => TypeOK'
  <1> SUFFICES ASSUME TypeOK, [Next]_vars PROVE TypeOK'
    OBVIOUS
  <1>1. ASSUME NEW w \in Workers, DoRequest(w) PROVE TypeOK'
    <2> USE NoRequestIsNone DEF TypeOK, Goto, Choose, Rows
    <2>1. CASE FindFree(w)
      BY <2>1, RequestFields DEF FindFree, Overlaps
    <2>2. CASE FindTaken(w)
      BY <2>2, RequestFields DEF FindTaken, Overlaps
    <2>3. CASE Lock(w)
      BY <2>3, RequestFields DEF Lock
    <2>4. CASE QueryInserts(w)
      BY <2>4, RequestFields DEF QueryInserts
    <2>5. CASE QueryFails(w)
      <3>1. req[w].name \in Names /\ req[w].password \in Passwords
        BY <2>5, RequestFields DEF QueryFails
      <3>2. table' \subseteq Rows /\ doubtful' \subseteq Names
        BY <2>5, <3>1 DEF QueryFails
      <3>3. QED
        BY <2>5, <3>1, <3>2 DEF QueryFails
    <2>6. CASE BeginInsert(w)
      BY <2>6, RequestFields DEF BeginInsert
    <2>7. CASE EndInsert(w)
      BY <2>7, RequestFields DEF EndInsert
    <2>8. CASE Unlock(w)
      BY <2>8, RequestFields DEF Unlock
    <2>9. CASE FindUser(w)
      BY <2>9, RequestFields DEF FindUser, Overlaps
    <2>10. CASE FindNone(w)
      BY <2>10, RequestFields DEF FindNone, Overlaps
    <2>11. CASE Compare(w)
      BY <2>11, RequestFields DEF Compare, Overlaps
    <2>12. CASE Reply(w)
      BY <2>12, RequestFields DEF Reply
    <2>13. QED
      BY <1>1, <2>1, <2>2, <2>3, <2>4, <2>5, <2>6, <2>7, <2>8, <2>9, <2>10, <2>11, <2>12
         DEF DoRequest, Register, Login
  <1>2. ASSUME NEW w \in Workers, NEW r \in Requests, Ask(w, r) PROVE TypeOK'
    BY <1>2, NoRequestIsNone DEF Ask, TypeOK, Goto
  <1>3. CASE Restart
    BY <1>3 DEF Restart, TypeOK
  <1>4. CASE UNCHANGED vars
    BY <1>4 DEF vars, work, TypeOK
  <1>5. QED
    BY <1>1, <1>2, <1>3, <1>4 DEF Next

\* The variables stay within their types.
THEOREM TypeCorrect == Spec => []TypeOK
  <1>1. Init => TypeOK
    BY NoRequestIsNone DEF Init, TypeOK
  <1>2. QED
    BY <1>1, TypeStep, PTL DEF Spec

-----------------------------------------------------------------------------
(* The mutex, and the map and the table.                                   *)

\* What a worker's place in do_request says of its request and its page.
PlaceInv ==
    \A w \in Workers :
        /\ InSection(w) <=> mutex = w
        /\ pc[w] \in {"lock", "query", "insert", "inserting", "unlock"} => req[w].kind = "register"
        /\ pc[w] = "compare" => req[w].kind = "login"
        /\ pc[w] = "reply" <=> url_[w] # "none"

Agree(n) == RowsOf(n) = IF users[n] = NoUser THEN {} ELSE {<<n, users[n]>>}

Inserting(w) == pc[w] \in {"insert", "inserting"}

\* Between the query and the end of the insertion the map is behind the table
\* if the query succeeded, and has an entry already if it failed.
InsertInv ==
    \A w \in Workers : Inserting(w) /\ req[w].name \notin doubtful =>
        IF res[w] THEN /\ users[req[w].name] = NoUser
                       /\ RowsOf(req[w].name) = {<<req[w].name, req[w].password>>}
        ELSE users[req[w].name] # NoUser

AgreeInv ==
    \A n \in Names \ doubtful :
        (\A w \in Workers : Inserting(w) /\ req[w].name = n => ~res[w]) => Agree(n)

\* The second lookup of a login finds what the first one found.
CompareInv ==
    \A w \in Workers : pc[w] = "compare" =>
        req[w].name \in doubtful \/ users[req[w].name] # NoUser

MapInv == TypeOK /\ PlaceInv /\ InsertInv /\ AgreeInv /\ CompareInv

\* While nobody is inserting, a lookup finds what the map has.
LEMMA FoundAlone ==
  ASSUME NEW n \in Names, Inserters = {} PROVE Found(n) = {users[n]}
  BY DEF Found, Inserters

\* The mutex: at most one worker is between lock and unlock.
LEMMA OneInSection ==
  ASSUME PlaceInv, NEW v \in Workers, NEW w \in Workers, InSection(v), InSection(w)
  PROVE  v = w
  BY DEF PlaceInv

LEMMA PlaceStep == TypeOK /\ PlaceInv /\ [Next]_vars => PlaceInv'
  <1> SUFFICES ASSUME TypeOK, PlaceInv, [Next]_vars PROVE PlaceInv'
    OBVIOUS
  <1> USE DEF TypeOK, PlaceInv, InSection, Goto, Choose
  <1>1. ASSUME NEW w \in Workers, DoRequest(w) PROVE PlaceInv'
    <2>1. CASE FindFree(w)
      BY <2>1 DEF FindFree
    <2>2. CASE FindTaken(w)
      BY <2>2 DEF FindTaken
    <2>3. CASE Lock(w)
      BY <2>3 DEF Lock
    <2>4. CASE QueryInserts(w)
      BY <2>4 DEF QueryInserts
    <2>5. CASE QueryFails(w)
      BY <2>5 DEF QueryFails
    <2>6. CASE BeginInsert(w)
      BY <2>6 DEF BeginInsert
    <2>7. CASE EndInsert(w)
      BY <2>7 DEF EndInsert
    <2>8. CASE Unlock(w)
      BY <2>8 DEF Unlock
    <2>9. CASE FindUser(w)
      BY <2>9 DEF FindUser
    <2>10. CASE FindNone(w)
      BY <2>10 DEF FindNone
    <2>11. CASE Compare(w)
      BY <2>11 DEF Compare
    <2>12. CASE Reply(w)
      BY <2>12 DEF Reply
    <2>13. QED
      BY <1>1, <2>1, <2>2, <2>3, <2>4, <2>5, <2>6, <2>7, <2>8, <2>9, <2>10, <2>11, <2>12
         DEF DoRequest, Register, Login
  <1>2. ASSUME NEW w \in Workers, NEW r \in Requests, Ask(w, r) PROVE PlaceInv'
    BY <1>2 DEF Ask
  <1>3. CASE Restart
    BY <1>3 DEF Restart
  <1>4. CASE UNCHANGED vars
    BY <1>4 DEF vars, work
  <1>5. QED
    BY <1>1, <1>2, <1>3, <1>4 DEF Next

\* Steps that leave the map, the table and the insertions alone.
Quiet == /\ UNCHANGED <<users, table, res>> /\ doubtful \subseteq doubtful'
         /\ \A w \in Workers : Inserting(w)' = Inserting(w)
         /\ \A w \in Workers : Inserting(w) => req'[w] = req[w]

LEMMA QuietStep ==
  ASSUME InsertInv, AgreeInv, Quiet PROVE InsertInv' /\ AgreeInv'
  <1>1. \A n : RowsOf(n)' = RowsOf(n)
    BY DEF Quiet, RowsOf
  <1>2. InsertInv'
    BY <1>1 DEF InsertInv, Quiet, Inserting
  <1>3. AgreeInv'
    BY <1>1 DEF AgreeInv, Agree, Quiet, Inserting
  <1>4. QED
    BY <1>2, <1>3

LEMMA MapStep == MapInv /\ [Next]_vars => InsertInv' /\ AgreeInv'
  <1> SUFFICES ASSUME MapInv, [Next]_vars PROVE InsertInv' /\ AgreeInv'
    OBVIOUS
  <1> USE DEF MapInv
  <1>1. ASSUME NEW w \in Workers, DoRequest(w) PROVE InsertInv' /\ AgreeInv'
    <2>0. pc[w] # "idle" => req[w].name \in Names /\ req[w].password \in Passwords
      BY RequestFields
    <2>1. CASE FindFree(w) \/ FindTaken(w) \/ Lock(w) \/ BeginInsert(w) \/ Unlock(w)
               \/ FindUser(w) \/ FindNone(w)
      <3>1. Quiet
        BY <2>1 DEF FindFree, FindTaken, Lock, BeginInsert, Unlock, FindUser, FindNone, Overlaps,
                    Quiet, Inserting, TypeOK, Goto, Choose
      <3>2. QED
        BY <3>1, QuietStep
    <2>2. CASE Reply(w)
      <3>1. \A n : RowsOf(n)' = RowsOf(n)
        BY <2>2 DEF Reply, RowsOf
      <3>2. \A v \in Workers : Inserting(v)' = Inserting(v) /\ (Inserting(v) => v # w)
        BY <2>2 DEF Reply, Inserting, Goto, TypeOK
      <3>3. InsertInv' /\ AgreeInv'
        BY <2>2, <3>1, <3>2 DEF Reply, InsertInv, AgreeInv, Agree, TypeOK
      <3>4. QED
        BY <3>3
    <2>3. CASE QueryInserts(w)
      <3> DEFINE n == req[w].name
      <3>1. pc[w] = "query" /\ n \in Names /\ req[w].password \in Passwords
        BY <2>3, <2>0 DEF QueryInserts
      <3>2. \A v \in Workers : ~Inserting(v)
        BY <3>1, OneInSection DEF Inserting, InSection
      <3>3. \A v \in Workers : Inserting(v)' <=> v = w
        BY <2>3, <3>2 DEF QueryInserts, Inserting, Goto, TypeOK
      <3>4. \A m \in Names \ {n} : RowsOf(m)' = RowsOf(m)
        BY <2>3 DEF QueryInserts, RowsOf
      <3>5. n \notin doubtful' => /\ n \notin doubtful /\ RowsOf(n) = {}
                                 /\ RowsOf(n)' = {<<n, req[w].password>>}
        BY <2>3 DEF QueryInserts, RowsOf
      <3>6. doubtful \subseteq doubtful'
        BY <2>3 DEF QueryInserts
      <3>7. n \notin doubtful' => users[n] = NoUser
        BY <3>1, <3>2, <3>5 DEF AgreeInv, Agree
      <3>8. res'[w] = TRUE /\ req' = req /\ users' = users
        BY <2>3 DEF QueryInserts, TypeOK
      <3>9. InsertInv'
        BY <3>3, <3>5, <3>7, <3>8 DEF InsertInv
      <3>10. AgreeInv'
        BY <3>2, <3>3, <3>4, <3>6, <3>8 DEF AgreeInv, Agree
      <3>11. QED
        BY <3>9, <3>10
    <2>4. CASE QueryFails(w)
      <3> DEFINE n == req[w].name
      <3>1. pc[w] = "query" /\ n \in Names
        BY <2>4, <2>0 DEF QueryFails
      <3>2. \A v \in Workers : ~Inserting(v)
        BY <3>1, OneInSection DEF Inserting, InSection
      <3>3. \A v \in Workers : Inserting(v)' <=> v = w
        BY <2>4, <3>2 DEF QueryFails, Inserting, Goto, TypeOK
      <3>4. /\ \A m \in Names \ {n} : RowsOf(m)' = RowsOf(m)
            /\ \A m \in Names : m = n /\ n \notin doubtful' => RowsOf(m)' = RowsOf(m)
        BY <2>4 DEF QueryFails, RowsOf
      <3>5. n \notin doubtful' => n \notin doubtful /\ RowsOf(n) # {}
        BY <2>4 DEF QueryFails
      <3>6. doubtful \subseteq doubtful'
        BY <2>4 DEF QueryFails
      <3>7. \A m \in Names \ doubtful : Agree(m)
        BY <3>2 DEF AgreeInv
      <3>8. n \notin doubtful' => users[n] # NoUser
        BY <3>1, <3>5, <3>7 DEF Agree
      <3>9. res'[w] = FALSE /\ req' = req /\ users' = users
        BY <2>4 DEF QueryFails, TypeOK
      <3>10. InsertInv'
        BY <3>3, <3>8, <3>9 DEF InsertInv
      <3>11. AgreeInv'
        <4>1. ASSUME NEW m \in Names, m \notin doubtful'
              PROVE  m \notin doubtful /\ RowsOf(m)' = RowsOf(m)
          <5>1. CASE m = n
            BY <3>4, <3>6, <4>1, <5>1
          <5>2. CASE m # n
            BY <3>4, <3>6, <4>1, <5>2
          <5>3. QED
            BY <5>1, <5>2
        <4>2. QED
          BY <3>7, <3>9, <4>1 DEF AgreeInv, Agree
      <3>12. QED
        BY <3>10, <3>11
    <2>5. CASE EndInsert(w)
      <3> DEFINE n == req[w].name
      <3>1. pc[w] = "inserting" /\ n \in Names /\ req[w].password \in Passwords /\ Inserting(w)
        BY <2>5, <2>0 DEF EndInsert, Inserting
      <3>2. \A v \in Workers : Inserting(v) <=> v = w
        BY <3>1, OneInSection DEF Inserting, InSection
      <3>3. \A v \in Workers : ~Inserting(v)'
        BY <2>5, <3>2 DEF EndInsert, Inserting, Goto, TypeOK
      <3>4. /\ \A m : RowsOf(m)' = RowsOf(m)
            /\ doubtful' = doubtful /\ req' = req
            /\ \A m \in Names \ {n} : users'[m] = users[m]
            /\ users'[n] = IF users[n] = NoUser THEN req[w].password ELSE users[n]
        BY <2>5, <3>1 DEF EndInsert, RowsOf, TypeOK
      <3>5. \A m \in Names \ doubtful : m # n => Agree(m)'
        BY <3>2, <3>4 DEF AgreeInv, Agree
      <3>6. n \notin doubtful => Agree(n)'
        <4>1. CASE res[w]
          BY <3>1, <3>4, <4>1 DEF InsertInv, Agree
        <4>2. CASE ~res[w]
          <5>1. n \notin doubtful => Agree(n) /\ users[n] # NoUser
            BY <3>1, <3>2, <4>2 DEF InsertInv, AgreeInv
          <5>2. QED
            BY <5>1, <3>4 DEF Agree
        <4>3. QED
          BY <4>1, <4>2
      <3>7. QED
        BY <3>3, <3>4, <3>5, <3>6 DEF InsertInv, AgreeInv
    <2>6. CASE Compare(w)
      <3> DEFINE n == req[w].name
      <3>1. pc[w] = "compare" /\ n \in Names
        BY <2>6, <2>0 DEF Compare
      <3>2. /\ \A m : RowsOf(m)' = RowsOf(m)
            /\ doubtful \subseteq doubtful'
            /\ \A m \in Names \ {n} : users'[m] = users[m]
        BY <2>6, <3>1 DEF Compare, RowsOf, TypeOK, Overlaps
      <3>3. n \notin doubtful' => users' = users
        <4>1. CASE Inserters = {}
          <5>1. Found(n) = {users[n]}
            BY <4>1, <3>1, FoundAlone
          <5>2. n \notin doubtful => users[n] # NoUser
            BY <3>1 DEF CompareInv
          <5>3. QED
            BY <2>6, <5>1, <5>2, <3>2 DEF Compare
        <4>2. CASE Inserters # {}
          BY <2>6, <4>2 DEF Compare, Overlaps
        <4>3. QED
          BY <4>1, <4>2
      <3>4. \A v \in Workers : Inserting(v)' = Inserting(v) /\ req'[v] = req[v] /\ res'[v] = res[v]
        BY <2>6 DEF Compare, Inserting, Goto, Choose, TypeOK
      <3>5. \A m \in Names : m \notin doubtful' => m \notin doubtful /\ users'[m] = users[m]
        BY <3>2, <3>3
      <3>6. InsertInv'
        <4>1. SUFFICES ASSUME NEW v \in Workers, Inserting(v), NEW m \in Names,
                              m = req[v].name, m \notin doubtful'
                       PROVE  IF res[v] THEN /\ users'[m] = NoUser
                                             /\ RowsOf(m)' = {<<m, req[v].password>>}
                              ELSE users'[m] # NoUser
          <5>1. \A v \in Workers : Inserting(v) => req[v].name \in Names
            BY RequestFields DEF Inserting
          <5>2. QED
            BY <3>4, <5>1 DEF InsertInv
        <4>2. QED
          BY <4>1, <3>2, <3>5 DEF InsertInv
      <3>7. AgreeInv'
        BY <3>2, <3>4, <3>5 DEF AgreeInv, Agree
      <3>8. QED
        BY <3>6, <3>7
    <2>7. QED
      BY <1>1, <2>1, <2>2, <2>3, <2>4, <2>5, <2>6 DEF DoRequest, Register, Login
  <1>2. ASSUME NEW w \in Workers, NEW r \in Requests, Ask(w, r) PROVE InsertInv' /\ AgreeInv'
    <2>1. Quiet
      BY <1>2 DEF Ask, Quiet, Inserting, Goto, TypeOK
    <2>2. QED
      BY <2>1, QuietStep
  <1>3. CASE Restart
    <2>1. InsertInv'
      BY <1>3 DEF Restart, InsertInv, Inserting
    <2>2. ASSUME NEW n \in Names \ doubtful PROVE Agree(n)'
      <3>1. RowsOf(n)' = RowsOf(n) /\ users'[n] \in Passwords \cup {NoUser}
        BY <1>3 DEF Restart, RowsOf
      <3>2. CASE RowsOf(n) = {}
        BY <1>3, <3>1, <3>2 DEF Restart, Agree
      <3>3. CASE RowsOf(n) # {}
        <4>1. PICK p : RowsOf(n) = {<<n, p>>}
          BY <3>3 DEF AgreeInv, Agree, InsertInv, Inserting
        <4>2. <<n, users'[n]>> \in table
          BY <1>3, <3>3 DEF Restart
        <4>3. <<n, users'[n]>> \in RowsOf(n)
          BY <4>2 DEF RowsOf
        <4>4. users'[n] = p
          BY <4>1, <4>3
        <4>5. users'[n] # NoUser
          BY <4>2 DEF TypeOK, Rows
        <4>6. QED
          BY <3>1, <4>1, <4>4, <4>5 DEF Agree
      <3>4. QED
        BY <3>2, <3>3
    <2>3. AgreeInv'
      BY <1>3, <2>2 DEF Restart, AgreeInv
    <2>4. QED
      BY <2>1, <2>3
  <1>4. CASE UNCHANGED vars
    <2>1. Quiet
      BY <1>4 DEF vars, work, Quiet, Inserting
    <2>2. QED
      BY <2>1, QuietStep
  <1>5. QED
    BY <1>1, <1>2, <1>3, <1>4 DEF Next

\* An entry stays, and keeps its password unless a race was seen.
LEMMA UsersGrow ==
  ASSUME TypeOK, NEW w \in Workers, DoRequest(w), NEW n \in Names, users[n] # NoUser
  PROVE  users'[n] # NoUser /\ (n \notin doubtful' => users'[n] = users[n])
  <1>0. pc[w] # "idle" => req[w].name \in Names /\ req[w].password \in Passwords
    BY RequestFields
  <1>1. CASE EndInsert(w)
    BY <1>0, <1>1 DEF EndInsert, TypeOK
  <1>2. CASE Compare(w)
    <2>1. pc[w] = "compare" /\ users' \in {users, [users EXCEPT ![req[w].name] = Empty]}
      BY <1>2 DEF Compare
    <2>2. users'[n] # NoUser
      BY <2>1, <1>0 DEF TypeOK
    <2>3. CASE n # req[w].name
      BY <2>1, <2>2, <2>3 DEF TypeOK
    <2>4. CASE n = req[w].name /\ Inserters = {}
      <3>1. Found(n) = {users[n]}
        BY <2>4, FoundAlone
      <3>2. QED
        BY <1>2, <2>2, <2>4, <3>1 DEF Compare
    <2>5. CASE n = req[w].name /\ Inserters # {}
      BY <1>2, <2>2, <2>5 DEF Compare, Overlaps
    <2>6. QED
      BY <2>3, <2>4, <2>5
  <1>3. CASE ~EndInsert(w) /\ ~Compare(w)
    BY <1>3 DEF DoRequest, Register, Login, FindFree, FindTaken, Lock, QueryInserts, QueryFails,
                BeginInsert, Unlock, FindUser, FindNone, Reply
  <1>4. QED
    BY <1>1, <1>2, <1>3

\* Once doubtful, a name remains so.
LEMMA DoubtsStay ==
  ASSUME [Next]_vars PROVE doubtful \subseteq doubtful'
  BY DEF Next, vars, work, DoRequest, Register, Login, FindFree, FindTaken, Lock, QueryInserts,
         QueryFails, BeginInsert, EndInsert, Unlock, FindUser, FindNone, Compare, Reply, Ask,
         Restart, Overlaps

LEMMA CompareStep == MapInv /\ [Next]_vars => CompareInv'
  <1> SUFFICES ASSUME MapInv, [Next]_vars, NEW v \in Workers, pc'[v] = "compare"
               PROVE  req'[v].name \in doubtful' \/ users'[req'[v].name] # NoUser
    BY DEF CompareInv
  <1> USE DEF MapInv
  <1>1. ASSUME NEW w \in Workers, DoRequest(w) PROVE req'[v].name \in doubtful' \/ users'[req'[v].name] # NoUser
    <2>1. CASE pc[v] = "compare"
      <3>1. req'[v] = req[v]
        BY <1>1, <2>1 DEF TypeOK, Goto, Choose, DoRequest, Register, Login, FindFree, FindTaken,
                    Lock, QueryInserts, QueryFails, BeginInsert, EndInsert, Unlock, FindUser,
                    FindNone, Compare, Reply
      <3>2. req[v].name \in Names
        BY <2>1, RequestFields
      <3>3. CASE req[v].name \in doubtful
        BY <3>1, <3>3, DoubtsStay
      <3>4. CASE users[req[v].name] # NoUser
        BY <1>1, <3>1, <3>2, <3>4, UsersGrow
      <3>5. QED
        BY <2>1, <3>3, <3>4 DEF CompareInv
    <2>2. CASE pc[v] # "compare"
      <3>1. v = w /\ FindUser(w)
        BY <1>1, <2>2 DEF TypeOK, Goto, Choose, DoRequest, Register, Login, FindFree, FindTaken,
                    Lock, QueryInserts, QueryFails, BeginInsert, EndInsert, Unlock, FindUser,
                    FindNone, Compare, Reply
      <3>2. req[w].name \in Names /\ req' = req /\ users' = users
        BY <3>1, RequestFields DEF FindUser
      <3>3. CASE Inserters = {}
        BY <3>1, <3>2, <3>3, FoundAlone DEF FindUser
      <3>4. CASE Inserters # {}
        BY <3>1, <3>2, <3>4 DEF FindUser, Overlaps
      <3>5. QED
        BY <3>3, <3>4
    <2>3. QED
      BY <2>1, <2>2
  <1>2. ASSUME NEW w \in Workers, NEW r \in Requests, Ask(w, r)
        PROVE  req'[v].name \in doubtful' \/ users'[req'[v].name] # NoUser
    BY <1>2 DEF Ask, Goto, TypeOK, CompareInv
  <1>3. ~Restart
    BY DEF Restart
  <1>4. CASE UNCHANGED vars
    BY <1>4 DEF vars, work, CompareInv
  <1>5. QED
    BY <1>1, <1>2, <1>3, <1>4 DEF Next

LEMMA MapInit == Init => MapInv
  <1> SUFFICES ASSUME Init PROVE MapInv
    OBVIOUS
  <1>1. TypeOK
    BY NoRequestIsNone DEF Init, TypeOK
  <1>2. PlaceInv
    BY DEF Init, PlaceInv, InSection
  <1>3. InsertInv /\ AgreeInv /\ CompareInv
    BY DEF Init, InsertInv, AgreeInv, CompareInv, Agree, RowsOf, Inserting
  <1>4. QED
    BY <1>1, <1>2, <1>3 DEF MapInv

LEMMA MapAlways == Spec => []MapInv
  <1>1. MapInv /\ [Next]_vars => MapInv'
    BY TypeStep, PlaceStep, MapStep, CompareStep DEF MapInv
  <1>2. QED
    BY MapInit, <1>1, PTL DEF Spec

\* While nobody inserts a name, its entry in the map and its row in the table
\* agree, and at most one worker is between lock and unlock (do_request).
THEOREM MapAndTableAgree == Spec => []MapAgreesWithTable
  <1>1. MapInv => MapAgreesWithTable
    <2> SUFFICES ASSUME MapInv PROVE MapAgreesWithTable
      OBVIOUS
    <2>1. \A w \in Workers : InSection(w) <=> mutex = w
      BY DEF MapInv, PlaceInv
    <2>2. \A n \in Names \ doubtful :
              (\A w \in Workers : InSection(w) => req[w].name # n) => Agree(n)
      BY DEF MapInv, AgreeInv, Inserting, InSection
    <2>3. QED
      BY <2>1, <2>2 DEF MapAgreesWithTable, Agree
  <1>2. QED
    BY <1>1, MapAlways, PTL

-----------------------------------------------------------------------------
(* What clients were told.                                                 *)

Row(w) == <<req[w].name, req[w].password>>

Safe(row) == /\ row \in table
             /\ users[row[1]] # NoUser
             /\ row[1] \notin doubtful => users[row[1]] = row[2]

\* The worker is about to say, or says, that the client is registered.
Says(w) == \/ pc[w] = "unlock" /\ res[w]
           \/ pc[w] = "reply" /\ url_[w] = "log"

ToldInv == /\ \A w \in Workers : Inserting(w) /\ res[w] => Row(w) \in table
           /\ \A w \in Workers : Says(w) => Safe(Row(w))
           /\ ToldStayRegistered

\* A row that is safe stays safe.
LEMMA SafeStep ==
  ASSUME MapInv, [Next]_vars, NEW row \in Rows, Safe(row) PROVE Safe(row)'
  <1> DEFINE n == row[1]
  <1>0. n \in Names /\ row[2] \in Passwords /\ row = <<n, row[2]>>
    BY DEF Rows
  <1>1. table \subseteq table' /\ doubtful \subseteq doubtful'
    <2>1. table \subseteq table'
      BY DEF Next, vars, work, DoRequest, Register, Login, FindFree, FindTaken, Lock, QueryInserts,
             QueryFails, BeginInsert, EndInsert, Unlock, FindUser, FindNone, Compare, Reply, Ask,
             Restart
    <2>2. QED
      BY <2>1, DoubtsStay
  <1>2. ASSUME NEW w \in Workers, DoRequest(w) PROVE Safe(row)'
    <2>1. users'[n] # NoUser /\ (n \notin doubtful' => users'[n] = users[n])
      BY <1>0, <1>2, UsersGrow DEF Safe, MapInv
    <2>2. QED
      BY <1>1, <2>1 DEF Safe
  <1>3. CASE Restart
    <2>1. row \in RowsOf(n) /\ RowsOf(n) # {}
      BY <1>0 DEF RowsOf, Safe
    <2>2. <<n, users'[n]>> \in table
      BY <1>0, <1>3, <2>1 DEF Restart
    <2>3. users'[n] # NoUser
      BY <2>2 DEF MapInv, TypeOK, Rows
    <2>4. ASSUME n \notin doubtful PROVE users'[n] = row[2]
      <3>1. RowsOf(n) = {<<n, users[n]>>}
        BY <1>0, <2>4 DEF MapInv, InsertInv, AgreeInv, Agree, Safe
      <3>2. <<n, users'[n]>> \in RowsOf(n)
        BY <2>2 DEF RowsOf
      <3>3. QED
        BY <1>0, <2>1, <3>1, <3>2
    <2>5. QED
      BY <1>1, <2>3, <2>4 DEF Safe
  <1>4. CASE UNCHANGED vars \/ \E w \in Workers, r \in Requests : Ask(w, r)
    BY <1>4 DEF vars, Ask, Safe
  <1>5. QED
    BY <1>2, <1>3, <1>4 DEF Next

LEMMA ToldStep == MapInv /\ ToldInv /\ [Next]_vars => ToldInv'
  <1> SUFFICES ASSUME MapInv, ToldInv, [Next]_vars PROVE ToldInv'
    OBVIOUS
  <1>0. TypeOK /\ PlaceInv /\ \A v \in Workers : pc[v] # "idle" => Row(v) \in Rows
    BY RequestFields DEF MapInv, Row, Rows
  <1>1. \A row \in Rows : Safe(row) => Safe(row)'
    BY SafeStep
  <1>2. \A row \in told : Safe(row) /\ row \in Rows
    BY <1>0 DEF ToldInv, ToldStayRegistered, Safe, TypeOK
  <1>3. ASSUME NEW w \in Workers, DoRequest(w) PROVE ToldInv'
    <2>1. \A v \in Workers \ {w} : /\ pc'[v] = pc[v] /\ req'[v] = req[v] /\ res'[v] = res[v]
                                   /\ url_'[v] = url_[v]
      BY <1>0, <1>3 DEF TypeOK, Goto, Choose, DoRequest, Register, Login, FindFree, FindTaken,
                  Lock, QueryInserts, QueryFails, BeginInsert, EndInsert, Unlock, FindUser,
                  FindNone, Compare, Reply
    <2>2. table \subseteq table'
      BY <1>3 DEF DoRequest, Register, Login, FindFree, FindTaken, Lock, QueryInserts,
             QueryFails, BeginInsert, EndInsert, Unlock, FindUser, FindNone, Compare, Reply
    <2>3. \A v \in Workers \ {w} : Inserting(v)' /\ res'[v] => Row(v)' \in table'
      BY <2>1, <2>2 DEF ToldInv, Inserting, Row
    <2>4. \A v \in Workers \ {w} : Says(v)' => Safe(Row(v))'
      <3>1. SUFFICES ASSUME NEW v \in Workers \ {w}, Says(v)' PROVE Safe(Row(v))'
        OBVIOUS
      <3>2. Says(v) /\ Row(v)' = Row(v) /\ Row(v) \in Rows
        BY <1>0, <2>1, <3>1 DEF Says, Row
      <3>3. \A row \in Rows : row = Row(v)' /\ Safe(row)' => Safe(Row(v))'
        BY DEF Safe
      <3>4. QED
        BY <1>1, <3>2, <3>3 DEF ToldInv
    <2>5. Inserting(w)' /\ res'[w] => Row(w)' \in table'
      <3>1. CASE QueryInserts(w)
        BY <3>1 DEF QueryInserts, Row
      <3>2. CASE ~QueryInserts(w)
        BY <1>0, <1>3, <3>2 DEF ToldInv, Inserting, Row, TypeOK, Goto, Choose, DoRequest, Register,
               Login, FindFree, FindTaken, Lock, QueryFails, BeginInsert, EndInsert, Unlock,
               FindUser, FindNone, Compare, Reply
      <3>3. QED
        BY <3>1, <3>2
    <2>6. Says(w)' => Safe(Row(w))'
      <3>1. CASE EndInsert(w)
        <4>1. /\ pc[w] = "inserting" /\ req' = req /\ res' = res /\ doubtful' = doubtful /\ table' = table
              /\ req[w].name \in Names /\ req[w].password \in Passwords
          BY <3>1, <1>0, RequestFields DEF EndInsert
        <4>2. users'[req[w].name] = IF users[req[w].name] = NoUser THEN req[w].password ELSE users[req[w].name]
          BY <3>1, <4>1, <1>0 DEF EndInsert, TypeOK
        <4>3. res[w] => /\ Row(w) \in table
                        /\ req[w].name \notin doubtful => users[req[w].name] = NoUser
          BY <4>1 DEF ToldInv, Inserting, MapInv, InsertInv
        <4>4. Says(w)' => res[w]
          BY <3>1, <4>1, <1>0 DEF EndInsert, Says, Goto, TypeOK
        <4>5. QED
          BY <4>1, <4>2, <4>3, <4>4 DEF Safe, Row
      <3>2. CASE Unlock(w)
        <4>1. Row(w)' = Row(w) /\ Row(w) \in Rows /\ (Says(w)' => Says(w))
          BY <3>2, <1>0 DEF Unlock, Row, Says, Choose, Goto, TypeOK
        <4>2. \A row \in Rows : row = Row(w)' /\ Safe(row)' => Safe(Row(w))'
          BY DEF Safe
        <4>3. QED
          BY <1>1, <4>1, <4>2 DEF ToldInv
      <3>3. CASE ~EndInsert(w) /\ ~Unlock(w)
        <4>1. ~Says(w)'
          BY <1>0, <1>3, <3>3 DEF Says, TypeOK, Goto, Choose, DoRequest, Register,
                 Login, FindFree, FindTaken, Lock, QueryInserts, QueryFails, BeginInsert,
                 FindUser, FindNone, Compare, Reply
        <4>2. QED
          BY <4>1
      <3>4. QED
        BY <3>1, <3>2, <3>3
    <2>7. ToldStayRegistered'
      <3>1. \A row \in told' : row \in told \/ (Says(w) /\ row = Row(w) /\ pc[w] # "idle")
        BY <1>0, <1>3 DEF PlaceInv, Says, Row, DoRequest, Register, Login, FindFree, FindTaken, Lock,
               QueryInserts, QueryFails, BeginInsert, EndInsert, Unlock, FindUser, FindNone,
               Compare, Reply
      <3>2. \A row \in told' : row \in Rows /\ Safe(row)
        BY <1>0, <1>2, <3>1 DEF ToldInv
      <3>3. QED
        BY <1>1, <3>2 DEF ToldStayRegistered, Safe
    <2>8. QED
      BY <2>3, <2>4, <2>5, <2>6, <2>7 DEF ToldInv
  <1>4. ASSUME NEW w \in Workers, NEW r \in Requests, Ask(w, r) PROVE ToldInv'
    <2>1. \A v \in Workers : /\ Inserting(v)' => Inserting(v) /\ Row(v)' = Row(v)
                             /\ Says(v)' => Says(v) /\ Row(v)' = Row(v)
      BY <1>0, <1>4 DEF Ask, Inserting, Says, Row, Goto, TypeOK
    <2>2. UNCHANGED <<users, table, res, told, doubtful>>
      BY <1>4 DEF Ask
    <2>3. QED
      BY <2>1, <2>2 DEF ToldInv, ToldStayRegistered, Safe
  <1>5. CASE Restart
    <2>1. \A v \in Workers : ~Inserting(v)' /\ ~Says(v)'
      BY <1>5 DEF Restart, Inserting, Says
    <2>2. told' = told
      BY <1>5 DEF Restart
    <2>3. QED
      BY <1>1, <1>2, <2>1, <2>2 DEF ToldInv, ToldStayRegistered, Safe
  <1>6. CASE UNCHANGED vars
    BY <1>6 DEF vars, work, ToldInv, ToldStayRegistered, Safe, Inserting, Says, Row
  <1>7. QED
    BY <1>3, <1>4, <1>5, <1>6 DEF Next

\* A client that was told it is registered stays registered, whatever others
\* register and however often the server restarts (do_request, Init).
THEOREM ToldAreRegistered == Spec => []ToldStayRegistered
  <1>1. Init => ToldInv
    BY DEF Init, ToldInv, ToldStayRegistered, Inserting, Says
  <1>2. ToldInv => ToldStayRegistered
    BY DEF ToldInv
  <1>3. QED
    BY <1>1, <1>2, ToldStep, MapAlways, PTL DEF Spec

-----------------------------------------------------------------------------
(* The refinement of Accounts.                                             *)

\* Until a name is doubtful, a step of the server is a step of Accounts.
LEMMA RefineStep ==
  ASSUME MapInv, [Next]_vars, doubtful' = {} PROVE [A!Next]_(A!vars)
  <1> USE DEF MapInv
  <1>0. doubtful = {} /\ TypeOK /\ PlaceInv
    BY DoubtsStay
  <1>1. ASSUME NEW w \in Workers, DoRequest(w) PROVE A!Next \/ UNCHANGED A!vars
    <2>0. pc[w] # "idle" => /\ req[w] # NoRequest
                            /\ req[w].name \in Names /\ req[w].password \in Passwords
                            /\ req[w].kind \in {"register", "login"}
      BY <1>0, RequestFields, NoRequestIsNone
    <2>1. CASE FindFree(w) \/ Lock(w) \/ QueryInserts(w) \/ QueryFails(w) \/ BeginInsert(w)
               \/ Unlock(w) \/ FindUser(w)
      <3>1. \A v \in Workers : Effective(v)' = Effective(v)
        BY <2>1, <1>0 DEF FindFree, Lock, QueryInserts, QueryFails, BeginInsert, Unlock, FindUser,
                    Effective, Goto, Choose, TypeOK
      <3>2. UNCHANGED <<users, req>>
        BY <2>1 DEF FindFree, Lock, QueryInserts, QueryFails, BeginInsert, Unlock, FindUser
      <3>3. QED
        BY <3>1, <3>2 DEF A!vars
    <2>2. CASE FindTaken(w)
      <3>1. pc[w] = "find" /\ req[w].kind = "register" /\ Inserters = {}
        BY <2>2 DEF FindTaken, Overlaps
      <3>2. users[req[w].name] # NoUser
        BY <2>2, <3>1, <2>0, FoundAlone DEF FindTaken
      <3>3. Effective(w) = "none"
        BY <1>0, <3>1 DEF Effective, PlaceInv
      <3>4. /\ \A v \in Workers \ {w} : Effective(v)' = Effective(v)
            /\ Effective(w)' = "registerError" /\ UNCHANGED <<users, req>>
        BY <1>0, <2>2 DEF FindTaken, Effective, Goto, Choose, TypeOK
      <3>5. A!NameTaken(w)
        BY <2>0, <3>1, <3>2, <3>3, <3>4 DEF A!NameTaken, A!Answer
      <3>6. QED
        BY <3>5 DEF A!Next
    <2>3. CASE EndInsert(w)
      <3>1. pc[w] = "inserting" /\ req[w].kind = "register"
        BY <2>3, <1>0 DEF EndInsert, PlaceInv
      <3>2. Effective(w) = "none"
        BY <1>0, <3>1 DEF Effective, PlaceInv
      <3>3. /\ \A v \in Workers \ {w} : Effective(v)' = Effective(v)
            /\ Effective(w)' = IF res[w] THEN "log" ELSE "registerError"
            /\ UNCHANGED req
        BY <1>0, <2>3 DEF EndInsert, Effective, Goto, TypeOK
      <3>4. CASE res[w]
        <4>1. users[req[w].name] = NoUser
          BY <1>0, <3>1, <3>4 DEF InsertInv, Inserting
        <4>2. users' = [users EXCEPT ![req[w].name] = req[w].password]
          BY <2>3, <2>0, <3>1, <4>1, <1>0 DEF EndInsert, TypeOK
        <4>3. A!Register(w)
          BY <2>0, <3>1, <3>2, <3>3, <3>4, <4>1, <4>2 DEF A!Register, A!Answer
        <4>4. QED
          BY <4>3 DEF A!Next
      <3>5. CASE ~res[w]
        <4>1. users[req[w].name] # NoUser
          BY <1>0, <3>1, <3>5 DEF InsertInv, Inserting
        <4>2. users' = users
          BY <2>3, <2>0, <3>1, <4>1, <1>0 DEF EndInsert, TypeOK
        <4>3. A!NameTaken(w)
          BY <2>0, <3>1, <3>2, <3>3, <3>5, <4>1, <4>2 DEF A!NameTaken, A!Answer
        <4>4. QED
          BY <4>3 DEF A!Next
      <3>6. QED
        BY <3>4, <3>5
    <2>4. CASE FindNone(w)
      <3>1. pc[w] = "find" /\ req[w].kind = "login" /\ Inserters = {}
        BY <2>4 DEF FindNone, Overlaps
      <3>2. users[req[w].name] = NoUser
        BY <2>4, <3>1, <2>0, FoundAlone DEF FindNone
      <3>3. Effective(w) = "none"
        BY <1>0, <3>1 DEF Effective, PlaceInv
      <3>4. /\ \A v \in Workers \ {w} : Effective(v)' = Effective(v)
            /\ Effective(w)' = "logError" /\ UNCHANGED <<users, req>>
        BY <1>0, <2>4 DEF FindNone, Effective, Goto, Choose, TypeOK
      <3>5. A!Login(w)
        BY <2>0, <3>1, <3>2, <3>3, <3>4 DEF A!Login, A!Answer
      <3>6. QED
        BY <3>5 DEF A!Next
    <2>5. CASE Compare(w)
      <3>1. pc[w] = "compare" /\ req[w].kind = "login" /\ Inserters = {}
        BY <2>5, <1>0 DEF Compare, Overlaps, PlaceInv
      <3>2. Found(req[w].name) = {users[req[w].name]} /\ users[req[w].name] # NoUser
        BY <1>0, <3>1, <2>0, FoundAlone DEF CompareInv
      <3>3. Effective(w) = "none"
        BY <1>0, <3>1 DEF Effective, PlaceInv
      <3>4. /\ \A v \in Workers \ {w} : Effective(v)' = Effective(v)
            /\ Effective(w)' = IF users[req[w].name] = req[w].password THEN "welcome" ELSE "logError"
            /\ UNCHANGED <<users, req>>
        BY <1>0, <2>5, <3>2 DEF Compare, Effective, Goto, Choose, TypeOK
      <3>5. A!Login(w)
        BY <2>0, <3>1, <3>2, <3>3, <3>4 DEF A!Login, A!Answer
      <3>6. QED
        BY <3>5 DEF A!Next
    <2>6. CASE Reply(w)
      <3>1. Effective(w) # "none"
        BY <1>0, <2>6 DEF Reply, Effective, PlaceInv
      <3>2. /\ \A v \in Workers \ {w} : Effective(v)' = Effective(v)
            /\ Effective(w)' = "none" /\ users' = users
            /\ req' = [req EXCEPT ![w] = NoRequest]
        BY <1>0, <2>6 DEF Reply, Effective, Goto, TypeOK
      <3>3. A!Reply(w)
        BY <3>1, <3>2 DEF A!Reply
      <3>4. QED
        BY <3>3 DEF A!Next
    <2>7. QED
      BY <1>1, <2>1, <2>2, <2>3, <2>4, <2>5, <2>6 DEF DoRequest, Register, Login
  <1>2. ASSUME NEW w \in Workers, NEW r \in Requests, Ask(w, r) PROVE A!Next
    <2>1. req[w] = NoRequest
      BY <1>0, <1>2 DEF Ask, TypeOK
    <2>2. \A v \in Workers : Effective(v)' = Effective(v)
      BY <1>0, <1>2 DEF Ask, Effective, Goto, TypeOK
    <2>3. A!Ask(w, r)
      BY <1>2, <2>1, <2>2 DEF Ask, A!Ask
    <2>4. QED
      BY <2>3 DEF A!Next
  <1>3. CASE Restart
    <2>1. /\ DOMAIN users' = Names
          /\ req' = [w \in Workers |-> NoRequest]
          /\ \A w \in Workers : Effective(w)' = "none"
      BY <1>3 DEF Restart, Effective
    <2>2. ASSUME NEW n \in Names
          PROVE  \/ users'[n] = users[n]
                 \/ users[n] = NoUser /\ users'[n] \in A!Pending(n)
      <3>1. CASE \E w \in Workers : Inserting(w) /\ req[w].name = n /\ res[w]
        <4>1. PICK w \in Workers : Inserting(w) /\ req[w].name = n /\ res[w]
          BY <3>1
        <4>2. users[n] = NoUser /\ RowsOf(n) = {<<n, req[w].password>>}
          BY <1>0, <4>1 DEF InsertInv
        <4>3. <<n, users'[n]>> \in RowsOf(n)
          BY <1>3, <4>2 DEF Restart, RowsOf
        <4>4. users'[n] = req[w].password
          BY <4>2, <4>3
        <4>5. req[w] # NoRequest /\ Effective(w) = "none" /\ req[w].kind = "register"
          BY <1>0, <4>1, RequestFields, NoRequestIsNone DEF Inserting, Effective, PlaceInv
        <4>6. QED
          BY <4>1, <4>2, <4>4, <4>5 DEF A!Pending
      <3>2. CASE ~\E w \in Workers : Inserting(w) /\ req[w].name = n /\ res[w]
        <4>1. Agree(n)
          BY <1>0, <3>2 DEF AgreeInv
        <4>2. CASE users[n] = NoUser
          BY <1>3, <4>1, <4>2 DEF Restart, Agree
        <4>3. CASE users[n] # NoUser
          <5>1. <<n, users'[n]>> \in RowsOf(n) /\ RowsOf(n) = {<<n, users[n]>>}
            BY <1>3, <4>1, <4>3 DEF Restart, Agree, RowsOf
          <5>2. QED
            BY <5>1
        <4>4. QED
          BY <4>2, <4>3
      <3>3. QED
        BY <3>1, <3>2
    <2>3. A!Restart
      BY <2>1, <2>2 DEF A!Restart
    <2>4. QED
      BY <2>3 DEF A!Next
  <1>4. CASE UNCHANGED vars
    BY <1>4 DEF vars, work, A!vars, Effective
  <1>5. QED
    BY <1>1, <1>2, <1>3, <1>4 DEF Next

\* Registration implements Accounts, until a race or a refused row makes a
\* name doubtful: every request takes effect at one moment (do_request).
THEOREM ImplementsAccounts == Spec => RefinesAccounts
  <1>1. Init => A!Init
    BY DEF Init, A!Init, Effective
  <1>2. MapInv /\ [Next]_vars => [doubtful' # {} \/ A!Next]_(A!vars)
    BY RefineStep
  <1>3. QED
    BY <1>1, <1>2, MapAlways, PTL DEF Spec, RefinesAccounts
===============================================================================
