---------------------------- MODULE ConnPoolProofs ----------------------------
(***************************************************************************)
(* Proofs about ConnPool, for any number of threads, of connections and of *)
(* interrupted waits.                                                      *)
(***************************************************************************)
EXTENDS ConnPool, FiniteSetTheorems, TLAPS

-----------------------------------------------------------------------------
(* Counting threads.                                                       *)

LEMMA SubsetFinite ==
  ASSUME NEW S, S \subseteq Threads
  PROVE  IsFiniteSet(S) /\ Cardinality(S) \in Nat
  BY ConnPoolAssumption, FS_Subset, FS_CardinalityType

LEMMA AddOne ==
  ASSUME NEW S, S \subseteq Threads, NEW t \in Threads, t \notin S
  PROVE  Cardinality(S \cup {t}) = Cardinality(S) + 1
  BY SubsetFinite, FS_AddElement

LEMMA RemoveOne ==
  ASSUME NEW S, S \subseteq Threads, NEW t \in S
  PROVE  Cardinality(S \ {t}) = Cardinality(S) - 1 /\ Cardinality(S) >= 1
  <1>1. Cardinality(S \ {t}) = Cardinality(S) - 1
    BY SubsetFinite, FS_RemoveElement
  <1>2. Cardinality(S \ {t}) \in Nat /\ Cardinality(S) \in Nat
    BY SubsetFinite
  <1>3. QED
    BY <1>1, <1>2

\* What a step of one thread does to the number of threads at a label.
LEMMA Moved ==
  ASSUME TypeOK, NEW t \in Threads, NEW label \in Labels, NEW l \in Labels, Goto(t, label)
  PROVE  /\ Cardinality(At(l)) \in Nat /\ Cardinality(At(l)') \in Nat
         /\ pc[t] = l /\ label # l => /\ Cardinality(At(l)') = Cardinality(At(l)) - 1
                                      /\ Cardinality(At(l)) >= 1
         /\ pc[t] # l /\ label = l => Cardinality(At(l)') = Cardinality(At(l)) + 1
         /\ (pc[t] = l <=> label = l) => Cardinality(At(l)') = Cardinality(At(l))
  <1>1. At(l) \subseteq Threads /\ At(l)' \subseteq Threads
    BY DEF At
  <1>2. Cardinality(At(l)) \in Nat /\ Cardinality(At(l)') \in Nat
    BY <1>1, SubsetFinite
  <1>3. pc[t] = l /\ label # l => At(l)' = At(l) \ {t} /\ t \in At(l)
    BY DEF At, Goto, TypeOK
  <1>4. pc[t] # l /\ label = l => At(l)' = At(l) \cup {t} /\ t \notin At(l)
    BY DEF At, Goto, TypeOK
  <1>5. (pc[t] = l <=> label = l) => At(l)' = At(l)
    BY DEF At, Goto, TypeOK
  <1>6. QED
    BY <1>1, <1>2, <1>3, <1>4, <1>5, AddOne, RemoveOne

-----------------------------------------------------------------------------
(* Types.                                                                  *)

\* Only a thread that get_conn has returned to holds a connection.
HoldersBusy == \A t \in Threads : conn[t] # NULL => pc[t] = "busy"

TypeInv == TypeOK /\ HoldersBusy

LEMMA NullNoConn == NULL \notin Conns
  BY ConnPoolAssumption DEF NULL, Conns

LEMMA UsersFinite == Users \subseteq Threads /\ Cardinality(Users) \in Nat
  <1>1. Users \subseteq Threads
    BY DEF Users
  <1>2. QED
    BY <1>1, SubsetFinite

LEMMA PeakNat ==
  ASSUME peak \in Nat, CountPeak
  PROVE  peak' \in Nat /\ peak' >= peak /\ peak' >= Cardinality(Users) + 1
  BY UsersFinite DEF CountPeak

LEMMA TypeStep == TypeInv /\ [Next]_vars => TypeInv'
  <1> SUFFICES ASSUME TypeInv, [Next]_vars PROVE TypeInv'
    OBVIOUS
  <1> USE ConnPoolAssumption, NullNoConn DEF TypeInv, TypeOK, HoldersBusy, Goto, Labels, counters
  <1>1. ASSUME NEW t \in Threads, Step(t) \/ WaitInterrupted(t) PROVE TypeInv'
    <2>1. CASE FindEmpty(t)
      <3>1. peak' \in Nat
        BY <2>1, PeakNat DEF FindEmpty
      <3>2. QED
        BY <2>1, <3>1 DEF FindEmpty
    <2>2. CASE FindSome(t)
      <3>1. peak' \in Nat
        BY <2>2, PeakNat DEF FindSome
      <3>2. QED
        BY <2>2, <3>1 DEF FindSome
    <2>3. CASE Wait(t)
      BY <2>3 DEF Wait
    <2>4. CASE WaitInterrupted(t)
      BY <2>4 DEF WaitInterrupted
    <2>5. CASE TakeConn(t)
      <3>1. Head(conn_list_) \in Conns /\ Tail(conn_list_) \in Seq(Conns)
        BY <2>5 DEF TakeConn
      <3>2. QED
        BY <2>5, <3>1 DEF TakeConn
    <2>6. CASE TakeNothing(t)
      <3>1. fault' \in BOOLEAN
        BY <2>6 DEF TakeNothing
      <3>2. QED
        BY <2>6, <3>1 DEF TakeNothing
    <2>7. CASE ReleaseNull(t)
      BY <2>7 DEF ReleaseNull
    <2>8. CASE PutBack(t)
      <3>1. conn[t] \in Conns
        BY <2>8 DEF PutBack
      <3>2. Append(conn_list_, conn[t]) \in Seq(Conns)
        BY <3>1
      <3>3. QED
        BY <2>8, <3>2 DEF PutBack
    <2>9. CASE Post(t)
      BY <2>9 DEF Post
    <2>10. QED
      BY <1>1, <2>1, <2>2, <2>3, <2>4, <2>5, <2>6, <2>7, <2>8, <2>9 DEF Step
  <1>2. CASE UNCHANGED vars
    BY <1>2 DEF vars
  <1>3. QED
    BY <1>1, <1>2 DEF Next

LEMMA TypeInvariance == Spec => []TypeInv
  <1>1. Init => TypeInv
    <2>1. [i \in 1 .. max_conn |-> i] \in Seq(Conns)
      BY ConnPoolAssumption DEF Conns
    <2>2. Init => fault \in BOOLEAN
      BY DEF Init
    <2>3. 0 \in 0 .. MaxInterrupts
      BY ConnPoolAssumption
    <2>4. QED
      BY <2>1, <2>2, <2>3, ConnPoolAssumption DEF Init, TypeInv, TypeOK, HoldersBusy, Labels
  <1>2. QED
    BY <1>1, TypeStep, PTL DEF Spec

\* Every variable keeps its type.
THEOREM TypeCorrect == Spec => []TypeOK
  <1>1. TypeInv => TypeOK
    BY DEF TypeInv
  <1>2. QED
    BY <1>1, TypeInvariance, PTL

-----------------------------------------------------------------------------
(* The semaphore.                                                          *)

Tokens   == sem_ + Cardinality(At("lock")) + Cardinality(At("post"))
TokenInv == /\ Len(conn_list_) <= Tokens
            /\ interrupts = 0 => Len(conn_list_) = Tokens /\ ~fault

LEMMA TokenStep == TypeInv /\ TokenInv /\ [Next]_vars => TokenInv'
  <1> SUFFICES ASSUME TypeInv, TokenInv, [Next]_vars PROVE TokenInv'
    OBVIOUS
  <1> DEFINE L == Cardinality(At("lock"))
             P == Cardinality(At("post"))
  <1> USE DEF TypeInv, TypeOK
  <1>1. L \in Nat /\ P \in Nat
    <2>1. At("lock") \subseteq Threads /\ At("post") \subseteq Threads
      BY DEF At
    <2>2. QED
      BY <2>1, SubsetFinite
  <1>2. ASSUME NEW t \in Threads, Step(t) \/ WaitInterrupted(t) PROVE TokenInv'
    <2>1. CASE FindEmpty(t)
      <3>1. L' = L /\ P' = P
        BY <2>1, Moved DEF FindEmpty, Labels
      <3>2. QED
        BY <2>1, <3>1 DEF FindEmpty, TokenInv, Tokens
    <2>2. CASE FindSome(t)
      <3>1. L' = L /\ P' = P
        BY <2>2, Moved DEF FindSome, Labels
      <3>2. QED
        BY <2>2, <3>1 DEF FindSome, TokenInv, Tokens
    <2>3. CASE Wait(t)
      <3>1. L' = L + 1 /\ P' = P
        BY <2>3, Moved DEF Wait, Labels
      <3>2. QED
        BY <1>1, <2>3, <3>1 DEF Wait, TokenInv, Tokens
    <2>4. CASE WaitInterrupted(t)
      <3>1. L' = L + 1 /\ P' = P
        BY <2>4, Moved DEF WaitInterrupted, Labels
      <3>2. QED
        BY <1>1, <2>4, <3>1 DEF WaitInterrupted, TokenInv, Tokens
    <2>5. CASE TakeConn(t)
      <3>1. L' = L - 1 /\ P' = P
        BY <2>5, Moved DEF TakeConn, Labels
      <3>2. Len(conn_list_') = Len(conn_list_) - 1
        BY <2>5 DEF TakeConn
      <3>3. QED
        BY <1>1, <2>5, <3>1, <3>2 DEF TakeConn, TokenInv, Tokens
    <2>6. CASE TakeNothing(t)
      <3>1. At("lock")' = At("lock") /\ At("post")' = At("post")
        BY <2>6 DEF TakeNothing, At
      <3>2. interrupts # 0
        <4>1. t \in At("lock") /\ At("lock") \subseteq Threads
          BY <2>6 DEF TakeNothing, At
        <4>2. L >= 1
          BY <4>1, RemoveOne
        <4>3. QED
          BY <1>1, <2>6, <4>2 DEF TakeNothing, TokenInv, Tokens
      <3>3. QED
        BY <2>6, <3>1, <3>2 DEF TakeNothing, TokenInv, Tokens
    <2>7. CASE ReleaseNull(t)
      <3>1. L' = L /\ P' = P
        BY <2>7, Moved DEF ReleaseNull, Labels
      <3>2. QED
        BY <2>7, <3>1 DEF ReleaseNull, TokenInv, Tokens
    <2>8. CASE PutBack(t)
      <3>1. L' = L /\ P' = P + 1
        BY <2>8, Moved DEF PutBack, Labels
      <3>2. Len(conn_list_') = Len(conn_list_) + 1
        BY <2>8 DEF PutBack
      <3>3. QED
        BY <1>1, <2>8, <3>1, <3>2 DEF PutBack, TokenInv, Tokens
    <2>9. CASE Post(t)
      <3>1. L' = L /\ P' = P - 1
        BY <2>9, Moved DEF Post, Labels
      <3>2. QED
        BY <1>1, <2>9, <3>1 DEF Post, TokenInv, Tokens
    <2>10. QED
      BY <1>2, <2>1, <2>2, <2>3, <2>4, <2>5, <2>6, <2>7, <2>8, <2>9 DEF Step
  <1>3. CASE UNCHANGED vars
    BY <1>3 DEF vars, TokenInv, Tokens, At
  <1>4. QED
    BY <1>2, <1>3 DEF Next

LEMMA TokenInvariance == Spec => []TokenInv
  <1>1. Init => TokenInv
    <2>1. SUFFICES ASSUME Init PROVE TokenInv
      OBVIOUS
    <2>2. At("lock") = {} /\ At("post") = {}
      BY <2>1 DEF Init, At
    <2>3. Len(conn_list_) = max_conn
      BY <2>1, ConnPoolAssumption DEF Init
    <2>4. Tokens = max_conn
      <3>1. Cardinality(At("lock")) = 0 /\ Cardinality(At("post")) = 0
        BY <2>2, FS_EmptySet
      <3>2. sem_ = max_conn
        BY <2>1 DEF Init
      <3>3. QED
        BY <3>1, <3>2, ConnPoolAssumption DEF Tokens
    <2>5. ~fault
      BY <2>1 DEF Init
    <2>6. QED
      BY <2>3, <2>4, <2>5, ConnPoolAssumption DEF TokenInv
  <1>2. QED
    BY <1>1, TokenStep, TypeInvariance, PTL DEF Spec

\* No connection lies in the list unannounced while threads wait for one.
THEOREM NoneStranded == Spec => []NoStrandedConn
  <1>1. TokenInv => NoStrandedConn
    BY DEF TokenInv, Tokens, NoStrandedConn
  <1>2. QED
    BY <1>1, TokenInvariance, PTL

\* As long as no wait was interrupted, no thread pops from an empty list.
THEOREM UninterruptedSafe == Spec => []NoFaultUninterrupted
  <1>1. TokenInv => NoFaultUninterrupted
    BY DEF TokenInv, NoFaultUninterrupted
  <1>2. QED
    BY <1>1, TokenInvariance, PTL

-----------------------------------------------------------------------------
(* The counters.                                                           *)

CountInv == /\ CountersExact
            /\ Len(conn_list_) + Cardinality(Holders) = max_conn

LEMMA CountStep == TypeInv /\ CountInv /\ [Next]_vars => CountInv'
  <1> SUFFICES ASSUME TypeInv, CountInv, [Next]_vars PROVE CountInv'
    OBVIOUS
  <1> USE NullNoConn DEF TypeInv, TypeOK, CountInv, CountersExact
  <1>1. Holders \subseteq Threads /\ Cardinality(Holders) \in Nat
    <2>1. Holders \subseteq Threads
      BY DEF Holders
    <2>2. QED
      BY <2>1, SubsetFinite
  <1>2. ASSUME NEW t \in Threads, TakeConn(t) PROVE CountInv'
    <2>1. t \notin Holders /\ Holders' = Holders \cup {t}
      BY <1>2 DEF TakeConn, Holders, HoldersBusy
    <2>2. Cardinality(Holders') = Cardinality(Holders) + 1
      BY <1>1, <2>1, AddOne
    <2>3. Len(conn_list_') = Len(conn_list_) - 1 /\ Len(conn_list_) \in Nat
      BY <1>2 DEF TakeConn
    <2>4. QED
      BY <1>1, <1>2, <2>2, <2>3, ConnPoolAssumption DEF TakeConn
  <1>3. ASSUME NEW t \in Threads, PutBack(t) PROVE CountInv'
    <2>1. t \in Holders /\ Holders' = Holders \ {t}
      BY <1>3 DEF PutBack, Holders
    <2>2. Cardinality(Holders') = Cardinality(Holders) - 1
      BY <1>1, <2>1, RemoveOne
    <2>3. Len(conn_list_') = Len(conn_list_) + 1 /\ Len(conn_list_) \in Nat
      BY <1>3 DEF PutBack
    <2>4. QED
      BY <1>1, <1>3, <2>2, <2>3, ConnPoolAssumption DEF PutBack
  <1>4. CASE UNCHANGED <<conn_list_, free_conn_, curr_conn_, conn>>
    BY <1>4 DEF Holders
  <1>5. QED
    BY <1>2, <1>3, <1>4
       DEF Next, Step, FindEmpty, FindSome, Wait, WaitInterrupted, TakeNothing, ReleaseNull,
           Post, vars, counters

LEMMA CountInvariance == Spec => []CountInv
  <1>1. Init => CountInv
    <2>1. SUFFICES ASSUME Init PROVE CountInv
      OBVIOUS
    <2>2. Holders = {}
      BY <2>1 DEF Init, Holders
    <2>3. Len(conn_list_) = max_conn
      BY <2>1, ConnPoolAssumption DEF Init
    <2>4. Cardinality(Holders) = 0
      BY <2>2, FS_EmptySet
    <2>5. QED
      BY <2>1, <2>3, <2>4, ConnPoolAssumption DEF Init, CountInv, CountersExact
  <1>2. QED
    BY <1>1, CountStep, TypeInvariance, PTL DEF Spec

\* free_conn_ and curr_conn_ count the free and the used connections.
THEOREM CountersCorrect == Spec => []CountersExact
  <1>1. CountInv => CountersExact
    BY DEF CountInv
  <1>2. QED
    BY <1>1, CountInvariance, PTL

-----------------------------------------------------------------------------
(* No more threads than connections.                                       *)

\* While fewer threads than connections can hold one, one is left.
LEMMA OneLeft ==
  ASSUME TypeInv, CountInv, NEW U, U \subseteq Threads, Holders \subseteq U,
         Cardinality(U) < max_conn
  PROVE  conn_list_ # <<>>
  <1>1. IsFiniteSet(U) /\ Cardinality(U) \in Nat
    BY SubsetFinite
  <1>2. Cardinality(Holders) <= Cardinality(U) /\ Cardinality(Holders) \in Nat
    BY <1>1, SubsetFinite, FS_Subset
  <1>3. Len(conn_list_) >= 1
    BY <1>1, <1>2, ConnPoolAssumption DEF CountInv, TypeInv, TypeOK
  <1>4. QED
    BY <1>3

\* peak counts the threads that use the pool.
PeakInv == Cardinality(Users) <= peak

LEMMA PeakStep == TypeInv /\ PeakInv /\ [Next]_vars => PeakInv' /\ peak' >= peak
  <1> SUFFICES ASSUME TypeInv, PeakInv, [Next]_vars PROVE PeakInv' /\ peak' >= peak
    OBVIOUS
  <1>1. /\ peak \in Nat /\ Cardinality(Users) <= peak /\ Cardinality(Users) \in Nat
        /\ pc \in [Threads -> Labels] /\ Users \subseteq Threads
    BY UsersFinite DEF TypeInv, TypeOK, PeakInv
  <1>2. ASSUME NEW t \in Threads, FindEmpty(t) \/ FindSome(t)
        PROVE  PeakInv' /\ peak' >= peak
    <2>1. t \notin Users /\ Users' = Users \cup {t}
      BY <1>1, <1>2 DEF FindEmpty, FindSome, Goto, Users
    <2>2. Cardinality(Users') = Cardinality(Users) + 1
      BY <1>1, <2>1, AddOne
    <2>3. QED
      BY <1>1, <1>2, <2>2, PeakNat DEF FindEmpty, FindSome, PeakInv
  <1>3. ASSUME NEW t \in Threads,
               Wait(t) \/ WaitInterrupted(t) \/ TakeConn(t) \/ PutBack(t) \/ TakeNothing(t)
        PROVE  PeakInv' /\ peak' >= peak
    <2>1. Users' = Users /\ peak' = peak
      BY <1>1, <1>3
         DEF Wait, WaitInterrupted, TakeConn, PutBack, TakeNothing, Goto, Users
    <2>2. QED
      BY <1>1, <2>1 DEF PeakInv
  <1>4. ASSUME NEW t \in Threads, ReleaseNull(t) \/ Post(t)
        PROVE  PeakInv' /\ peak' >= peak
    <2>1. t \in Users /\ Users' = Users \ {t} /\ peak' = peak
      BY <1>1, <1>4 DEF ReleaseNull, Post, Goto, Users
    <2>2. Cardinality(Users') = Cardinality(Users) - 1
      BY <1>1, <2>1, RemoveOne
    <2>3. QED
      BY <1>1, <2>1, <2>2 DEF PeakInv
  <1>5. CASE UNCHANGED vars
    BY <1>1, <1>5 DEF vars, PeakInv, Users
  <1>6. QED
    BY <1>2, <1>3, <1>4, <1>5 DEF Next, Step

EnoughInv == /\ PeakInv
             /\ EnoughForAll

LEMMA EnoughStep == TypeInv /\ CountInv /\ EnoughInv /\ [Next]_vars => EnoughInv'
  <1> SUFFICES ASSUME TypeInv, CountInv, EnoughInv, [Next]_vars, peak' <= max_conn
               PROVE  ~fault' /\ \A u \in Threads : pc'[u] = "busy" => conn'[u] # NULL
    BY PeakStep DEF EnoughInv, EnoughForAll
  <1>0. /\ PeakInv /\ peak \in Nat /\ max_conn \in Nat
        /\ Users \subseteq Threads /\ Cardinality(Users) \in Nat
    BY UsersFinite, ConnPoolAssumption DEF TypeInv, TypeOK, EnoughInv
  <1>1. ASSUME NEW t \in Threads, FindEmpty(t) PROVE FALSE
    <2>1. peak' >= Cardinality(Users) + 1 /\ peak' \in Nat /\ conn_list_ = <<>>
      BY <1>0, <1>1, PeakNat DEF FindEmpty
    <2>2. Holders \subseteq Users
      BY DEF Holders, Users, TypeInv, HoldersBusy
    <2>3. QED
      BY <1>0, <2>1, <2>2, OneLeft
  <1>2. /\ ~fault /\ \A u \in Threads : pc[u] = "busy" => conn[u] # NULL
        /\ peak <= max_conn
    <2>1. peak' >= peak /\ peak' \in Nat
      BY <1>0, PeakStep, TypeStep DEF EnoughInv, TypeInv, TypeOK
    <2>2. peak <= max_conn
      BY <1>0, <2>1
    <2>3. QED
      BY <2>2 DEF EnoughInv, EnoughForAll
  <1>3. ASSUME NEW t \in Threads, TakeNothing(t) PROVE FALSE
    <2>1. t \in Users /\ Holders \subseteq Users \ {t} /\ conn_list_ = <<>>
      BY <1>3 DEF TakeNothing, Users, Holders, TypeInv, HoldersBusy
    <2>2. Cardinality(Users \ {t}) = Cardinality(Users) - 1
      BY <1>0, <2>1, RemoveOne
    <2>3. Cardinality(Users \ {t}) < max_conn
      BY <1>0, <1>2, <2>2 DEF PeakInv
    <2>4. Users \ {t} \subseteq Threads
      BY <1>0
    <2>5. QED
      BY <2>1, <2>3, <2>4, OneLeft
  <1> USE <1>2, NullNoConn DEF TypeInv, TypeOK, Goto
  <1>4. ASSUME NEW t \in Threads, TakeConn(t)
        PROVE  ~fault' /\ \A u \in Threads : pc'[u] = "busy" => conn'[u] # NULL
    <2>1. Head(conn_list_) # NULL
      BY <1>4 DEF TakeConn
    <2>2. QED
      BY <1>4, <2>1 DEF TakeConn
  <1>5. ASSUME NEW t \in Threads,
               FindSome(t) \/ Wait(t) \/ WaitInterrupted(t) \/ ReleaseNull(t) \/ Post(t)
        PROVE  ~fault' /\ \A u \in Threads : pc'[u] = "busy" => conn'[u] # NULL
    BY <1>5 DEF FindSome, Wait, WaitInterrupted, ReleaseNull, Post
  <1>6. ASSUME NEW t \in Threads, PutBack(t)
        PROVE  ~fault' /\ \A u \in Threads : pc'[u] = "busy" => conn'[u] # NULL
    BY <1>6 DEF PutBack
  <1>7. CASE UNCHANGED vars
    BY <1>7 DEF vars
  <1>8. QED
    BY <1>1, <1>3, <1>4, <1>5, <1>6, <1>7 DEF Next, Step

\* As long as no more threads use the pool at one time than it has connections
\* get_conn never returns nullptr and never pops from an empty list, even when
\* its waits are interrupted.
THEOREM EnoughConnections == Spec => []EnoughForAll
  <1>1. Init => EnoughInv
    <2>1. SUFFICES ASSUME Init PROVE EnoughInv
      OBVIOUS
    <2>2. Users = {} /\ peak = 0
      BY <2>1 DEF Init, Users
    <2>3. Cardinality(Users) = 0
      BY <2>2, FS_EmptySet
    <2>4. QED
      BY <2>1, <2>2, <2>3 DEF Init, EnoughInv, PeakInv, EnoughForAll
  <1>2. EnoughInv => EnoughForAll
    BY DEF EnoughInv
  <1>3. QED
    BY <1>1, <1>2, EnoughStep, TypeInvariance, CountInvariance, PTL DEF Spec

-----------------------------------------------------------------------------
(* Each connection in one place.                                           *)

LEMMA FreeAfterTake ==
  ASSUME TypeOK, EachConnOnce, NEW t \in Threads, TakeConn(t)
  PROVE  /\ Head(conn_list_) \in Free /\ Free' = Free \ {Head(conn_list_)}
         /\ \A i, j \in DOMAIN conn_list_' : conn_list_'[i] = conn_list_'[j] => i = j
  <1> DEFINE n == Len(conn_list_)
             h == Head(conn_list_)
  <1>1. /\ n \in Nat /\ n >= 1 /\ DOMAIN conn_list_ = 1 .. n /\ h = conn_list_[1]
        /\ DOMAIN conn_list_' = 1 .. (n - 1)
        /\ \A i \in 1 .. (n - 1) : conn_list_'[i] = conn_list_[i + 1]
    BY DEF TakeConn, TypeOK
  <1>2. 1 \in 1 .. n /\ \A i \in 1 .. (n - 1) : i + 1 \in 1 .. n /\ i + 1 # 1
    BY <1>1
  <1>3. \A i \in 1 .. n : i = 1 \/ (i - 1 \in 1 .. (n - 1) /\ (i - 1) + 1 = i)
    BY <1>1
  <1>4. \A i, j \in 1 .. n : conn_list_[i] = conn_list_[j] => i = j
    BY <1>1 DEF EachConnOnce
  <1>5. /\ Free = {conn_list_[i] : i \in 1 .. n}
        /\ Free' = {conn_list_'[i] : i \in 1 .. (n - 1)}
    BY <1>1 DEF Free
  <1>6. h \in Free
    BY <1>1, <1>2, <1>5
  <1>7. ASSUME NEW c \in Free' PROVE c \in Free \ {h}
    <2>1. PICK i \in 1 .. (n - 1) : c = conn_list_'[i]
      BY <1>5, <1>7
    <2>2. c = conn_list_[i + 1]
      BY <1>1, <2>1
    <2>3. QED
      BY <1>1, <1>2, <1>4, <1>5, <2>2
  <1>8. ASSUME NEW c \in Free \ {h} PROVE c \in Free'
    <2>1. PICK i \in 1 .. n : c = conn_list_[i]
      BY <1>5, <1>8
    <2>2. i - 1 \in 1 .. (n - 1) /\ (i - 1) + 1 = i
      BY <1>1, <1>3, <1>8, <2>1
    <2>3. conn_list_'[i - 1] = c
      BY <1>1, <2>1, <2>2
    <2>4. QED
      BY <1>5, <2>2, <2>3
  <1>9. \A i, j \in 1 .. (n - 1) : conn_list_'[i] = conn_list_'[j] => i = j
    <2>1. SUFFICES ASSUME NEW i \in 1 .. (n - 1), NEW j \in 1 .. (n - 1),
                          conn_list_[i + 1] = conn_list_[j + 1]
                   PROVE  i = j
      BY <1>1
    <2>2. i + 1 = j + 1
      BY <1>2, <1>4, <2>1
    <2>3. QED
      BY <2>2
  <1>10. QED
    BY <1>1, <1>6, <1>7, <1>8, <1>9

LEMMA FreeAfterPut ==
  ASSUME TypeOK, EachConnOnce, NEW t \in Holders, PutBack(t)
  PROVE  /\ Free' = Free \cup {conn[t]}
         /\ \A i, j \in DOMAIN conn_list_' : conn_list_'[i] = conn_list_'[j] => i = j
  <1> DEFINE n == Len(conn_list_)
             c == conn[t]
  <1>1. /\ n \in Nat /\ DOMAIN conn_list_ = 1 .. n /\ DOMAIN conn_list_' = 1 .. (n + 1)
        /\ \A i \in 1 .. n : conn_list_'[i] = conn_list_[i]
        /\ conn_list_'[n + 1] = c
    BY DEF PutBack, TypeOK, Holders
  <1>2. \A i \in 1 .. (n + 1) : i \in 1 .. n \/ i = n + 1
    BY <1>1
  <1>3. (\A i \in 1 .. n : i \in 1 .. (n + 1)) /\ n + 1 \in 1 .. (n + 1)
    BY <1>1
  <1>4. Free = {conn_list_[i] : i \in 1 .. n} /\ Free' = {conn_list_'[i] : i \in 1 .. (n + 1)}
    BY <1>1 DEF Free
  <1>5. Free' = Free \cup {c}
    BY <1>1, <1>2, <1>3, <1>4
  <1>6. \A i \in 1 .. n : conn_list_[i] # c
    BY <1>4 DEF EachConnOnce
  <1>7. \A i, j \in 1 .. (n + 1) : conn_list_'[i] = conn_list_'[j] => i = j
    <2>1. SUFFICES ASSUME NEW i \in 1 .. (n + 1), NEW j \in 1 .. (n + 1),
                          conn_list_'[i] = conn_list_'[j]
                   PROVE  i = j
      OBVIOUS
    <2>2. QED
      BY <1>1, <1>2, <1>6, <2>1 DEF EachConnOnce
  <1>8. QED
    BY <1>1, <1>5, <1>7

LEMMA ConnStep == TypeInv /\ EachConnOnce /\ [Next]_vars => EachConnOnce'
  <1> SUFFICES ASSUME TypeInv, EachConnOnce, [Next]_vars PROVE EachConnOnce'
    OBVIOUS
  <1> DEFINE Held == {conn[u] : u \in Holders}
  <1>1. ASSUME NEW t \in Threads, TakeConn(t) PROVE EachConnOnce'
    <2> DEFINE h == Head(conn_list_)
    <2>0. h \in Free /\ Free' = Free \ {h}
      BY <1>1, FreeAfterTake DEF TypeInv
    <2>1. /\ conn' = [conn EXCEPT ![t] = h] /\ conn \in [Threads -> Conns \cup {NULL}]
          /\ h \in Free /\ h # NULL /\ Free' = Free \ {h} /\ t \notin Holders
      BY <1>1, <2>0, NullNoConn
         DEF TakeConn, TypeInv, TypeOK, HoldersBusy, Holders, EachConnOnce
    <2>2. Holders' = Holders \cup {t} /\ conn'[t] = h
          /\ \A u \in Holders : conn'[u] = conn[u] /\ conn[u] # h
      BY <2>1 DEF Holders, EachConnOnce
    <2>3. Held' = Held \cup {h}
      BY <2>1, <2>2
    <2>4. QED
      BY <1>1, <2>1, <2>2, <2>3, FreeAfterTake DEF EachConnOnce, TypeInv
  <1>2. ASSUME NEW t \in Threads, PutBack(t) PROVE EachConnOnce'
    <2>1. /\ conn' = [conn EXCEPT ![t] = NULL] /\ conn \in [Threads -> Conns \cup {NULL}]
          /\ t \in Holders
      BY <1>2 DEF PutBack, TypeInv, TypeOK, Holders
    <2>2. Free' = Free \cup {conn[t]}
      BY <1>2, <2>1, FreeAfterPut DEF TypeInv
    <2>3. Holders' = Holders \ {t}
          /\ \A u \in Holders \ {t} : conn'[u] = conn[u] /\ conn[u] # conn[t]
      BY <2>1 DEF Holders, EachConnOnce
    <2>4. Held = Held' \cup {conn[t]}
      BY <2>1, <2>3
    <2>5. QED
      BY <1>2, <2>1, <2>2, <2>3, <2>4, FreeAfterPut DEF EachConnOnce, TypeInv
  <1>3. CASE UNCHANGED <<conn_list_, conn>>
    BY <1>3 DEF EachConnOnce, Free, Holders
  <1>4. QED
    BY <1>1, <1>2, <1>3
       DEF Next, Step, FindEmpty, FindSome, Wait, WaitInterrupted, TakeNothing, ReleaseNull,
           Post, vars

\* No connection is lost, and no two threads ever use the same one, whatever
\* the unlocked test and the interrupted waits do.
THEOREM ConnsExclusive == Spec => []EachConnOnce
  <1>1. Init => EachConnOnce
    BY ConnPoolAssumption DEF Init, EachConnOnce, Free, Holders, Conns
  <1>2. QED
    BY <1>1, ConnStep, TypeInvariance, PTL DEF Spec
===============================================================================
