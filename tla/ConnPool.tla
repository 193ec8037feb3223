-------------------------------- MODULE ConnPool --------------------------------
(***************************************************************************)
(* cgi-mysql/mysql_conn.h and mysql_conn.cc: the pool of database          *)
(* connections.  A worker thread takes a connection for the time it        *)
(* processes one request (ConnRaii in ThreadPool::run) and gives it back.  *)
(* get_conn looks at the size of the list without the mutex, then waits    *)
(* for the semaphore, then pops under the mutex; rel_conn pushes under the *)
(* mutex and posts after it.  What is done under the mutex is one step.    *)
(* Sem::wait returns early when a signal interrupts it, and get_conn       *)
(* ignores that.                                                           *)
(*                                                                         *)
(* Connection i is the i-th that init opened.                              *)
(***************************************************************************)
EXTENDS Integers, Sequences, FiniteSets

CONSTANTS Threads,      \* the threads that use the pool
          max_conn,     \* the number of connections init opens
          MaxInterrupts \* bound: how often a signal interrupts sem_wait

ASSUME ConnPoolAssumption ==
    /\ IsFiniteSet(Threads)
    /\ max_conn \in Nat
    /\ MaxInterrupts \in Nat

VARIABLES conn_list_,   \* the free connections
          sem_,         \* the value of the semaphore
          free_conn_, curr_conn_,  \* the counters of free and of used ones
          pc,           \* where each thread is in get_conn or rel_conn
          conn,         \* ConnRaii::conn_ of each thread
          interrupts,   \* how often a wait was interrupted
          peak,         \* history: the most threads that used the pool at one time
          fault         \* front and pop_front were called on an empty list

vars == <<conn_list_, sem_, free_conn_, curr_conn_, pc, conn, interrupts, peak, fault>>

Conns == 1 .. max_conn
NULL  == 0

\* get_conn has returned in "busy": with a connection, or with nullptr.
Labels == {"idle", "wait", "lock", "busy", "post"}

TypeOK ==
    /\ conn_list_ \in Seq(Conns)
    /\ sem_ \in Nat
    /\ free_conn_ \in Int /\ curr_conn_ \in Int
    /\ pc \in [Threads -> Labels]
    /\ conn \in [Threads -> Conns \cup {NULL}]
    /\ interrupts \in 0 .. MaxInterrupts
    /\ peak \in Nat
    /\ fault \in BOOLEAN

\* ConnPool::init.
Init ==
    /\ conn_list_ = [i \in 1 .. max_conn |-> i]
    /\ sem_ = max_conn /\ free_conn_ = max_conn /\ curr_conn_ = 0
    /\ pc = [t \in Threads |-> "idle"]
    /\ conn = [t \in Threads |-> NULL]
    /\ interrupts = 0 /\ peak = 0 /\ fault = FALSE

Goto(t, label) == pc' = [pc EXCEPT ![t] = label]
counters == <<free_conn_, curr_conn_>>

\* The threads between the call of get_conn and the return of rel_conn.
Users == {t \in Threads : pc[t] # "idle"}
CountPeak == peak' = IF Cardinality(Users) < peak THEN peak ELSE Cardinality(Users) + 1

-----------------------------------------------------------------------------
(* get_conn.                                                               *)

\* Mutant of FindEmpty: the test is off by one.
FindOneLeft(t) ==
    /\ pc[t] = "idle" /\ Len(conn_list_) <= 1
    /\ Goto(t, "busy") /\ CountPeak
    /\ UNCHANGED <<conn_list_, sem_, counters, conn, interrupts, fault>>

FindEmpty(t) ==
    /\ pc[t] = "idle" /\ conn_list_ = <<>>
    /\ Goto(t, "busy") /\ CountPeak
    /\ UNCHANGED <<conn_list_, sem_, counters, conn, interrupts, fault>>

\* Mutant of FindSome: the unlocked test is trusted, and nobody waits.
FindSomeNoWait(t) ==
    /\ pc[t] = "idle" /\ conn_list_ # <<>>
    /\ Goto(t, "lock") /\ CountPeak
    /\ UNCHANGED <<conn_list_, sem_, counters, conn, interrupts, fault>>

FindSome(t) ==
    /\ pc[t] = "idle" /\ conn_list_ # <<>>
    /\ Goto(t, "wait") /\ CountPeak
    /\ UNCHANGED <<conn_list_, sem_, counters, conn, interrupts, fault>>

\* Mutant of Wait: the thread waits until no connection is in use.
WaitForAll(t) ==
    /\ pc[t] = "wait" /\ sem_ >= max_conn
    /\ sem_' = sem_ - 1
    /\ Goto(t, "lock")
    /\ UNCHANGED <<conn_list_, counters, conn, interrupts, peak, fault>>

Wait(t) ==
    /\ pc[t] = "wait" /\ sem_ > 0
    /\ sem_' = sem_ - 1
    /\ Goto(t, "lock")
    /\ UNCHANGED <<conn_list_, counters, conn, interrupts, peak, fault>>

WaitInterrupted(t) ==
    /\ pc[t] = "wait" /\ interrupts < MaxInterrupts
    /\ interrupts' = interrupts + 1
    /\ Goto(t, "lock")
    /\ UNCHANGED <<conn_list_, sem_, counters, conn, peak, fault>>

\* Mutant of TakeConn: front without pop_front.
TakeWithoutPop(t) ==
    /\ pc[t] = "lock" /\ conn_list_ # <<>>
    /\ conn' = [conn EXCEPT ![t] = Head(conn_list_)]
    /\ free_conn_' = free_conn_ - 1 /\ curr_conn_' = curr_conn_ + 1
    /\ Goto(t, "busy")
    /\ UNCHANGED <<conn_list_, sem_, interrupts, peak, fault>>

TakeConn(t) ==
    /\ pc[t] = "lock" /\ conn_list_ # <<>>
    /\ conn' = [conn EXCEPT ![t] = Head(conn_list_)]
    /\ conn_list_' = Tail(conn_list_)
    /\ free_conn_' = free_conn_ - 1 /\ curr_conn_' = curr_conn_ + 1
    /\ Goto(t, "busy")
    /\ UNCHANGED <<sem_, interrupts, peak, fault>>

\* front and pop_front of an empty list are undefined: the program stops.
TakeNothing(t) ==
    /\ pc[t] = "lock" /\ conn_list_ = <<>>
    /\ fault' = TRUE
    /\ UNCHANGED <<conn_list_, sem_, counters, pc, conn, interrupts, peak>>

-----------------------------------------------------------------------------
(* rel_conn, which the destructor of ConnRaii calls.                       *)

ReleaseNull(t) ==
    /\ pc[t] = "busy" /\ conn[t] = NULL
    /\ Goto(t, "idle")
    /\ UNCHANGED <<conn_list_, sem_, counters, conn, interrupts, peak, fault>>

PutBack(t) ==
    /\ pc[t] = "busy" /\ conn[t] # NULL
    /\ conn_list_' = Append(conn_list_, conn[t])
    /\ conn' = [conn EXCEPT ![t] = NULL]
    /\ free_conn_' = free_conn_ + 1 /\ curr_conn_' = curr_conn_ - 1
    /\ Goto(t, "post")
    /\ UNCHANGED <<sem_, interrupts, peak, fault>>

\* Mutant of Post: only the connection that ends an empty list is announced.
PostWhenAlone(t) ==
    /\ pc[t] = "post"
    /\ sem_' = sem_ + (IF Len(conn_list_) = 1 THEN 1 ELSE 0)
    /\ Goto(t, "idle")
    /\ UNCHANGED <<conn_list_, counters, conn, interrupts, peak, fault>>

Post(t) ==
    /\ pc[t] = "post"
    /\ sem_' = sem_ + 1
    /\ Goto(t, "idle")
    /\ UNCHANGED <<conn_list_, counters, conn, interrupts, peak, fault>>

-----------------------------------------------------------------------------
Step(t) == \/ FindEmpty(t) \/ FindSome(t) \/ Wait(t) \/ TakeConn(t) \/ TakeNothing(t)
           \/ ReleaseNull(t) \/ PutBack(t) \/ Post(t)

Next == ~fault /\ \E t \in Threads : Step(t) \/ WaitInterrupted(t)

Spec == Init /\ [][Next]_vars

\* Each thread runs on: it does not keep a connection for ever, and takes the
\* semaphore or the mutex when it can.  (It need not win the semaphore: the
\* fairness is weak.)
FairSpec == Spec /\ \A t \in Threads : WF_vars(~fault /\ Step(t))

-----------------------------------------------------------------------------
(* Properties.                                                             *)

At(label) == {t \in Threads : pc[t] = label}
Holders   == {t \in Threads : conn[t] # NULL}
Free      == {conn_list_[i] : i \in DOMAIN conn_list_}

\* A connection is never lost and never in two places: it is once in the list
\* or in the hands of one thread, so no two requests use the same one.
EachConnOnce ==
    /\ Conns = Free \cup {conn[t] : t \in Holders}
    /\ \A t \in Holders : conn[t] \notin Free
    /\ \A t, u \in Holders : conn[t] = conn[u] => t = u
    /\ \A i, j \in DOMAIN conn_list_ : conn_list_[i] = conn_list_[j] => i = j

\* The two counters say how many connections are free and how many are used.
CountersExact ==
    /\ free_conn_ = Len(conn_list_)
    /\ curr_conn_ = Cardinality(Holders)
    /\ free_conn_ + curr_conn_ = max_conn

\* No thread waits for ever while a connection lies in the list: the list has
\* no more connections than the semaphore and the threads under way announce.
NoStrandedConn ==
    Len(conn_list_) <= sem_ + Cardinality(At("lock")) + Cardinality(At("post"))

\* Nobody pops from an empty list, however many threads passed the unlocked
\* test and however far rel_conn is between its push and its post, as long as no
\* wait was interrupted: a thread at the lock holds a token, and no connection
\* is announced before it lies in the list.
NoFaultUninterrupted == interrupts = 0 => ~fault

\* As long as no more threads use the pool at one time than it has connections
\* (the default is 8 threads and 8 connections) neither the unlocked test of
\* get_conn nor an interrupted wait does harm: no thread is left without a
\* connection and none pops from an empty list.
EnoughForAll ==
    peak <= max_conn =>
        /\ ~fault
        /\ \A t \in Threads : pc[t] = "busy" => conn[t] # NULL

\* And no thread waits for ever then, whatever the others do and however often
\* a wait is interrupted.
EveryWaiterServed ==
    \A t \in Threads : pc[t] = "wait" ~> pc[t] = "busy" \/ peak > max_conn
===============================================================================
