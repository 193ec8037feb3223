------------------------------ MODULE ThreadPool ------------------------------
(***************************************************************************)
(* thread/thread_pool.h: the request queue between the main thread, which  *)
(* appends, and the worker threads, which take.  The list is guarded by    *)
(* queue_mutex_, and queue_sem_ counts the requests in it -- but only      *)
(* approximately: append posts after it has unlocked, a worker locks after *)
(* it has waited, and Sem::wait (lock/lock.h) returns at once when a signal*)
(* interrupts it, a result that run ignores.                               *)
(*                                                                         *)
(* What is written under the mutex is one step; the semaphore operations   *)
(* before and after it are steps of their own.  A request is named by the  *)
(* call of append that brought it: 1 is the first, 2 the second, ...       *)
(***************************************************************************)
EXTENDS Integers, Sequences, FiniteSets

CONSTANTS Workers,        \* the threads of the pool
          max_requests_,  \* the limit given to the constructor
          MaxAppends,     \* bound: the number of calls of append
          Interrupts      \* whether a signal may interrupt sem_wait

ASSUME ThreadPoolAssumption ==
    /\ IsFiniteSet(Workers)
    /\ max_requests_ \in Nat \ {0}
    /\ MaxAppends \in Nat
    /\ Interrupts \in BOOLEAN

VARIABLES workqueue_,     \* the list of requests
          queue_sem_,     \* the value of the semaphore
          appends,        \* how many calls of append were made
          posting,        \* append has unlocked and not yet posted
          refused,        \* the requests for which append returned false
          pc,             \* where each worker is in run
          request,        \* the local variable request of each worker
          done            \* the requests that were processed

vars == <<workqueue_, queue_sem_, appends, posting, refused, pc, request, done>>

Requests == 1 .. MaxAppends
None     == 0

TypeOK ==
    /\ workqueue_ \in Seq(Requests)
    /\ queue_sem_ \in Nat
    /\ appends \in 0 .. MaxAppends
    /\ posting \in BOOLEAN
    /\ refused \subseteq Requests
    /\ pc \in [Workers -> {"wait", "lock", "work"}]
    /\ request \in [Workers -> Requests \cup {None}]
    /\ done \subseteq Requests

Init ==
    /\ workqueue_ = <<>> /\ queue_sem_ = 0
    /\ appends = 0 /\ posting = FALSE /\ refused = {}
    /\ pc = [w \in Workers |-> "wait"]
    /\ request = [w \in Workers |-> None]
    /\ done = {}

Goto(w, label) == pc' = [pc EXCEPT ![w] = label]

-----------------------------------------------------------------------------
(* The main thread.                                                        *)

\* The test of append against its limit.
Full == Len(workqueue_) > max_requests_

AppendRefused ==
    /\ ~posting /\ appends < MaxAppends /\ Full
    /\ appends' = appends + 1
    /\ refused' = refused \cup {appends + 1}
    /\ UNCHANGED <<workqueue_, queue_sem_, posting, pc, request, done>>

\* Mutant of AppendRequest: the new request goes to the front of the list.
PushFront ==
    /\ ~posting /\ appends < MaxAppends /\ ~Full
    /\ appends' = appends + 1
    /\ workqueue_' = <<appends + 1>> \o workqueue_
    /\ posting' = TRUE
    /\ UNCHANGED <<queue_sem_, refused, pc, request, done>>

AppendRequest ==
    /\ ~posting /\ appends < MaxAppends /\ ~Full
    /\ appends' = appends + 1
    /\ workqueue_' = Append(workqueue_, appends + 1)
    /\ posting' = TRUE
    /\ UNCHANGED <<queue_sem_, refused, pc, request, done>>

\* Mutant of Post: only the request that ends an empty queue wakes a worker.
PostWhenAlone ==
    /\ posting
    /\ queue_sem_' = queue_sem_ + (IF Len(workqueue_) = 1 THEN 1 ELSE 0)
    /\ posting' = FALSE
    /\ UNCHANGED <<workqueue_, appends, refused, pc, request, done>>

Post ==
    /\ posting
    /\ queue_sem_' = queue_sem_ + 1
    /\ posting' = FALSE
    /\ UNCHANGED <<workqueue_, appends, refused, pc, request, done>>

-----------------------------------------------------------------------------
(* The workers.                                                            *)

Wait(w) ==
    /\ pc[w] = "wait" /\ queue_sem_ > 0
    /\ queue_sem_' = queue_sem_ - 1
    /\ Goto(w, "lock")
    /\ UNCHANGED <<workqueue_, appends, posting, refused, request, done>>

\* A handler that was installed without SA_RESTART ran on this thread.
WaitInterrupted(w) ==
    /\ Interrupts
    /\ pc[w] = "wait"
    /\ Goto(w, "lock")
    /\ UNCHANGED <<workqueue_, queue_sem_, appends, posting, refused, request, done>>

FindEmpty(w) ==
    /\ pc[w] = "lock" /\ workqueue_ = <<>>
    /\ Goto(w, "wait")
    /\ UNCHANGED <<workqueue_, queue_sem_, appends, posting, refused, request, done>>

\* Mutant of Take: front without pop_front.
TakeWithoutPop(w) ==
    /\ pc[w] = "lock" /\ workqueue_ # <<>>
    /\ request' = [request EXCEPT ![w] = Head(workqueue_)]
    /\ Goto(w, "work")
    /\ UNCHANGED <<workqueue_, queue_sem_, appends, posting, refused, done>>

Take(w) ==
    /\ pc[w] = "lock" /\ workqueue_ # <<>>
    /\ request' = [request EXCEPT ![w] = Head(workqueue_)]
    /\ workqueue_' = Tail(workqueue_)
    /\ Goto(w, "work")
    /\ UNCHANGED <<queue_sem_, appends, posting, refused, done>>

\* What a worker does with a request (read_once, process, write) is Server's.
Finish(w) ==
    /\ pc[w] = "work"
    /\ done' = done \cup {request[w]}
    /\ request' = [request EXCEPT ![w] = None]
    /\ Goto(w, "wait")
    /\ UNCHANGED <<workqueue_, queue_sem_, appends, posting, refused>>

-----------------------------------------------------------------------------
Main      == AppendRefused \/ AppendRequest \/ Post
Run(w)    == Wait(w) \/ FindEmpty(w) \/ Take(w) \/ Finish(w)
Next      == Main \/ \E w \in Workers : Run(w) \/ WaitInterrupted(w)

Spec == Init /\ [][Next]_vars

\* append does not stop between unlock and post, and each worker runs on: a
\* request is processed in finite time, and a thread that can take the
\* semaphore or the mutex does so.
FairSpec == /\ Spec
            /\ WF_vars(Post)
            /\ \A w \in Workers : WF_vars(Run(w))

-----------------------------------------------------------------------------
(* Properties.                                                             *)

AtLock  == {w \in Workers : pc[w] = "lock"}
Unposted == IF posting THEN 1 ELSE 0

\* No request is left in the queue while all workers sleep: each request in
\* the queue has a token in the semaphore, a worker that is on its way to the
\* queue, or a post that is still to come.
NoStrandedRequest ==
    Len(workqueue_) <= queue_sem_ + Cardinality(AtLock) + Unposted

\* Without interrupted waits a worker that has locked finds a request; the
\* test for an empty queue in run only serves the interrupted ones.
EmptyOnlyInterrupted ==
    ~Interrupts => Cardinality(AtLock) <= Len(workqueue_)

\* The queue is bounded: append refuses once it is over the limit.  (The comment
\* at max_requests_ has it one lower.)
Bounded == Len(workqueue_) <= max_requests_ + 1

Queued  == {workqueue_[i] : i \in DOMAIN workqueue_}
Running == {request[w] : w \in Workers} \ {None}

\* Every request that append took is in one place: queued once, or in the
\* hands of one worker, or done.  None is lost and none is served twice.
EachRequestOnce ==
    /\ (1 .. appends) \ refused = Queued \cup Running \cup done
    /\ Queued \cap Running = {} /\ Queued \cap done = {} /\ Running \cap done = {}
    /\ \A i, j \in DOMAIN workqueue_ : workqueue_[i] = workqueue_[j] => i = j
    /\ \A v, w \in Workers : request[v] = request[w] /\ v # w => request[v] = None

\* Requests leave the queue in the order in which they were appended.
FirstComeFirstServed ==
    /\ \A i, j \in DOMAIN workqueue_ : i < j => workqueue_[i] < workqueue_[j]
    /\ \A r \in Running \cup done, q \in Queued : r < q

\* Every request that append took is processed in the end.
EveryRequestServed == \A r \in Requests : r \in Queued ~> r \in done
===============================================================================
