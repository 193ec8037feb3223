----------------------------- MODULE BlockingQueue -----------------------------
(***************************************************************************)
(* queue/blocking_queue.h: a circular array with a mutex and a condition   *)
(* variable.  What is done under the mutex is one step; a thread that      *)
(* waits for the condition gives the mutex up, and once it is woken has to *)
(* get it back.  pthread_cond_wait may wake without a broadcast.  Of the   *)
(* timed pop, when it times out is left open: its deadline is computed     *)
(* without the current microseconds.                                       *)
(***************************************************************************)
EXTENDS Integers, Sequences

CONSTANTS Consumers,   \* the threads that call pop
          Items,       \* the values of T
          max_size_

ASSUME BlockingQueueAssumption ==
    /\ max_size_ \in Nat \ {0}
    /\ Items # {}

VARIABLES array_, size_, front_, back_,
          pc,     \* where each consumer is in pop
          item    \* the reference parameter of pop

vars  == <<array_, size_, front_, back_, pc, item>>
array == <<array_, size_, front_, back_>>

\* "wait" and "timewait" hold no mutex; "woken" and "timewoken" ask for it,
\* and so does "expired", whose timewait has failed.
Waiting == {"wait", "timewait"}
Labels  == Waiting \cup {"idle", "woken", "timewoken", "expired"}

TypeOK ==
    /\ array_ \in [0 .. max_size_ - 1 -> Items]
    /\ size_ \in 0 .. max_size_
    /\ front_ \in -1 .. max_size_ - 1 /\ back_ \in -1 .. max_size_ - 1
    /\ pc \in [Consumers -> Labels]
    /\ item \in [Consumers -> Items]

\* The constructor; the items of a new array are those of T().
Init ==
    /\ \E x \in Items :
          /\ array_ = [i \in 0 .. max_size_ - 1 |-> x]
          /\ item = [c \in Consumers |-> x]
    /\ size_ = 0 /\ front_ = -1 /\ back_ = -1
    /\ pc = [c \in Consumers |-> "idle"]

Next1(i) == (i + 1) % max_size_
Goto(c, label) == pc' = [pc EXCEPT ![c] = label]

\* Mutants of Broadcast: one of them is woken, or none.
Signal ==
    IF \E c \in Consumers : pc[c] \in Waiting
    THEN \E c \in Consumers : pc[c] \in Waiting
            /\ Goto(c, IF pc[c] = "wait" THEN "woken" ELSE "timewoken")
    ELSE UNCHANGED pc

WakeNone == UNCHANGED pc

\* cond_.broadcast(): all that wait are woken.
Broadcast ==
    pc' = [c \in Consumers |-> CASE pc[c] = "wait"     -> "woken"
                                 [] pc[c] = "timewait" -> "timewoken"
                                 [] OTHER              -> pc[c]]

-----------------------------------------------------------------------------
\* push finds the queue full.
PushFull ==
    /\ size_ >= max_size_
    /\ Broadcast
    /\ UNCHANGED <<array, item>>

\* Mutant of Push: the item is stored before back_ moves on.
PushBefore(x) ==
    /\ size_ < max_size_
    /\ back_' = Next1(back_)
    /\ array_' = [array_ EXCEPT ![IF back_ = -1 THEN 0 ELSE back_] = x]
    /\ size_' = size_ + 1
    /\ Broadcast
    /\ UNCHANGED <<front_, item>>

Push(x) ==
    /\ size_ < max_size_
    /\ back_' = Next1(back_)
    /\ array_' = [array_ EXCEPT ![back_'] = x]
    /\ size_' = size_ + 1
    /\ Broadcast
    /\ UNCHANGED <<front_, item>>

\* The end of pop, for a thread that has the mutex.
TakeFront(c) ==
    /\ front_' = Next1(front_)
    /\ item' = [item EXCEPT ![c] = array_[front_']]
    /\ size_' = size_ - 1
    /\ Goto(c, "idle")
    /\ UNCHANGED <<array_, back_>>

\* pop, with and without a timeout, when there is an item.
PopNow(c) == pc[c] = "idle" /\ size_ > 0 /\ TakeFront(c)

PopWaits(c) ==
    /\ pc[c] = "idle" /\ size_ <= 0
    /\ Goto(c, "wait") \/ Goto(c, "timewait")
    /\ UNCHANGED <<array, item>>

\* Mutant of PopWoken: if for while.
PopUnchecked(c) == pc[c] \in {"woken", "timewoken"} /\ TakeFront(c)

PopWoken(c) == pc[c] \in {"woken", "timewoken"} /\ size_ > 0 /\ TakeFront(c)

\* Another consumer was faster.  The timed pop gives up, the other waits on.
PopTooLate(c) ==
    /\ size_ <= 0
    /\ \/ pc[c] = "woken" /\ Goto(c, "wait")
       \/ pc[c] = "timewoken" /\ Goto(c, "idle")
    /\ UNCHANGED <<array, item>>

\* The thread wakes though nobody called broadcast.
WakeUp(c) ==
    /\ \/ pc[c] = "wait" /\ Goto(c, "woken")
       \/ pc[c] = "timewait" /\ Goto(c, "timewoken")
    /\ UNCHANGED <<array, item>>

\* timewait fails; pop gives up, whether there is an item by then or not.
Expire(c) ==
    /\ pc[c] = "timewait" /\ Goto(c, "expired")
    /\ UNCHANGED <<array, item>>

PopExpired(c) ==
    /\ pc[c] = "expired" /\ Goto(c, "idle")
    /\ UNCHANGED <<array, item>>

Clear ==
    /\ size_' = 0 /\ front_' = -1 /\ back_' = -1
    /\ UNCHANGED <<array_, pc, item>>

-----------------------------------------------------------------------------
Pop(c) == PopNow(c) \/ PopWaits(c) \/ PopWoken(c) \/ PopTooLate(c) \/ PopExpired(c)

Next == \/ PushFull \/ Clear \/ \E x \in Items : Push(x)
        \/ \E c \in Consumers : Pop(c) \/ WakeUp(c) \/ Expire(c)

Spec == Init /\ [][Next]_vars

\* A consumer calls pop again and again (Log::async_write_log does), and gets
\* the mutex in the end.
FairSpec == Spec /\ \A c \in Consumers : WF_vars(Pop(c))

-----------------------------------------------------------------------------
(* Properties.                                                             *)

\* No consumer sleeps while there is an item: a push wakes all that wait, and
\* nobody goes to sleep without having seen the queue empty.
NoneSleeps == size_ > 0 => \A c \in Consumers : pc[c] \notin Waiting

\* The circular array is a bounded first-in first-out queue: its contents are
\* the size_ items after front_, and every operation acts on them as promised.
Contents == [i \in 1 .. size_ |-> array_[(front_ + i) % max_size_]]

BQ == INSTANCE BoundedQueue WITH queue <- Contents

RefinesQueue == BQ!Spec

\* back() gives the item that was pushed last, whatever was popped, cleared
\* and pushed before: the two indices and the size stay consistent.
BackIsLast == size_ > 0 => back_ >= 0 /\ array_[back_] = Contents[size_]

\* The first item does not stay first for ever, however the consumers race.
FrontMoves == \A i \in -1 .. max_size_ - 1 :
                 (size_ > 0 /\ front_ = i) ~> (size_ = 0 \/ front_ # i)
===============================================================================
