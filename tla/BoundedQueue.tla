------------------------------ MODULE BoundedQueue ------------------------------
(***************************************************************************)
(* What BlockingQueue promises: a queue of at most max_size_ items, first  *)
(* in, first out.  push gives up when the queue is full; a pop gives its   *)
(* thread the first item, or, with a timeout, may come back without one.   *)
(***************************************************************************)
EXTENDS Integers, Sequences

CONSTANTS Consumers, Items, max_size_

VARIABLES queue,   \* the items, the oldest first
          item     \* the last item each consumer got

vars == <<queue, item>>

Init ==
    /\ queue = <<>>
    /\ item \in [Consumers -> Items]

Push(x) ==
    /\ Len(queue) < max_size_
    /\ queue' = Append(queue, x)
    /\ UNCHANGED item

Pop(c) ==
    /\ queue # <<>>
    /\ item' = [item EXCEPT ![c] = Head(queue)]
    /\ queue' = Tail(queue)

Clear == queue' = <<>> /\ UNCHANGED item

Next == Clear \/ (\E x \in Items : Push(x)) \/ (\E c \in Consumers : Pop(c))

Spec == Init /\ [][Next]_vars
===============================================================================
