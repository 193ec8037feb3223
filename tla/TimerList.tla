------------------------------ MODULE TimerList ------------------------------
(***************************************************************************)
(* timer/timer.h and timer/timer.cc: the doubly linked list of connection  *)
(* timers, kept in ascending order of expiry, with the three places of     *)
(* server/server.cc that stamp a timer with time(nullptr) + 3 * TIMESLOT.  *)
(*                                                                         *)
(* The heap is explicit: the fields of every TimerUtil are functions from  *)
(* timers, live is the set of timers that were allocated and not deleted,  *)
(* and a step that dereferences a null or a freed pointer stops the        *)
(* program with fault = TRUE.  All operations run on the main thread, one  *)
(* at a time; the two loops (the private add_timer and tick) take one step *)
(* per iteration.                                                          *)
(***************************************************************************)
EXTENDS Integers

CONSTANTS Timers,      \* the addresses a TimerUtil may have
          NULL,        \* nullptr
          TIMESLOT,    \* Server::TIMESLOT, in seconds
          MaxTime      \* bound: the clock stops here

ASSUME TimerListAssumption ==
    /\ NULL \notin Timers
    /\ TIMESLOT \in Nat \ {0}
    /\ MaxTime \in Nat

VARIABLES now,         \* what time(nullptr) returns: the wall clock
          clock,       \* "forward" until it is set back, then "setback"
          live,        \* the timers that are allocated
          expire, next, pre,   \* the fields of each TimerUtil
          head_, tail_,        \* the fields of TimerList
          op,          \* the operation in progress, or "idle"
          timer,       \* the argument of the private add_timer
          walk,        \* its local variable pre; its temp is next[walk]
          curr,        \* the local variable of tick
          fault        \* a null or freed pointer was dereferenced

fields == <<expire, next, pre>>
ends   == <<head_, tail_>>
locals == <<timer, walk, curr>>
vars   == <<now, clock, live, fields, ends, op, locals, fault>>

Pointers == Timers \cup {NULL}

\* A connection may be silent for three time slots.
Lifetime == 3 * TIMESLOT
Ops      == {"idle", "walk", "tick", "destroy", "gone"}

TypeOK ==
    /\ now \in Nat /\ clock \in {"forward", "setback"}
    /\ live \subseteq Timers
    /\ expire \in [Timers -> Nat]
    /\ next \in [Timers -> Pointers] /\ pre \in [Timers -> Pointers]
    /\ head_ \in Pointers /\ tail_ \in Pointers
    /\ op \in Ops
    /\ timer \in Pointers /\ walk \in Pointers
    /\ curr \in Nat
    /\ fault \in BOOLEAN

Init ==
    /\ now = 0 /\ clock = "forward" /\ live = {}
    /\ expire = [t \in Timers |-> 0]
    /\ next = [t \in Timers |-> NULL] /\ pre = [t \in Timers |-> NULL]
    /\ head_ = NULL /\ tail_ = NULL
    /\ op = "idle" /\ timer = NULL /\ walk = NULL /\ curr = 0
    /\ fault = FALSE

\* No operation is in progress and none has crashed the program.
Idle == op = "idle" /\ ~fault

\* The program stops at the dereference of p when p is null or freed.
Dangling(p) == p \notin live
Crash == fault' = TRUE /\ UNCHANGED <<now, clock, live, next, pre, ends, op, locals>>

-----------------------------------------------------------------------------
(* The clock.                                                              *)

AdvanceClock == /\ Idle /\ now < MaxTime
                /\ now' = now + 1
                /\ UNCHANGED <<clock, live, fields, ends, op, locals, fault>>

SetClockBack == /\ Idle
                /\ now' \in 0 .. (now - 1)
                /\ clock' = "setback"
                /\ UNCHANGED <<live, fields, ends, op, locals, fault>>

-----------------------------------------------------------------------------
(* Insertion: Server::init_timer allocates a timer and calls add_timer.    *)

\* The private add_timer(t, h): the loop begins with pre = h, temp = h->next.
StartWalk(t, h) == /\ op' = "walk" /\ timer' = t /\ walk' = h
                   /\ UNCHANGED curr

InitTimer(t) ==
    LET e == now + Lifetime IN
    /\ Idle /\ t \notin live
    /\ live' = live \cup {t}
    /\ expire' = [expire EXCEPT ![t] = e]
    /\ \/ /\ head_ = NULL
          /\ head_' = t /\ tail_' = t
          /\ next' = [next EXCEPT ![t] = NULL] /\ pre' = [pre EXCEPT ![t] = NULL]
          /\ UNCHANGED <<op, locals>>
       \/ /\ head_ # NULL /\ e < expire[head_]
          /\ next' = [next EXCEPT ![t] = head_]
          /\ pre' = [pre EXCEPT ![t] = NULL, ![head_] = t]
          /\ head_' = t
          /\ UNCHANGED <<tail_, op, locals>>
       \/ /\ head_ # NULL /\ e >= expire[head_]
          /\ next' = [next EXCEPT ![t] = NULL] /\ pre' = [pre EXCEPT ![t] = NULL]
          /\ StartWalk(t, head_)
          /\ UNCHANGED ends
    /\ UNCHANGED <<now, clock, fault>>

Walking == op = "walk" /\ ~fault
EndWalk == op' = "idle" /\ timer' = NULL /\ walk' = NULL /\ UNCHANGED curr

WalkOn ==
    /\ Walking /\ next[walk] # NULL
    /\ expire[timer] >= expire[next[walk]]
    /\ walk' = next[walk]
    /\ UNCHANGED <<now, clock, live, fields, ends, op, timer, curr, fault>>

WalkInsert ==
    /\ Walking /\ next[walk] # NULL
    /\ expire[timer] < expire[next[walk]]
    /\ next' = [next EXCEPT ![walk] = timer, ![timer] = next[walk]]
    /\ pre' = [pre EXCEPT ![next[walk]] = timer, ![timer] = walk]
    /\ EndWalk
    /\ UNCHANGED <<now, clock, live, expire, ends, fault>>

\* Mutant of WalkAppend: a moved timer keeps its old successor.
WalkAppendKeepingNext ==
    /\ Walking /\ next[walk] = NULL
    /\ next' = [next EXCEPT ![walk] = timer]
    /\ pre' = [pre EXCEPT ![timer] = walk]
    /\ tail_' = timer
    /\ EndWalk
    /\ UNCHANGED <<now, clock, live, expire, head_, fault>>

WalkAppend ==
    /\ Walking /\ next[walk] = NULL
    /\ next' = [next EXCEPT ![walk] = timer, ![timer] = NULL]
    /\ pre' = [pre EXCEPT ![timer] = walk]
    /\ tail_' = timer
    /\ EndWalk
    /\ UNCHANGED <<now, clock, live, expire, head_, fault>>

-----------------------------------------------------------------------------
(* Server::delay_timer: a new expiry, then TimerList::modify_timer.        *)

\* modify_timer leaves t where it is.
StaysInPlace(t, e) == next[t] # NULL => e < expire[next[t]]

\* The branch meant for the head.  Its test is temp == head_, where temp is
\* the successor of t.
MoveHead(t) ==
    IF Dangling(next[head_]) THEN Crash
    ELSE /\ head_' = next[head_]
         /\ pre' = [pre EXCEPT ![next[head_]] = NULL]
         /\ next' = [next EXCEPT ![t] = NULL]
         /\ StartWalk(t, next[head_])
         /\ UNCHANGED <<now, clock, live, tail_, fault>>

MoveInner(t) ==
    IF Dangling(pre[t]) THEN Crash
    ELSE /\ next' = [next EXCEPT ![pre[t]] = next[t]]
         /\ pre' = [pre EXCEPT ![next[t]] = pre[t]]
         /\ StartWalk(t, next[t])
         /\ UNCHANGED <<now, clock, live, ends, fault>>

DelayTimer(t) ==
    LET e == now + Lifetime IN
    /\ Idle /\ t \in live
    /\ expire' = [expire EXCEPT ![t] = e]
    /\ \/ /\ StaysInPlace(t, e)
          /\ UNCHANGED <<now, clock, live, next, pre, ends, op, locals, fault>>
       \/ /\ ~StaysInPlace(t, e)
          /\ IF next[t] = head_ THEN MoveHead(t) ELSE MoveInner(t)

-----------------------------------------------------------------------------
(* TimerList::del_timer, called by Server::close_conn.                     *)

\* Mutants of DelTimer: the case of a single timer is forgotten; the case of
\* the last timer does not update tail_.
DelTimerNoSingle(t) ==
    /\ Idle /\ t \in live
    /\ live' = live \ {t}
    /\ \/ /\ t = head_
          /\ head_' = next[t]
          /\ pre' = [pre EXCEPT ![next[t]] = NULL]
          /\ fault' = Dangling(next[t])
          /\ UNCHANGED <<next, tail_>>
       \/ /\ t # head_ /\ t = tail_
          /\ tail_' = pre[t]
          /\ next' = [next EXCEPT ![pre[t]] = NULL]
          /\ fault' = Dangling(pre[t])
          /\ UNCHANGED <<pre, head_>>
    /\ UNCHANGED <<now, clock, expire, op, locals>>

DelTimerKeepingTail(t) ==
    /\ Idle /\ t \in live
    /\ live' = live \ {t}
    /\ \/ /\ t = head_ /\ t = tail_
          /\ head_' = NULL /\ tail_' = NULL
          /\ UNCHANGED next
       \/ /\ t # head_ /\ t = tail_
          /\ next' = [next EXCEPT ![pre[t]] = NULL]
          /\ UNCHANGED ends
    /\ UNCHANGED <<now, clock, expire, pre, op, locals, fault>>

DelTimer(t) ==
    /\ Idle /\ t \in live
    /\ live' = live \ {t}
    /\ \/ /\ t = head_ /\ t = tail_
          /\ head_' = NULL /\ tail_' = NULL
          /\ UNCHANGED <<next, pre, fault>>
       \/ /\ t = head_ /\ t # tail_
          /\ head_' = next[t]
          /\ pre' = [pre EXCEPT ![next[t]] = NULL]
          /\ fault' = Dangling(next[t])
          /\ UNCHANGED <<next, tail_>>
       \/ /\ t # head_ /\ t = tail_
          /\ tail_' = pre[t]
          /\ next' = [next EXCEPT ![pre[t]] = NULL]
          /\ fault' = Dangling(pre[t])
          /\ UNCHANGED <<pre, head_>>
       \/ /\ t # head_ /\ t # tail_
          /\ next' = [next EXCEPT ![pre[t]] = next[t]]
          /\ pre' = [pre EXCEPT ![next[t]] = pre[t]]
          /\ fault' = (Dangling(pre[t]) \/ Dangling(next[t]))
          /\ UNCHANGED ends
    /\ UNCHANGED <<now, clock, expire, op, locals>>

-----------------------------------------------------------------------------
(* TimerList::tick, called when a SIGALRM was received.                    *)

\* Mutant of Due: a timer that expires at the very second of the tick waits.
DueStrictly(t) == curr > expire[t]

\* The loop of tick goes on as long as its first timer is due.
Due(t) == curr >= expire[t]

BeginTick == /\ Idle /\ head_ # NULL
             /\ op' = "tick" /\ curr' = now
             /\ UNCHANGED <<now, clock, live, fields, ends, timer, walk, fault>>

\* One iteration: the callback of the head runs and the head is deleted.
TickFire ==
    /\ op = "tick" /\ ~fault
    /\ head_ # NULL /\ Due(head_)
    /\ head_' = next[head_]
    /\ pre' = IF next[head_] = NULL THEN pre ELSE [pre EXCEPT ![next[head_]] = NULL]
    /\ fault' = (next[head_] # NULL /\ Dangling(next[head_]))
    /\ live' = live \ {head_}
    /\ UNCHANGED <<now, clock, expire, next, tail_, op, locals>>

EndTick == /\ op = "tick" /\ ~fault
           /\ head_ # NULL => ~Due(head_)
           /\ op' = "idle" /\ curr' = 0
           /\ UNCHANGED <<now, clock, live, fields, ends, timer, walk, fault>>

-----------------------------------------------------------------------------
(* ~TimerList, when the process exits.                                     *)

BeginDestroy == /\ Idle
                /\ op' = "destroy"
                /\ UNCHANGED <<now, clock, live, fields, ends, locals, fault>>

DestroyHead == /\ op = "destroy" /\ ~fault /\ head_ # NULL
               /\ head_' = next[head_]
               /\ live' = live \ {head_}
               /\ fault' = Dangling(head_)
               /\ UNCHANGED <<now, clock, fields, tail_, op, locals>>

EndDestroy == /\ op = "destroy" /\ ~fault /\ head_ = NULL
              /\ op' = "gone"
              /\ UNCHANGED <<now, clock, live, fields, ends, locals, fault>>

-----------------------------------------------------------------------------
Next ==
    \/ AdvanceClock \/ SetClockBack
    \/ \E t \in Timers : InitTimer(t) \/ DelayTimer(t) \/ DelTimer(t)
    \/ WalkOn \/ WalkInsert \/ WalkAppend
    \/ BeginTick \/ TickFire \/ EndTick
    \/ BeginDestroy \/ DestroyHead \/ EndDestroy

Spec == Init /\ [][Next]_vars

\* The main thread does not stop in the middle of an operation on the list.
FairSpec == /\ Spec
            /\ WF_vars(WalkOn \/ WalkInsert \/ WalkAppend)
            /\ WF_vars(TickFire \/ EndTick)

-----------------------------------------------------------------------------
(* Properties.                                                             *)

\* The timers in the list: all but the one that the private add_timer holds.
Linked == live \ {timer}

\* head_ and tail_ are the two ends of the list.
EndsWellFormed ==
    /\ head_ = NULL <=> Linked = {}
    /\ head_ # NULL => /\ head_ \in Linked /\ tail_ \in Linked
                       /\ op # "destroy" => pre[head_] = NULL

\* Following next never leaves the list, and ends at tail_.
ForwardWellFormed ==
    \A t \in Linked : /\ next[t] = NULL <=> t = tail_
                      /\ next[t] # NULL => next[t] \in Linked /\ pre[next[t]] = t

\* Following pre never leaves the list either, and ends at head_.
BackwardWellFormed ==
    op # "destroy" =>
        \A t \in Linked \ {head_} : pre[t] \in Linked /\ next[pre[t]] = t

\* Every timer of the list is reached from head_: a set of timers that holds
\* head_ and the successor of each of its members is the whole list.
AllReachable ==
    \A S \in SUBSET Linked :
        (head_ \in S /\ \A t \in S : next[t] # NULL => next[t] \in S) => S = Linked

\* As long as the program has not crashed, the list is a well formed doubly
\* linked list of exactly the allocated timers: no insertion, move, deletion
\* or expiry loses a timer, links a freed one, or leaves head_ or tail_ stale.
ListWellFormed ==
    ~fault => /\ EndsWellFormed /\ ForwardWellFormed
              /\ BackwardWellFormed /\ AllReachable

\* timer.cc says of the container that it is in ascending order, and tick
\* stops at the first timer that is not due because of it.  It is, until the
\* wall clock is set back.
AscendingOrder ==
    ~fault /\ clock = "forward" => \A t \in Linked : next[t] # NULL => expire[t] <= expire[next[t]]

\* The one dereference that can fail: modify_timer of the first timer, when
\* its new expiry does not come before the second one's.  No other operation,
\* in any order, touches a null or freed pointer.
FaultOnlyMovingHead ==
    [][fault' /\ ~fault => /\ head_ # NULL /\ next[head_] # NULL
                          /\ DelayTimer(head_)
                          /\ ~StaysInPlace(head_, now + Lifetime)]_vars

\* timer.cc says that a timer at the head of the list that must move is taken
\* out and inserted again: delaying the head never crashes.
HeadMoves == ~fault

\* The destructor frees every timer: none is left when the process is gone.
NoTimerLeft == op = "gone" => live = {}

\* The loop of the private add_timer ends: the list has no cycle.
WalkEnds == op = "walk" ~> op # "walk"

\* Until the wall clock is set back, the list keeps what the container
\* promises: the deadlines of its timers, and a tick that fires due timers
\* only and leaves none of them behind.
NoSweep == -1
Container == INSTANCE TimerSet
                 WITH deadline <- [t \in live |-> expire[t]],
                      sweep <- IF op = "tick" THEN curr ELSE NoSweep
RefinesTimerSet ==
    Container!Init /\ [][clock' = "setback" \/ Container!Next]_(Container!vars)

===============================================================================
