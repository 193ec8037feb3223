--------------------------- MODULE TimerListProofs ---------------------------
(***************************************************************************)
(* Proofs about TimerList, for any set of timers and any time slot.        *)
(***************************************************************************)
EXTENDS TimerList, TLAPS

-----------------------------------------------------------------------------
(* The inductive invariant.                                                *)

\* No timer of the list has the head as its successor.
HeadUnpointed == head_ # NULL => pre[head_] \notin Linked

\* The timer that the private add_timer holds is allocated, is not in the
\* list, and does not expire before the timer the loop has arrived at.
WalkOK == /\ op = "walk" => /\ timer \in live /\ walk \in Linked
                            /\ expire[walk] <= expire[timer]
          /\ op # "walk" => timer = NULL

Links == /\ EndsWellFormed /\ ForwardWellFormed /\ BackwardWellFormed
         /\ AllReachable /\ HeadUnpointed

ListInv == Links /\ WalkOK /\ NoTimerLeft

IInv == /\ TypeOK
        /\ ~fault => ListInv
        /\ fault => op # "gone"

LEMMA LifetimeNat == Lifetime \in Nat /\ Lifetime > 0
  BY TimerListAssumption DEF Lifetime

LEMMA InitInv == Init => IInv
  <1> SUFFICES ASSUME Init PROVE IInv
    OBVIOUS
  <1>1. TypeOK
    BY DEF Init, TypeOK, Pointers, Ops
  <1>2. Linked = {}
    BY DEF Init, Linked
  <1>3. AllReachable
    BY <1>2 DEF AllReachable
  <1>4. QED
    BY <1>1, <1>2, <1>3
       DEF Init, IInv, ListInv, Links, EndsWellFormed, ForwardWellFormed,
           BackwardWellFormed, HeadUnpointed, WalkOK, NoTimerLeft

-----------------------------------------------------------------------------
(* The links of the list.  The lemmas of this section say what a step does *)
(* to the list from the shape of its assignments alone, so that each serves*)
(* every action that has that shape.                                       *)

LEMMA SameLinks ==
  ASSUME Links, UNCHANGED <<next, pre, head_, tail_>>, Linked' = Linked,
         op = "destroy" => op' = "destroy"
  PROVE  Links'
  BY DEF Links, EndsWellFormed, ForwardWellFormed, BackwardWellFormed,
         AllReachable, HeadUnpointed

\* A list whose first timer has no successor has no other timer.
LEMMA SingleTimer ==
  ASSUME Links, head_ # NULL, next[head_] = NULL
  PROVE  Linked = {head_}
  BY DEF Links, EndsWellFormed, AllReachable

\* No timer of the list is its own successor.
LEMMA NoSelfLoop ==
  ASSUME TypeOK, Links, NEW t \in Linked
  PROVE  next[t] # t
  <1> SUFFICES ASSUME next[t] = t PROVE FALSE
    OBVIOUS
  <1>1. t # NULL /\ head_ \in Linked
    BY TimerListAssumption DEF TypeOK, Links, EndsWellFormed, Linked
  <1>2. pre[t] = t /\ t # head_
    BY <1>1 DEF Links, ForwardWellFormed, HeadUnpointed
  <1>3. \A s \in Linked \ {t} : next[s] # NULL => next[s] \in Linked \ {t}
    BY <1>2 DEF Links, ForwardWellFormed
  <1>4. Linked \ {t} = Linked
    BY <1>1, <1>2, <1>3 DEF Links, AllReachable
  <1>5. QED
    BY <1>4

\* Taking the first of several timers out, as del_timer, tick and the
\* destructor do: the first two also reset pre of the new head.
LEMMA UnlinkHead ==
  ASSUME TypeOK, TypeOK', Links, head_ # NULL, next[head_] # NULL,
         head_' = next[head_], next' = next, tail_' = tail_, op' = op,
         Linked' = Linked \ {head_},
         \/ pre' = [pre EXCEPT ![next[head_]] = NULL]
         \/ op = "destroy" /\ pre' = pre
  PROVE  Links' /\ next[head_] \in Linked \ {head_}
  <1> DEFINE n == next[head_]
  <1>1. head_ \in Linked /\ head_ \in Timers /\ tail_ \in Linked
    BY DEF Links, EndsWellFormed, TypeOK, Pointers
  <1>2. n # head_ /\ n \in Linked /\ pre[n] = head_ /\ n \in Timers /\ tail_ # head_
    BY <1>1, NoSelfLoop DEF Links, ForwardWellFormed, TypeOK, Pointers
  <1>3. \A s \in Linked : next[s] # head_
    BY <1>1, TimerListAssumption DEF Links, ForwardWellFormed, HeadUnpointed, TypeOK
  <1>4. \A s \in Linked' : next[s] # n
    BY <1>2 DEF Links, ForwardWellFormed, Linked
  <1>5. \A s \in Timers \ {n} : pre'[s] = pre[s]
    BY <1>2 DEF TypeOK
  <1>6. EndsWellFormed'
    BY <1>1, <1>2 DEF EndsWellFormed, TypeOK
  <1>7. ForwardWellFormed'
    <2>1. SUFFICES ASSUME NEW s \in Linked'
                   PROVE  /\ next[s] = NULL <=> s = tail_
                          /\ next[s] # NULL => next[s] \in Linked' /\ pre'[next[s]] = s
      BY DEF ForwardWellFormed
    <2>2. /\ next[s] = NULL <=> s = tail_
          /\ next[s] # NULL => next[s] \in Linked /\ pre[next[s]] = s
      BY <2>1 DEF Links, ForwardWellFormed
    <2>3. QED
      BY <1>3, <1>4, <1>5, <2>1, <2>2 DEF Linked, TypeOK
  <1>8. BackwardWellFormed'
    <2>1. SUFFICES ASSUME op # "destroy", NEW s \in Linked', s # n
                   PROVE  pre'[s] \in Linked' /\ next[pre'[s]] = s
      BY DEF BackwardWellFormed
    <2>2. s \in Linked /\ s # head_ /\ s \in Timers
      BY DEF Linked, TypeOK
    <2>3. QED
      BY <1>2, <1>5, <2>1, <2>2 DEF Links, BackwardWellFormed
  <1>9. AllReachable'
    <2>1. SUFFICES ASSUME NEW S \in SUBSET Linked', n \in S,
                          \A s \in S : next[s] # NULL => next[s] \in S
                   PROVE  S = Linked'
      BY DEF AllReachable
    <2>2. S \cup {head_} = Linked
      <3>1. S \cup {head_} \in SUBSET Linked /\ head_ \in S \cup {head_}
        BY <1>1, <2>1
      <3>2. \A s \in S \cup {head_} : next[s] # NULL => next[s] \in S \cup {head_}
        BY <2>1
      <3>3. QED
        BY <3>1, <3>2 DEF Links, AllReachable
    <2>3. QED
      BY <2>1, <2>2
  <1>10. HeadUnpointed'
    BY <1>2, TimerListAssumption DEF HeadUnpointed, TypeOK, Linked
  <1>11. QED
    BY <1>2, <1>6, <1>7, <1>8, <1>9, <1>10 DEF Links

\* The predecessor and the successor of a timer between the two ends.
LEMMA InnerTimer ==
  ASSUME TypeOK, Links, op # "destroy", NEW t \in Linked, t # head_
  PROVE  /\ pre[t] \in Linked \ {t} /\ next[pre[t]] = t
         /\ t # tail_ => next[t] \in Linked \ {t} /\ pre[next[t]] = t
  <1>1. pre[t] \in Linked /\ next[pre[t]] = t
    BY DEF Links, BackwardWellFormed
  <1>2. pre[t] # t /\ next[t] # t
    BY <1>1, NoSelfLoop
  <1>3. QED
    BY <1>1, <1>2 DEF Links, ForwardWellFormed

\* Taking a timer between the two ends out, as del_timer and modify_timer do.
LEMMA UnlinkInner ==
  ASSUME TypeOK, TypeOK', Links, op # "destroy", op' # "destroy",
         NEW t \in Linked, t # head_, t # tail_,
         next' = [next EXCEPT ![pre[t]] = next[t]],
         pre' = [pre EXCEPT ![next[t]] = pre[t]],
         head_' = head_, tail_' = tail_, Linked' = Linked \ {t}
  PROVE  Links'
  <1> DEFINE p == pre[t]
             n == next[t]
  <1>1. /\ p \in Linked \ {t} /\ next[p] = t /\ n \in Linked \ {t} /\ pre[n] = t
        /\ t \in Timers /\ p \in Timers /\ n \in Timers
    BY InnerTimer DEF TypeOK, Linked
  <1>2. /\ next'[p] = n /\ pre'[n] = p
        /\ \A s \in Timers \ {p} : next'[s] = next[s]
        /\ \A s \in Timers \ {n} : pre'[s] = pre[s]
    BY <1>1 DEF TypeOK
  <1>3. /\ head_ # NULL /\ head_ \in Linked /\ tail_ \in Linked
        /\ pre[head_] = NULL /\ head_ # n /\ tail_ # p /\ Linked \subseteq Timers
        /\ NULL \notin Timers
    BY <1>1, TimerListAssumption DEF Links, EndsWellFormed, ForwardWellFormed, TypeOK, Linked
  <1>4. EndsWellFormed' /\ HeadUnpointed'
    BY <1>2, <1>3 DEF EndsWellFormed, HeadUnpointed
  <1>5. ForwardWellFormed'
    <2>1. SUFFICES ASSUME NEW s \in Linked'
                   PROVE  /\ next'[s] = NULL <=> s = tail_
                          /\ next'[s] # NULL => next'[s] \in Linked' /\ pre'[next'[s]] = s
      BY DEF ForwardWellFormed
    <2>2. CASE s = p
      BY <1>1, <1>2, <1>3, <2>2
    <2>3. CASE s # p
      <3>1. s \in Linked /\ s # t /\ next'[s] = next[s]
        BY <1>2, <1>3, <2>1, <2>3
      <3>2. next[s] # NULL => next[s] \in Linked /\ pre[next[s]] = s
        BY <3>1 DEF Links, ForwardWellFormed
      <3>3. next[s] # NULL => next[s] # t /\ next[s] # n
        BY <1>1, <2>3, <3>1, <3>2
      <3>4. QED
        BY <1>2, <1>3, <3>1, <3>2, <3>3 DEF Links, ForwardWellFormed
    <2>4. QED
      BY <2>2, <2>3
  <1>6. BackwardWellFormed'
    <2>1. SUFFICES ASSUME NEW s \in Linked', s # head_
                   PROVE  pre'[s] \in Linked' /\ next'[pre'[s]] = s
      BY DEF BackwardWellFormed
    <2>2. CASE s = n
      BY <1>1, <1>2, <2>2
    <2>3. CASE s # n
      <3>1. s \in Linked /\ s # t /\ pre'[s] = pre[s]
        BY <1>2, <1>3, <2>1, <2>3
      <3>2. pre[s] \in Linked /\ next[pre[s]] = s
        BY <2>1, <3>1 DEF Links, BackwardWellFormed
      <3>3. pre[s] # t /\ pre[s] # p
        BY <1>1, <2>3, <3>1, <3>2
      <3>4. QED
        BY <1>2, <1>3, <3>1, <3>2, <3>3
    <2>4. QED
      BY <2>2, <2>3
  <1>7. AllReachable'
    <2>1. SUFFICES ASSUME NEW S \in SUBSET Linked', head_ \in S,
                          \A s \in S : next'[s] # NULL => next'[s] \in S
                   PROVE  S = Linked'
      BY DEF AllReachable
    <2>2. p \in S
      <3>1. SUFFICES ASSUME p \notin S PROVE FALSE
        OBVIOUS
      <3>2. \A s \in S : next[s] # NULL => next[s] \in S
        BY <1>2, <1>3, <2>1, <3>1
      <3>3. S = Linked
        BY <2>1, <3>2 DEF Links, AllReachable
      <3>4. QED
        BY <1>1, <3>1, <3>3
    <2>3. n \in S
      BY <1>1, <1>2, <1>3, <2>1, <2>2
    <2>4. \A s \in S \cup {t} : next[s] # NULL => next[s] \in S \cup {t}
      BY <1>1, <1>2, <1>3, <2>1, <2>3
    <2>5. S \cup {t} = Linked
      <3>1. S \cup {t} \in SUBSET Linked /\ head_ \in S \cup {t}
        BY <1>1, <2>1
      <3>2. QED
        BY <2>4, <3>1 DEF Links, AllReachable
    <2>6. QED
      BY <2>1, <2>5
  <1>8. QED
    BY <1>4, <1>5, <1>6, <1>7 DEF Links

\* Taking the last of several timers out, as del_timer does.
LEMMA UnlinkTail ==
  ASSUME TypeOK, TypeOK', Links, op # "destroy", op' # "destroy",
         head_ # tail_, head_ # NULL,
         next' = [next EXCEPT ![pre[tail_]] = NULL], pre' = pre,
         head_' = head_, tail_' = pre[tail_], Linked' = Linked \ {tail_}
  PROVE  Links' /\ pre[tail_] \in Linked
  <1> DEFINE t == tail_
             p == pre[tail_]
  <1>1. /\ p \in Linked \ {t} /\ next[p] = t /\ next[t] = NULL
        /\ t \in Timers /\ p \in Timers /\ t \in Linked /\ t # head_
    BY InnerTimer DEF TypeOK, Links, EndsWellFormed, ForwardWellFormed, Linked
  <1>2. /\ next'[p] = NULL
        /\ \A s \in Timers \ {p} : next'[s] = next[s]
    BY <1>1 DEF TypeOK
  <1>3. /\ head_ \in Linked /\ pre[head_] = NULL /\ Linked \subseteq Timers
        /\ NULL \notin Timers
    BY TimerListAssumption DEF Links, EndsWellFormed, TypeOK, Linked
  <1>4. EndsWellFormed' /\ HeadUnpointed'
    BY <1>1, <1>3 DEF EndsWellFormed, HeadUnpointed
  <1>5. ForwardWellFormed'
    <2>1. SUFFICES ASSUME NEW s \in Linked'
                   PROVE  /\ next'[s] = NULL <=> s = p
                          /\ next'[s] # NULL => next'[s] \in Linked' /\ pre[next'[s]] = s
      BY DEF ForwardWellFormed
    <2>2. CASE s # p
      <3>1. s \in Linked /\ s # t /\ next'[s] = next[s]
        BY <1>2, <1>3, <2>1, <2>2
      <3>2. next[s] \in Linked /\ pre[next[s]] = s
        BY <3>1 DEF Links, ForwardWellFormed
      <3>3. QED
        BY <1>1, <1>3, <2>2, <3>1, <3>2
    <2>3. QED
      BY <1>2, <2>2
  <1>6. BackwardWellFormed'
    <2>1. SUFFICES ASSUME NEW s \in Linked', s # head_
                   PROVE  pre[s] \in Linked' /\ next'[pre[s]] = s
      BY DEF BackwardWellFormed
    <2>2. s # t /\ s \in Linked
      BY <2>1
    <2>3. pre[s] \in Linked /\ next[pre[s]] = s
      BY <2>1, <2>2 DEF Links, BackwardWellFormed
    <2>4. QED
      BY <1>1, <1>2, <1>3, <2>2, <2>3
  <1>7. AllReachable'
    <2>1. SUFFICES ASSUME NEW S \in SUBSET Linked', head_ \in S,
                          \A s \in S : next'[s] # NULL => next'[s] \in S
                   PROVE  S = Linked'
      BY DEF AllReachable
    <2>2. p \in S
      <3>1. SUFFICES ASSUME p \notin S PROVE FALSE
        OBVIOUS
      <3>2. \A s \in S : next[s] # NULL => next[s] \in S
        BY <1>2, <1>3, <2>1, <3>1
      <3>3. S = Linked
        BY <2>1, <3>2 DEF Links, AllReachable
      <3>4. QED
        BY <1>1, <3>1, <3>3
    <2>3. \A s \in S \cup {t} : next[s] # NULL => next[s] \in S \cup {t}
      BY <1>1, <1>2, <1>3, <2>1
    <2>4. S \cup {t} = Linked
      <3>1. S \cup {t} \in SUBSET Linked /\ head_ \in S \cup {t}
        BY <1>1, <2>1
      <3>2. QED
        BY <2>3, <3>1 DEF Links, AllReachable
    <2>5. QED
      BY <2>1, <2>4
  <1>8. QED
    BY <1>1, <1>4, <1>5, <1>6, <1>7 DEF Links

-----------------------------------------------------------------------------
(* Insertion.                                                              *)

LEMMA InitTimerInv ==
  ASSUME IInv, NEW t \in Timers, InitTimer(t)
  PROVE  IInv'
  <1> USE TimerListAssumption, LifetimeNat DEF Idle
  <1>1. ~fault /\ ~fault' /\ op = "idle" /\ timer = NULL /\ t \notin live /\ Linked = live
    BY DEF InitTimer, IInv, ListInv, Links, WalkOK, Linked, TypeOK
  <1>2. TypeOK'
    BY <1>1 DEF InitTimer, IInv, TypeOK, StartWalk, Pointers, Ops, locals, ends
  <1>3. CASE head_ = NULL
    <2>1. /\ live = {} /\ live' = {t} /\ head_' = t /\ tail_' = t
          /\ next'[t] = NULL /\ pre'[t] = NULL /\ op' = "idle" /\ timer' = NULL
      BY <1>1, <1>3 DEF InitTimer, IInv, ListInv, Links, EndsWellFormed, TypeOK, locals
    <2>2. QED
      BY <1>1, <1>2, <2>1
         DEF IInv, ListInv, Links, EndsWellFormed, ForwardWellFormed, BackwardWellFormed,
             AllReachable, HeadUnpointed, WalkOK, NoTimerLeft, Linked
  <1>4. CASE head_ # NULL /\ now + Lifetime < expire[head_]
    <2>1. /\ live' = live \cup {t} /\ head_' = t /\ tail_' = tail_
          /\ next' = [next EXCEPT ![t] = head_]
          /\ pre' = [pre EXCEPT ![t] = NULL, ![head_] = t]
          /\ op' = "idle" /\ timer' = NULL /\ Linked' = live \cup {t}
      BY <1>1, <1>4 DEF InitTimer, IInv, TypeOK, Pointers, locals, Linked
    <2>2. AllReachable'
      <3>1. SUFFICES ASSUME NEW S \in SUBSET (live \cup {t}), t \in S,
                            \A s \in S : next'[s] # NULL => next'[s] \in S
                     PROVE  S = live \cup {t}
        BY <2>1 DEF AllReachable
      <3>2. head_ \in S \ {t} /\ \A s \in S \ {t} : next[s] # NULL => next[s] \in S \ {t}
        BY <1>1, <1>4, <2>1, <3>1
           DEF IInv, TypeOK, ListInv, Links, EndsWellFormed, ForwardWellFormed
      <3>3. S \ {t} = live
        BY <1>1, <3>1, <3>2 DEF IInv, ListInv, Links, AllReachable
      <3>4. QED
        BY <3>1, <3>3
    <2>3. EndsWellFormed' /\ HeadUnpointed'
      BY <1>1, <1>4, <2>1 DEF IInv, TypeOK, ListInv, Links, EndsWellFormed, HeadUnpointed
    <2>4. ForwardWellFormed'
      BY <1>1, <1>4, <2>1
         DEF IInv, TypeOK, ListInv, Links, EndsWellFormed, ForwardWellFormed, HeadUnpointed
    <2>5. BackwardWellFormed'
      BY <1>1, <1>4, <2>1 DEF IInv, TypeOK, ListInv, Links, EndsWellFormed, BackwardWellFormed
    <2>6. QED
      BY <1>2, <2>1, <2>2, <2>3, <2>4, <2>5 DEF IInv, ListInv, Links, WalkOK, NoTimerLeft
  <1>5. CASE head_ # NULL /\ now + Lifetime >= expire[head_]
    <2>1. /\ live' = live \cup {t} /\ head_' = head_ /\ tail_' = tail_
          /\ next' = [next EXCEPT ![t] = NULL] /\ pre' = [pre EXCEPT ![t] = NULL]
          /\ expire' = [expire EXCEPT ![t] = now + Lifetime]
          /\ op' = "walk" /\ timer' = t /\ walk' = head_ /\ Linked' = live
      BY <1>1, <1>5 DEF InitTimer, IInv, TypeOK, Pointers, StartWalk, ends, Linked
    <2>2. \A s \in live : next'[s] = next[s] /\ pre'[s] = pre[s] /\ expire'[s] = expire[s]
      BY <1>1, <2>1 DEF IInv, TypeOK
    <2>3. QED
      BY <1>1, <1>2, <1>5, <2>1, <2>2
         DEF IInv, TypeOK, ListInv, Links, EndsWellFormed, ForwardWellFormed, BackwardWellFormed,
             AllReachable, HeadUnpointed, WalkOK, NoTimerLeft
  <1>6. QED
    BY <1>1, <1>3, <1>4, <1>5 DEF IInv, TypeOK, ListInv, Links, EndsWellFormed, InitTimer

LEMMA WalkOnInv ==
  ASSUME IInv, WalkOn
  PROVE  IInv'
  <1>1. /\ ~fault /\ ~fault' /\ op = "walk" /\ op' = "walk" /\ ListInv
        /\ next[walk] # NULL /\ walk' = next[walk] /\ expire[next[walk]] <= expire[timer]
        /\ UNCHANGED <<now, clock, live, expire, next, pre, head_, tail_, timer, curr, fault>>
        /\ Linked' = Linked
    <2>1. walk \in Linked /\ next[walk] \in Timers
      BY DEF WalkOn, Walking, IInv, ListInv, Links, ForwardWellFormed, WalkOK, Linked, TypeOK
    <2>2. QED
      BY <2>1 DEF WalkOn, Walking, IInv, TypeOK, fields, ends, Linked, WalkOK, ListInv
  <1>2. next[walk] \in Linked
    BY <1>1 DEF ListInv, Links, ForwardWellFormed, WalkOK
  <1>3. TypeOK'
    BY <1>1, <1>2 DEF IInv, TypeOK, Pointers, Linked, Ops
  <1>4. Links'
    BY <1>1, SameLinks DEF ListInv
  <1>5. QED
    BY <1>1, <1>2, <1>3, <1>4 DEF IInv, ListInv, WalkOK, NoTimerLeft

\* The loop links the timer it holds after the one it has arrived at.
LEMMA WalkLinkInv ==
  ASSUME IInv, WalkInsert \/ WalkAppend
  PROVE  IInv'
  <1> DEFINE n == next[walk]
  <1>1. /\ ~fault /\ ~fault' /\ op = "walk" /\ op' = "idle" /\ timer' = NULL
        /\ ListInv /\ TypeOK /\ head_' = head_ /\ live' = live
        /\ walk \in Linked /\ timer \in Timers \ Linked /\ timer \in live
        /\ NULL \notin Timers /\ Linked \subseteq Timers
    BY TimerListAssumption
       DEF WalkInsert, WalkAppend, Walking, EndWalk, IInv, ListInv, WalkOK, Linked,
           TypeOK, ends
  <1>2. Linked' = Linked \cup {timer}
    BY <1>1 DEF Linked
  <1>3. n # NULL => n \in Linked /\ pre[n] = walk
    BY <1>1 DEF ListInv, Links, ForwardWellFormed
  <1>4. TypeOK'
    BY <1>1, <1>3 DEF WalkInsert, WalkAppend, Walking, EndWalk, TypeOK, Pointers, Ops, ends
  <1>5. /\ next'[walk] = timer /\ next'[timer] = n /\ pre'[timer] = walk
        /\ n # NULL => pre'[n] = timer /\ tail_' = tail_
        /\ n = NULL => tail_' = timer
        /\ \A s \in Linked \ {walk} : next'[s] = next[s]
        /\ \A s \in Linked \ {n} : pre'[s] = pre[s]
    BY <1>1, <1>3 DEF WalkInsert, WalkAppend, TypeOK, ends
  <1>6. /\ head_ \in Linked /\ tail_ \in Linked /\ pre[head_] = NULL /\ head_ # n
        /\ head_ # NULL /\ (n = NULL <=> walk = tail_)
    BY <1>1, <1>3 DEF ListInv, Links, EndsWellFormed, ForwardWellFormed, TypeOK
  <1>7. EndsWellFormed' /\ HeadUnpointed'
    BY <1>1, <1>2, <1>5, <1>6 DEF EndsWellFormed, HeadUnpointed
  <1>8. ForwardWellFormed'
    <2>1. SUFFICES ASSUME NEW s \in Linked'
                   PROVE  /\ next'[s] = NULL <=> s = tail_'
                          /\ next'[s] # NULL => next'[s] \in Linked' /\ pre'[next'[s]] = s
      BY DEF ForwardWellFormed
    <2>2. CASE s = walk \/ s = timer
      BY <1>1, <1>2, <1>3, <1>5, <1>6, <2>2
    <2>3. CASE s # walk /\ s # timer
      <3>1. s \in Linked /\ next'[s] = next[s]
        BY <1>2, <1>5, <2>1, <2>3
      <3>2. /\ next[s] = NULL <=> s = tail_
            /\ next[s] # NULL => next[s] \in Linked /\ pre[next[s]] = s
        BY <1>1, <3>1 DEF ListInv, Links, ForwardWellFormed
      <3>3. QED
        BY <1>1, <1>2, <1>3, <1>5, <1>6, <2>3, <3>1, <3>2
    <2>4. QED
      BY <2>2, <2>3
  <1>9. BackwardWellFormed'
    <2>1. SUFFICES ASSUME NEW s \in Linked', s # head_
                   PROVE  pre'[s] \in Linked' /\ next'[pre'[s]] = s
      BY <1>1 DEF BackwardWellFormed
    <2>2. CASE s = n \/ s = timer
      BY <1>1, <1>2, <1>3, <1>5, <2>2
    <2>3. CASE s # n /\ s # timer
      <3>1. s \in Linked /\ pre'[s] = pre[s]
        BY <1>2, <1>5, <2>1, <2>3
      <3>2. pre[s] \in Linked /\ next[pre[s]] = s
        BY <1>1, <2>1, <3>1 DEF ListInv, Links, BackwardWellFormed
      <3>3. QED
        BY <1>2, <1>5, <2>3, <3>1, <3>2
    <2>4. QED
      BY <2>2, <2>3
  <1>10. AllReachable'
    <2>1. SUFFICES ASSUME NEW S \in SUBSET Linked', head_ \in S,
                          \A s \in S : next'[s] # NULL => next'[s] \in S
                   PROVE  S = Linked'
      BY <1>1 DEF AllReachable
    <2>2. S \ {timer} \in SUBSET Linked /\ head_ \in S \ {timer}
      BY <1>1, <1>2, <1>6, <2>1
    <2>3. \A s \in S \ {timer} : next[s] # NULL => next[s] \in S \ {timer}
      <3>1. SUFFICES ASSUME NEW s \in S \ {timer}, next[s] # NULL
                     PROVE  next[s] \in S \ {timer}
        OBVIOUS
      <3>2. s \in Linked /\ next[s] \in Linked
        BY <1>1, <2>2, <3>1 DEF ListInv, Links, ForwardWellFormed
      <3>3. CASE s = walk
        BY <1>1, <1>5, <2>1, <3>1, <3>2, <3>3
      <3>4. CASE s # walk
        BY <1>1, <1>5, <2>1, <3>1, <3>2, <3>4
      <3>5. QED
        BY <3>3, <3>4
    <2>4. S \ {timer} = Linked
      BY <1>1, <2>2, <2>3 DEF ListInv, Links, AllReachable
    <2>5. timer \in S
      BY <1>1, <1>5, <2>1, <2>4
    <2>6. QED
      BY <1>2, <2>4, <2>5
  <1>11. QED
    BY <1>1, <1>4, <1>7, <1>8, <1>9, <1>10 DEF IInv, ListInv, Links, WalkOK, NoTimerLeft

-----------------------------------------------------------------------------
(* Move, deletion, expiry, destruction.                                    *)

\* What every operation that starts on the idle list may rely on.
LEMMA IdleFacts ==
  ASSUME IInv, Idle
  PROVE  /\ TypeOK /\ ListInv /\ ~fault /\ op = "idle"
         /\ timer = NULL /\ Linked = live /\ live \subseteq Timers /\ NULL \notin Timers
  BY TimerListAssumption DEF Idle, IInv, ListInv, WalkOK, Linked, TypeOK

\* Which dereference of modify_timer fails, and when.
LEMMA DelayFacts ==
  ASSUME IInv, NEW t \in Timers, DelayTimer(t)
  PROVE  /\ StaysInPlace(t, now + Lifetime) => UNCHANGED <<next, pre, head_, tail_, op, locals, fault>>
         /\ ~StaysInPlace(t, now + Lifetime) =>
              /\ next[t] # NULL /\ next[t] # head_ /\ next[t] \in live /\ MoveInner(t)
              /\ fault' <=> t = head_
  <1>1. /\ t \in live /\ Idle
        /\ StaysInPlace(t, now + Lifetime) => UNCHANGED <<next, pre, head_, tail_, op, locals, fault>>
        /\ ~StaysInPlace(t, now + Lifetime) => IF next[t] = head_ THEN MoveHead(t) ELSE MoveInner(t)
    BY DEF DelayTimer, ends
  <1>2. SUFFICES ASSUME ~StaysInPlace(t, now + Lifetime)
                 PROVE  /\ next[t] # NULL /\ next[t] # head_ /\ next[t] \in live /\ MoveInner(t)
                        /\ fault' <=> t = head_
    BY <1>1
  <1>3. next[t] # NULL /\ next[t] \in live /\ pre[next[t]] = t
    BY <1>1, <1>2, IdleFacts DEF StaysInPlace, ListInv, Links, ForwardWellFormed
  <1>4. next[t] # head_ /\ MoveInner(t)
    BY <1>1, <1>2, <1>3, IdleFacts DEF ListInv, Links, EndsWellFormed
  <1>5. t = head_ <=> Dangling(pre[t])
    BY <1>1, <1>3, IdleFacts DEF ListInv, Links, EndsWellFormed, BackwardWellFormed, Dangling
  <1>6. QED
    BY <1>1, <1>3, <1>4, <1>5, IdleFacts DEF MoveInner, Crash

LEMMA DelayTimerInv ==
  ASSUME IInv, NEW t \in Timers, DelayTimer(t)
  PROVE  IInv'
  <1> DEFINE e == now + Lifetime
  <1>1. /\ TypeOK /\ ListInv /\ ~fault /\ op = "idle" /\ timer = NULL
        /\ Linked = live /\ live \subseteq Timers /\ NULL \notin Timers /\ t \in live
        /\ e \in Nat /\ live' = live /\ expire' = [expire EXCEPT ![t] = e]
        /\ now' = now /\ clock' = clock
    BY IdleFacts, LifetimeNat DEF DelayTimer, TypeOK, MoveHead, MoveInner, Crash
  <1>2. CASE StaysInPlace(t, e)
    <2>1. UNCHANGED <<live, next, pre, head_, tail_, op, timer, walk, curr, fault>>
      BY <1>1, <1>2, DelayFacts DEF locals
    <2>2. Linked' = Linked
      BY <2>1 DEF Linked
    <2>3. TypeOK'
      BY <1>1, <2>1 DEF TypeOK
    <2>4. Links'
      BY <1>1, <2>1, <2>2, SameLinks DEF ListInv
    <2>5. QED
      BY <1>1, <2>1, <2>3, <2>4 DEF IInv, ListInv, WalkOK, NoTimerLeft
  <1>3. CASE ~StaysInPlace(t, e)
    <2>1. next[t] # NULL /\ next[t] \in live /\ MoveInner(t) /\ (fault' <=> t = head_)
      BY <1>3, DelayFacts
    <2>2. CASE t = head_
      <3>1. fault' /\ UNCHANGED <<now, live, next, pre, head_, tail_, op, timer, walk, curr>>
        BY <1>1, <2>1, <2>2
           DEF MoveInner, Crash, ends, locals, Dangling, ListInv, Links, EndsWellFormed
      <3>2. QED
        BY <1>1, <2>1, <3>1 DEF IInv, TypeOK, MoveInner, Crash
    <2>3. CASE t # head_
      <3>1. t # tail_ /\ pre[t] \in live /\ next[t] # t
        BY <1>1, <2>1, <2>3, InnerTimer DEF ListInv, Links, ForwardWellFormed
      <3>2. /\ next' = [next EXCEPT ![pre[t]] = next[t]]
            /\ pre' = [pre EXCEPT ![next[t]] = pre[t]]
            /\ op' = "walk" /\ timer' = t /\ walk' = next[t] /\ curr' = curr
            /\ head_' = head_ /\ tail_' = tail_ /\ fault' = fault
        BY <2>1, <3>1 DEF MoveInner, Dangling, StartWalk, ends
      <3>3. Linked' = Linked \ {t}
        BY <1>1, <3>2 DEF Linked
      <3>4. TypeOK'
        BY <1>1, <2>1, <3>1, <3>2 DEF TypeOK, Pointers, Ops
      <3>5. Links'
        BY <1>1, <2>3, <3>1, <3>2, <3>3, <3>4, UnlinkInner DEF ListInv
      <3>6. expire'[next[t]] = expire[next[t]] /\ expire'[t] = e /\ expire[next[t]] <= e
        BY <1>1, <1>3, <2>1, <3>1 DEF StaysInPlace, TypeOK
      <3>7. QED
        BY <1>1, <2>1, <3>1, <3>2, <3>3, <3>4, <3>5, <3>6 DEF IInv, ListInv, WalkOK, NoTimerLeft
    <2>4. QED
      BY <2>2, <2>3
  <1>4. QED
    BY <1>2, <1>3

LEMMA DelTimerInv ==
  ASSUME IInv, NEW t \in Timers, DelTimer(t)
  PROVE  IInv' /\ ~fault'
  <1>1. /\ TypeOK /\ ListInv /\ ~fault /\ op = "idle" /\ op' = "idle" /\ t \in live
        /\ timer = NULL /\ timer' = NULL /\ live' = live \ {t} /\ Linked = live
        /\ live \subseteq Timers /\ NULL \notin Timers /\ Linked' = Linked \ {t}
        /\ UNCHANGED <<now, clock, expire, walk, curr>>
    BY IdleFacts DEF DelTimer, locals, Linked
  <1>2. /\ head_ \in live /\ tail_ \in live /\ pre[head_] = NULL
        /\ next[t] = NULL <=> t = tail_
        /\ next[t] # NULL => next[t] \in live
        /\ t # head_ => pre[t] \in live
    BY <1>1 DEF ListInv, Links, EndsWellFormed, ForwardWellFormed, BackwardWellFormed
  <1>3. TypeOK' /\ ~fault'
    BY <1>1, <1>2 DEF DelTimer, TypeOK, Dangling, Pointers, ends, Ops
  <1>4. CASE t = head_ /\ t = tail_
    <2>1. Linked = {t} /\ Linked' = {} /\ head_' = NULL
      BY <1>1, <1>2, <1>4, SingleTimer DEF DelTimer, ListInv
    <2>2. Links'
      BY <1>1, <2>1 DEF Links, EndsWellFormed, ForwardWellFormed, BackwardWellFormed,
                        AllReachable, HeadUnpointed
    <2>3. QED
      BY <1>1, <1>3, <2>2 DEF IInv, ListInv, WalkOK, NoTimerLeft
  <1>5. CASE t = head_ /\ t # tail_
    <2>1. Links'
      BY <1>1, <1>2, <1>3, <1>5, UnlinkHead DEF DelTimer, ListInv
    <2>2. QED
      BY <1>1, <1>3, <2>1 DEF IInv, ListInv, WalkOK, NoTimerLeft
  <1>6. CASE t # head_ /\ t = tail_
    <2>1. Links'
      BY <1>1, <1>2, <1>3, <1>6, UnlinkTail DEF DelTimer, ListInv
    <2>2. QED
      BY <1>1, <1>3, <2>1 DEF IInv, ListInv, WalkOK, NoTimerLeft
  <1>7. CASE t # head_ /\ t # tail_
    <2>1. Links'
      BY <1>1, <1>2, <1>3, <1>7, UnlinkInner DEF DelTimer, ListInv, ends
    <2>2. QED
      BY <1>1, <1>3, <2>1 DEF IInv, ListInv, WalkOK, NoTimerLeft
  <1>8. QED
    BY <1>4, <1>5, <1>6, <1>7

LEMMA TickFireInv ==
  ASSUME IInv, TickFire
  PROVE  IInv' /\ ~fault'
  <1>1. /\ TypeOK /\ ListInv /\ ~fault /\ op = "tick" /\ op' = "tick" /\ head_ # NULL
        /\ timer = NULL /\ timer' = NULL /\ live' = live \ {head_} /\ Linked = live
        /\ live \subseteq Timers /\ NULL \notin Timers /\ Linked' = Linked \ {head_}
        /\ head_' = next[head_]
        /\ UNCHANGED <<now, clock, expire, next, tail_, walk, curr>>
    BY TimerListAssumption DEF TickFire, IInv, ListInv, WalkOK, TypeOK, locals, Linked
  <1>2. head_ \in live /\ (next[head_] # NULL => next[head_] \in live)
    BY <1>1 DEF ListInv, Links, EndsWellFormed, ForwardWellFormed
  <1>3. next[head_] # NULL => next[head_] # head_
    BY <1>1, <1>2, NoSelfLoop DEF ListInv
  <1>4. ~fault' /\ fault' \in BOOLEAN
        /\ pre' = IF next[head_] = NULL THEN pre
                  ELSE [pre EXCEPT ![next[head_]] = NULL]
    BY <1>1, <1>2 DEF TickFire, Dangling
  <1>5. TypeOK'
    BY <1>1, <1>2, <1>4 DEF TypeOK, Pointers, Ops
  <1>6. CASE next[head_] = NULL
    <2>1. Linked' = {} /\ head_' = NULL
      BY <1>1, <1>6, SingleTimer DEF ListInv
    <2>2. Links'
      BY <1>1, <2>1 DEF Links, EndsWellFormed, ForwardWellFormed, BackwardWellFormed,
                        AllReachable, HeadUnpointed
    <2>3. QED
      BY <1>1, <1>4, <1>5, <2>2 DEF IInv, ListInv, WalkOK, NoTimerLeft
  <1>7. CASE next[head_] # NULL
    <2>1. Links'
      BY <1>1, <1>4, <1>5, <1>7, UnlinkHead DEF ListInv
    <2>2. QED
      BY <1>1, <1>4, <1>5, <2>1 DEF IInv, ListInv, WalkOK, NoTimerLeft
  <1>8. QED
    BY <1>6, <1>7

LEMMA DestroyHeadInv ==
  ASSUME IInv, DestroyHead
  PROVE  IInv' /\ ~fault'
  <1>1. /\ TypeOK /\ ListInv /\ ~fault /\ op = "destroy" /\ op' = "destroy" /\ head_ # NULL
        /\ timer = NULL /\ timer' = NULL /\ live' = live \ {head_} /\ Linked = live
        /\ live \subseteq Timers /\ NULL \notin Timers /\ Linked' = Linked \ {head_}
        /\ head_' = next[head_] /\ fault' = Dangling(head_)
        /\ UNCHANGED <<now, clock, expire, next, pre, tail_, walk, curr>>
    BY TimerListAssumption DEF DestroyHead, IInv, ListInv, WalkOK, TypeOK, locals, fields, Linked
  <1>2. ~fault' /\ TypeOK'
    BY <1>1 DEF ListInv, Links, EndsWellFormed, Dangling, TypeOK, Pointers, Ops
  <1>3. Links'
    <2>1. CASE next[head_] = NULL
      <3>1. Linked' = {} /\ head_' = NULL
        BY <1>1, <2>1, SingleTimer DEF ListInv
      <3>2. QED
        BY <1>1, <3>1 DEF Links, EndsWellFormed, ForwardWellFormed, BackwardWellFormed,
                          AllReachable, HeadUnpointed
    <2>2. CASE next[head_] # NULL
      BY <1>1, <1>2, <2>2, UnlinkHead DEF ListInv
    <2>3. QED
      BY <2>1, <2>2
  <1>4. QED
    BY <1>1, <1>2, <1>3 DEF IInv, ListInv, WalkOK, NoTimerLeft

\* The steps that change neither the list nor the heap.
QuietStep == \/ AdvanceClock \/ SetClockBack \/ BeginTick \/ EndTick
             \/ BeginDestroy \/ EndDestroy \/ UNCHANGED vars

LEMMA QuietInv ==
  ASSUME IInv, QuietStep
  PROVE  IInv' /\ (fault' => fault)
  <1>1. UNCHANGED <<live, expire, next, pre, head_, tail_, timer, walk, fault>>
    BY DEF QuietStep, AdvanceClock, SetClockBack, BeginTick, EndTick, BeginDestroy,
           EndDestroy, vars, fields, ends, locals
  <1>2. TypeOK'
    <2>1. now' \in Nat /\ clock' \in {"forward", "setback"} /\ op' \in Ops /\ curr' \in Nat
      BY DEF IInv, TypeOK, Ops, QuietStep, AdvanceClock, SetClockBack, BeginTick,
             EndTick, BeginDestroy, EndDestroy, vars, locals
    <2>2. QED
      BY <1>1, <2>1 DEF IInv, TypeOK
  <1>3. ASSUME ~fault PROVE ListInv'
    <2>1. ListInv /\ Linked' = Linked
      BY <1>1, <1>3 DEF IInv, Linked
    <2>2. /\ op = "destroy" => op' \in {"destroy", "gone"}
          /\ op' = op \/ (op # "walk" /\ op' # "walk")
          /\ op' = "gone" => op = "gone" \/ head_ = NULL
      BY <1>1 DEF QuietStep, AdvanceClock, SetClockBack, BeginTick, EndTick, BeginDestroy,
                  EndDestroy, Idle, vars
    <2>3. Links'
      BY <1>1, <2>1, <2>2, SameLinks
         DEF ListInv, Links, EndsWellFormed, ForwardWellFormed, BackwardWellFormed,
             AllReachable, HeadUnpointed
    <2>4. WalkOK' /\ NoTimerLeft'
      BY <1>1, <2>1, <2>2, TimerListAssumption
         DEF ListInv, WalkOK, NoTimerLeft, Links, EndsWellFormed, Linked, IInv, TypeOK
    <2>5. QED
      BY <2>3, <2>4 DEF ListInv
  <1>4. fault => op' = op
    BY DEF QuietStep, AdvanceClock, SetClockBack, BeginTick, EndTick, BeginDestroy,
           EndDestroy, Idle, vars
  <1>5. QED
    BY <1>1, <1>2, <1>3, <1>4 DEF IInv

-----------------------------------------------------------------------------
(* The invariant, and what follows from it.                                *)

LEMMA NextInv ==
  ASSUME IInv, [Next]_vars
  PROVE  IInv'
  <1>1. CASE QuietStep
    BY <1>1, QuietInv
  <1>2. ASSUME NEW t \in Timers, InitTimer(t) PROVE IInv'
    BY <1>2, InitTimerInv
  <1>3. ASSUME NEW t \in Timers, DelayTimer(t) PROVE IInv'
    BY <1>3, DelayTimerInv
  <1>4. ASSUME NEW t \in Timers, DelTimer(t) PROVE IInv'
    BY <1>4, DelTimerInv
  <1>5. CASE WalkOn
    BY <1>5, WalkOnInv
  <1>6. CASE WalkInsert \/ WalkAppend
    BY <1>6, WalkLinkInv
  <1>7. CASE TickFire
    BY <1>7, TickFireInv
  <1>8. CASE DestroyHead
    BY <1>8, DestroyHeadInv
  <1>9. QED
    BY <1>1, <1>2, <1>3, <1>4, <1>5, <1>6, <1>7, <1>8 DEF Next, QuietStep

THEOREM Invariance == Spec => []IInv
  <1>1. Init => IInv
    BY InitInv
  <1>2. IInv /\ [Next]_vars => IInv'
    BY NextInv
  <1>3. QED
    BY <1>1, <1>2, PTL DEF Spec

\* Every field of every timer, and every local variable, keeps its type.
THEOREM TypeCorrect == Spec => []TypeOK
  <1>1. IInv => TypeOK
    BY DEF IInv
  <1>2. QED
    BY <1>1, Invariance, PTL

\* However many timers there are, in any order of operations: until the crash
\* of modify_timer the list is a doubly linked list of exactly the allocated
\* timers.
THEOREM ListStaysWellFormed == Spec => []ListWellFormed
  <1>1. IInv => ListWellFormed
    BY DEF IInv, ListInv, Links, ListWellFormed
  <1>2. QED
    BY <1>1, Invariance, PTL

\* The destructor frees every timer.
THEOREM DestructorFreesAll == Spec => []NoTimerLeft
  <1>1. IInv => NoTimerLeft
    BY DEF IInv, ListInv, NoTimerLeft
  <1>2. QED
    BY <1>1, Invariance, PTL

-----------------------------------------------------------------------------
(* The walk of the private add_timer ends.                                 *)

\* The timers that the loop has arrived at or may still arrive at: those that
\* are in every set that holds walk and the successor of each of its members.
Ahead == {t \in Linked : \A S \in SUBSET Linked :
             (walk \in S /\ \A s \in S : next[s] # NULL => next[s] \in S) => t \in S}

\* Following next from a timer of the list never leads back to it.
LEMMA NoCycle ==
  ASSUME Links, NEW t \in Linked, next[t] # NULL
  PROVE  \E S \in SUBSET (Linked \ {t}) :
            next[t] \in S /\ \A s \in S : next[s] # NULL => next[s] \in S
  <1> DEFINE Closed(S) == \A s \in S : next[s] # NULL => next[s] \in S
             C == {u \in Linked : \A S \in SUBSET Linked : next[t] \in S /\ Closed(S) => u \in S}
  <1>1. /\ \A s \in Linked : next[s] # NULL => next[s] \in Linked /\ pre[next[s]] = s
        /\ head_ \in Linked /\ pre[head_] \notin Linked
        /\ \A S \in SUBSET Linked : head_ \in S /\ Closed(S) => S = Linked
    BY DEF Links, EndsWellFormed, ForwardWellFormed, AllReachable, HeadUnpointed
  <1>2. next[t] \in C /\ C \in SUBSET Linked
    BY <1>1
  <1>3. Closed(C)
    BY <1>1
  <1>4. t \notin C
    <2> SUFFICES ASSUME t \in C PROVE FALSE
      OBVIOUS
    <2> DEFINE D == {u \in C : pre[u] \in C}
    <2>1. next[t] \in D
      BY <1>1, <1>2
    <2>2. Closed(D)
      BY <1>1, <1>3
    <2>3. D \in SUBSET Linked
      OBVIOUS
    <2>4. \A u \in C : u \in D
      BY <2>1, <2>2, <2>3
    <2>5. head_ \notin C
      BY <1>1, <2>4
    <2>6. Closed(Linked \ C)
      BY <1>1, <2>4
    <2>7. Linked \ C = Linked
      BY <1>1, <2>5, <2>6
    <2>8. QED
      BY <1>2, <2>7
  <1>5. QED
    BY <1>2, <1>3, <1>4

\* The loop of the private add_timer leaves a timer behind in every turn and
\* never meets it again, whatever was done to the list before: it ends, as the
\* list is finite.
WalkShortens == WalkOn => Ahead' \subseteq Ahead /\ walk \in Ahead /\ walk \notin Ahead'

THEOREM WalkGoesForward == Spec => [][WalkShortens]_vars
  <1>1. ASSUME IInv, WalkOn PROVE Ahead' \subseteq Ahead /\ walk \in Ahead /\ walk \notin Ahead'
    <2>1. /\ Links /\ walk \in Linked /\ next[walk] # NULL /\ walk' = next[walk]
          /\ next' = next /\ Linked' = Linked
      BY <1>1 DEF WalkOn, Walking, IInv, ListInv, WalkOK, Linked, fields
    <2>2. PICK S \in SUBSET (Linked \ {walk}) :
             next[walk] \in S /\ \A s \in S : next[s] # NULL => next[s] \in S
      BY <2>1, NoCycle
    <2>3. walk \in Ahead
      BY <2>1 DEF Ahead
    <2>4. Ahead' \subseteq Ahead
      BY <2>1 DEF Ahead
    <2>5. walk \notin Ahead'
      BY <2>1, <2>2 DEF Ahead
    <2>6. QED
      BY <2>3, <2>4, <2>5
  <1>2. IInv /\ [Next]_vars => [WalkShortens]_vars
    BY <1>1 DEF WalkShortens
  <1>3. QED
    BY <1>2, Invariance, PTL DEF Spec

-----------------------------------------------------------------------------
(* The only crash.                                                         *)

\* Only the move of the first timer of two or more dereferences a null or a
\* freed pointer; insertion, deletion, tick and the destructor never do.
THEOREM OnlyMovingHeadCrashes == Spec => FaultOnlyMovingHead
  <1> DEFINE Crashes == /\ head_ # NULL /\ next[head_] # NULL
                        /\ DelayTimer(head_) /\ ~StaysInPlace(head_, now + Lifetime)
  <1>1. ASSUME IInv, Next, fault', ~fault PROVE Crashes
    <2>1. ~QuietStep /\ ~TickFire /\ ~DestroyHead /\ ~WalkOn /\ ~WalkInsert /\ ~WalkAppend
      BY <1>1, QuietInv, TickFireInv, DestroyHeadInv DEF WalkOn, WalkInsert, WalkAppend, Walking
    <2>2. \A t \in Timers : ~InitTimer(t) /\ ~DelTimer(t)
      BY <1>1, DelTimerInv DEF InitTimer
    <2>3. PICK t \in Timers : DelayTimer(t)
      BY <1>1, <2>1, <2>2 DEF Next, QuietStep
    <2>4. ~StaysInPlace(t, now + Lifetime)
      BY <1>1, <2>3 DEF DelayTimer
    <2>5. t = head_ /\ next[t] # NULL
      BY <1>1, <2>3, <2>4, DelayFacts
    <2>6. t \in Timers /\ NULL \notin Timers
      BY TimerListAssumption
    <2>7. QED
      BY <2>3, <2>4, <2>5, <2>6
  <1>2. IInv /\ [Next]_vars => [fault' /\ ~fault => Crashes]_vars
    BY <1>1
  <1>3. QED
    BY <1>2, Invariance, PTL DEF Spec, FaultOnlyMovingHead

-----------------------------------------------------------------------------
(* The order of the list, until the wall clock is set back.                *)

\* With a clock that only advances, no expiry is later than one stamped now.
Stamped == \A t \in live : expire[t] <= now + Lifetime

Sorted == \A t \in Linked : next[t] # NULL => expire[t] <= expire[next[t]]
OrderInv == ~fault /\ clock = "forward" => Sorted /\ Stamped

\* Steps that take timers out, or none, keep the order of the others.
LEMMA OrderKept ==
  ASSUME IInv, OrderInv, ~fault, clock = "forward", Linked' \subseteq Linked, live' \subseteq live,
         expire' = expire, next' = next, now' >= now, now' \in Nat
  PROVE  Sorted' /\ Stamped'
  <1>1. \A t \in live : expire[t] \in Nat
    BY DEF IInv, TypeOK
  <1>2. Sorted'
    BY DEF OrderInv, Sorted
  <1>3. Stamped'
    BY <1>1, LifetimeNat DEF OrderInv, Stamped, Lifetime, IInv, TypeOK
  <1>4. QED
    BY <1>2, <1>3

LEMMA OrderInitTimer ==
  ASSUME IInv, OrderInv, clock = "forward", NEW t \in Timers, InitTimer(t)
  PROVE  Sorted' /\ Stamped'
  <1> DEFINE e == now + Lifetime
  <1>1. /\ TypeOK /\ ListInv /\ Sorted /\ Stamped /\ timer = NULL /\ Linked = live
        /\ live \subseteq Timers /\ NULL \notin Timers /\ t \notin live
        /\ live' = live \cup {t} /\ now' = now /\ expire' = [expire EXCEPT ![t] = e]
    BY IdleFacts DEF InitTimer, OrderInv, Idle
  <1>2. expire'[t] = e /\ \A s \in live : expire'[s] = expire[s] /\ expire[s] <= e
    BY <1>1 DEF TypeOK, Stamped
  <1>3. Stamped'
    BY <1>1, <1>2, LifetimeNat DEF Stamped, Lifetime, TypeOK
  <1>4. head_ # NULL => head_ \in live
    BY <1>1 DEF ListInv, Links, EndsWellFormed
  <1>5. ~(head_ # NULL /\ e < expire[head_])
    BY <1>1, <1>2, <1>4, LifetimeNat DEF TypeOK
  <1>6. /\ next' = [next EXCEPT ![t] = NULL]
        /\ Linked' = live \/ (live = {} /\ Linked' \subseteq {t})
    BY <1>1, <1>4, <1>5 DEF InitTimer, StartWalk, locals, Linked, ListInv, Links, EndsWellFormed
  <1>7. \A s \in live : next'[s] = next[s] /\ (next[s] # NULL => next[s] \in live)
    BY <1>1, <1>6 DEF TypeOK, ListInv, Links, ForwardWellFormed
  <1>8. Sorted'
    BY <1>1, <1>2, <1>6, <1>7 DEF Sorted, TypeOK
  <1>9. QED
    BY <1>3, <1>8

LEMMA OrderWalkLink ==
  ASSUME IInv, OrderInv, clock = "forward", WalkInsert \/ WalkAppend
  PROVE  Sorted' /\ Stamped'
  <1> DEFINE n == next[walk]
  <1>1. /\ TypeOK /\ ListInv /\ Sorted /\ Stamped
        /\ walk \in Linked /\ timer \in Timers \ Linked /\ NULL \notin Timers
        /\ expire[walk] <= expire[timer] /\ Linked \subseteq Timers
        /\ UNCHANGED <<now, live, expire>> /\ timer' = NULL /\ timer \in live
    BY TimerListAssumption
       DEF WalkInsert, WalkAppend, Walking, EndWalk, IInv, ListInv, WalkOK, Linked,
           TypeOK, OrderInv
  <1>2. Linked' = Linked \cup {timer}
    BY <1>1 DEF Linked
  <1>3. \A s \in Linked : next[s] # NULL => next[s] \in Linked
    BY <1>1 DEF ListInv, Links, ForwardWellFormed
  <1>4. /\ next'[walk] = timer /\ next'[timer] = n
        /\ \A s \in Linked \ {walk} : next'[s] = next[s]
        /\ n # NULL => expire[timer] <= expire[n]
    BY <1>1, <1>3 DEF WalkInsert, WalkAppend, TypeOK
  <1>5. QED
    BY <1>1, <1>2, <1>3, <1>4 DEF Sorted, Stamped

LEMMA OrderDelayTimer ==
  ASSUME IInv, OrderInv, clock = "forward", NEW t \in Timers, DelayTimer(t), ~fault'
  PROVE  Sorted' /\ Stamped'
  <1> DEFINE e == now + Lifetime
  <1>1. /\ TypeOK /\ ListInv /\ Sorted /\ Stamped /\ timer = NULL /\ Linked = live
        /\ live \subseteq Timers /\ NULL \notin Timers /\ t \in live /\ op = "idle"
        /\ live' = live /\ now' = now /\ expire' = [expire EXCEPT ![t] = e] /\ e \in Nat
    BY IdleFacts, LifetimeNat
       DEF DelayTimer, OrderInv, Idle, TypeOK, MoveHead, MoveInner, Crash
  <1>2. /\ expire'[t] = e
        /\ \A s \in live \ {t} : expire'[s] = expire[s]
        /\ \A s \in live : expire[s] <= e /\ expire[s] \in Nat
    BY <1>1 DEF TypeOK, Stamped
  <1>3. Stamped'
    BY <1>1, <1>2, LifetimeNat DEF Stamped, Lifetime
  <1>4. \A s \in live : next[s] # NULL => next[s] \in live /\ expire[s] <= expire[next[s]]
    BY <1>1 DEF Sorted, ListInv, Links, ForwardWellFormed
  <1>5. CASE StaysInPlace(t, e)
    <2>1. next' = next /\ Linked' = live
      BY <1>1, <1>5, DelayFacts DEF locals, Linked
    <2>2. QED
      BY <1>1, <1>2, <1>3, <1>4, <1>5, <2>1 DEF Sorted, StaysInPlace
  <1>6. CASE ~StaysInPlace(t, e)
    <2>1. /\ next[t] # NULL /\ next[t] \in live /\ MoveInner(t) /\ t # head_
      BY <1>6, DelayFacts
    <2>2. t # tail_ /\ pre[t] \in live \ {t} /\ next[pre[t]] = t /\ next[t] # t
      BY <1>1, <2>1, InnerTimer DEF ListInv, Links, ForwardWellFormed
    <2>3. next' = [next EXCEPT ![pre[t]] = next[t]] /\ Linked' = live \ {t}
      BY <1>1, <2>1, <2>2 DEF MoveInner, Dangling, StartWalk, Linked
    <2>4. expire[pre[t]] <= expire[next[t]]
      BY <1>1, <1>2, <1>4, <2>1, <2>2
    <2>5. \A s \in live \ {t, pre[t]} : next'[s] = next[s] /\ next[s] # t
      <3>1. SUFFICES ASSUME NEW s \in live \ {t, pre[t]} PROVE next'[s] = next[s] /\ next[s] # t
        OBVIOUS
      <3>2. next[s] = t => pre[t] = s
        BY <1>1 DEF ListInv, Links, ForwardWellFormed
      <3>3. QED
        BY <1>1, <2>2, <2>3, <3>2 DEF TypeOK
    <2>6. next'[pre[t]] = next[t]
      BY <1>1, <2>2, <2>3 DEF TypeOK
    <2>7. Sorted'
      BY <1>1, <1>2, <1>4, <2>1, <2>2, <2>3, <2>4, <2>5, <2>6 DEF Sorted
    <2>8. QED
      BY <1>3, <2>7
  <1>7. QED
    BY <1>5, <1>6

LEMMA OrderDelTimer ==
  ASSUME IInv, OrderInv, clock = "forward", NEW t \in Timers, DelTimer(t)
  PROVE  Sorted' /\ Stamped'
  <1>1. /\ TypeOK /\ ListInv /\ Sorted /\ Stamped /\ timer = NULL /\ timer' = NULL
        /\ Linked = live /\ live \subseteq Timers /\ NULL \notin Timers /\ t \in live
        /\ live' = live \ {t} /\ Linked' = live \ {t} /\ op = "idle"
        /\ UNCHANGED <<now, expire>>
    BY IdleFacts DEF DelTimer, OrderInv, Idle, locals, Linked
  <1>2. \A s \in live : next[s] # NULL => next[s] \in live /\ expire[s] <= expire[next[s]]
    BY <1>1 DEF Sorted, ListInv, Links, ForwardWellFormed
  <1>3. CASE t = head_ \/ next' = next
    BY <1>1, <1>3 DEF Sorted, Stamped, DelTimer
  <1>4. CASE t # head_ /\ next' # next
    <2>1. pre[t] \in live \ {t} /\ next[pre[t]] = t /\ expire[pre[t]] <= expire[t]
      BY <1>1, <1>2, <1>4, InnerTimer DEF ListInv
    <2>2. \A s \in live \ {pre[t]} : next'[s] = next[s]
      BY <1>1, <1>4, <2>1 DEF DelTimer, TypeOK
    <2>3. /\ next'[pre[t]] # NULL => next'[pre[t]] = next[t] /\ next[t] # NULL
      BY <1>1, <1>4, <2>1, TimerListAssumption DEF DelTimer, TypeOK
    <2>4. next[t] # NULL => expire[pre[t]] <= expire[next[t]]
      BY <1>1, <1>2, <2>1 DEF TypeOK
    <2>5. QED
      BY <1>1, <1>2, <2>1, <2>2, <2>3, <2>4 DEF Sorted, Stamped
  <1>5. QED
    BY <1>3, <1>4

\* A clock that was set back stays so for the record.
LEMMA SetbackStays ==
  ASSUME [Next]_vars, clock' = "forward"
  PROVE  clock = "forward" /\ ~SetClockBack
  BY DEF Next, vars, AdvanceClock, SetClockBack, InitTimer, DelayTimer, MoveHead, MoveInner,
         Crash, DelTimer, WalkOn, WalkInsert, WalkAppend, BeginTick, TickFire, EndTick,
         BeginDestroy, DestroyHead, EndDestroy

LEMMA OrderStep ==
  ASSUME IInv, OrderInv, [Next]_vars
  PROVE  OrderInv'
  <1>1. SUFFICES ASSUME ~fault', clock' = "forward" PROVE Sorted' /\ Stamped'
    BY DEF OrderInv
  <1>0. clock = "forward" /\ ~SetClockBack
    BY <1>1, SetbackStays
  <1>2. CASE QuietStep \/ TickFire \/ DestroyHead \/ WalkOn
    <2>1. /\ Linked' \subseteq Linked /\ live' \subseteq live /\ ~fault
          /\ expire' = expire /\ next' = next
      BY <1>0, <1>1, <1>2
         DEF QuietStep, TickFire, DestroyHead, WalkOn, Linked, fields, locals, Idle, Walking,
             AdvanceClock, SetClockBack, BeginTick, EndTick, BeginDestroy, EndDestroy, vars
    <2>2. now' >= now /\ now' \in Nat
      BY <1>0, <1>2 DEF QuietStep, TickFire, DestroyHead, WalkOn, IInv, TypeOK,
             AdvanceClock, SetClockBack, BeginTick, EndTick, BeginDestroy, EndDestroy, vars
    <2>3. QED
      BY <1>0, <2>1, <2>2, OrderKept
  <1>3. ASSUME NEW t \in Timers, InitTimer(t) PROVE Sorted' /\ Stamped'
    BY <1>0, <1>3, OrderInitTimer
  <1>4. ASSUME NEW t \in Timers, DelayTimer(t) PROVE Sorted' /\ Stamped'
    BY <1>0, <1>1, <1>4, OrderDelayTimer
  <1>5. ASSUME NEW t \in Timers, DelTimer(t) PROVE Sorted' /\ Stamped'
    BY <1>0, <1>5, OrderDelTimer
  <1>6. CASE WalkInsert \/ WalkAppend
    BY <1>0, <1>6, OrderWalkLink
  <1>7. QED
    BY <1>2, <1>3, <1>4, <1>5, <1>6 DEF Next, QuietStep

\* Until the wall clock is set back, expiries are stamped in ascending order
\* and the list stays sorted, whichever timers are delayed, deleted or fired.
THEOREM OrderHolds == Spec => []AscendingOrder
  <1>1. Init => OrderInv
    BY DEF Init, OrderInv, Sorted, Stamped, Linked
  <1>2. IInv /\ OrderInv /\ [Next]_vars => OrderInv'
    BY OrderStep
  <1>3. OrderInv => AscendingOrder
    BY DEF OrderInv, Sorted, AscendingOrder
  <1>4. QED
    BY <1>1, <1>2, <1>3, Invariance, PTL DEF Spec

-----------------------------------------------------------------------------
(* The list implements the abstract container.                             *)

\* When the first timer of a sorted list is not due, none is.
LEMMA HeadIsEarliest ==
  ASSUME IInv, OrderInv, ~fault, clock = "forward", op = "tick", head_ # NULL
  PROVE  \A t \in live : expire[head_] <= expire[t]
  <1>1. /\ TypeOK /\ ListInv /\ Sorted /\ Linked = live /\ live \subseteq Timers
        /\ NULL \notin Timers /\ head_ \in live
    BY TimerListAssumption
       DEF IInv, OrderInv, ListInv, WalkOK, Linked, TypeOK, Links, EndsWellFormed
  <1> DEFINE S == {t \in live : expire[head_] <= expire[t]}
  <1>2. S \in SUBSET Linked /\ head_ \in S
    BY <1>1 DEF TypeOK
  <1>3. \A t \in S : next[t] # NULL => next[t] \in S
    BY <1>1 DEF Sorted, TypeOK, ListInv, Links, ForwardWellFormed
  <1>4. S = Linked
    BY <1>1, <1>2, <1>3 DEF ListInv, Links, AllReachable
  <1>5. QED
    BY <1>1, <1>4

\* The values the refinement mapping gives to the variables of TimerSet.
deadlineBar == [t \in live |-> expire[t]]
sweepBar    == IF op = "tick" THEN curr ELSE NoSweep

LEMMA RefineStep ==
  ASSUME IInv, OrderInv, clock' = "forward", [Next]_vars
  PROVE  Container!Next \/ (deadlineBar' = deadlineBar /\ sweepBar' = sweepBar)
  <1> USE DEF deadlineBar, sweepBar
  <1>1. TypeOK /\ clock = "forward"
    BY SetbackStays DEF IInv
  <1>2. CASE BeginTick
    <2>1. sweepBar = NoSweep /\ sweepBar' # NoSweep /\ deadlineBar' = deadlineBar
      BY <1>1, <1>2 DEF BeginTick, Idle, TypeOK, NoSweep, fields
    <2>2. QED
      BY <2>1 DEF Container!Next, Container!BeginSweep
  <1>3. CASE EndTick
    <2>1. ~fault /\ op = "tick" /\ sweepBar' = NoSweep /\ deadlineBar' = deadlineBar
      BY <1>3 DEF EndTick, fields
    <2>2. sweepBar # NoSweep /\ sweepBar = curr
      BY <1>1, <2>1 DEF TypeOK, NoSweep
    <2>3. \A t \in live : expire[t] > curr
      <3>1. CASE head_ = NULL
        <4>1. live = {}
          BY <2>1, <3>1, TimerListAssumption
             DEF IInv, ListInv, WalkOK, Links, EndsWellFormed, Linked, TypeOK
        <4>2. QED
          BY <4>1
      <3>2. CASE head_ # NULL
        <4>1. head_ \in Timers /\ expire[head_] > curr
          BY <1>1, <1>3, <3>2 DEF EndTick, Due, TypeOK, Pointers
        <4>2. QED
          BY <1>1, <2>1, <3>2, <4>1, HeadIsEarliest DEF TypeOK
      <3>3. QED
        BY <3>1, <3>2
    <2>4. QED
      BY <2>1, <2>2, <2>3 DEF Container!Next, Container!EndSweep, Container!Armed
  <1>4. CASE TickFire
    <2>1. /\ head_ \in live /\ head_ \in Timers /\ live' = live \ {head_}
          /\ expire' = expire /\ op = "tick" /\ op' = "tick" /\ curr' = curr
          /\ expire[head_] <= curr
      BY <1>1, <1>4, TimerListAssumption
         DEF TickFire, Due, locals, TypeOK, Pointers, IInv, ListInv, Links, EndsWellFormed, Linked
    <2>2. sweepBar # NoSweep /\ sweepBar' = sweepBar /\ sweepBar = curr
      BY <1>1, <2>1 DEF TypeOK, NoSweep
    <2>3. PICK t \in Timers : t = head_
      BY <2>1
    <2>4. Container!Fire(t)
      BY <2>1, <2>2, <2>3 DEF Container!Fire, Container!Remove, Container!Armed
    <2>5. QED
      BY <2>4 DEF Container!Next
  <1>5. CASE DestroyHead
    <2>1. /\ head_ \in live /\ head_ \in Timers /\ live' = live \ {head_}
          /\ expire' = expire /\ op = "destroy" /\ op' = "destroy"
      BY <1>1, <1>5
         DEF DestroyHead, fields, TypeOK, Pointers, IInv, ListInv, Links, EndsWellFormed, Linked
    <2>2. PICK t \in Timers : t = head_
      BY <2>1
    <2>3. Container!Disarm(t)
      BY <2>1, <2>2 DEF Container!Disarm, Container!Remove, Container!Armed
    <2>4. QED
      BY <2>3 DEF Container!Next
  <1>6. ASSUME NEW t \in Timers, InitTimer(t)
        PROVE  Container!Arm(t)
    <2>1. /\ t \notin live /\ live' = live \cup {t} /\ op = "idle" /\ op' \in {"idle", "walk"}
          /\ \A s \in live \ {t} : expire'[s] = expire[s]
      BY <1>1, <1>6 DEF InitTimer, Idle, StartWalk, TypeOK
    <2>2. QED
      BY <2>1 DEF Container!Arm, Container!OthersKeep, Container!Armed
  <1>7. ASSUME NEW t \in Timers, DelayTimer(t)
        PROVE  Container!Rearm(t)
    <2>1. /\ t \in live /\ live' = live /\ op = "idle" /\ op' \in {"idle", "walk"}
          /\ \A s \in live \ {t} : expire'[s] = expire[s]
      BY <1>1, <1>7
         DEF DelayTimer, Idle, StartWalk, TypeOK, MoveHead, MoveInner, Crash
    <2>2. QED
      BY <2>1 DEF Container!Rearm, Container!OthersKeep, Container!Armed
  <1>8. ASSUME NEW t \in Timers, DelTimer(t)
        PROVE  Container!Disarm(t)
    <2>1. /\ t \in live /\ live' = live \ {t} /\ op = "idle" /\ op' = "idle"
          /\ expire' = expire
      BY <1>8 DEF DelTimer, Idle
    <2>2. QED
      BY <2>1 DEF Container!Disarm, Container!Remove, Container!Armed
  <1>9. CASE \/ AdvanceClock \/ SetClockBack \/ WalkOn \/ WalkInsert \/ WalkAppend
             \/ BeginDestroy \/ EndDestroy \/ UNCHANGED vars
    <2>1. /\ live' = live /\ expire' = expire /\ curr' = curr
          /\ op' = op \/ (op # "tick" /\ op' # "tick")
      BY <1>9 DEF AdvanceClock, SetClockBack, WalkOn, WalkInsert, WalkAppend, Walking,
                  EndWalk, BeginDestroy, EndDestroy, Idle, vars, fields, locals
    <2>2. QED
      BY <2>1
  <1>10. QED
    BY <1>2, <1>3, <1>4, <1>5, <1>6, <1>7, <1>8, <1>9 DEF Next, Container!Next

\* Until the wall clock is set back, the linked list implements the abstract
\* timer container: above all, a tick fires only timers that are due and
\* leaves none of them behind, although it looks no further than the first
\* timer that is not due.
THEOREM ListRefinesTimerSet == Spec => RefinesTimerSet
  <1>1. Init => OrderInv
    BY DEF Init, OrderInv, Sorted, Stamped, Linked
  <1>2. IInv /\ OrderInv /\ [Next]_vars => OrderInv'
    BY OrderStep
  <1>3. Init => Container!Init
    BY DEF Init, Container!Init, NoSweep
  <1>4. IInv /\ OrderInv /\ [Next]_vars => [clock' = "setback" \/ Container!Next]_(Container!vars)
    <2>1. SUFFICES ASSUME IInv, OrderInv, [Next]_vars
                   PROVE  \/ clock' = "setback" \/ Container!Next
                          \/ Container!vars' = Container!vars
      OBVIOUS
    <2>2. clock' = "forward" \/ clock' = "setback"
      BY <2>1, NextInv DEF IInv, TypeOK
    <2>3. CASE clock' = "forward"
      BY <2>1, <2>3, RefineStep DEF Container!vars, deadlineBar, sweepBar
    <2>4. QED
      BY <2>2, <2>3
  <1>5. QED
    BY <1>1, <1>2, <1>3, <1>4, Invariance, PTL DEF Spec, RefinesTimerSet
===============================================================================
