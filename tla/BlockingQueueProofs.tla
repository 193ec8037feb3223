--------------------------- MODULE BlockingQueueProofs ---------------------------
(***************************************************************************)
(* Proofs about BlockingQueue, for any number of consumers, any items and  *)
(* any size of the array.                                                  *)
(***************************************************************************)
EXTENDS BlockingQueue, SequenceTheorems, TLAPS

USE BlockingQueueAssumption

-----------------------------------------------------------------------------
(* The indices.                                                            *)

\* What % does to the sums that occur: an index and a distance in the array.
LEMMA Wraps ==
  ASSUME NEW a \in 0 .. 2 * max_size_ - 1
  PROVE  a % max_size_ = IF a < max_size_ THEN a ELSE a - max_size_
  <1>1. CASE a < max_size_
    BY <1>1
  <1>2. CASE a >= max_size_
    BY <1>2
  <1>3. QED
    BY <1>1, <1>2

LEMMA NextIndex ==
  ASSUME NEW i \in -1 .. max_size_ - 1
  PROVE  Next1(i) = IF i = max_size_ - 1 THEN 0 ELSE i + 1
  BY Wraps DEF Next1

\* Where the i-th item lies.
Slot(i) == IF front_ + i < max_size_ THEN front_ + i ELSE front_ + i - max_size_

\* back_ is size_ places after front_.
IndexInv == /\ front_ + size_ = back_ \/ front_ + size_ = back_ + max_size_
            /\ back_ = -1 => front_ = -1 /\ size_ = 0

QueueInv == TypeOK /\ IndexInv

LEMMA QueueInit == Init => QueueInv
  BY DEF Init, QueueInv, IndexInv, TypeOK, Labels, Waiting

LEMMA QueueStep == QueueInv /\ [Next]_vars => QueueInv'
  <1> SUFFICES ASSUME QueueInv, [Next]_vars PROVE QueueInv'
    OBVIOUS
  <1> USE DEF QueueInv, TypeOK, IndexInv
  <1>1. CASE PushFull
    BY <1>1 DEF PushFull, Broadcast, array, Labels, Waiting
  <1>2. CASE Clear
    BY <1>2 DEF Clear
  <1>3. ASSUME NEW x \in Items, Push(x) PROVE QueueInv'
    <2>1. back_' = IF back_ = max_size_ - 1 THEN 0 ELSE back_ + 1
      BY <1>3, NextIndex DEF Push
    <2>2. pc' \in [Consumers -> Labels]
      BY <1>3 DEF Push, Broadcast, Labels, Waiting
    <2>3. size_' = size_ + 1 /\ size_ < max_size_ /\ UNCHANGED <<front_, item>>
      BY <1>3 DEF Push
    <2>4. array_' \in [0 .. max_size_ - 1 -> Items]
      BY <1>3, <2>1 DEF Push
    <2>5. QED
      BY <2>1, <2>2, <2>3, <2>4
  <1>4. ASSUME NEW c \in Consumers, Pop(c) \/ WakeUp(c) \/ Expire(c) PROVE QueueInv'
    <2>1. CASE size_ > 0 /\ TakeFront(c)
      <3>1. front_' = IF front_ = max_size_ - 1 THEN 0 ELSE front_ + 1
        BY <2>1, NextIndex DEF TakeFront
      <3>2. item' \in [Consumers -> Items]
        BY <2>1, <3>1 DEF TakeFront
      <3>3. size_' = size_ - 1 /\ UNCHANGED <<array_, back_>> /\ pc' \in [Consumers -> Labels]
        BY <2>1 DEF TakeFront, Goto, Labels
      <3>4. QED
        BY <2>1, <3>1, <3>2, <3>3
    <2>2. CASE PopWaits(c) \/ PopTooLate(c) \/ PopExpired(c) \/ WakeUp(c) \/ Expire(c)
      BY <2>2 DEF PopWaits, PopTooLate, PopExpired, WakeUp, Expire, Goto, array, Labels, Waiting
    <2>3. QED
      BY <1>4, <2>1, <2>2 DEF Pop, PopNow, PopWoken
  <1>5. CASE UNCHANGED vars
    BY <1>5 DEF vars
  <1>6. QED
    BY <1>1, <1>2, <1>3, <1>4, <1>5 DEF Next

LEMMA QueueAlways == Spec => []QueueInv
  BY QueueInit, QueueStep, PTL DEF Spec

\* The variables stay within their types: the indices never leave the array
\* (push, pop and clear of BlockingQueue).
THEOREM TypeCorrect == Spec => []TypeOK
  <1>1. QueueInv => TypeOK
    BY DEF QueueInv
  <1>2. QED
    BY <1>1, QueueAlways, PTL

-----------------------------------------------------------------------------
(* Nobody sleeps while there is an item.                                   *)

LEMMA SleepStep == TypeOK /\ NoneSleeps /\ [Next]_vars => NoneSleeps'
  <1> SUFFICES ASSUME TypeOK, NoneSleeps, [Next]_vars PROVE NoneSleeps'
    OBVIOUS
  <1> USE DEF TypeOK, NoneSleeps, Waiting
  <1>1. CASE PushFull
    BY <1>1 DEF PushFull, Broadcast
  <1>2. CASE Clear
    BY <1>2 DEF Clear
  <1>3. ASSUME NEW x \in Items, Push(x) PROVE NoneSleeps'
    BY <1>3 DEF Push, Broadcast
  <1>4. ASSUME NEW c \in Consumers, Pop(c) \/ WakeUp(c) \/ Expire(c) PROVE NoneSleeps'
    <2>1. CASE size_ > 0 /\ TakeFront(c)
      BY <2>1 DEF TakeFront, Goto
    <2>2. CASE PopWaits(c) \/ PopTooLate(c) \/ PopExpired(c) \/ WakeUp(c) \/ Expire(c)
      BY <2>2 DEF PopWaits, PopTooLate, PopExpired, WakeUp, Expire, Goto, array
    <2>3. QED
      BY <1>4, <2>1, <2>2 DEF Pop, PopNow, PopWoken
  <1>5. CASE UNCHANGED vars
    BY <1>5 DEF vars
  <1>6. QED
    BY <1>1, <1>2, <1>3, <1>4, <1>5 DEF Next

\* No consumer sleeps while there is an item, however push, pop, clear and
\* spurious wake-ups interleave (the condition of BlockingQueue).
THEOREM NobodySleeps == Spec => []NoneSleeps
  <1>1. Init => NoneSleeps
    <2>1. Init => size_ = 0
      BY DEF Init
    <2>2. QED
      BY <2>1 DEF NoneSleeps
  <1>2. QED
    BY <1>1, SleepStep, TypeCorrect, PTL DEF Spec

-----------------------------------------------------------------------------
(* The queue it implements.                                                *)

\* The queue as a sequence, by the places of its items in the array.
InArray == /\ Contents \in Seq(Items) /\ Len(Contents) = size_
           /\ \A i \in 1 .. size_ : /\ Slot(i) \in 0 .. max_size_ - 1
                                   /\ Contents[i] = array_[Slot(i)]

LEMMA ContentsInArray == TypeOK => InArray
  <1> SUFFICES ASSUME TypeOK PROVE InArray
    OBVIOUS
  <1>1. \A i \in 1 .. size_ : front_ + i \in 0 .. 2 * max_size_ - 1
    BY DEF TypeOK
  <1>2. ASSUME NEW i \in 1 .. size_ PROVE (front_ + i) % max_size_ = Slot(i)
    <2> DEFINE a == front_ + i
    <2>1. a \in 0 .. 2 * max_size_ - 1
      BY <1>1
    <2>2. Slot(i) = IF a < max_size_ THEN a ELSE a - max_size_
      BY <2>1 DEF Slot, TypeOK
    <2> HIDE DEF a
    <2>3. a % max_size_ = Slot(i)
      BY <2>1, <2>2, Wraps
    <2>4. QED
      BY <2>3 DEF a
  <1>3. \A i \in 1 .. size_ : Slot(i) \in 0 .. max_size_ - 1
    BY <1>1 DEF TypeOK, Slot
  <1>4. Contents = [i \in 1 .. size_ |-> array_[Slot(i)]]
    BY <1>2 DEF Contents
  <1>5. size_ \in Nat /\ \A i \in 1 .. size_ : array_[Slot(i)] \in Items
    BY <1>3 DEF TypeOK
  <1>6. QED
    BY <1>3, <1>4, <1>5 DEF InArray

LEMMA TailOf ==
  ASSUME NEW s \in Seq(Items), NEW t \in Seq(Items), Len(s) > 0, Len(t) = Len(s) - 1,
         \A i \in 1 .. Len(t) : t[i] = s[i + 1]
  PROVE  s # <<>> /\ Head(s) = s[1] /\ t = Tail(s)
  <1>1. s # <<>> /\ Head(s) = s[1]
    OBVIOUS
  <1>2. /\ Tail(s) \in Seq(Items) /\ Len(Tail(s)) = Len(s) - 1
        /\ \A i \in 1 .. Len(s) - 1 : Tail(s)[i] = s[i + 1]
    BY <1>1, HeadTailProperties
  <1>3. t = Tail(s)
    BY <1>2, SeqEqual
  <1>4. QED
    BY <1>1, <1>3

\* back() gives the item that was pushed last (BlockingQueue::back).
THEOREM BackCorrect == Spec => []BackIsLast
  <1>1. QueueInv => BackIsLast
    <2> SUFFICES ASSUME QueueInv, size_ > 0 PROVE back_ >= 0 /\ array_[back_] = Contents[size_]
      BY DEF BackIsLast
    <2>1. back_ >= 0 /\ Slot(size_) = back_
      BY DEF QueueInv, IndexInv, TypeOK, Slot
    <2>2. QED
      BY <2>1, ContentsInArray DEF QueueInv, TypeOK, InArray
  <1>2. QED
    BY <1>1, QueueAlways, PTL

LEMMA PushAppends ==
  ASSUME QueueInv, QueueInv', NEW x \in Items, Push(x)
  PROVE  BQ!Push(x)
  <1> USE DEF QueueInv
  <1>1. /\ size_' = size_ + 1 /\ size_ < max_size_ /\ UNCHANGED <<front_, item>>
        /\ back_' = IF back_ = max_size_ - 1 THEN 0 ELSE back_ + 1
    BY NextIndex DEF Push, TypeOK
  <1>2. array_' = [array_ EXCEPT ![back_'] = x]
    BY DEF Push
  <1>3. back_' = Slot(size_ + 1)
    BY <1>1 DEF IndexInv, TypeOK, Slot
  <1>4. \A i \in 1 .. size_ : Slot(i) # back_'
    BY <1>1, <1>3 DEF TypeOK, Slot
  <1>5. \A i \in 1 .. size_ + 1 : Slot(i)' = Slot(i)
    BY <1>1 DEF Slot
  <1>6. InArray
    BY ContentsInArray
  <1>7. InArray'
    BY ContentsInArray, PTL
  <1>8. Contents' = Append(Contents, x)
    <2>1. \A i \in 1 .. size_ : Contents'[i] = Contents[i]
      BY <1>1, <1>2, <1>4, <1>5, <1>6, <1>7 DEF TypeOK, InArray
    <2>2. Contents'[size_ + 1] = x
      BY <1>1, <1>2, <1>3, <1>5, <1>7 DEF TypeOK, InArray
    <2>3. QED
      BY <1>1, <1>6, <1>7, <2>1, <2>2 DEF TypeOK, InArray
  <1>9. QED
    BY <1>1, <1>6, <1>8 DEF BQ!Push, InArray

LEMMA PopTakesHead ==
  ASSUME QueueInv, QueueInv', NEW c \in Consumers, size_ > 0, TakeFront(c)
  PROVE  BQ!Pop(c)
  <1> USE DEF QueueInv
  <1>1. /\ size_' = size_ - 1 /\ UNCHANGED <<array_, back_>>
        /\ front_' = IF front_ = max_size_ - 1 THEN 0 ELSE front_ + 1
        /\ item' = [item EXCEPT ![c] = array_[front_']]
    BY NextIndex DEF TakeFront, TypeOK
  <1>2. front_' = Slot(1) /\ \A i \in 1 .. size_ - 1 : Slot(i)' = Slot(i + 1)
    BY <1>1 DEF Slot, TypeOK
  <1>3. InArray
    BY ContentsInArray
  <1>4. InArray'
    BY ContentsInArray, PTL
  <1>5. \A i \in 1 .. size_' : Contents'[i] = Contents[i + 1]
    BY <1>1, <1>2, <1>3, <1>4 DEF TypeOK, InArray
  <1>6. Contents # <<>> /\ Head(Contents) = Contents[1] /\ Contents' = Tail(Contents)
    BY <1>1, <1>3, <1>4, <1>5, TailOf DEF TypeOK, InArray
  <1>7. Contents[1] = array_[front_']
    BY <1>1, <1>2, <1>3 DEF TypeOK, InArray
  <1>8. item' = [item EXCEPT ![c] = Head(Contents)]
    BY <1>1, <1>6, <1>7
  <1>9. QED
    BY <1>6, <1>8 DEF BQ!Pop

\* Steps that leave the array and what was popped alone.
LEMMA SameContents ==
  ASSUME UNCHANGED <<array_, size_, front_, back_, item>> PROVE UNCHANGED BQ!vars
  BY DEF BQ!vars, Contents

\* The circular array is a first-in first-out queue of at most max_size_
\* items: push, pop and clear act on it as BoundedQueue says.
THEOREM QueueRefinesBounded == Spec => RefinesQueue
  <1>1. Init => BQ!Init
    <2> SUFFICES ASSUME Init PROVE BQ!Init
      OBVIOUS
    <2>1. item \in [Consumers -> Items] /\ Contents = <<>>
      BY DEF Init, Contents
    <2>2. QED
      BY <2>1 DEF BQ!Init
  <1>2. QueueInv /\ QueueInv' /\ [Next]_vars => [BQ!Next]_(BQ!vars)
    <2> SUFFICES ASSUME QueueInv, QueueInv', [Next]_vars PROVE [BQ!Next]_(BQ!vars)
      OBVIOUS
    <2>1. CASE PushFull
      BY <2>1, SameContents DEF PushFull, array
    <2>2. CASE Clear
      <3>1. Contents' = <<>> /\ UNCHANGED item
        BY <2>2 DEF Clear, Contents
      <3>2. QED
        BY <3>1 DEF BQ!Clear, BQ!Next
    <2>3. ASSUME NEW x \in Items, Push(x) PROVE BQ!Next
      BY <2>3, PushAppends DEF BQ!Next
    <2>4. ASSUME NEW c \in Consumers, Pop(c) \/ WakeUp(c) \/ Expire(c)
          PROVE  BQ!Next \/ UNCHANGED BQ!vars
      <3>1. CASE size_ > 0 /\ TakeFront(c)
        BY <3>1, PopTakesHead DEF BQ!Next
      <3>2. CASE PopWaits(c) \/ PopTooLate(c) \/ PopExpired(c) \/ WakeUp(c) \/ Expire(c)
        BY <3>2, SameContents DEF PopWaits, PopTooLate, PopExpired, WakeUp, Expire, array
      <3>3. QED
        BY <2>4, <3>1, <3>2 DEF Pop, PopNow, PopWoken
    <2>5. CASE UNCHANGED vars
      BY <2>5, SameContents DEF vars
    <2>6. QED
      BY <2>1, <2>2, <2>3, <2>4, <2>5 DEF Next
  <1>3. QED
    BY <1>1, <1>2, QueueAlways, PTL DEF Spec, RefinesQueue, BQ!Spec
===============================================================================
