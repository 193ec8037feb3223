------------------------------ MODULE ServerProofs ------------------------------
(***************************************************************************)
(* Proofs about Server, for any number of descriptors, workers and         *)
(* connections, in either pattern and trigger mode.                        *)
(***************************************************************************)
EXTENDS Server, FiniteSetTheorems, SequenceTheorems, TLAPS

USE ServerAssumption

-----------------------------------------------------------------------------
(* The list of timers.                                                     *)

LEMMA ToSetType ==
  ASSUME NEW S, NEW s \in Seq(S)
  PROVE  /\ ToSet(s) = {s[i] : i \in 1 .. Len(s)}
         /\ ToSet(s) \subseteq S
  BY LenProperties DEF ToSet

LEMMA ToSetAppend ==
  ASSUME NEW S, NEW s \in Seq(S), NEW c \in S
  PROVE  /\ Append(s, c) \in Seq(S)
         /\ Len(Append(s, c)) = Len(s) + 1
         /\ ToSet(Append(s, c)) = ToSet(s) \cup {c}
  <1> DEFINE t == Append(s, c)
  <1>1. /\ t \in Seq(S) /\ Len(t) = Len(s) + 1 /\ Len(s) \in Nat
        /\ \A i \in 1 .. Len(s) : t[i] = s[i]
        /\ t[Len(s) + 1] = c
    BY AppendProperties, LenProperties
  <1> HIDE DEF t
  <1>2. ToSet(t) = {t[i] : i \in 1 .. Len(t)} /\ ToSet(s) = {s[i] : i \in 1 .. Len(s)}
    BY <1>1, ToSetType
  <1>3. \A x \in ToSet(t) : x \in ToSet(s) \cup {c}
    BY <1>1, <1>2
  <1>4. \A x \in ToSet(s) : x \in ToSet(t)
    BY <1>1, <1>2
  <1>5. c \in ToSet(t)
    <2>1. Len(t) \in 1 .. Len(t)
      BY <1>1
    <2>2. QED
      BY <1>1, <1>2, <2>1
  <1>6. QED
    BY <1>1, <1>3, <1>4, <1>5 DEF t

\* The queue without its first slot.
LEMMA ToSetTail ==
  ASSUME NEW S, NEW s \in Seq(S), s # <<>>, NEW x \in ToSet(s)
  PROVE  x = Head(s) \/ x \in ToSet(Tail(s))
  <1>1. /\ Len(s) \in Nat \ {0} /\ Head(s) = s[1] /\ Tail(s) \in Seq(S)
        /\ Len(Tail(s)) = Len(s) - 1 /\ \A i \in 1 .. Len(s) - 1 : Tail(s)[i] = s[i + 1]
    BY HeadTailProperties, EmptySeq
  <1>2. PICK i \in 1 .. Len(s) : s[i] = x
    BY ToSetType
  <1>3. CASE i = 1
    BY <1>1, <1>2, <1>3
  <1>4. CASE i # 1
    <2>1. i - 1 \in 1 .. Len(s) - 1 /\ (i - 1) + 1 = i
      BY <1>1, <1>4
    <2>2. Tail(s)[i - 1] = x
      BY <1>1, <1>2, <2>1
    <2>3. ToSet(Tail(s)) = {Tail(s)[j] : j \in 1 .. Len(s) - 1}
      BY <1>1, ToSetType
    <2>4. QED
      BY <2>1, <2>2, <2>3
  <1>5. QED
    BY <1>3, <1>4

\* Taking a timer out leaves the others in, in their order.
LEMMA WithoutAt ==
  ASSUME NEW S, NEW s \in Seq(S), NEW c \in ToSet(s)
  PROVE  \E i \in 1 .. Len(s) :
            /\ s[i] = c
            /\ Without(s, c) \in Seq(S)
            /\ Len(Without(s, c)) = Len(s) - 1
            /\ \A j \in 1 .. Len(s) - 1 :
                  Without(s, c)[j] = IF j < i THEN s[j] ELSE s[j + 1]
  <1>1. Len(s) \in Nat /\ DOMAIN s = 1 .. Len(s) /\ \A j \in 1 .. Len(s) : s[j] \in S
    BY LenProperties, ElementOfSeq
  <1>2. PICK i \in 1 .. Len(s) : s[i] = c /\ Without(s, c) = RemoveAt(s, i)
    BY <1>1 DEF ToSet, Without
  <1> DEFINE a == SubSeq(s, 1, i - 1)
             b == SubSeq(s, i + 1, Len(s))
  <1>3. Without(s, c) = a \o b
    BY <1>2 DEF RemoveAt
  <1>4. /\ a \in Seq(S) /\ Len(a) = i - 1
        /\ \A j \in 1 .. i - 1 : a[j] = s[j]
    <2>1. \A j \in 1 .. i - 1 : s[j] \in S
      BY <1>1, <1>2
    <2>2. /\ a \in Seq(S)
          /\ Len(a) = IF 1 <= i - 1 THEN (i - 1) - 1 + 1 ELSE 0
          /\ \A j \in 1 .. (i - 1) - 1 + 1 : a[j] = s[1 + j - 1]
      BY <1>1, <1>2, <2>1, SubSeqProperties
    <2>3. QED
      BY <1>2, <2>2
  <1>5. /\ b \in Seq(S) /\ Len(b) = Len(s) - i
        /\ \A j \in 1 .. Len(s) - i : b[j] = s[i + j]
    <2>1. \A j \in (i + 1) .. Len(s) : s[j] \in S
      BY <1>1, <1>2
    <2>2. /\ b \in Seq(S)
          /\ Len(b) = IF i + 1 <= Len(s) THEN Len(s) - (i + 1) + 1 ELSE 0
          /\ \A j \in 1 .. Len(s) - (i + 1) + 1 : b[j] = s[(i + 1) + j - 1]
      BY <1>1, <1>2, <2>1, SubSeqProperties
    <2> HIDE DEF b
    <2>3. Len(b) = Len(s) - i
      BY <1>1, <1>2, <2>2
    <2>4. ASSUME NEW j \in 1 .. Len(s) - i PROVE b[j] = s[i + j]
      <3>1. j \in 1 .. Len(s) - (i + 1) + 1 /\ (i + 1) + j - 1 = i + j
        BY <1>1, <1>2
      <3>2. QED
        BY <2>2, <3>1
    <2>5. QED
      BY <2>2, <2>3, <2>4
  <1> HIDE DEF a, b
  <1>6. /\ a \o b \in Seq(S) /\ Len(a \o b) = Len(a) + Len(b)
        /\ \A j \in 1 .. Len(a) + Len(b) :
              (a \o b)[j] = IF j <= Len(a) THEN a[j] ELSE b[j - Len(a)]
    BY <1>4, <1>5, ConcatProperties
  <1>7. \A j \in 1 .. Len(s) - 1 : (a \o b)[j] = IF j < i THEN s[j] ELSE s[j + 1]
    <2> TAKE j \in 1 .. Len(s) - 1
    <2>1. j \in 1 .. Len(a) + Len(b)
      BY <1>1, <1>2, <1>4, <1>5
    <2>2. CASE j < i
      BY <1>1, <1>2, <1>4, <1>6, <2>1, <2>2
    <2>3. CASE ~(j < i)
      <3>1. j - Len(a) \in 1 .. Len(s) - i
        BY <1>1, <1>2, <1>4, <2>3
      <3>2. (a \o b)[j] = b[j - Len(a)] /\ b[j - Len(a)] = s[i + (j - Len(a))]
        BY <1>1, <1>2, <1>4, <1>5, <1>6, <2>1, <2>3, <3>1
      <3>3. QED
        BY <1>2, <1>4, <2>3, <3>2
    <2>4. QED
      BY <2>2, <2>3
  <1>8. Len(a \o b) = Len(s) - 1
    BY <1>1, <1>2, <1>4, <1>5, <1>6
  <1>9. /\ i \in 1 .. Len(s) /\ s[i] = c
        /\ Without(s, c) \in Seq(S) /\ Len(Without(s, c)) = Len(s) - 1
        /\ \A j \in 1 .. Len(s) - 1 :
              Without(s, c)[j] = IF j < i THEN s[j] ELSE s[j + 1]
    BY <1>2, <1>3, <1>6, <1>7, <1>8
  <1>10. QED
    BY <1>9

LEMMA WithoutType ==
  ASSUME NEW S, NEW s \in Seq(S), NEW c
  PROVE  /\ Without(s, c) \in Seq(S)
         /\ ToSet(Without(s, c)) \subseteq ToSet(s)
         /\ \A x \in ToSet(s) : x # c => x \in ToSet(Without(s, c))
  <1>1. CASE c \notin ToSet(s)
    BY <1>1 DEF Without
  <1>2. CASE c \in ToSet(s)
    <2> DEFINE t == Without(s, c)
    <2>1. PICK i \in 1 .. Len(s) :
            /\ s[i] = c /\ t \in Seq(S) /\ Len(t) = Len(s) - 1
            /\ \A j \in 1 .. Len(s) - 1 : t[j] = IF j < i THEN s[j] ELSE s[j + 1]
      BY <1>2, WithoutAt
    <2> HIDE DEF t
    <2>2. /\ Len(s) \in Nat
          /\ ToSet(s) = {s[j] : j \in 1 .. Len(s)} /\ ToSet(t) = {t[j] : j \in 1 .. Len(t)}
      BY <2>1, ToSetType, LenProperties
    <2>3. ToSet(t) \subseteq ToSet(s)
      <3> SUFFICES ASSUME NEW j \in 1 .. Len(t) PROVE t[j] \in ToSet(s)
        BY <2>2
      <3>1. j \in 1 .. Len(s) /\ j + 1 \in 1 .. Len(s)
        BY <2>1, <2>2
      <3>2. QED
        BY <2>1, <2>2, <3>1
    <2>4. ASSUME NEW x \in ToSet(s), x # c PROVE x \in ToSet(t)
      <3>1. PICK k \in 1 .. Len(s) : s[k] = x
        BY <2>2
      <3>2. CASE k < i
        BY <2>1, <2>2, <3>1, <3>2
      <3>3. CASE k > i
        <4>1. k - 1 \in 1 .. Len(t) /\ k - 1 >= i /\ (k - 1) + 1 = k
          BY <2>1, <2>2, <3>3
        <4>2. t[k - 1] = x
          BY <2>1, <2>2, <3>1, <4>1
        <4>3. QED
          BY <2>2, <4>1, <4>2
      <3>4. QED
        BY <2>1, <2>4, <3>1, <3>2, <3>3
    <2>5. QED
      BY <2>1, <2>3, <2>4 DEF t
  <1>3. QED
    BY <1>1, <1>2

-----------------------------------------------------------------------------
(* Timers, connections and the events that are still to be handled.        *)

Pending(f) == \E e \in batch : e[1] = f

\* The timer that users_timer_[f] points to is in the list, and is f's.
Sound(f) == timer[f] \in Active /\ fdOf[timer[f]] = f

WatchInv ==
    /\ \A f \in Open : (pc = "init" /\ mfd = f) \/ (owner[f] = timer[f] /\ Sound(f))
    /\ pc = "init" => /\ mfd \in Fds /\ timer[mfd] \in Conns /\ fdOf[timer[mfd]] = mfd
                      /\ owner[mfd] \in {NONE, timer[mfd]}
    /\ \A f \in Fds : Pending(f) => (pc = "init" /\ mfd = f) \/ Sound(f)
    /\ \A d, e \in batch : d[1] = e[1] => d = e \/ d[1] \notin Fds
    /\ pc \in {"spin", "close", "spin_close"} => mfd \in Fds /\ Sound(mfd) /\ ~Pending(mfd)
    /\ pc \in {"close", "spin_close"} => mfd \notin Open
    /\ pc \in {"wait", "tick", "fired"} => batch = {}

LEMMA NoneMissed == 0 \in 0 .. MaxMissed
  OBVIOUS

\* An event of a descriptor that is being handled.
LEMMA HandledEvent ==
  ASSUME TypeOK, WatchInv, pc = "loop", NEW f \in Fds, NEW k, <<f, k>> \in batch
  PROVE  /\ Sound(f) /\ timer[f] \in Conns
         /\ \A e \in batch \ {<<f, k>>} : e[1] # f
  <1>1. Pending(f)
    BY DEF Pending
  <1>2. Sound(f)
    BY <1>1 DEF WatchInv
  <1>3. timer[f] \in Conns
    BY <1>2, ToSetType DEF Sound, TypeOK, TimersTypeOK, Active
  <1>4. ASSUME NEW e \in batch, e # <<f, k>> PROVE e[1] # f
    BY <1>4 DEF WatchInv
  <1>5. QED
    BY <1>2, <1>3, <1>4

LEMMA DelayKeeps ==
  ASSUME TypeOK, NEW c \in Active, Delay(c)
  PROVE  /\ timer_list_' \in Seq(Conns) /\ missed' \in [Conns -> 0 .. MaxMissed]
         /\ crashed' \in BOOLEAN
         /\ Active' = Active /\ timer' = timer /\ fdOf' = fdOf
  <1>1. c \in Conns /\ timer_list_ \in Seq(Conns)
    BY ToSetType DEF TypeOK, TimersTypeOK, Active
  <1>2. missed' \in [Conns -> 0 .. MaxMissed] /\ timer' = timer /\ fdOf' = fdOf
    BY NoneMissed DEF Delay, TypeOK, TimersTypeOK
  <1>3. timer_list_' \in Seq(Conns) /\ Active' = Active
    <2>1. CASE timer_list_' = timer_list_
      BY <1>1, <2>1 DEF Active
    <2>2. CASE timer_list_' = Append(Without(timer_list_, c), c)
      <3>1. /\ Without(timer_list_, c) \in Seq(Conns)
            /\ ToSet(Without(timer_list_, c)) \subseteq Active
            /\ \A x \in Active : x # c => x \in ToSet(Without(timer_list_, c))
        BY <1>1, WithoutType DEF Active
      <3>2. /\ timer_list_' \in Seq(Conns)
            /\ Active' = ToSet(Without(timer_list_, c)) \cup {c}
        BY <1>1, <2>2, <3>1, ToSetAppend DEF Active
      <3>3. QED
        BY <3>1, <3>2
    <2>3. QED
      BY <2>1, <2>2 DEF Delay
  <1>4. crashed' \in BOOLEAN
    BY DEF Delay, TypeOK, LoopTypeOK
  <1>5. QED
    BY <1>2, <1>3, <1>4

LEMMA DeleteKeeps ==
  ASSUME TypeOK, NEW c, DeleteTimer(c)
  PROVE  /\ timer_list_' \in Seq(Conns) /\ missed' \in [Conns -> 0 .. MaxMissed]
         /\ fdOf' \in [Conns -> Fds \cup {NoFd}] /\ timer' = timer
         /\ Active' \subseteq Active /\ \A x \in Active : x # c => x \in Active'
         /\ \A x \in Conns : x # c => fdOf'[x] = fdOf[x]
  <1>1. /\ timer_list_' \in Seq(Conns)
        /\ Active' \subseteq Active /\ \A x \in Active : x # c => x \in Active'
    BY WithoutType DEF DeleteTimer, TypeOK, TimersTypeOK, Active
  <1>2. missed' \in [Conns -> 0 .. MaxMissed]
    BY NoneMissed DEF DeleteTimer, TypeOK, TimersTypeOK
  <1>3. /\ fdOf' \in [Conns -> Fds \cup {NoFd}] /\ timer' = timer
        /\ \A x \in Conns : x # c => fdOf'[x] = fdOf[x]
    BY DEF DeleteTimer, TypeOK, TimersTypeOK
  <1>4. QED
    BY <1>1, <1>2, <1>3

-----------------------------------------------------------------------------
(* Types.                                                                  *)

LEMMA InitType == Init => TypeOK
  <1> SUFFICES ASSUME Init PROVE TypeOK
    OBVIOUS
  <1> USE DEF Init, NONE
  <1>1. KernelTypeOK
    BY DEF KernelTypeOK
  <1>2. SlotsTypeOK
    BY DEF SlotsTypeOK
  <1>3. TimersTypeOK
    BY NoneMissed, EmptySeq DEF TimersTypeOK
  <1>4. LoopTypeOK
    <2>1. 0 \in 0 .. MaxFailures /\ 0 \in Int
      OBVIOUS
    <2>2. QED
      BY <2>1, Zenon DEF LoopTypeOK
  <1>5. PoolTypeOK
    BY EmptySeq DEF PoolTypeOK
  <1>6. QED
    BY <1>1, <1>2, <1>3, <1>4, <1>5 DEF TypeOK

\* What the small operators keep.
LEMMA ModifyType ==
  ASSUME KernelTypeOK, NEW f, NEW event \in {"in", "out"}, Modify(f, event)
  PROVE  armed' \in [Fds -> {"off", "in", "out"}]
  BY DEF KernelTypeOK, Modify

LEMMA CloseFdType ==
  ASSUME KernelTypeOK, NEW f, CloseFd(f)
  PROVE  KernelTypeOK'
  BY DEF KernelTypeOK, CloseFd, NONE

LEMMA ResetType ==
  ASSUME SlotsTypeOK, NEW f, ResetFlags(f), sockfd_' = sockfd_
  PROVE  SlotsTypeOK'
  BY DEF SlotsTypeOK, ResetFlags

LEMMA WDoneType ==
  ASSUME PoolTypeOK, NEW w \in Workers, WDone(w), workqueue_' = workqueue_
  PROVE  PoolTypeOK'
  <1>1. task' \in [Workers -> Fds \cup {NoFd}]
    BY DEF PoolTypeOK, WDone
  <1>2. wloaded' \in [Workers -> Int]
    BY DEF PoolTypeOK, WDone
  <1>3. wpc' \in [Workers -> {"idle", "read", "write", "flag", "process",
                               "closed", "count", "arm"}]
    BY DEF PoolTypeOK, WDone
  <1>4. QED
    BY <1>1, <1>2, <1>3 DEF PoolTypeOK

LEMMA WGotoType ==
  ASSUME PoolTypeOK, NEW w, NEW label \in {"flag", "process", "closed", "count", "arm"},
         WGoto(w, label), workqueue_' = workqueue_, wloaded' \in [Workers -> Int]
  PROVE  PoolTypeOK'
  BY DEF PoolTypeOK, WGoto

LEMMA WorkerType ==
  ASSUME TypeOK, NEW w \in Workers, WorkerStep(w) \/ ProcessFails(w)
  PROVE  TypeOK'
  <1> USE DEF TypeOK
  <1>1. TimersTypeOK'
    BY DEF WorkerStep, Take, WorkerReads, WorkerFlags, WorkerWrites, WorkerEnds, Process,
           ProcessFails, ForgetFd, CountDown, ArmClosed, mine, timers, TimersTypeOK
  <1>2. LoopTypeOK'
    <2>1. CASE ProcessFails(w)
      BY <2>1 DEF ProcessFails, LoopTypeOK, mine, loop
    <2>2. CASE CountDown(w)
      BY <2>2 DEF CountDown, LoopTypeOK, PoolTypeOK, loop, ghosts
    <2>3. CASE UNCHANGED <<mine, ghosts>>
      BY <2>3 DEF LoopTypeOK, mine, loop, ghosts
    <2>4. QED
      BY <2>1, <2>2, <2>3 DEF WorkerStep, Take, WorkerReads, WorkerFlags, WorkerWrites,
             WorkerEnds, Process, ForgetFd, ArmClosed
  <1>3. KernelTypeOK'
    <2>1. CASE armed' \in [Fds -> {"off", "in", "out"}] /\ owner' = owner
      BY <2>1 DEF KernelTypeOK
    <2>2. CASE ProcessFails(w)
      BY <2>2, CloseFdType DEF ProcessFails, KernelTypeOK, kernel
    <2>3. CASE UNCHANGED kernel
      BY <2>3 DEF KernelTypeOK, kernel
    <2>4. QED
      BY <2>1, <2>2, <2>3, ModifyType DEF WorkerStep, Take, WorkerReads, WorkerFlags,
             WorkerWrites, WorkerEnds, Process, ForgetFd, CountDown, ArmClosed, KernelTypeOK
  <1>4. SlotsTypeOK'
    <2>1. CASE UNCHANGED slots
      BY <2>1 DEF SlotsTypeOK, slots, flags
    <2>2. CASE WorkerReads(w)
      BY <2>2 DEF WorkerReads, SlotsTypeOK
    <2>3. CASE WorkerFlags(w)
      BY <2>3 DEF WorkerFlags, SlotsTypeOK
    <2>4. CASE WorkerWrites(w)
      BY <2>4 DEF WorkerWrites, SlotsTypeOK
    <2>5. CASE WorkerEnds(w)
      BY <2>5 DEF WorkerEnds, SlotsTypeOK
    <2>6. CASE ForgetFd(w)
      BY <2>6 DEF ForgetFd, SlotsTypeOK, flags
    <2>7. QED
      BY <2>1, <2>2, <2>3, <2>4, <2>5, <2>6 DEF WorkerStep, Take, Process, ProcessFails,
             CountDown, ArmClosed
  <1>5. PoolTypeOK'
    <2>1. CASE Take(w)
      <3>1. Head(workqueue_) \in Fds /\ Tail(workqueue_) \in Seq(Fds)
        BY <2>1, HeadTailProperties DEF Take, PoolTypeOK
      <3>2. QED
        BY <2>1, <3>1 DEF Take, PoolTypeOK
    <2>2. CASE WDone(w) /\ UNCHANGED workqueue_
      BY <2>2, WDoneType
    <2>3. CASE UNCHANGED <<workqueue_, wloaded>> /\ \E label \in {"flag", "process", "closed", "count", "arm"} : WGoto(w, label)
      BY <2>3, WGotoType DEF PoolTypeOK
    <2>4. CASE ForgetFd(w)
      <3>1. wloaded' \in [Workers -> Int]
        BY <2>4 DEF ForgetFd, PoolTypeOK, LoopTypeOK
      <3>2. QED
        BY <2>4, <3>1, WGotoType DEF ForgetFd
    <2>5. QED
      BY <2>1, <2>2, <2>3, <2>4 DEF WorkerStep, WorkerReads, WorkerFlags, WorkerWrites,
             WorkerEnds, Process, ProcessFails, CountDown, ArmClosed
  <1>6. QED
    BY <1>1, <1>2, <1>3, <1>4, <1>5

LEMMA EnqueueType ==
  ASSUME PoolTypeOK, NEW f \in Fds, Enqueue(f), UNCHANGED <<wpc, task, wloaded>>
  PROVE  PoolTypeOK'
  BY AppendProperties DEF PoolTypeOK, Enqueue

LEMMA StartCloseType ==
  ASSUME TypeOK, NEW f \in Fds \cup {NoFd}, NEW label \in {"close", "spin_close", "fired"},
         StartClose(f, label), batch' \subseteq batch,
         UNCHANGED <<timeout, user_count_, ghosts>>
  PROVE  KernelTypeOK' /\ LoopTypeOK'
  BY CloseFdType DEF TypeOK, LoopTypeOK, StartClose, Goto, ghosts

LEMMA LeaveType ==
  ASSUME LoopTypeOK, NEW label \in {"accept", "loop", "tick"}, Leave(label),
         batch' \subseteq batch, user_count_' \in Int, UNCHANGED <<timeout, ghosts>>
  PROVE  LoopTypeOK'
  <1>1. loaded' \in Int
    BY DEF Leave
  <1>2. QED
    BY <1>1 DEF LoopTypeOK, Leave, Goto, ghosts

\* A handler that delays the timer of its descriptor.
LEMMA DelayType ==
  ASSUME TypeOK, NEW f \in Fds, Sound(f), Delay(timer[f]), alarm' = alarm
  PROVE  TimersTypeOK' /\ crashed' \in BOOLEAN
  BY DelayKeeps DEF TypeOK, TimersTypeOK, Sound

LEMMA DeleteType ==
  ASSUME TypeOK, NEW c, DeleteTimer(c), alarm' = alarm
  PROVE  TimersTypeOK'
  BY DeleteKeeps DEF TypeOK, TimersTypeOK

LEMMA LoopType ==
  ASSUME TypeOK, WatchInv, MainStep \/ EpollWait \/ Accept \/ AcceptNone \/ Alarm
  PROVE  TypeOK'
  <1> USE DEF TypeOK
  <1>0. UNCHANGED kernel => KernelTypeOK'
    BY DEF kernel, KernelTypeOK
  <1>1. UNCHANGED slots => SlotsTypeOK'
    BY DEF slots, flags, SlotsTypeOK
  <1>2. UNCHANGED <<timers, alarm>> => TimersTypeOK'
    BY DEF timers, TimersTypeOK
  <1>3. UNCHANGED pool => PoolTypeOK'
    BY DEF pool, PoolTypeOK
  <1>4. CASE EpollWait
    <2>1. LoopTypeOK'
      BY <1>4 DEF EpollWait, LoopTypeOK, KernelTypeOK, Events, Open, Goto, ghosts
    <2>2. KernelTypeOK'
      BY <1>4 DEF EpollWait, KernelTypeOK
    <2>3. QED
      BY <1>4, <2>1, <2>2, <1>1, <1>2, <1>3 DEF EpollWait
  <1>5. CASE Accept
    <2>1. PICK f \in Fds \ Open, c \in Conns :
             /\ owner' = [owner EXCEPT ![f] = c] /\ armed' = [armed EXCEPT ![f] = "in"]
             /\ sockfd_' = [sockfd_ EXCEPT ![f] = f]
             /\ timer' = [timer EXCEPT ![f] = c] /\ fdOf' = [fdOf EXCEPT ![c] = f]
             /\ mfd' = f /\ mixed' = (mixed \/ HasTask(f))
      BY <1>5 DEF Accept
    <2>2. KernelTypeOK' /\ SlotsTypeOK'
      BY <1>5, <2>1 DEF Accept, KernelTypeOK, SlotsTypeOK, flags
    <2>3. TimersTypeOK'
      BY <1>5, <2>1 DEF Accept, TimersTypeOK
    <2>4. LoopTypeOK'
      BY <1>5, <2>1 DEF Accept, LoopTypeOK, Done, Goto
    <2>5. QED
      BY <1>5, <1>3, <2>2, <2>3, <2>4 DEF Accept
  <1>6. CASE AcceptNone
    BY <1>6, <1>0, <1>1, <1>2, <1>3, LeaveType DEF AcceptNone, LoopTypeOK, Done
  <1>7. CASE InitTimer
    <2>1. mfd \in Fds /\ timer[mfd] \in Conns
      BY <1>7 DEF InitTimer, WatchInv
    <2>2. Append(timer_list_, timer[mfd]) \in Seq(Conns)
      BY <2>1, AppendProperties DEF TimersTypeOK
    <2>3. TimersTypeOK'
      BY <1>7, <2>1, <2>2, NoneMissed DEF InitTimer, TimersTypeOK
    <2>4. user_count_' \in Int
      BY <1>7 DEF InitTimer, LoopTypeOK
    <2>5. LoopTypeOK'
      BY <1>7, <2>4, LeaveType DEF InitTimer
    <2>6. SlotsTypeOK'
      BY <1>7, ResetType DEF InitTimer
    <2>7. QED
      BY <1>7, <1>0, <1>3, <2>3, <2>5, <2>6 DEF InitTimer
  <1>8. CASE RecvSignal
    <2>1. LoopTypeOK' /\ TimersTypeOK'
      BY <1>8 DEF RecvSignal, LoopTypeOK, TimersTypeOK, timers, ghosts, Done
    <2>2. QED
      BY <1>8, <1>0, <1>1, <1>3, <2>1 DEF RecvSignal
  <1>9. CASE SpinOut
    <2>1. SlotsTypeOK'
      BY <1>9 DEF SpinOut, SlotsTypeOK
    <2>2. QED
      BY <1>9, <1>0, <1>2, <1>3, <2>1, LeaveType DEF SpinOut, LoopTypeOK
  <1>10. CASE SpinCloses
    BY <1>10, <1>1, <1>2, <1>3, StartCloseType DEF SpinCloses, LoopTypeOK
  <1>11. CASE EndClose
    <2>1. SlotsTypeOK'
      BY <1>11 DEF EndClose, SlotsTypeOK
    <2>2. TimersTypeOK'
      BY <1>11, DeleteType DEF EndClose
    <2>3. user_count_' \in Int
      BY <1>11 DEF EndClose, LoopTypeOK
    <2>4. QED
      BY <1>11, <1>0, <1>3, <2>1, <2>2, <2>3, LeaveType DEF EndClose
  <1>12. CASE EndBatch
    <2>1. LoopTypeOK'
      BY <1>12 DEF EndBatch, LoopTypeOK, Goto, ghosts
    <2>2. QED
      BY <1>12, <1>0, <1>1, <1>2, <1>3, <2>1 DEF EndBatch
  <1>13. CASE Fire
    <2>1. /\ fdOf[Head(timer_list_)] \in Fds \cup {NoFd}
          /\ StartClose(fdOf[Head(timer_list_)], "fired")
          /\ DeleteTimer(Head(timer_list_))
      BY <1>13, HeadTailProperties DEF Fire, TimersTypeOK
    <2>2. TimersTypeOK'
      BY <1>13, <2>1, DeleteType DEF Fire
    <2>3. KernelTypeOK' /\ LoopTypeOK'
      BY <1>13, <2>1, StartCloseType DEF Fire
    <2>4. QED
      BY <1>13, <1>1, <1>3, <2>2, <2>3 DEF Fire
  <1>14. CASE EndFire
    <2>1. user_count_' \in Int
      BY <1>14 DEF EndFire, LoopTypeOK
    <2>2. QED
      BY <1>14, <1>0, <1>1, <1>2, <1>3, <2>1, LeaveType DEF EndFire
  <1>15. CASE EndTick
    <2>1. \A n \in 0 .. MaxMissed : n < MaxMissed => n + 1 \in 0 .. MaxMissed
      OBVIOUS
    <2>2. missed' \in [Conns -> 0 .. MaxMissed]
      BY <1>15, <2>1 DEF EndTick, TimersTypeOK
    <2>3. TimersTypeOK' /\ LoopTypeOK'
      BY <1>15, <2>2 DEF EndTick, TimersTypeOK, LoopTypeOK, Goto, ghosts
    <2>4. QED
      BY <1>15, <1>0, <1>1, <1>3, <2>3 DEF EndTick
  <1>16. CASE Alarm
    <2>1. TimersTypeOK' /\ LoopTypeOK'
      BY <1>16 DEF Alarm, TimersTypeOK, LoopTypeOK, loop, timers, ghosts
    <2>2. QED
      BY <1>16, <1>0, <1>1, <1>3, <2>1 DEF Alarm
  <1>17. ASSUME NEW f \in Fds, Hup(f) PROVE TypeOK'
    BY <1>17, <1>1, <1>2, <1>3, StartCloseType DEF Hup, Done
  <1>18. ASSUME NEW f \in Fds, NEW event, ActorCloses(f, event) PROVE TypeOK'
    BY <1>18, <1>1, <1>2, <1>3, StartCloseType DEF ActorCloses, Done
  <1>19. ASSUME NEW f \in Fds, ReadActor(f) PROVE TypeOK'
    <2>1. TimersTypeOK' /\ crashed' \in BOOLEAN
      BY <1>19, HandledEvent, DelayType DEF ReadActor
    <2>2. LoopTypeOK'
      BY <1>19, <2>1 DEF ReadActor, LoopTypeOK, Done
    <2>3. PoolTypeOK'
      BY <1>19, EnqueueType DEF ReadActor
    <2>4. QED
      BY <1>19, <1>0, <1>1, <2>1, <2>2, <2>3 DEF ReadActor
  <1>20. ASSUME NEW f \in Fds, WriteActorOn(f) PROVE TypeOK'
    <2>1. TimersTypeOK' /\ crashed' \in BOOLEAN
      BY <1>20, HandledEvent, DelayType DEF WriteActorOn
    <2>2. LoopTypeOK'
      BY <1>20, <2>1 DEF WriteActorOn, LoopTypeOK, Done
    <2>3. SlotsTypeOK'
      BY <1>20, <1>1, ResetType DEF WriteActorOn, slots
    <2>4. KernelTypeOK'
      BY <1>20, ModifyType DEF WriteActorOn, KernelTypeOK
    <2>5. QED
      BY <1>20, <1>3, <2>1, <2>2, <2>3, <2>4 DEF WriteActorOn
  <1>21. ASSUME NEW f \in Fds, NEW event, Dispatch(f, event) PROVE TypeOK'
    <2>1. TimersTypeOK' /\ crashed' \in BOOLEAN
      BY <1>21, HandledEvent, DelayType DEF Dispatch
    <2>2. LoopTypeOK'
      BY <1>21, <2>1 DEF Dispatch, LoopTypeOK, Done, Goto
    <2>3. PoolTypeOK'
      BY <1>21, EnqueueType DEF Dispatch
    <2>4. SlotsTypeOK'
      BY <1>21 DEF Dispatch, SlotsTypeOK
    <2>5. QED
      BY <1>21, <1>0, <2>1, <2>2, <2>3, <2>4 DEF Dispatch
  <1>22. QED
    BY <1>4, <1>5, <1>6, <1>7, <1>8, <1>9, <1>10, <1>11, <1>12, <1>13, <1>14, <1>15,
       <1>16, <1>17, <1>18, <1>19, <1>20, <1>21 DEF MainStep, Handle

-----------------------------------------------------------------------------
(* Timers and connections: WatchInv is kept.                               *)

\* Closing descriptors keeps it, as far as the main thread does not move.
LEMMA WatchClosing ==
  ASSUME TypeOK, WatchInv,
         \A f \in Fds : owner'[f] \in {owner[f], NONE},
         UNCHANGED <<timer, timer_list_, fdOf, batch, pc, mfd>>
  PROVE  WatchInv'
  <1>1. Open' \subseteq Open /\ \A f \in Open' : owner'[f] = owner[f]
    BY DEF Open
  <1>2. Active' = Active /\ \A f : Sound(f)' <=> Sound(f)
    BY DEF Active, Sound
  <1>3. \A f : Pending(f)' <=> Pending(f)
    BY DEF Pending
  <1>4. QED
    BY <1>1, <1>2, <1>3 DEF WatchInv

LEMMA WatchWorker ==
  ASSUME TypeOK, WatchInv, NEW w \in Workers, WorkerStep(w) \/ ProcessFails(w)
  PROVE  WatchInv'
  <1>1. UNCHANGED <<timer, timer_list_, fdOf, batch, pc, mfd>>
    BY DEF WorkerStep, Take, WorkerReads, WorkerFlags, WorkerWrites, WorkerEnds, Process,
           ProcessFails, ForgetFd, CountDown, ArmClosed, mine, timers, loop
  <1>2. CASE ProcessFails(w)
    BY <1>1, <1>2, WatchClosing DEF ProcessFails, CloseFd, kernel, TypeOK, KernelTypeOK
  <1>3. CASE WorkerStep(w)
    <2>1. owner' = owner
      BY <1>3 DEF WorkerStep, Take, WorkerReads, WorkerFlags, WorkerWrites, WorkerEnds,
             Process, ForgetFd, CountDown, ArmClosed, kernel
    <2>2. QED
      BY <1>1, <2>1, WatchClosing
  <1>4. QED
    BY <1>2, <1>3

\* A handler has delayed the timer of its descriptor and is done with its
\* event, or goes on to spin.
LEMMA WatchDelay ==
  ASSUME TypeOK, WatchInv, pc = "loop", NEW f \in Fds, NEW k, <<f, k>> \in batch,
         Delay(timer[f]), Done(<<f, k>>), owner' = owner,
         (pc' = pc /\ mfd' = mfd) \/ (pc' = "spin" /\ mfd' = f)
  PROVE  WatchInv'
  <1>1. Sound(f) /\ \A e \in batch \ {<<f, k>>} : e[1] # f
    BY HandledEvent
  <1>2. Open' = Open /\ Active' = Active /\ timer' = timer /\ fdOf' = fdOf
    BY <1>1, DelayKeeps DEF Open, Sound
  <1>3. \A g : Sound(g)' <=> Sound(g)
    BY <1>2 DEF Sound
  <1>4. ~Pending(f)' /\ \A g : Pending(g)' => Pending(g)
    BY <1>1 DEF Pending, Done
  <1>5. \A d, e \in batch' : d[1] = e[1] => d = e \/ d[1] \notin Fds
    BY DEF WatchInv, Done
  <1>6. QED
    BY <1>1, <1>2, <1>3, <1>4, <1>5 DEF WatchInv

\* The main thread begins to close the connection of an event.
LEMMA WatchStartClose ==
  ASSUME TypeOK, WatchInv, NEW f \in Fds, Sound(f), ~Pending(f)',
         batch' \subseteq batch, pc \in {"loop", "spin"},
         NEW label \in {"close", "spin_close"}, StartClose(f, label), UNCHANGED timers
  PROVE  WatchInv'
  <1>1. Open' = Open \ {f} /\ \A g \in Open' : owner'[g] = owner[g]
    BY DEF Open, StartClose, CloseFd, TypeOK, KernelTypeOK
  <1>2. \A g : Sound(g)' <=> Sound(g)
    BY DEF Sound, Active, timers
  <1>3. \A g : Pending(g)' => Pending(g)
    BY DEF Pending
  <1>4. pc' = label /\ mfd' = f
    BY DEF StartClose, Goto
  <1>5. \A d, e \in batch' : d[1] = e[1] => d = e \/ d[1] \notin Fds
    BY DEF WatchInv
  <1>6. f \notin Open'
    BY <1>1
  <1>7. pc # "init" /\ pc' # "init" /\ pc' \notin {"wait", "tick", "fired"} /\ timer' = timer /\ fdOf' = fdOf
    BY <1>4 DEF timers
  <1>8. \A g \in Open' : owner'[g] = timer'[g] /\ Sound(g)'
    BY <1>1, <1>2, <1>7 DEF WatchInv
  <1>9. \A g \in Fds : Pending(g)' => Sound(g)'
    BY <1>2, <1>3, <1>7 DEF WatchInv
  <1>10. mfd' \in Fds /\ Sound(mfd)' /\ ~Pending(mfd)' /\ mfd' \notin Open'
    BY <1>2, <1>4, <1>6
  <1>11. QED
    BY <1>5, <1>7, <1>8, <1>9, <1>10 DEF WatchInv

\* The main thread goes on, with the rest of its batch.
LEMMA WatchOn ==
  ASSUME TypeOK, WatchInv, pc # "init",
         UNCHANGED <<owner, timers>>, batch' \subseteq batch,
         \/ pc' \in {"loop", "accept"}
         \/ pc' \in {"wait", "tick", "fired"} /\ batch' = {}
  PROVE  WatchInv'
  <1>1. Open' = Open /\ \A g : Sound(g)' <=> Sound(g)
    BY DEF Open, Sound, Active, timers
  <1>2. \A g : Pending(g)' => Pending(g)
    BY DEF Pending
  <1>3. timer' = timer /\ fdOf' = fdOf /\ pc' \notin {"init", "spin", "close", "spin_close"}
    BY DEF timers
  <1>4. \A d, e \in batch' : d[1] = e[1] => d = e \/ d[1] \notin Fds
    BY DEF WatchInv
  <1>5. QED
    BY <1>1, <1>2, <1>3, <1>4 DEF WatchInv

LEMMA WatchAccept ==
  ASSUME TypeOK, WatchInv, Accept
  PROVE  WatchInv'
  <1>1. PICK f \in Fds \ Open :
          LET unused == (Conns \ Active) \ {owner[g] : g \in Fds}
              c == CHOOSE c \in unused : TRUE
          IN /\ unused # {}
             /\ owner' = [owner EXCEPT ![f] = c]
             /\ timer' = [timer EXCEPT ![f] = c] /\ fdOf' = [fdOf EXCEPT ![c] = f]
             /\ mfd' = f
    BY DEF Accept
  <1>2. PICK c \in (Conns \ Active) \ {owner[g] : g \in Fds} :
             /\ owner' = [owner EXCEPT ![f] = c]
             /\ timer' = [timer EXCEPT ![f] = c] /\ fdOf' = [fdOf EXCEPT ![c] = f]
             /\ mfd' = f
    BY <1>1
  <1>3. /\ pc \in {"loop", "accept"} /\ pc' = "init" /\ batch' \subseteq batch
        /\ Active' = Active
    BY DEF Accept, Accepting, Goto, Done, Active
  <1>4. \A g \in Fds : g # f => owner'[g] = owner[g] /\ timer'[g] = timer[g]
    BY <1>2 DEF TypeOK, KernelTypeOK, TimersTypeOK
  <1>5. owner'[f] = c /\ timer'[f] = c /\ fdOf'[c] = f
    BY <1>2 DEF TypeOK, KernelTypeOK, TimersTypeOK
  <1>6. \A x \in Active : fdOf'[x] = fdOf[x]
    BY <1>2
  <1>7. \A g \in Fds : g # f /\ Sound(g) => Sound(g)'
    BY <1>3, <1>4, <1>6 DEF Sound
  <1>8. \A g \in Open' : g = f \/ (owner'[g] = timer'[g] /\ Sound(g)')
    BY <1>3, <1>4, <1>7 DEF WatchInv, Open
  <1>9. \A g \in Fds : Pending(g)' => g = f \/ Sound(g)'
    BY <1>3, <1>7 DEF WatchInv, Pending
  <1>10. \A d, e \in batch' : d[1] = e[1] => d = e \/ d[1] \notin Fds
    BY <1>3 DEF WatchInv
  <1>11. QED
    BY <1>1, <1>2, <1>3, <1>5, <1>8, <1>9, <1>10 DEF WatchInv

LEMMA WatchInitTimer ==
  ASSUME TypeOK, WatchInv, InitTimer
  PROVE  WatchInv'
  <1>1. PICK f \in Fds : f = mfd /\ timer[f] \in Conns /\ fdOf[timer[f]] = f
                         /\ owner[f] \in {NONE, timer[f]} /\ pc = "init"
    BY DEF InitTimer, WatchInv
  <1>2. Active' = Active \cup {timer[f]}
    BY <1>1, ToSetAppend DEF InitTimer, Active, TypeOK, TimersTypeOK
  <1>3. timer' = timer /\ fdOf' = fdOf /\ owner' = owner /\ batch' = batch
        /\ pc' \in {"accept", "loop"} /\ Open' = Open
    BY DEF InitTimer, kernel, Leave, Goto, Open
  <1>4. Sound(f)' /\ \A g : Sound(g) => Sound(g)'
    BY <1>1, <1>2, <1>3 DEF Sound
  <1>5. \A g \in Open' : g = f \/ (owner'[g] = timer'[g] /\ Sound(g)')
    BY <1>1, <1>3, <1>4 DEF WatchInv
  <1>6. f \in Open' => owner'[f] = timer'[f]
    BY <1>1, <1>3 DEF Open
  <1>7. \A g \in Fds : Pending(g)' => Sound(g)'
    BY <1>1, <1>3, <1>4 DEF WatchInv, Pending
  <1>8. \A d, e \in batch' : d[1] = e[1] => d = e \/ d[1] \notin Fds
    BY <1>3 DEF WatchInv
  <1>9. \A g \in Open' : owner'[g] = timer'[g] /\ Sound(g)'
    BY <1>4, <1>5, <1>6
  <1>10. QED
    BY <1>3, <1>7, <1>8, <1>9 DEF WatchInv

LEMMA WatchEndClose ==
  ASSUME TypeOK, WatchInv, EndClose
  PROVE  WatchInv'
  <1>1. /\ mfd \in Fds /\ Sound(mfd) /\ ~Pending(mfd) /\ mfd \notin Open
        /\ pc \in {"close", "spin_close"}
    BY DEF EndClose, WatchInv
  <1>2. /\ timer' = timer
        /\ \A x \in Active : x # timer[mfd] => x \in Active'
        /\ \A x \in Conns : x # timer[mfd] => fdOf'[x] = fdOf[x]
    BY DeleteKeeps DEF EndClose
  <1>3. owner' = owner /\ batch' = batch /\ pc' = "loop" /\ Open' = Open
    BY DEF EndClose, kernel, Leave, Goto, Open
  <1>4. ASSUME NEW g \in Fds, g # mfd, Sound(g) PROVE Sound(g)'
    <2>1. timer[g] \in Active /\ timer[g] \in Conns /\ timer[g] # timer[mfd]
      BY <1>1, <1>4, ToSetType DEF Sound, Active, TypeOK, TimersTypeOK
    <2>2. QED
      BY <1>2, <1>4, <2>1 DEF Sound
  <1>5. \A g \in Open' : owner'[g] = timer'[g] /\ Sound(g)'
    BY <1>1, <1>2, <1>3, <1>4 DEF WatchInv, Open
  <1>6. \A g \in Fds : Pending(g)' => Sound(g)'
    BY <1>1, <1>3, <1>4 DEF WatchInv, Pending
  <1>7. \A d, e \in batch' : d[1] = e[1] => d = e \/ d[1] \notin Fds
    BY <1>3 DEF WatchInv
  <1>8. QED
    BY <1>3, <1>5, <1>6, <1>7 DEF WatchInv

LEMMA WatchFire ==
  ASSUME TypeOK, WatchInv, Fire
  PROVE  WatchInv'
  <1> DEFINE c == Head(timer_list_)
  <1>1. StartClose(fdOf[c], "fired") /\ DeleteTimer(c) /\ pc = "tick"
    BY DEF Fire
  <1> HIDE DEF c
  <1>2. /\ timer' = timer
        /\ \A x \in Active : x # c => x \in Active'
        /\ \A x \in Conns : x # c => fdOf'[x] = fdOf[x]
    BY <1>1, DeleteKeeps
  <1>3. batch' = {} /\ pc' = "fired"
    BY <1>1 DEF Fire, WatchInv, StartClose, Goto
  <1>4. fdOf[c] \notin Open' /\ \A g \in Open' : g \in Open /\ owner'[g] = owner[g]
    BY <1>1 DEF StartClose, CloseFd, Open, TypeOK, KernelTypeOK, NONE
  <1>5. ASSUME NEW g \in Open' PROVE owner'[g] = timer'[g] /\ Sound(g)'
    <2>1. g \in Open /\ owner[g] = timer[g] /\ Sound(g) /\ owner'[g] = owner[g]
      BY <1>1, <1>4, <1>5 DEF WatchInv
    <2>2. timer[g] \in Active /\ timer[g] \in Conns /\ timer[g] # c
      BY <1>4, <1>5, <2>1, ToSetType DEF Sound, Active, TypeOK, TimersTypeOK
    <2>3. QED
      BY <1>2, <2>1, <2>2 DEF Sound
  <1>6. QED
    BY <1>3, <1>5 DEF WatchInv, Pending

LEMMA WatchEpollWait ==
  ASSUME TypeOK, WatchInv, EpollWait
  PROVE  WatchInv'
  <1>1. PICK ready \in SUBSET {f \in Open : armed[f] # "off"}, client \in BOOLEAN :
          \E hup \in SUBSET ready :
             batch' = {<<f, IF f \in hup THEN "hup" ELSE armed[f]>> : f \in ready}
                      \cup (IF client THEN {Listen} ELSE {})
                      \cup (IF alarm = "sent" THEN {Signal} ELSE {})
    BY DEF EpollWait
  <1>2. PICK hup \in SUBSET ready :
             batch' = {<<f, IF f \in hup THEN "hup" ELSE armed[f]>> : f \in ready}
                      \cup (IF client THEN {Listen} ELSE {})
                      \cup (IF alarm = "sent" THEN {Signal} ELSE {})
    BY <1>1
  <1>3. UNCHANGED <<owner, timers>> /\ pc = "wait" /\ pc' = "loop"
    BY DEF EpollWait, Goto
  <1>4. Open' = Open /\ \A g : Sound(g)' <=> Sound(g)
    BY <1>3 DEF Open, Sound, Active, timers
  <1>5. \A e \in batch' :
           \/ e[1] = NoFd
           \/ /\ e[1] \in ready
              /\ e = <<e[1], IF e[1] \in hup THEN "hup" ELSE armed[e[1]]>>
    BY <1>2 DEF Listen, Signal
  <1>6. \A d, e \in batch' : d[1] = e[1] => d = e \/ d[1] \notin Fds
    BY <1>5
  <1>7. \A g \in Open : owner[g] = timer[g] /\ Sound(g)
    BY <1>3 DEF WatchInv
  <1>8. \A g \in Fds : Pending(g)' => Sound(g)'
    BY <1>4, <1>5, <1>7 DEF Pending
  <1>9. \A g \in Open' : owner'[g] = timer'[g] /\ Sound(g)'
    BY <1>3, <1>4, <1>7 DEF timers
  <1>10. QED
    BY <1>3, <1>6, <1>8, <1>9 DEF WatchInv

LEMMA WatchLoop ==
  ASSUME TypeOK, WatchInv, MainStep \/ EpollWait \/ Accept \/ AcceptNone \/ Alarm
  PROVE  WatchInv'
  <1>1. CASE AcceptNone
    BY <1>1, WatchOn DEF AcceptNone, Accepting, Done, Leave, Goto, kernel
  <1>2. CASE RecvSignal
    BY <1>2, WatchOn DEF RecvSignal, Done, kernel
  <1>3. CASE SpinOut
    BY <1>3, WatchOn DEF SpinOut, Leave, Goto, kernel
  <1>4. CASE SpinCloses
    <2>1. mfd \in Fds /\ Sound(mfd) /\ ~Pending(mfd) /\ mfd' = mfd /\ batch' = batch
      BY <1>4 DEF SpinCloses, WatchInv, StartClose
    <2>2. ~Pending(mfd)'
      BY <2>1 DEF Pending
    <2>3. QED
      BY <1>4, <2>1, <2>2, WatchStartClose DEF SpinCloses
  <1>5. CASE EndBatch
    BY <1>5, WatchOn DEF EndBatch, Goto, kernel
  <1>6. CASE EndFire
    BY <1>6, WatchOn DEF EndFire, Leave, Goto, kernel, WatchInv
  <1>7. CASE EndTick
    <2>1. UNCHANGED <<owner, timer, timer_list_, fdOf, batch, mfd>> /\ pc = "tick" /\ pc' = "wait"
      BY <1>7 DEF EndTick, Goto, kernel
    <2>2. Open' = Open /\ \A g : Sound(g)' <=> Sound(g)
      BY <2>1 DEF Open, Sound, Active
    <2>3. QED
      BY <2>1, <2>2 DEF WatchInv, Pending
  <1>8. CASE Alarm
    BY <1>8, WatchClosing DEF Alarm, kernel, timers, loop
  <1>9. ASSUME NEW f \in Fds, Hup(f) PROVE WatchInv'
    <2>1. Sound(f) /\ ~Pending(f)'
      BY <1>9, HandledEvent DEF Hup, Done, Pending
    <2>2. QED
      BY <1>9, <2>1, WatchStartClose DEF Hup, Done
  <1>10. ASSUME NEW f \in Fds, NEW event, ActorCloses(f, event) PROVE WatchInv'
    <2>1. Sound(f) /\ ~Pending(f)'
      BY <1>10, HandledEvent DEF ActorCloses, Done, Pending
    <2>2. QED
      BY <1>10, <2>1, WatchStartClose DEF ActorCloses, Done
  <1>11. ASSUME NEW f \in Fds, ReadActor(f) PROVE WatchInv'
    BY <1>11, WatchDelay DEF ReadActor, kernel
  <1>12. ASSUME NEW f \in Fds, WriteActorOn(f) PROVE WatchInv'
    BY <1>12, WatchDelay DEF WriteActorOn
  <1>13. ASSUME NEW f \in Fds, NEW event, Dispatch(f, event) PROVE WatchInv'
    BY <1>13, WatchDelay DEF Dispatch, kernel, Goto
  <1>14. QED
    BY <1>1, <1>2, <1>3, <1>4, <1>5, <1>6, <1>7, <1>8, <1>9, <1>10, <1>11, <1>12, <1>13,
       WatchAccept, WatchInitTimer, WatchEndClose, WatchFire, WatchEpollWait
       DEF MainStep, Handle

LEMMA WatchInit == Init => WatchInv
  BY DEF Init, WatchInv, Open, Pending, NONE

WatchIInv == TypeOK /\ WatchInv

LEMMA WatchStep == WatchIInv /\ [Next]_vars => WatchIInv'
  <1> SUFFICES ASSUME TypeOK, WatchInv, [Next]_vars PROVE TypeOK' /\ WatchInv'
    BY DEF WatchIInv
  <1>1. CASE UNCHANGED vars
    <2>1. TypeOK'
      BY <1>1 DEF vars, kernel, flags, slots, timers, loop, pool, ghosts, TypeOK,
         KernelTypeOK, SlotsTypeOK, TimersTypeOK, LoopTypeOK, PoolTypeOK
    <2>2. WatchInv'
      BY <1>1, WatchClosing DEF vars, kernel, timers, loop
    <2>3. QED
      BY <2>1, <2>2
  <1>2. CASE MainStep \/ EpollWait \/ Accept \/ AcceptNone \/ Alarm
    BY <1>2, LoopType, WatchLoop
  <1>3. CASE \E w \in Workers : WorkerStep(w) \/ ProcessFails(w)
    BY <1>3, WorkerType, WatchWorker
  <1>4. QED
    BY <1>1, <1>2, <1>3 DEF Next, Gone, Spin

LEMMA WatchHolds == Spec => []WatchIInv
  <1>1. Init => WatchIInv
    BY InitType, WatchInit DEF WatchIInv
  <1>2. QED
    BY <1>1, WatchStep, PTL DEF Spec

\* The state of the server has its types.
THEOREM TypeCorrect == Spec => []TypeOK
  <1>1. WatchIInv => TypeOK
    BY DEF WatchIInv
  <1>2. QED
    BY <1>1, WatchHolds, PTL

\* Whatever is closed by whom, in whatever order the events of a batch are
\* handled and descriptors used again: every open connection is watched by
\* a timer of its own.
THEOREM OpenAreWatched == Spec => []EveryOpenWatched
  <1>1. WatchIInv => EveryOpenWatched
    BY DEF WatchIInv, WatchInv, EveryOpenWatched, Sound
  <1>2. QED
    BY <1>1, WatchHolds, PTL

\* And no handler uses the pointer to a timer that has been deleted.
THEOREM NoDangling == Spec => []NoDanglingTimer
  <1>1. WatchIInv => NoDanglingTimer
    <2> SUFFICES ASSUME WatchIInv PROVE NoDanglingTimer
      OBVIOUS
    <2>1. ASSUME pc = "loop", NEW e \in batch \ {Listen, Signal}
          PROVE  timer[e[1]] \in Active /\ fdOf[timer[e[1]]] = e[1]
      <3>1. e[1] \in Fds /\ Pending(e[1])
        BY DEF WatchIInv, TypeOK, LoopTypeOK, Events, Pending
      <3>2. QED
        BY <2>1, <3>1 DEF WatchIInv, WatchInv, Sound
    <2>2. QED
      BY <2>1 DEF NoDanglingTimer, WatchIInv, WatchInv, Sound
  <1>2. QED
    BY <1>1, WatchHolds, PTL

-----------------------------------------------------------------------------
(* Slots that are queued or in work.                                       *)

Busy(w) == wpc[w] # "idle"

SlotsInv ==
    /\ \A f \in Fds : sockfd_[f] \in {f, NoFd}
    /\ \A w \in Workers : Busy(w) => task[w] \in Fds

\* A slot has one place in the queue or one worker.
OnceInv ==
    /\ \A i, j \in 1 .. Len(workqueue_) : workqueue_[i] = workqueue_[j] => i = j
    /\ \A v, w \in Workers : Busy(v) /\ Busy(w) /\ task[v] = task[w] => v = w
    /\ \A w \in Workers : Busy(w) => task[w] \notin ToSet(workqueue_)

\* The descriptor of such a slot is not armed and has no event to come, and
\* one that has an event to come is open and not armed.
QuietInv ==
    /\ \A f \in Fds : HasTask(f) => armed[f] = "off" /\ ~Pending(f)
    /\ \A f \in Fds : Pending(f) => armed[f] = "off" /\ f \in Open

TaskInv == SlotsInv /\ (~mixed => OnceInv /\ QuietInv)

LEMMA TaskOf ==
  ASSUME NEW w \in Workers, Busy(w)
  PROVE  HasTask(task[w])
  BY DEF Busy, HasTask, InWork

\* modify_fd changes the arming of no other descriptor.
LEMMA ModifyOwn ==
  ASSUME TypeOK, SlotsInv, NEW f \in Fds, NEW event, Modify(f, event)
  PROVE  \A g \in Fds : g # f => armed'[g] = armed[g]
  <1>1. Usable(f) => sockfd_[f] = f
    BY DEF Usable, Open, SlotsInv
  <1>2. QED
    BY <1>1 DEF Modify, TypeOK, KernelTypeOK

\* Steps that neither arm a descriptor nor touch the queue, or what the
\* workers work on.
LEMMA TaskQuiet ==
  ASSUME TypeOK, TaskInv, UNCHANGED <<workqueue_, task, mixed>>,
         \A w \in Workers : Busy(w)' <=> Busy(w),
         \A f \in Fds : sockfd_'[f] \in {sockfd_[f], NoFd},
         \A f \in Fds : armed'[f] \in {armed[f], "off"},
         mixed \/ \A f \in Fds : Pending(f)' => Pending(f) /\ (f \in Open => f \in Open')
  PROVE  TaskInv'
  <1>1. \A f : HasTask(f)' <=> HasTask(f)
    BY DEF HasTask, InWork, Busy
  <1>2. SlotsInv' /\ (OnceInv => OnceInv')
    BY DEF TaskInv, SlotsInv, OnceInv
  <1>3. QuietInv /\ ~mixed => QuietInv'
    BY <1>1 DEF QuietInv
  <1>4. QED
    BY <1>2, <1>3 DEF TaskInv

\* A worker is done with its slot, and may have armed the descriptor.
LEMMA TaskDone ==
  ASSUME TypeOK, TaskInv, NEW w \in Workers, Busy(w), WDone(w),
         UNCHANGED <<owner, sockfd_, workqueue_, batch, mixed>>,
         \A g \in Fds : g # task[w] => armed'[g] = armed[g]
  PROVE  TaskInv'
  <1>1. /\ ~Busy(w)'
        /\ \A v \in Workers : v # w => task'[v] = task[v] /\ (Busy(v)' <=> Busy(v))
    BY DEF WDone, Busy, TypeOK, PoolTypeOK
  <1>2. SlotsInv' /\ (OnceInv => OnceInv')
    BY <1>1 DEF TaskInv, SlotsInv, OnceInv
  <1>3. \A f : Pending(f)' <=> Pending(f)
    BY DEF Pending
  <1>4. Open' = Open
    BY DEF Open
  <1>5. ASSUME NEW f \in Fds, HasTask(f)', OnceInv
        PROVE  HasTask(f) /\ f # task[w]
    <2>1. CASE f \in ToSet(workqueue_)
      BY <1>5, <2>1 DEF HasTask, OnceInv
    <2>2. CASE \E v \in Workers : Busy(v)' /\ task'[v] = f
      BY <1>1, <1>5, <2>2 DEF HasTask, InWork, OnceInv, Busy
    <2>3. QED
      BY <1>5, <2>1, <2>2 DEF HasTask, InWork, Busy
  <1>6. ~Pending(task[w]) \/ mixed
    BY TaskOf DEF TaskInv, QuietInv, SlotsInv
  <1>7. ASSUME OnceInv, QuietInv, ~Pending(task[w]) PROVE QuietInv'
    BY <1>3, <1>4, <1>5, <1>7 DEF QuietInv
  <1>8. QED
    BY <1>2, <1>6, <1>7 DEF TaskInv

LEMMA TaskTake ==
  ASSUME TypeOK, TaskInv, NEW w \in Workers, Take(w)
  PROVE  TaskInv'
  <1> DEFINE h == Head(workqueue_)
  <1>1. /\ workqueue_ \in Seq(Fds) /\ workqueue_ # <<>> /\ Len(workqueue_) \in Nat \ {0}
        /\ h \in Fds /\ h = workqueue_[1]
        /\ workqueue_' \in Seq(Fds) /\ Len(workqueue_') = Len(workqueue_) - 1
        /\ \A i \in 1 .. Len(workqueue_') : workqueue_'[i] = workqueue_[i + 1]
    BY HeadTailProperties, EmptySeq DEF Take, TypeOK, PoolTypeOK
  <1>2. /\ ~Busy(w) /\ Busy(w)' /\ task'[w] = h
        /\ \A v \in Workers : v # w => task'[v] = task[v] /\ (Busy(v)' <=> Busy(v))
    BY DEF Take, Busy, TypeOK, PoolTypeOK
  <1>3. UNCHANGED <<owner, armed, sockfd_, batch, mixed>>
    BY DEF Take, kernel, slots, mine, loop, ghosts
  <1> HIDE DEF h
  <1>4. /\ ToSet(workqueue_') \subseteq ToSet(workqueue_) /\ h \in ToSet(workqueue_)
        /\ ToSet(workqueue_) = {workqueue_[i] : i \in 1 .. Len(workqueue_)}
        /\ ToSet(workqueue_') = {workqueue_'[i] : i \in 1 .. Len(workqueue_')}
    BY <1>1, ToSetType
  <1>5. SlotsInv'
    BY <1>1, <1>2, <1>3 DEF TaskInv, SlotsInv
  <1>6. ASSUME OnceInv PROVE OnceInv'
    <2>1. \A i, j \in 1 .. Len(workqueue_') : workqueue_'[i] = workqueue_'[j] => i = j
      <3> SUFFICES ASSUME NEW i \in 1 .. Len(workqueue_'), NEW j \in 1 .. Len(workqueue_'),
                          workqueue_'[i] = workqueue_'[j]
                   PROVE  i = j
        OBVIOUS
      <3>1. i + 1 \in 1 .. Len(workqueue_) /\ j + 1 \in 1 .. Len(workqueue_)
        BY <1>1
      <3>2. i + 1 = j + 1
        BY <1>1, <1>6, <3>1 DEF OnceInv
      <3>3. QED
        BY <1>1, <3>2
    <2>2. h \notin ToSet(workqueue_')
      <3>1. ASSUME NEW i \in 1 .. Len(workqueue_'), workqueue_'[i] = h PROVE FALSE
        <4>1. i + 1 \in 1 .. Len(workqueue_) /\ 1 \in 1 .. Len(workqueue_) /\ i + 1 # 1
          BY <1>1
        <4>2. QED
          BY <1>1, <1>6, <3>1, <4>1 DEF OnceInv
      <3>2. QED
        BY <1>4, <3>1
    <2>3. \A v \in Workers : v # w /\ Busy(v)' => task'[v] # h /\ task'[v] \notin ToSet(workqueue_')
      BY <1>2, <1>4, <1>6 DEF OnceInv
    <2>4. \A u, v \in Workers : Busy(u)' /\ Busy(v)' /\ task'[u] = task'[v] => u = v
      BY <1>2, <1>6, <2>3 DEF OnceInv
    <2>5. \A v \in Workers : Busy(v)' => task'[v] \notin ToSet(workqueue_')
      BY <1>2, <2>2, <2>3
    <2>6. QED
      BY <2>1, <2>4, <2>5 DEF OnceInv
  <1>7. \A f \in Fds : HasTask(f)' => HasTask(f)
    BY <1>2, <1>4 DEF HasTask, InWork, Busy
  <1>8. ASSUME QuietInv PROVE QuietInv'
    BY <1>3, <1>7, <1>8 DEF QuietInv, Pending, Open
  <1>9. QED
    BY <1>3, <1>5, <1>6, <1>8 DEF TaskInv

LEMMA TaskWorker ==
  ASSUME TypeOK, TaskInv, NEW w \in Workers, WorkerStep(w) \/ ProcessFails(w)
  PROVE  TaskInv'
  <1> USE DEF mine, loop, kernel, slots, flags, ghosts
  <1>1. CASE WDone(w) /\ Busy(w) /\ UNCHANGED <<owner, sockfd_, workqueue_, batch, mixed>>
             /\ \A g \in Fds : g # task[w] => armed'[g] = armed[g]
    BY <1>1, TaskDone
  <1>2. \A event : Busy(w) /\ Modify(task[w], event) => \A g \in Fds : g # task[w] => armed'[g] = armed[g]
    BY ModifyOwn DEF TaskInv, SlotsInv
  <1>3. Pending(task[w]) /\ Busy(w) => mixed
    BY TaskOf DEF TaskInv, SlotsInv, QuietInv
  <1>4. ASSUME NEW label, WGoto(w, label), label # "idle", Busy(w)
        PROVE  task' = task /\ \A v \in Workers : Busy(v)' <=> Busy(v)
    BY <1>4 DEF WGoto, Busy, TypeOK, PoolTypeOK
  <1>5. CASE WorkerReads(w) \/ CountDown(w) \/ ForgetFd(w)
    <2>1. task' = task /\ \A v \in Workers : Busy(v)' <=> Busy(v)
      BY <1>4, <1>5 DEF WorkerReads, CountDown, ForgetFd, Busy
    <2>2. /\ UNCHANGED <<owner, armed, workqueue_, batch, mixed>>
          /\ sockfd_' = sockfd_ \/ sockfd_' = [sockfd_ EXCEPT ![task[w]] = NoFd]
      BY <1>5 DEF WorkerReads, CountDown, ForgetFd
    <2>3. \A f \in Fds : sockfd_'[f] \in {sockfd_[f], NoFd}
      BY <2>2 DEF TypeOK, SlotsTypeOK
    <2>4. \A f \in Fds : (Pending(f)' <=> Pending(f)) /\ (f \in Open' <=> f \in Open)
      BY <2>2 DEF Pending, Open
    <2>5. QED
      BY <2>1, <2>2, <2>3, <2>4, TaskQuiet
  <1>6. CASE ProcessFails(w)
    <2>1. CASE sockfd_[task[w]] = NoFd
      BY <1>1, <1>6, <2>1 DEF ProcessFails, Busy
    <2>2. CASE WGoto(w, "closed") /\ CloseFd(sockfd_[task[w]]) /\ sockfd_[task[w]] # NoFd
      <3>1. Busy(w) /\ sockfd_[task[w]] = task[w] /\ task[w] \in Fds
        BY <1>6, <2>2 DEF ProcessFails, Busy, TaskInv, SlotsInv
      <3>2. /\ \A f \in Fds : armed'[f] \in {armed[f], "off"}
            /\ \A f \in Fds : f # task[w] /\ f \in Open => f \in Open'
        BY <2>2, <3>1 DEF CloseFd, Open, TypeOK, KernelTypeOK
      <3>3. \A f \in Fds : Pending(f)' <=> Pending(f)
        BY <1>6 DEF ProcessFails, Pending
      <3>4. task' = task /\ \A v \in Workers : Busy(v)' <=> Busy(v)
        BY <1>4, <2>2, <3>1
      <3>5. UNCHANGED <<sockfd_, workqueue_, mixed>>
        BY <1>6 DEF ProcessFails
      <3>6. QED
        BY <1>3, <3>1, <3>2, <3>3, <3>4, <3>5, TaskQuiet
    <2>3. QED
      BY <1>6, <2>1, <2>2 DEF ProcessFails
  <1>7. CASE WorkerFlags(w)
    BY <1>1, <1>7 DEF WorkerFlags, Busy
  <1>8. CASE WorkerWrites(w)
    BY <1>1, <1>2, <1>8 DEF WorkerWrites, Busy
  <1>9. CASE WorkerEnds(w)
    BY <1>1, <1>2, <1>9 DEF WorkerEnds, Busy
  <1>10. CASE Process(w)
    BY <1>1, <1>2, <1>10 DEF Process, Busy
  <1>11. CASE ArmClosed(w)
    BY <1>1, <1>2, <1>11 DEF ArmClosed, Busy
  <1>12. QED
    BY <1>5, <1>6, <1>7, <1>8, <1>9, <1>10, <1>11, TaskTake DEF WorkerStep

\* The handler of an event of f queues its slot.
LEMMA TaskEnqueue ==
  ASSUME TypeOK, WatchInv, TaskInv, pc = "loop", NEW f \in Fds, NEW k, <<f, k>> \in batch,
         Enqueue(f), Done(<<f, k>>),
         UNCHANGED <<owner, armed, sockfd_, wpc, task, mixed>>
  PROVE  TaskInv'
  <1>1. Pending(f) /\ ~Pending(f)' /\ \A g \in Fds : Pending(g)' => Pending(g)
    BY HandledEvent DEF Pending, Done
  <1>2. Open' = Open /\ SlotsInv' /\ \A w : Busy(w)' <=> Busy(w)
    BY DEF Open, TaskInv, SlotsInv, Busy
  <1>3. /\ workqueue_ \in Seq(Fds) /\ workqueue_' \in Seq(Fds)
        /\ ToSet(workqueue_') \subseteq ToSet(workqueue_) \cup {f}
    BY ToSetAppend DEF Enqueue, TypeOK, PoolTypeOK
  <1>4. \A g \in Fds : HasTask(g)' => HasTask(g) \/ g = f
    BY <1>3 DEF HasTask, InWork
  <1>5. ASSUME QuietInv PROVE QuietInv'
    BY <1>1, <1>2, <1>4, <1>5 DEF QuietInv
  <1>6. ASSUME OnceInv, QuietInv PROVE OnceInv'
    <2>1. ~HasTask(f)
      BY <1>1, <1>6 DEF QuietInv
    <2>2. f \notin ToSet(workqueue_) /\ \A w \in Workers : Busy(w) => task[w] # f
      BY <2>1, TaskOf DEF HasTask
    <2>3. CASE workqueue_' = workqueue_
      BY <1>2, <1>6, <2>3 DEF OnceInv
    <2>4. CASE workqueue_' = Append(workqueue_, f)
      <3>1. /\ Len(workqueue_) \in Nat /\ Len(workqueue_') = Len(workqueue_) + 1
            /\ \A i \in 1 .. Len(workqueue_) : workqueue_'[i] = workqueue_[i]
            /\ workqueue_'[Len(workqueue_) + 1] = f
        BY <1>3, <2>4, AppendProperties, LenProperties
      <3>2. \A i \in 1 .. Len(workqueue_) : workqueue_'[i] # f
        BY <1>3, <2>2, <3>1, ToSetType
      <3>3. \A i, j \in 1 .. Len(workqueue_') : workqueue_'[i] = workqueue_'[j] => i = j
        <4> SUFFICES ASSUME NEW i \in 1 .. Len(workqueue_'), NEW j \in 1 .. Len(workqueue_'),
                            workqueue_'[i] = workqueue_'[j]
                     PROVE  i = j
          OBVIOUS
        <4>1. /\ i \in 1 .. Len(workqueue_) \/ i = Len(workqueue_) + 1
              /\ j \in 1 .. Len(workqueue_) \/ j = Len(workqueue_) + 1
          BY <3>1
        <4>2. CASE i \in 1 .. Len(workqueue_) /\ j \in 1 .. Len(workqueue_)
          BY <1>6, <3>1, <4>2 DEF OnceInv
        <4>3. QED
          BY <3>1, <3>2, <4>1, <4>2
      <3>4. QED
        BY <1>2, <1>3, <1>6, <2>2, <3>3 DEF OnceInv
    <2>5. QED
      BY <2>3, <2>4 DEF Enqueue
  <1>7. QED
    BY <1>2, <1>5, <1>6 DEF TaskInv

LEMMA TaskEpollWait ==
  ASSUME TypeOK, WatchInv, TaskInv, EpollWait
  PROVE  TaskInv'
  <1>1. PICK ready \in SUBSET {f \in Open : armed[f] # "off"}, client \in BOOLEAN :
          \E hup \in SUBSET ready :
             /\ batch' = {<<f, IF f \in hup THEN "hup" ELSE armed[f]>> : f \in ready}
                         \cup (IF client THEN {Listen} ELSE {})
                         \cup (IF alarm = "sent" THEN {Signal} ELSE {})
             /\ armed' = [f \in Fds |-> IF f \in ready THEN "off" ELSE armed[f]]
    BY DEF EpollWait
  <1>2. \A f \in Fds : Pending(f)' => f \in ready
    BY <1>1 DEF Listen, Signal, Pending
  <1>3. UNCHANGED <<owner, sockfd_, workqueue_, wpc, task, mixed>>
    BY DEF EpollWait, slots, pool, ghosts
  <1>4. SlotsInv' /\ (OnceInv => OnceInv') /\ Open' = Open /\ \A f : HasTask(f)' <=> HasTask(f)
    BY <1>3 DEF TaskInv, SlotsInv, OnceInv, Open, HasTask, InWork, Busy
  <1>5. ASSUME QuietInv PROVE QuietInv'
    BY <1>1, <1>2, <1>4, <1>5 DEF QuietInv
  <1>6. QED
    BY <1>3, <1>4, <1>5 DEF TaskInv

LEMMA TaskAccept ==
  ASSUME TypeOK, TaskInv, Accept
  PROVE  TaskInv'
  <1>1. PICK f \in Fds \ Open, c \in Conns :
          /\ owner' = [owner EXCEPT ![f] = c] /\ armed' = [armed EXCEPT ![f] = "in"]
          /\ sockfd_' = [sockfd_ EXCEPT ![f] = f] /\ mixed' = (mixed \/ HasTask(f))
    BY DEF Accept
  <1>2. UNCHANGED <<workqueue_, wpc, task>> /\ \A g : Pending(g)' => Pending(g)
    BY DEF Accept, pool, Pending, Done
  <1>3. SlotsInv' /\ (OnceInv => OnceInv') /\ \A g : HasTask(g)' <=> HasTask(g)
    BY <1>1, <1>2 DEF TaskInv, SlotsInv, OnceInv, HasTask, InWork, Busy, TypeOK, SlotsTypeOK
  <1>4. \A g \in Fds : g # f => armed'[g] = armed[g] /\ (g \in Open => g \in Open')
    BY <1>1 DEF Open, TypeOK, KernelTypeOK
  <1>5. ASSUME QuietInv, ~HasTask(f) PROVE QuietInv'
    BY <1>1, <1>2, <1>3, <1>4, <1>5 DEF QuietInv
  <1>6. ~mixed' => ~mixed /\ ~HasTask(f)
    BY <1>1, Zenon
  <1>7. QED
    BY <1>3, <1>5, <1>6 DEF TaskInv

\* The main thread closes a descriptor that has no event to come.
LEMMA TaskClosing ==
  ASSUME TypeOK, TaskInv, NEW f, NEW label, StartClose(f, label), batch' \subseteq batch,
         ~Pending(f)', UNCHANGED <<slots, pool, ghosts>>
  PROVE  TaskInv'
  <1>1. /\ \A g \in Fds : armed'[g] \in {armed[g], "off"}
        /\ \A g \in Fds : g # f /\ g \in Open => g \in Open'
    BY DEF StartClose, CloseFd, Open, TypeOK, KernelTypeOK
  <1>2. \A g \in Fds : Pending(g)' => Pending(g) /\ g # f
    BY DEF Pending
  <1>3. /\ UNCHANGED <<workqueue_, task, mixed, sockfd_>>
        /\ \A w \in Workers : Busy(w)' <=> Busy(w)
    BY DEF slots, pool, ghosts, Busy
  <1>4. QED
    BY <1>1, <1>2, <1>3, TaskQuiet

LEMMA TaskLoop ==
  ASSUME TypeOK, WatchInv, TaskInv, MainStep \/ EpollWait \/ Accept \/ AcceptNone \/ Alarm
  PROVE  TaskInv'
  <1>1. CASE /\ UNCHANGED <<owner, armed, sockfd_, workqueue_, wpc, task, mixed>>
             /\ batch' \subseteq batch
    BY <1>1, TaskQuiet DEF Pending, Open, Busy
  <1>2. CASE InitTimer \/ AcceptNone \/ RecvSignal \/ SpinOut \/ EndBatch \/ EndFire
             \/ EndTick \/ Alarm \/ EndClose
    BY <1>1, <1>2 DEF InitTimer, AcceptNone, RecvSignal, SpinOut, EndBatch, EndFire, EndTick,
       Alarm, EndClose, Done, kernel, slots, pool, ghosts, loop
  <1>3. CASE SpinCloses
    <2>1. mfd \in Fds /\ ~Pending(mfd) /\ batch' = batch
      BY <1>3 DEF SpinCloses, WatchInv
    <2>2. PICK f \in Fds : f = mfd
      BY <2>1
    <2>3. ~Pending(f)' /\ StartClose(f, "spin_close")
      BY <1>3, <2>1, <2>2 DEF Pending, SpinCloses
    <2>4. QED
      BY <1>3, <2>1, <2>3, TaskClosing DEF SpinCloses
  <1>4. CASE Fire
    <2>1. batch' = {}
      BY <1>4 DEF Fire, WatchInv
    <2>2. StartClose(fdOf[Head(timer_list_)], "fired")
      BY <1>4 DEF Fire
    <2>3. PICK f : f = fdOf[Head(timer_list_)]
      OBVIOUS
    <2>4. StartClose(f, "fired") /\ ~Pending(f)'
      BY <2>1, <2>2, <2>3 DEF Pending
    <2>5. QED
      BY <1>4, <2>1, <2>4, TaskClosing DEF Fire
  <1>5. ASSUME NEW f \in Fds, Hup(f) PROVE TaskInv'
    <2>1. ~Pending(f)'
      BY <1>5, HandledEvent DEF Hup, Done, Pending
    <2>2. QED
      BY <1>5, <2>1, TaskClosing DEF Hup, Done
  <1>6. ASSUME NEW f \in Fds, NEW event, ActorCloses(f, event) PROVE TaskInv'
    <2>1. ~Pending(f)'
      BY <1>6, HandledEvent DEF ActorCloses, Done, Pending
    <2>2. QED
      BY <1>6, <2>1, TaskClosing DEF ActorCloses, Done
  <1>7. ASSUME NEW f \in Fds, ReadActor(f) PROVE TaskInv'
    BY <1>7, TaskEnqueue DEF ReadActor, kernel, slots
  <1>8. ASSUME NEW f \in Fds, NEW event, Dispatch(f, event) PROVE TaskInv'
    BY <1>8, TaskEnqueue DEF Dispatch, kernel
  <1>9. ASSUME NEW f \in Fds, WriteActorOn(f) PROVE TaskInv'
    <2>1. Pending(f) /\ ~Pending(f)' /\ \A g \in Fds : Pending(g)' => Pending(g)
      BY <1>9, HandledEvent DEF WriteActorOn, Pending, Done
    <2>2. \A g \in Fds : g # f => armed'[g] = armed[g]
      BY <1>9, ModifyOwn DEF WriteActorOn, TaskInv
    <2>3. UNCHANGED <<owner, sockfd_, workqueue_, wpc, task, mixed>>
      BY <1>9 DEF WriteActorOn, pool
    <2>4. SlotsInv' /\ (OnceInv => OnceInv') /\ Open' = Open /\ \A g : HasTask(g)' <=> HasTask(g)
      BY <2>3 DEF TaskInv, SlotsInv, OnceInv, Open, HasTask, InWork, Busy
    <2>5. QuietInv => QuietInv'
      BY <2>1, <2>2, <2>4 DEF QuietInv
    <2>6. QED
      BY <2>3, <2>4, <2>5 DEF TaskInv
  <1>10. QED
    BY <1>2, <1>3, <1>4, <1>5, <1>6, <1>7, <1>8, <1>9, TaskAccept, TaskEpollWait
       DEF MainStep, Handle

LEMMA TaskInit == Init => TaskInv
  <1> SUFFICES ASSUME Init PROVE TaskInv
    OBVIOUS
  <1>1. workqueue_ = <<>> /\ Len(workqueue_) = 0 /\ ToSet(workqueue_) = {}
    BY EmptySeq DEF Init, ToSet
  <1>2. \A w \in Workers : ~Busy(w)
    BY DEF Init, Busy
  <1>3. SlotsInv /\ OnceInv
    BY <1>1, <1>2 DEF Init, SlotsInv, OnceInv
  <1>4. QuietInv
    BY <1>1, <1>2 DEF Init, QuietInv, HasTask, InWork, Pending, Busy
  <1>5. QED
    BY <1>3, <1>4 DEF TaskInv

TaskIInv == WatchIInv /\ TaskInv

LEMMA TaskStep == TaskIInv /\ [Next]_vars => TaskIInv'
  <1> SUFFICES ASSUME TypeOK, WatchInv, TaskInv, [Next]_vars PROVE TaskInv'
    BY WatchStep DEF TaskIInv, WatchIInv
  <1>1. CASE UNCHANGED vars
    BY <1>1, TaskQuiet DEF vars, kernel, slots, pool, ghosts, loop, Pending, Open, Busy
  <1>2. CASE MainStep \/ EpollWait \/ Accept \/ AcceptNone \/ Alarm
    BY <1>2, TaskLoop
  <1>3. CASE \E w \in Workers : WorkerStep(w) \/ ProcessFails(w)
    BY <1>3, TaskWorker
  <1>4. QED
    BY <1>1, <1>2, <1>3 DEF Next, Gone, Spin

LEMMA TaskHolds == Spec => []TaskIInv
  <1>1. Init => TaskIInv
    BY InitType, WatchInit, TaskInit DEF TaskIInv, WatchIInv
  <1>2. QED
    BY <1>1, TaskStep, PTL DEF Spec

\* A slot in the queue or with a worker is there once.
LEMMA TasksIsOne ==
  ASSUME TypeOK, OnceInv, NEW f \in Fds, HasTask(f)
  PROVE  Tasks(f) = 1
  <1> DEFINE places == {i \in DOMAIN workqueue_ : workqueue_[i] = f}
  <1>1. DOMAIN workqueue_ = 1 .. Len(workqueue_)
    BY LenProperties DEF TypeOK, PoolTypeOK
  <1>2. CASE f \in ToSet(workqueue_)
    <2>1. PICK i \in 1 .. Len(workqueue_) : workqueue_[i] = f
      BY <1>1, <1>2 DEF ToSet
    <2>2. places = {i}
      BY <1>1, <2>1 DEF OnceInv
    <2>3. InWork(f) = {}
      BY <1>2 DEF OnceInv, InWork, Busy
    <2>4. Cardinality(places) = 1 /\ Cardinality(InWork(f)) = 0
      BY <2>2, <2>3, FS_Singleton, FS_EmptySet
    <2>5. QED
      BY <2>4 DEF Tasks
  <1>3. CASE f \notin ToSet(workqueue_)
    <2>1. PICK w \in Workers : Busy(w) /\ task[w] = f
      BY <1>3 DEF HasTask, InWork, Busy
    <2>2. InWork(f) = {w}
      BY <2>1 DEF OnceInv, InWork, Busy
    <2>3. places = {}
      BY <1>3 DEF ToSet
    <2>4. Cardinality(places) = 0 /\ Cardinality(InWork(f)) = 1
      BY <2>2, <2>3, FS_Singleton, FS_EmptySet
    <2>5. QED
      BY <2>4 DEF Tasks
  <1>4. QED
    BY <1>2, <1>3

\* EPOLLONESHOT keeps threads apart, in any number: a slot is queued or worked
\* on once, with its descriptor not armed and no event of it to come (until a
\* slot was reused under a worker).
THEOREM TasksAreExclusive == Spec => []OneTask
  <1>1. TaskIInv => OneTask
    BY TasksIsOne DEF TaskIInv, WatchIInv, TaskInv, QuietInv, OneTask, Pending
  <1>2. QED
    BY <1>1, TaskHolds, PTL

-----------------------------------------------------------------------------
(* The reactor: the main thread hands a slot over and waits.               *)

\* A worker that has not yet told the main thread that it has the slot.
HasIt(w) == wpc[w] \in {"read", "write"}

\* Nothing is queued, and no worker has yet to tell.
AllTold == workqueue_ = <<>> /\ \A w \in Workers : ~HasIt(w)

\* While the main thread spins for a slot, that slot is in the queue, or with
\* one worker, or improve_ is set; and otherwise none of these.
ReactorInv ==
    /\ \A f \in Fds : improve_[f] => pc \in {"spin", "spin_close"} /\ mfd = f
    /\ pc # "spin" => AllTold
    /\ pc = "spin" =>
          \/ improve_[mfd] /\ AllTold
          \/ /\ ~improve_[mfd] /\ workqueue_ = <<mfd>>
             /\ \A w \in Workers : ~HasIt(w)
          \/ /\ ~improve_[mfd] /\ workqueue_ = <<>>
             /\ \E w \in Workers : HasIt(w) /\ task[w] = mfd /\ \A v \in Workers : HasIt(v) => v = w

\* Steps that have no part in it.
LEMMA ReactorSame ==
  ASSUME ReactorInv, UNCHANGED <<improve_, pc, mfd, workqueue_>>,
         \A w \in Workers : (HasIt(w)' <=> HasIt(w)) /\ (HasIt(w) => task'[w] = task[w])
  PROVE  ReactorInv'
  <1>1. AllTold' <=> AllTold
    BY DEF AllTold
  <1>2. QED
    BY <1>1 DEF ReactorInv

\* The main thread does something else than spinning.
LEMMA ReactorOn ==
  ASSUME ReactorInv, pc \notin {"spin", "spin_close"}, pc' \notin {"spin", "spin_close"},
         UNCHANGED pool, \A f \in Fds : improve_'[f] => improve_[f]
  PROVE  ReactorInv'
  <1>1. AllTold /\ AllTold'
    BY DEF ReactorInv, AllTold, HasIt, pool
  <1>2. QED
    BY <1>1 DEF ReactorInv

LEMMA ReactorWorker ==
  ASSUME TypeOK, WatchInv, ReactorInv, actor_pattern_, NEW w \in Workers, WorkerStep(w) \/ ProcessFails(w)
  PROVE  ReactorInv'
  <1>1. UNCHANGED <<pc, mfd>>
    BY DEF WorkerStep, Take, WorkerReads, WorkerFlags, WorkerWrites, WorkerEnds, Process,
           ProcessFails, ForgetFd, CountDown, ArmClosed, mine, loop
  <1>2. CASE Take(w)
    <2>1. workqueue_ = <<mfd>> /\ ~improve_[mfd] /\ pc = "spin" /\ \A v \in Workers : ~HasIt(v)
      BY <1>2 DEF Take, ReactorInv, AllTold
    <2>2. workqueue_' = <<>> /\ task'[w] = mfd
      BY <1>2, <2>1 DEF Take, TypeOK, PoolTypeOK
    <2>3. HasIt(w)' /\ \A v \in Workers : HasIt(v)' => v = w
      BY <1>2, <2>1 DEF Take, HasIt, TypeOK, PoolTypeOK
    <2>4. improve_' = improve_
      BY <1>2 DEF Take, slots, flags
    <2>5. QED
      BY <1>1, <2>1, <2>2, <2>3, <2>4 DEF ReactorInv
  <1>3. CASE WorkerReads(w) \/ WorkerWrites(w) \/ WorkerEnds(w)
    <2>1. HasIt(w)
      BY <1>3 DEF WorkerReads, WorkerWrites, WorkerEnds, HasIt
    <2>2. /\ pc = "spin" /\ task[w] = mfd /\ workqueue_ = <<>>
          /\ \A v \in Workers : HasIt(v) => v = w
      BY <2>1 DEF ReactorInv, AllTold
    <2>3. improve_' = [improve_ EXCEPT ![mfd] = TRUE] /\ workqueue_' = workqueue_
      BY <1>3, <2>2 DEF WorkerReads, WorkerWrites, WorkerEnds
    <2>4. \A v \in Workers : ~HasIt(v)'
      BY <1>3, <2>2 DEF WorkerReads, WorkerWrites, WorkerEnds, WGoto, WDone, HasIt, TypeOK, PoolTypeOK
    <2>5. mfd \in Fds
      BY <2>2 DEF WatchInv
    <2>6. QED
      BY <1>1, <2>2, <2>3, <2>4, <2>5 DEF ReactorInv, AllTold, TypeOK, SlotsTypeOK
  <1>4. CASE WorkerFlags(w) \/ Process(w) \/ ProcessFails(w) \/ ForgetFd(w) \/ CountDown(w)
             \/ ArmClosed(w)
    <2>1. UNCHANGED <<improve_, workqueue_>>
      BY <1>4 DEF WorkerFlags, Process, ProcessFails, ForgetFd, CountDown, ArmClosed, slots, flags
    <2>2. ~HasIt(w) /\ ~HasIt(w)' /\ \A v \in Workers : v # w => wpc'[v] = wpc[v] /\ task'[v] = task[v]
      BY <1>4 DEF WorkerFlags, Process, ProcessFails, ForgetFd, CountDown, ArmClosed, WDone, WGoto,
         HasIt, TypeOK, PoolTypeOK
    <2>3. \A v \in Workers : (HasIt(v)' <=> HasIt(v)) /\ (HasIt(v) => task'[v] = task[v])
      BY <2>2 DEF HasIt
    <2>4. QED
      BY <1>1, <2>1, <2>3, ReactorSame
  <1>5. QED
    BY <1>2, <1>3, <1>4 DEF WorkerStep

LEMMA ReactorDispatch ==
  ASSUME TypeOK, ReactorInv, NEW f \in Fds, NEW event, Dispatch(f, event)
  PROVE  ReactorInv'
  <1>1. pc = "loop" /\ pc' = "spin" /\ mfd' = f /\ improve_' = improve_ /\ UNCHANGED <<wpc, task>>
    BY DEF Dispatch, Goto
  <1>2. AllTold /\ \A g \in Fds : ~improve_[g]
    BY <1>1 DEF ReactorInv
  <1>3. ~Refuses
    BY <1>2, EmptySeq DEF AllTold, Refuses
  <1>4. workqueue_' = <<f>>
    BY <1>2, <1>3 DEF Dispatch, Enqueue, AllTold
  <1>5. \A w \in Workers : ~HasIt(w)'
    BY <1>1, <1>2 DEF AllTold, HasIt
  <1>6. QED
    BY <1>1, <1>2, <1>4, <1>5 DEF ReactorInv

LEMMA ReactorLoop ==
  ASSUME TypeOK, WatchInv, ReactorInv, actor_pattern_,
         MainStep \/ EpollWait \/ Accept \/ AcceptNone \/ Alarm
  PROVE  ReactorInv'
  <1> USE DEF slots, flags, pool
  <1>1. CASE SpinOut
    <2>1. improve_[mfd] /\ AllTold /\ pc' = "loop" /\ improve_' = [improve_ EXCEPT ![mfd] = FALSE]
      BY <1>1 DEF SpinOut, ReactorInv, Leave, Goto
    <2>2. \A f \in Fds : ~improve_'[f]
      BY <2>1 DEF ReactorInv, TypeOK, SlotsTypeOK
    <2>3. AllTold'
      BY <1>1, <2>1 DEF SpinOut, AllTold, HasIt
    <2>4. QED
      BY <2>1, <2>2, <2>3 DEF ReactorInv
  <1>2. CASE SpinCloses
    <2>1. improve_[mfd] /\ AllTold /\ pc' = "spin_close" /\ improve_' = improve_ /\ mfd' = mfd /\ pc = "spin"
      BY <1>2 DEF SpinCloses, ReactorInv, StartClose, Goto
    <2>2. AllTold'
      BY <1>2, <2>1 DEF SpinCloses, AllTold, HasIt
    <2>3. QED
      BY <2>1, <2>2 DEF ReactorInv
  <1>3. CASE EndClose
    <2>1. pc \in {"close", "spin_close"} /\ pc' = "loop" /\ UNCHANGED pool
      BY <1>3 DEF EndClose, Leave, Goto
    <2>2. \A f \in Fds : ~improve_'[f]
      BY <1>3, <2>1 DEF EndClose, ReactorInv, TypeOK, SlotsTypeOK
    <2>3. AllTold /\ AllTold'
      BY <2>1 DEF ReactorInv, AllTold, HasIt
    <2>4. QED
      BY <2>1, <2>2, <2>3 DEF ReactorInv
  <1>4. CASE InitTimer
    BY <1>4, ReactorOn DEF InitTimer, Leave, Goto, ResetFlags, TypeOK, SlotsTypeOK
  <1>5. CASE RecvSignal \/ Alarm
    BY <1>5, ReactorSame DEF RecvSignal, Alarm, HasIt, loop
  <1>6. CASE AcceptNone \/ Accept \/ EpollWait
    BY <1>6, ReactorOn DEF AcceptNone, Accept, EpollWait, Accepting, Leave, Goto
  <1>7. CASE EndBatch \/ Fire \/ EndFire \/ EndTick
    BY <1>7, ReactorOn DEF EndBatch, Fire, EndFire, EndTick, StartClose, Leave, Goto
  <1>8. ASSUME NEW f \in Fds, Hup(f) PROVE ReactorInv'
    BY <1>8, ReactorOn DEF Hup, StartClose, Goto
  <1>9. QED
    BY <1>1, <1>2, <1>3, <1>4, <1>5, <1>6, <1>7, <1>8, ReactorDispatch
       DEF MainStep, Handle, ReadActor, WriteActorOn, ActorCloses

ReactorIInv == WatchIInv /\ (actor_pattern_ => ReactorInv)

LEMMA ReactorHolds == Spec => []ReactorIInv
  <1>1. Init => ReactorIInv
    <2>1. Init => ReactorInv
      BY DEF Init, ReactorInv, AllTold, HasIt
    <2>2. QED
      BY <2>1, InitType, WatchInit DEF ReactorIInv, WatchIInv
  <1>2. ReactorIInv /\ [Next]_vars => ReactorIInv'
    <2> SUFFICES ASSUME TypeOK, WatchInv, ReactorInv, actor_pattern_, [Next]_vars
                 PROVE  ReactorInv'
      BY WatchStep DEF ReactorIInv, WatchIInv
    <2>1. CASE UNCHANGED vars
      BY <2>1, ReactorSame DEF vars, slots, flags, pool, loop, HasIt
    <2>2. CASE MainStep \/ EpollWait \/ Accept \/ AcceptNone \/ Alarm
      BY <2>2, ReactorLoop
    <2>3. CASE \E w \in Workers : WorkerStep(w) \/ ProcessFails(w)
      BY <2>3, ReactorWorker
    <2>4. QED
      BY <2>1, <2>2, <2>3 DEF Next, Gone, Spin
  <1>3. QED
    BY <1>1, <1>2, PTL DEF Spec

\* In a reactor, whatever the number of workers and connections, the queue
\* has at most one slot.
THEOREM ReactorQueueIsShort == Spec => []ReactorQueue
  <1>1. ReactorIInv => ReactorQueue
    <2> SUFFICES ASSUME ReactorInv PROVE Len(workqueue_) <= 1
      BY DEF ReactorIInv, ReactorQueue
    <2>1. workqueue_ = <<>> \/ workqueue_ = <<mfd>>
      BY DEF ReactorInv, AllTold
    <2>2. CASE workqueue_ = <<>>
      BY <2>2
    <2>3. CASE workqueue_ = <<mfd>>
      <3>1. Len(workqueue_) = 1
        BY <2>3
      <3>2. QED
        BY <3>1
    <2>4. QED
      BY <2>1, <2>2, <2>3
  <1>2. QED
    BY <1>1, ReactorHolds, PTL

\* The hand-shake: while the main thread spins, the slot it waits for is in
\* the queue, or one worker has it that has yet to set improve_, or improve_ is
\* set: it never spins for an answer that nobody will give.
THEOREM SpinIsAnswered == Spec => [](actor_pattern_ => ReactorInv)
  <1>1. ReactorIInv => (actor_pattern_ => ReactorInv)
    BY DEF ReactorIInv
  <1>2. QED
    BY <1>1, ReactorHolds, PTL

-----------------------------------------------------------------------------
(* No connection is forgotten.                                             *)

\* What sees to a connection: epoll watches for its next event, or one is to be
\* handled, or its slot is queued or in work, or a worker has marked it to be
\* closed.
Heard(f) == armed[f] # "off" \/ Pending(f) \/ HasTask(f) \/ (actor_pattern_ /\ timer_flag_[f])

\* Until a slot is reused under a worker, the slot of an open connection has its
\* descriptor, a worker that has closed a connection has no other in its hands,
\* and a connection that is being set up is armed.  In the proactor nobody sets
\* timer_flag_.
OwnInv ==
    /\ ~actor_pattern_ => /\ \A w \in Workers : wpc[w] \notin {"read", "write", "flag"}
                          /\ \A f \in Fds : ~timer_flag_[f]
    /\ ~mixed => /\ \A f \in Open : sockfd_[f] = f
                 /\ \A w \in Workers : wpc[w] \in {"closed", "count", "arm"} => task[w] \notin Open
                 /\ pc = "init" => armed[mfd] # "off"

\* modify_fd of an open connection arms its descriptor.
LEMMA ModifyArms ==
  ASSUME TypeOK, NEW f \in Open, sockfd_[f] = f, NEW event \in {"in", "out"}, Modify(f, event)
  PROVE  armed'[f] # "off"
  BY DEF Modify, Usable, Open, TypeOK, KernelTypeOK

\* modify_fd disarms nothing.
LEMMA ModifyKeeps ==
  ASSUME TypeOK, NEW f, NEW event \in {"in", "out"}, Modify(f, event), NEW g \in Fds,
         armed[g] # "off"
  PROVE  armed'[g] # "off"
  BY DEF Modify, TypeOK, KernelTypeOK

\* The other workers' places.
LEMMA OthersStay ==
  ASSUME TypeOK, NEW w \in Workers, NEW label, WGoto(w, label) \/ WDone(w)
  PROVE  \A v \in Workers : v # w => wpc'[v] = wpc[v] /\ task'[v] = task[v]
  BY DEF WGoto, WDone, TypeOK, PoolTypeOK

\* Steps of the main thread that open no connection and give up no slot.
LEMMA OwnSame ==
  ASSUME OwnInv, UNCHANGED <<sockfd_, wpc, task, mixed>>,
         \A f \in Fds : timer_flag_'[f] => timer_flag_[f],
         \A f \in Open' : f \in Open, pc' # "init"
  PROVE  OwnInv'
  BY DEF OwnInv

LEMMA OwnAccept ==
  ASSUME TypeOK, OwnInv, Accept
  PROVE  OwnInv'
  <1>1. PICK f \in Fds \ Open, c \in Conns :
          /\ owner' = [owner EXCEPT ![f] = c] /\ armed' = [armed EXCEPT ![f] = "in"]
          /\ sockfd_' = [sockfd_ EXCEPT ![f] = f] /\ mixed' = (mixed \/ HasTask(f)) /\ mfd' = f
    BY DEF Accept
  <1>2. UNCHANGED <<wpc, task, timer_flag_>>
    BY DEF Accept, flags, pool
  <1>3. \A g \in Open' : g # f => g \in Open
    BY <1>1 DEF Open, TypeOK, KernelTypeOK
  <1>4. ~mixed' => ~mixed /\ ~HasTask(f)
    BY <1>1, Zenon
  <1>5. ~HasTask(f) => \A w \in Workers : wpc[w] \in {"closed", "count", "arm"} => task[w] # f
    BY DEF HasTask, InWork
  <1>6. armed'[f] = "in" /\ sockfd_'[f] = f /\ \A g \in Fds : g # f => sockfd_'[g] = sockfd_[g]
    BY <1>1 DEF TypeOK, KernelTypeOK, SlotsTypeOK
  <1>7. Open' \subseteq Fds
    BY DEF Open
  <1>8. ~mixed' => \A g \in Open' : sockfd_'[g] = g
    BY <1>3, <1>4, <1>6, <1>7 DEF OwnInv
  <1>9. ~mixed' => \A w \in Workers : wpc'[w] \in {"closed", "count", "arm"} => task'[w] \notin Open'
    BY <1>2, <1>3, <1>4, <1>5 DEF OwnInv
  <1>10. QED
    BY <1>1, <1>2, <1>6, <1>8, <1>9 DEF OwnInv

LEMMA OwnLoop ==
  ASSUME TypeOK, WatchInv, OwnInv, MainStep \/ EpollWait \/ Accept \/ AcceptNone \/ Alarm
  PROVE  OwnInv'
  <1> USE DEF slots, flags, pool, ghosts
  <1>1. \A f, label : StartClose(f, label) => \A g \in Open' : g \in Open
    BY DEF StartClose, CloseFd, Open, TypeOK, KernelTypeOK
  <1>2. owner' = owner => Open' = Open
    BY DEF Open
  <1>3. \A f : ResetFlags(f) => \A g \in Fds : timer_flag_'[g] => timer_flag_[g]
    BY DEF ResetFlags, TypeOK, SlotsTypeOK
  <1>4. CASE InitTimer
    BY <1>2, <1>3, <1>4, OwnSame DEF InitTimer, Leave, Goto, kernel
  <1>5. CASE SpinOut \/ EndBatch \/ EndFire \/ EndTick \/ EpollWait \/ AcceptNone
    BY <1>2, <1>5, OwnSame DEF SpinOut, EndBatch, EndFire, EndTick, EpollWait, AcceptNone,
       Leave, Goto, kernel
  <1>6. CASE RecvSignal
    BY <1>2, <1>6, OwnSame DEF RecvSignal, kernel
  <1>7. CASE Alarm
    BY <1>7 DEF Alarm, OwnInv, Open, kernel, loop
  <1>8. CASE SpinCloses
    BY <1>1, <1>8, OwnSame DEF SpinCloses, StartClose, Goto
  <1>9. CASE Fire
    BY <1>1, <1>9, OwnSame DEF Fire, StartClose, Goto
  <1>10. CASE EndClose
    <2>1. \A g \in Fds : timer_flag_'[g] => timer_flag_[g]
      BY <1>10 DEF EndClose, TypeOK, SlotsTypeOK
    <2>2. UNCHANGED <<sockfd_, wpc, task, mixed>> /\ owner' = owner /\ pc' # "init"
      BY <1>10 DEF EndClose, Leave, Goto, kernel
    <2>3. QED
      BY <1>2, <2>1, <2>2, OwnSame
  <1>11. ASSUME NEW f \in Fds, Hup(f) PROVE OwnInv'
    BY <1>1, <1>11, OwnSame DEF Hup, StartClose, Goto
  <1>12. ASSUME NEW f \in Fds, NEW event, ActorCloses(f, event) PROVE OwnInv'
    BY <1>1, <1>12, OwnSame DEF ActorCloses, StartClose, Goto
  <1>13. ASSUME NEW f \in Fds, ReadActor(f) PROVE OwnInv'
    BY <1>2, <1>13, OwnSame DEF ReadActor, kernel
  <1>14. ASSUME NEW f \in Fds, WriteActorOn(f) PROVE OwnInv'
    BY <1>2, <1>3, <1>14, OwnSame DEF WriteActorOn
  <1>15. ASSUME NEW f \in Fds, NEW event, Dispatch(f, event) PROVE OwnInv'
    BY <1>2, <1>15, OwnSame DEF Dispatch, Goto, kernel
  <1>16. QED
    BY <1>4, <1>5, <1>6, <1>7, <1>8, <1>9, <1>10, <1>11, <1>12, <1>13, <1>14, <1>15, OwnAccept
       DEF MainStep, Handle

\* The worker closes no connection and arms no descriptor for another one.
LEMMA OwnWorkerOn ==
  ASSUME TypeOK, OwnInv, NEW w \in Workers, UNCHANGED <<owner, sockfd_, mixed, pc, mfd>>,
         \A g \in Fds : armed[g] # "off" => armed'[g] # "off",
         pc = "init" => mfd \in Fds,
         \/ actor_pattern_
         \/ timer_flag_' = timer_flag_ /\ wpc'[w] \notin {"read", "write", "flag"},
         \A v \in Workers : v # w => wpc'[v] = wpc[v] /\ task'[v] = task[v],
         \/ wpc'[w] \notin {"closed", "count", "arm"}
         \/ task'[w] = task[w] /\ wpc[w] \in {"closed", "count", "arm"}
  PROVE  OwnInv'
  <1>1. Open' = Open
    BY DEF Open
  <1>2. ~actor_pattern_ => /\ \A v \in Workers : wpc'[v] \notin {"read", "write", "flag"}
                           /\ \A f \in Fds : ~timer_flag_'[f]
    BY DEF OwnInv
  <1>3. ~mixed => \A v \in Workers : wpc'[v] \in {"closed", "count", "arm"} => task'[v] \notin Open
    BY DEF OwnInv
  <1>4. QED
    BY <1>1, <1>2, <1>3 DEF OwnInv

LEMMA OwnWorker ==
  ASSUME TypeOK, WatchInv, TaskInv, OwnInv, NEW w \in Workers, WorkerStep(w) \/ ProcessFails(w)
  PROVE  OwnInv'
  <1> USE DEF mine, loop, kernel, slots, flags, ghosts
  <1>1. pc = "init" => mfd \in Fds
    BY DEF WatchInv
  <1>2. CASE Take(w)
    <2>1. \A v \in Workers : v # w => wpc'[v] = wpc[v] /\ task'[v] = task[v]
      BY <1>2 DEF Take, TypeOK, PoolTypeOK
    <2>2. wpc'[w] = IF ~actor_pattern_ THEN "process"
                    ELSE IF state_[Head(workqueue_)] THEN "write" ELSE "read"
      BY <1>2 DEF Take, TypeOK, PoolTypeOK
    <2>3. UNCHANGED <<owner, armed, sockfd_, mixed, pc, mfd, timer_flag_>>
      BY <1>2 DEF Take
    <2>4. /\ wpc'[w] \notin {"closed", "count", "arm"}
          /\ actor_pattern_ \/ wpc'[w] \notin {"read", "write", "flag"}
      BY <2>2
    <2>5. UNCHANGED <<owner, sockfd_, mixed, pc, mfd>> /\ \A g \in Fds : armed[g] # "off" => armed'[g] # "off"
      BY <2>3
    <2>6. \/ actor_pattern_
          \/ timer_flag_' = timer_flag_ /\ wpc'[w] \notin {"read", "write", "flag"}
      BY <2>3, <2>4
    <2>7. QED
      BY <1>1, <2>1, <2>4, <2>5, <2>6, OwnWorkerOn
  <1>3. CASE WorkerReads(w)
    <2>1. \A v \in Workers : v # w => wpc'[v] = wpc[v] /\ task'[v] = task[v]
      BY <1>3, OthersStay DEF WorkerReads
    <2>2. wpc'[w] \in {"process", "flag"} /\ wpc[w] = "read"
      BY <1>3 DEF WorkerReads, WGoto, TypeOK, PoolTypeOK
    <2>3. UNCHANGED <<owner, armed, sockfd_, mixed, pc, mfd, timer_flag_>>
      BY <1>3 DEF WorkerReads
    <2>4. actor_pattern_
      BY <2>2 DEF OwnInv
    <2>5. wpc'[w] \notin {"closed", "count", "arm"}
      BY <2>2
    <2>6. UNCHANGED <<owner, sockfd_, mixed, pc, mfd>> /\ \A g \in Fds : armed[g] # "off" => armed'[g] # "off"
      BY <2>3
    <2>7. QED
      BY <1>1, <2>1, <2>4, <2>5, <2>6, OwnWorkerOn
  <1>4. CASE WorkerFlags(w) \/ WorkerWrites(w) \/ WorkerEnds(w)
    <2>1. actor_pattern_
      BY <1>4 DEF WorkerFlags, WorkerWrites, WorkerEnds, OwnInv
    <2>2. (\A v \in Workers : v # w => wpc'[v] = wpc[v] /\ task'[v] = task[v]) /\ wpc'[w] = "idle"
      BY <1>4 DEF WorkerFlags, WorkerWrites, WorkerEnds, WDone, TypeOK, PoolTypeOK
    <2>3. UNCHANGED <<owner, sockfd_, mixed, pc, mfd>>
      BY <1>4 DEF WorkerFlags, WorkerWrites, WorkerEnds
    <2>4. armed' = armed \/ \E event \in {"in", "out"} : Modify(task[w], event)
      BY <1>4 DEF WorkerFlags, WorkerWrites, WorkerEnds
    <2>5. \A g \in Fds : armed[g] # "off" => armed'[g] # "off"
      BY <2>4, ModifyKeeps
    <2>6. QED
      BY <1>1, <2>1, <2>2, <2>3, <2>5, OwnWorkerOn
  <1>5. CASE Process(w) \/ ArmClosed(w)
    <2>1. (\A v \in Workers : v # w => wpc'[v] = wpc[v] /\ task'[v] = task[v]) /\ wpc'[w] = "idle"
      BY <1>5 DEF Process, ArmClosed, WDone, TypeOK, PoolTypeOK
    <2>2. UNCHANGED <<owner, sockfd_, mixed, pc, mfd, timer_flag_>>
      BY <1>5 DEF Process, ArmClosed
    <2>3. \E event \in {"in", "out"} : Modify(task[w], event)
      BY <1>5 DEF Process, ArmClosed
    <2>4. \A g \in Fds : armed[g] # "off" => armed'[g] # "off"
      BY <2>3, ModifyKeeps
    <2>5. QED
      BY <1>1, <2>1, <2>2, <2>4, OwnWorkerOn
  <1>6. CASE CountDown(w)
    <2>1. \A v \in Workers : v # w => wpc'[v] = wpc[v] /\ task'[v] = task[v]
      BY <1>6, OthersStay DEF CountDown
    <2>2. wpc'[w] = "arm" /\ wpc[w] = "count" /\ task'[w] = task[w]
      BY <1>6 DEF CountDown, WGoto, TypeOK, PoolTypeOK
    <2>3. UNCHANGED <<owner, armed, sockfd_, mixed, pc, mfd, timer_flag_>>
      BY <1>6 DEF CountDown
    <2>4. QED
      BY <1>1, <2>1, <2>2, <2>3, OwnWorkerOn
  <1>7. CASE ForgetFd(w)
    <2>1. \A v \in Workers : v # w => wpc'[v] = wpc[v] /\ task'[v] = task[v]
      BY <1>7, OthersStay DEF ForgetFd
    <2>2. wpc'[w] = "count" /\ wpc[w] = "closed" /\ task' = task
      BY <1>7 DEF ForgetFd, WGoto, TypeOK, PoolTypeOK
    <2>3. UNCHANGED <<owner, armed, mixed, pc, mfd, timer_flag_>> /\ Open' = Open
      BY <1>7 DEF ForgetFd, Open
    <2>4. \A f \in Fds : f # task[w] => sockfd_'[f] = sockfd_[f]
      BY <1>7 DEF ForgetFd, TypeOK, SlotsTypeOK
    <2>5. ~mixed => task[w] \notin Open
      BY <2>2 DEF OwnInv
    <2>6. ~mixed => \A f \in Open : sockfd_'[f] = f
      BY <2>4, <2>5 DEF OwnInv, Open
    <2>7. ~mixed => \A v \in Workers : wpc'[v] \in {"closed", "count", "arm"} => task'[v] \notin Open
      BY <2>1, <2>2, <2>5 DEF OwnInv
    <2>8. ~actor_pattern_ => \A v \in Workers : wpc'[v] \notin {"read", "write", "flag"}
      BY <2>1, <2>2 DEF OwnInv
    <2>9. QED
      BY <2>3, <2>6, <2>7, <2>8 DEF OwnInv
  <1>8. CASE ProcessFails(w)
    <2>1. UNCHANGED <<sockfd_, mixed, pc, mfd, timer_flag_>> /\ Busy(w)
      BY <1>8 DEF ProcessFails, Busy
    <2>2. CASE sockfd_[task[w]] = NoFd
      <3>1. (\A v \in Workers : v # w => wpc'[v] = wpc[v] /\ task'[v] = task[v]) /\ wpc'[w] = "idle"
            /\ UNCHANGED <<owner, armed>>
        BY <1>8, <2>2 DEF ProcessFails, WDone, TypeOK, PoolTypeOK
      <3>2. QED
        BY <1>1, <2>1, <3>1, OwnWorkerOn
    <2>3. CASE sockfd_[task[w]] # NoFd
      <3>1. WGoto(w, "closed") /\ CloseFd(sockfd_[task[w]]) /\ sockfd_[task[w]] = task[w] /\ task[w] \in Fds
        BY <1>8, <2>1, <2>3 DEF ProcessFails, TaskInv, SlotsInv
      <3>2. \A v \in Workers : v # w => wpc'[v] = wpc[v] /\ task'[v] = task[v]
        BY <3>1, OthersStay
      <3>3. wpc'[w] = "closed" /\ task' = task
        BY <3>1 DEF WGoto, TypeOK, PoolTypeOK
      <3>4. task[w] \notin Open' /\ \A f \in Open' : f \in Open
        BY <3>1 DEF CloseFd, Open, TypeOK, KernelTypeOK
      <3>5. \A f \in Fds : f # task[w] => armed'[f] = armed[f]
        BY <3>1 DEF CloseFd, TypeOK, KernelTypeOK
      <3>6. ~mixed => armed[task[w]] = "off"
        BY <2>1, <3>1, TaskOf DEF TaskInv, QuietInv
      <3>7. ~mixed => (pc = "init" => armed'[mfd] # "off")
        BY <1>1, <3>5, <3>6 DEF OwnInv
      <3>8. ~mixed => \A v \in Workers : wpc'[v] \in {"closed", "count", "arm"} => task'[v] \notin Open'
        BY <3>2, <3>3, <3>4 DEF OwnInv
      <3>9. ~actor_pattern_ => \A v \in Workers : wpc'[v] \notin {"read", "write", "flag"}
        BY <3>2, <3>3 DEF OwnInv
      <3>10. QED
        BY <2>1, <3>4, <3>7, <3>8, <3>9 DEF OwnInv
    <2>4. QED
      BY <2>2, <2>3
  <1>9. QED
    BY <1>2, <1>3, <1>4, <1>5, <1>6, <1>7, <1>8 DEF WorkerStep

HeardIInv == WatchIInv /\ TaskInv /\ (actor_pattern_ => ReactorInv) /\ OwnInv

LEMMA HeardHolds == Spec => []HeardIInv
  <1>1. Init => OwnInv
    BY DEF Init, OwnInv, Open
  <1>2. WatchIInv /\ TaskInv /\ OwnInv /\ [Next]_vars => OwnInv'
    <2> SUFFICES ASSUME TypeOK, WatchInv, TaskInv, OwnInv, [Next]_vars PROVE OwnInv'
      BY DEF WatchIInv
    <2>1. CASE UNCHANGED vars
      BY <2>1 DEF vars, kernel, slots, flags, pool, ghosts, loop, OwnInv, Open
    <2>2. CASE MainStep \/ EpollWait \/ Accept \/ AcceptNone \/ Alarm
      BY <2>2, OwnLoop
    <2>3. CASE \E w \in Workers : WorkerStep(w) \/ ProcessFails(w)
      BY <2>3, OwnWorker
    <2>4. QED
      BY <2>1, <2>2, <2>3 DEF Next, Gone, Spin
  <1>3. TaskIInv /\ ReactorIInv /\ OwnInv => HeardIInv
    BY DEF TaskIInv, ReactorIInv, HeardIInv
  <1>4. TaskIInv => WatchIInv /\ TaskInv
    BY DEF TaskIInv
  <1>5. QED
    BY <1>1, <1>2, <1>3, <1>4, TaskHolds, ReactorHolds, PTL DEF Spec

\* Steps that leave an open connection's descriptor as it is.
LEMMA HeardSame ==
  ASSUME NEW f \in Fds, Heard(f), armed'[f] # "off" \/ armed'[f] = armed[f],
         Pending(f) => Pending(f)', HasTask(f) => HasTask(f)', timer_flag_[f] => timer_flag_'[f]
  PROVE  Heard(f)'
  BY DEF Heard

\* A worker hands its slot back when the descriptor is armed, or the connection
\* marked or closed.
LEMMA HeardWorker ==
  ASSUME TypeOK, TaskInv, OwnInv, ~mixed, NEW w \in Workers, WorkerStep(w) \/ ProcessFails(w),
         NEW f \in Fds, f \in Open', f \in Open => Heard(f)
  PROVE  Heard(f)'
  <1> USE DEF mine, loop, kernel, slots, flags, ghosts
  <1>1. f \in Open /\ Heard(f)
    BY DEF WorkerStep, Take, WorkerReads, WorkerFlags, WorkerWrites, WorkerEnds, Process,
           ProcessFails, ForgetFd, CountDown, ArmClosed, CloseFd, Open, TypeOK, KernelTypeOK, NONE
  <1>2. sockfd_[f] = f
    BY <1>1 DEF OwnInv
  <1>3. batch' = batch /\ (Pending(f) => Pending(f)')
    BY DEF WorkerStep, Take, WorkerReads, WorkerFlags, WorkerWrites, WorkerEnds, Process,
           ProcessFails, ForgetFd, CountDown, ArmClosed, Pending
  <1>4. CASE task[w] # f \/ ~Busy(w)
    <2>1. HasTask(f) => HasTask(f)'
      <3>1. CASE Take(w)
        <4>1. /\ workqueue_ \in Seq(Fds) /\ workqueue_ # <<>> /\ workqueue_' = Tail(workqueue_)
              /\ task' = [task EXCEPT ![w] = Head(workqueue_)] /\ wpc[w] = "idle" /\ wpc'[w] # "idle"
              /\ \A v \in Workers : v # w => wpc'[v] = wpc[v]
          BY <3>1 DEF Take, TypeOK, PoolTypeOK
        <4>2. f \in ToSet(workqueue_) => f = Head(workqueue_) \/ f \in ToSet(workqueue_')
          BY <4>1, ToSetTail
        <4>3. QED
          BY <4>1, <4>2 DEF HasTask, InWork, TypeOK, PoolTypeOK
      <3>2. CASE ~Take(w)
        <4>1. workqueue_' = workqueue_ /\ Busy(w)
          BY <3>2 DEF WorkerStep, WorkerReads, WorkerFlags, WorkerWrites, WorkerEnds, Process,
             ProcessFails, ForgetFd, CountDown, ArmClosed, Busy
        <4>2. \A v \in Workers : v # w => wpc'[v] = wpc[v] /\ task'[v] = task[v]
          BY <3>2 DEF WorkerStep, WorkerReads, WorkerFlags, WorkerWrites, WorkerEnds, Process,
             ProcessFails, ForgetFd, CountDown, ArmClosed, WGoto, WDone, TypeOK, PoolTypeOK
        <4>3. QED
          BY <1>4, <4>1, <4>2 DEF HasTask, InWork
      <3>3. QED
        BY <3>1, <3>2
    <2>2. Busy(w) => armed'[f] = armed[f]
      <3>1. \A event : Busy(w) /\ Modify(task[w], event) => armed'[f] = armed[f]
        BY <1>4, ModifyOwn DEF TaskInv, SlotsInv
      <3>2. Busy(w) /\ sockfd_[task[w]] # NoFd /\ CloseFd(sockfd_[task[w]]) => armed'[f] = armed[f]
        BY <1>4 DEF TaskInv, SlotsInv, CloseFd, TypeOK, KernelTypeOK
      <3>3. QED
        BY <3>1, <3>2 DEF WorkerStep, Take, WorkerReads, WorkerFlags, WorkerWrites, WorkerEnds, Process,
           ProcessFails, ForgetFd, CountDown, ArmClosed
    <2>3. ~Busy(w) => armed' = armed
      BY DEF WorkerStep, Take, WorkerReads, WorkerFlags, WorkerWrites, WorkerEnds, Process,
             ProcessFails, ForgetFd, CountDown, ArmClosed, Busy
    <2>4. timer_flag_'[f] = timer_flag_[f]
      BY <1>4 DEF WorkerStep, Take, WorkerReads, WorkerFlags, WorkerWrites, WorkerEnds, Process,
         ProcessFails, ForgetFd, CountDown, ArmClosed, TypeOK, SlotsTypeOK, Busy
    <2>5. QED
      BY <1>1, <1>3, <2>1, <2>2, <2>3, <2>4, HeardSame
  <1>5. CASE task[w] = f /\ Busy(w)
    <2>1. CASE WorkerReads(w) \/ CountDown(w) \/ ForgetFd(w)
      <3>1. wpc'[w] # "idle" /\ task'[w] = f
        BY <1>5, <2>1 DEF WorkerReads, CountDown, ForgetFd, WGoto, TypeOK, PoolTypeOK
      <3>2. QED
        BY <3>1 DEF Heard, HasTask, InWork
    <2>2. CASE WorkerFlags(w) \/ WorkerEnds(w)
      <3>1. actor_pattern_
        BY <2>2 DEF OwnInv, WorkerFlags, WorkerEnds
      <3>2. timer_flag_'[f]
        BY <1>5, <2>2 DEF WorkerFlags, WorkerEnds, TypeOK, SlotsTypeOK
      <3>3. QED
        BY <3>1, <3>2 DEF Heard
    <2>3. CASE WorkerWrites(w) \/ Process(w)
      <3>1. \E event \in {"in", "out"} : Modify(f, event)
        BY <1>5, <2>3 DEF WorkerWrites, Process
      <3>2. QED
        BY <1>1, <1>2, <3>1, ModifyArms DEF Heard
    <2>4. ~ProcessFails(w)
      <3>1. CloseFd(f) => f \notin Open'
        BY DEF CloseFd, Open, TypeOK, KernelTypeOK
      <3>2. QED
        BY <1>2, <1>5, <3>1  DEF ProcessFails
    <2>5. ~ArmClosed(w) /\ ~Take(w)
      BY <1>1, <1>5 DEF ArmClosed, Take, Busy, OwnInv
    <2>6. QED
      BY <2>1, <2>2, <2>3, <2>4, <2>5 DEF WorkerStep
  <1>6. QED
    BY <1>4, <1>5

LEMMA MixedStays ==
  ASSUME Next
  PROVE  mixed => mixed'
  BY DEF Next, Gone, Spin, MainStep, EpollWait, Accept, AcceptNone, Alarm, InitTimer, RecvSignal, SpinOut,
     SpinCloses, EndClose, EndBatch, Fire, EndFire, EndTick, Handle, Hup, ReadActor, WriteActorOn,
     ActorCloses, Dispatch, WorkerStep, ProcessFails, Take, WorkerReads, WorkerFlags, WorkerWrites,
     WorkerEnds, Process, ForgetFd, CountDown, ArmClosed, ghosts, vars

\* The main thread queues the slot, arms the descriptor or closes it, unless
\* append refuses the slot.
LEMMA HeardLoop ==
  ASSUME TypeOK, WatchInv, TaskInv, OwnInv, actor_pattern_ => ReactorInv, ~mixed,
         MainStep \/ EpollWait \/ Accept \/ AcceptNone \/ Alarm,
         NEW f \in Fds, f \in Open', f \in Open => Heard(f), ~(ReadActor(f) /\ Refuses)
  PROVE  Heard(f)'
  <1> USE DEF slots, flags, pool, kernel, loop
  <1>1. UNCHANGED <<workqueue_, wpc, task>> => (HasTask(f)' <=> HasTask(f))
    BY DEF HasTask, InWork
  <1>2. \A g, label : StartClose(g, label) => f # g /\ f \in Open /\ armed'[f] = armed[f]
    BY DEF StartClose, CloseFd, Open, TypeOK, KernelTypeOK
  <1>3. owner' = owner => f \in Open
    BY DEF Open
  <1>4. \A g, k : g # f /\ Done(<<g, k>>) /\ Pending(f) => Pending(f)'
    BY DEF Done, Pending
  <1>5. NoFd # f
    OBVIOUS
  <1>6. CASE InitTimer
    <2>1. pc = "init" /\ UNCHANGED <<armed, batch, workqueue_, wpc, task>> /\ ResetFlags(mfd) /\ f \in Open
      BY <1>3, <1>6 DEF InitTimer
    <2>2. CASE mfd = f
      BY <2>1, <2>2 DEF OwnInv, Heard
    <2>3. CASE mfd # f
      <3>1. timer_flag_'[f] = timer_flag_[f] /\ (Pending(f)' <=> Pending(f))
        BY <2>1, <2>3 DEF ResetFlags, Pending, TypeOK, SlotsTypeOK
      <3>2. QED
        BY <1>1, <2>1, <3>1, HeardSame
    <2>4. QED
      BY <2>2, <2>3
  <1>7. CASE SpinOut \/ EndBatch \/ EndFire \/ EndTick \/ Alarm
    <2>1. UNCHANGED <<owner, armed, timer_flag_, batch, workqueue_, wpc, task>>
      BY <1>7 DEF SpinOut, EndBatch, EndFire, EndTick, Alarm
    <2>2. Pending(f)' <=> Pending(f)
      BY <2>1 DEF Pending
    <2>3. QED
      BY <1>1, <1>3, <2>1, <2>2, HeardSame
  <1>8. CASE RecvSignal \/ AcceptNone
    <2>1. UNCHANGED <<owner, armed, timer_flag_, workqueue_, wpc, task>> /\ (Done(Listen) \/ Done(Signal))
      BY <1>8 DEF RecvSignal, AcceptNone
    <2>2. Pending(f) => Pending(f)'
      BY <1>4, <1>5, <2>1 DEF Listen, Signal
    <2>3. QED
      BY <1>1, <1>3, <2>1, <2>2, HeardSame
  <1>9. CASE EpollWait
    <2>1. PICK ready \in SUBSET {g \in Open : armed[g] # "off"}, client \in BOOLEAN :
            \E hup \in SUBSET ready :
               /\ batch' = {<<g, IF g \in hup THEN "hup" ELSE armed[g]>> : g \in ready}
                           \cup (IF client THEN {Listen} ELSE {})
                           \cup (IF alarm = "sent" THEN {Signal} ELSE {})
               /\ armed' = [g \in Fds |-> IF g \in ready THEN "off" ELSE armed[g]]
      BY <1>9 DEF EpollWait
    <2>2. UNCHANGED <<owner, timer_flag_, workqueue_, wpc, task>> /\ f \in Open /\ ~Pending(f)
      BY <1>3, <1>9 DEF EpollWait, WatchInv, Pending
    <2>3. CASE f \in ready
      <3>1. PICK k : <<f, k>> \in batch'
        BY <2>1, <2>3
      <3>2. <<f, k>>[1] = f
        OBVIOUS
      <3>3. QED
        BY <3>1, <3>2 DEF Heard, Pending
    <2>4. CASE f \notin ready
      <3>1. armed'[f] = armed[f]
        BY <2>1, <2>4
      <3>2. QED
        BY <1>1, <2>2, <3>1, HeardSame
    <2>5. QED
      BY <2>3, <2>4
  <1>10. CASE Accept
    <2>1. PICK g \in Fds \ Open, c \in Conns :
            owner' = [owner EXCEPT ![g] = c] /\ armed' = [armed EXCEPT ![g] = "in"]
      BY <1>10 DEF Accept
    <2>2. UNCHANGED <<timer_flag_, workqueue_, wpc, task>> /\ Done(Listen)
      BY <1>10 DEF Accept
    <2>3. CASE g = f
      <3>1. armed'[f] = "in"
        BY <2>1, <2>3 DEF TypeOK, KernelTypeOK
      <3>2. QED
        BY <3>1 DEF Heard
    <2>4. CASE g # f
      <3>1. armed'[f] = armed[f] /\ f \in Open
        BY <2>1, <2>4 DEF TypeOK, KernelTypeOK, Open
      <3>2. Pending(f) => Pending(f)'
        BY <1>4, <1>5, <2>2 DEF Listen
      <3>3. QED
        BY <1>1, <2>2, <3>1, <3>2, HeardSame
    <2>5. QED
      BY <2>3, <2>4
  <1>11. CASE SpinCloses \/ Fire
    <2>1. /\ \E g, label : StartClose(g, label)
          /\ UNCHANGED <<timer_flag_, batch, workqueue_, wpc, task>>
      BY <1>11 DEF SpinCloses, Fire
    <2>2. Pending(f)' <=> Pending(f)
      BY <2>1 DEF Pending
    <2>3. f \in Open /\ armed'[f] = armed[f]
      BY <1>2, <2>1
    <2>4. QED
      BY <1>1, <2>1, <2>2, <2>3, HeardSame
  <1>12. CASE EndClose
    <2>1. UNCHANGED <<owner, armed, batch, workqueue_, wpc, task>> /\ f \in Open /\ f # mfd
      BY <1>3, <1>12 DEF EndClose, WatchInv
    <2>2. timer_flag_'[f] = timer_flag_[f] /\ (Pending(f)' <=> Pending(f))
      BY <1>12, <2>1 DEF EndClose, Pending, TypeOK, SlotsTypeOK
    <2>3. QED
      BY <1>1, <2>1, <2>2, HeardSame
  <1>13. ASSUME NEW g \in Fds, NEW k, Hup(g) \/ ActorCloses(g, k) PROVE Heard(f)'
    <2>1. /\ StartClose(g, "close") /\ UNCHANGED <<timer_flag_, workqueue_, wpc, task>>
          /\ \E l : Done(<<g, l>>)
      BY <1>13 DEF Hup, ActorCloses
    <2>2. f # g /\ f \in Open /\ armed'[f] = armed[f]
      BY <1>2, <2>1
    <2>3. QED
      BY <1>1, <1>4, <2>1, <2>2, HeardSame
  <1>14. ASSUME NEW g \in Fds, NEW k, Enqueue(g), ~Refuses \/ g # f, Done(<<g, k>>),
                UNCHANGED <<owner, armed, timer_flag_, wpc, task>>
         PROVE  Heard(f)'
    <2>1. workqueue_ \in Seq(Fds) /\ (workqueue_' = workqueue_ \/ workqueue_' = Append(workqueue_, g))
      BY <1>14 DEF Enqueue, TypeOK, PoolTypeOK
    <2>2. ToSet(workqueue_) \subseteq ToSet(workqueue_')
      <3>1. CASE workqueue_' = workqueue_
        BY <3>1
      <3>2. CASE workqueue_' = Append(workqueue_, g)
        <4>1. ToSet(Append(workqueue_, g)) = ToSet(workqueue_) \cup {g}
          BY <2>1, ToSetAppend
        <4>2. QED
          BY <3>2, <4>1
      <3>3. QED
        BY <2>1, <3>1, <3>2
    <2>3. CASE g = f
      <3>1. workqueue_' = Append(workqueue_, f)
        BY <1>14, <2>3 DEF Enqueue
      <3>2. f \in ToSet(workqueue_')
        BY <2>1, <3>1, ToSetAppend
      <3>3. QED
        BY <3>2 DEF Heard, HasTask
    <2>4. CASE g # f
      <3>1. HasTask(f) => HasTask(f)'
        BY <1>14, <2>2 DEF HasTask, InWork
      <3>2. QED
        BY <1>3, <1>4, <1>14, <2>4, <3>1, HeardSame
    <2>5. QED
      BY <2>3, <2>4
  <1>15. ASSUME NEW g \in Fds, ReadActor(g) PROVE Heard(f)'
    <2>1. ~Refuses \/ g # f
      BY <1>15
    <2>2. QED
      BY <1>14, <1>15, <2>1 DEF ReadActor
  <1>16. ASSUME NEW g \in Fds, NEW k, Dispatch(g, k) PROVE Heard(f)'
    <2>1. workqueue_ = <<>>
      BY <1>16 DEF Dispatch, ReactorInv, AllTold
    <2>2. ~Refuses
      BY <2>1, EmptySeq DEF Refuses
    <2>3. QED
      BY <1>14, <1>16, <2>2 DEF Dispatch
  <1>17. ASSUME NEW g \in Fds, WriteActorOn(g) PROVE Heard(f)'
    <2>1. /\ UNCHANGED <<owner, workqueue_, wpc, task>> /\ Done(<<g, "out">>) /\ f \in Open
          /\ ~actor_pattern_
      BY <1>3, <1>17 DEF WriteActorOn
    <2>2. \E event \in {"in", "out"} : Modify(g, event)
      BY <1>17 DEF WriteActorOn
    <2>3. CASE g = f
      <3>1. sockfd_[f] = f
        BY <2>1 DEF OwnInv
      <3>2. armed'[f] # "off"
        BY <2>1, <2>2, <2>3, <3>1, ModifyArms
      <3>3. QED
        BY <3>2 DEF Heard
    <2>4. CASE g # f
      <3>1. armed'[f] = armed[f]
        BY <2>2, <2>4, ModifyOwn DEF TaskInv
      <3>2. QED
        BY <1>1, <1>4, <2>1, <2>4, <3>1 DEF Heard
    <2>5. QED
      BY <2>3, <2>4
  <1>18. QED
    BY <1>6, <1>7, <1>8, <1>9, <1>10, <1>11, <1>12, <1>13, <1>15, <1>16, <1>17 DEF MainStep, Handle

\* The only step that forgets a connection is read_actor's, in the proactor, when
\* append refuses the slot: the descriptor stays disarmed, with no task, until
\* the timer closes the connection.  Every other handler and every worker, on
\* every path, arms the descriptor again, queues the slot, marks it or closes
\* the connection; and a new connection is armed.  (Until a slot is reused under
\* a worker.)
Forgets(f) == f \in Open' /\ ~Heard(f)' /\ (f \notin Open \/ Heard(f))

THEOREM OnlyRefusedForgotten ==
  Spec => [][~mixed' => \A f \in Fds : Forgets(f) => ReadActor(f) /\ Refuses]_vars
  <1> DEFINE OnlyRefused == ~mixed' => \A f \in Fds : Forgets(f) => ReadActor(f) /\ Refuses
  <1>1. ASSUME HeardIInv, Next PROVE OnlyRefused
    <2> SUFFICES ASSUME ~mixed', NEW f \in Fds, Forgets(f), ~(ReadActor(f) /\ Refuses) PROVE FALSE
      OBVIOUS
    <2>1. ~mixed
      BY <1>1, MixedStays
    <2>2. TypeOK /\ WatchInv /\ TaskInv /\ OwnInv /\ (actor_pattern_ => ReactorInv)
      BY <1>1 DEF HeardIInv, WatchIInv
    <2>3. ~UNCHANGED vars
      BY DEF vars, kernel, slots, flags, pool, loop, Forgets, Heard, Pending, HasTask, InWork, Open
    <2>4. CASE MainStep \/ EpollWait \/ Accept \/ AcceptNone \/ Alarm
      BY <2>1, <2>2, <2>4, HeardLoop DEF Forgets
    <2>5. CASE \E w \in Workers : WorkerStep(w) \/ ProcessFails(w)
      BY <2>1, <2>2, <2>5, HeardWorker DEF Forgets
    <2>6. QED
      BY <1>1, <2>3, <2>4, <2>5 DEF Next, Gone, Spin
  <1>2. HeardIInv /\ [Next]_vars => [OnlyRefused]_vars
    BY <1>1
  <1>3. QED
    BY <1>2, HeardHolds, PTL DEF Spec

\* In the reactor no connection is ever forgotten: epoll watches for it, an
\* event of it is to be handled, its slot is queued or in work, or a worker has
\* marked it in timer_flag_.
THEOREM ReactorForgetsNone == Spec => [](actor_pattern_ /\ ~mixed => \A f \in Open : Heard(f))
  <1> DEFINE AllHeard == actor_pattern_ /\ ~mixed => \A f \in Open : Heard(f)
  <1>1. Init => AllHeard
    BY DEF Init, Open
  <1>2. HeardIInv /\ AllHeard /\ [Next]_vars => AllHeard'
    <2> SUFFICES ASSUME HeardIInv, AllHeard, [Next]_vars, actor_pattern_, ~mixed', NEW f \in Fds, f \in Open'
                 PROVE  Heard(f)'
      BY DEF Open
    <2>1. ~mixed
      BY MixedStays DEF vars, ghosts
    <2>2. TypeOK /\ WatchInv /\ TaskInv /\ OwnInv /\ ReactorInv
      BY DEF HeardIInv, WatchIInv
    <2>3. f \in Open => Heard(f)
      BY <2>1
    <2>4. CASE UNCHANGED vars
      BY <2>3, <2>4 DEF vars, kernel, slots, flags, pool, loop, Heard, Pending, HasTask, InWork, Open
    <2>5. CASE MainStep \/ EpollWait \/ Accept \/ AcceptNone \/ Alarm
      BY <2>1, <2>2, <2>3, <2>5, HeardLoop DEF ReadActor
    <2>6. CASE \E w \in Workers : WorkerStep(w) \/ ProcessFails(w)
      BY <2>1, <2>2, <2>3, <2>6, HeardWorker
    <2>7. QED
      BY <2>4, <2>5, <2>6 DEF Next, Gone, Spin
  <1>3. QED
    BY <1>1, <1>2, HeardHolds, PTL DEF Spec

-----------------------------------------------------------------------------
(* The books: connections, timers and user_count_.                         *)

Distinct(s) == \A i, j \in 1 .. Len(s) : s[i] = s[j] => i = j

LEMMA DistinctAppend ==
  ASSUME NEW S, NEW s \in Seq(S), Distinct(s), NEW c \in S, c \notin ToSet(s)
  PROVE  Distinct(Append(s, c))
  <1> DEFINE t == Append(s, c)
  <1>1. /\ Len(s) \in Nat /\ Len(t) = Len(s) + 1 /\ t[Len(s) + 1] = c
        /\ \A i \in 1 .. Len(s) : t[i] = s[i]
        /\ \A i \in 1 .. Len(s) : s[i] # c
    BY AppendProperties, LenProperties, ToSetType
  <1> HIDE DEF t
  <1>2. SUFFICES ASSUME NEW i \in 1 .. Len(t), NEW j \in 1 .. Len(t), t[i] = t[j]
                 PROVE  i = j
    BY DEF Distinct, t
  <1>3. /\ i \in 1 .. Len(s) \/ i = Len(s) + 1
        /\ j \in 1 .. Len(s) \/ j = Len(s) + 1
    BY <1>1
  <1>4. CASE i \in 1 .. Len(s) /\ j \in 1 .. Len(s)
    BY <1>1, <1>2, <1>4 DEF Distinct
  <1>5. QED
    BY <1>1, <1>2, <1>3, <1>4

LEMMA DistinctWithout ==
  ASSUME NEW S, NEW s \in Seq(S), Distinct(s), NEW c \in ToSet(s)
  PROVE  /\ Distinct(Without(s, c))
         /\ c \notin ToSet(Without(s, c))
         /\ Len(Without(s, c)) + 1 = Len(s)
  <1> DEFINE t == Without(s, c)
  <1>1. PICK k \in 1 .. Len(s) :
          /\ s[k] = c /\ t \in Seq(S) /\ Len(t) = Len(s) - 1
          /\ \A j \in 1 .. Len(s) - 1 : t[j] = IF j < k THEN s[j] ELSE s[j + 1]
    BY WithoutAt
  <1> HIDE DEF t
  <1>2. Len(s) \in Nat /\ ToSet(t) = {t[j] : j \in 1 .. Len(t)}
    BY <1>1, ToSetType, LenProperties
  \* The place in s of what is at place i of t.
  <1>3. \A i \in 1 .. Len(t) : \E m \in 1 .. Len(s) :
          m # k /\ t[i] = s[m] /\ (m < k => i = m) /\ (m > k => i + 1 = m)
    <2> TAKE i \in 1 .. Len(t)
    <2>1. i \in 1 .. Len(s) - 1 /\ i \in 1 .. Len(s) /\ i + 1 \in 1 .. Len(s)
      BY <1>1, <1>2
    <2>2. CASE i < k
      BY <1>1, <1>2, <2>1, <2>2
    <2>3. CASE ~(i < k)
      <3>1. t[i] = s[i + 1] /\ i + 1 > k
        BY <1>1, <1>2, <2>1, <2>3
      <3>2. QED
        BY <1>1, <1>2, <2>1, <3>1
    <2>4. QED
      BY <2>2, <2>3
  <1>4. Distinct(t)
    <2> SUFFICES ASSUME NEW i \in 1 .. Len(t), NEW j \in 1 .. Len(t), t[i] = t[j]
                 PROVE  i = j
      BY DEF Distinct
    <2>1. PICK m \in 1 .. Len(s) : m # k /\ t[i] = s[m] /\ (m < k => i = m) /\ (m > k => i + 1 = m)
      BY <1>3
    <2>2. PICK n \in 1 .. Len(s) : n # k /\ t[j] = s[n] /\ (n < k => j = n) /\ (n > k => j + 1 = n)
      BY <1>3
    <2>3. m = n
      BY <2>1, <2>2 DEF Distinct
    <2>4. QED
      BY <1>1, <1>2, <2>1, <2>2, <2>3
  <1>5. c \notin ToSet(t)
    <2>1. ASSUME NEW i \in 1 .. Len(t), t[i] = c PROVE FALSE
      <3>1. PICK m \in 1 .. Len(s) : m # k /\ t[i] = s[m]
        BY <1>3
      <3>2. QED
        BY <1>1, <2>1, <3>1 DEF Distinct
    <2>2. QED
      BY <1>2, <2>1
  <1>6. QED
    BY <1>1, <1>2, <1>4, <1>5 DEF t

\* delay_timer and del_timer keep the timers of the list apart.
LEMMA DelayDistinct ==
  ASSUME TypeOK, Distinct(timer_list_), NEW c \in Active, Delay(c)
  PROVE  Distinct(timer_list_') /\ Len(timer_list_') = Len(timer_list_)
  <1>1. c \in Conns /\ timer_list_ \in Seq(Conns) /\ Len(timer_list_) \in Nat
    BY ToSetType, LenProperties DEF TypeOK, TimersTypeOK, Active
  <1>2. CASE timer_list_' = timer_list_
    BY <1>1, <1>2
  <1>3. CASE timer_list_' = Append(Without(timer_list_, c), c)
    <2>1. /\ Without(timer_list_, c) \in Seq(Conns) /\ Distinct(Without(timer_list_, c))
          /\ c \notin ToSet(Without(timer_list_, c))
          /\ Len(Without(timer_list_, c)) + 1 = Len(timer_list_)
      BY <1>1, WithoutType, DistinctWithout DEF Active
    <2>2. Distinct(timer_list_')
      BY <1>1, <1>3, <2>1, DistinctAppend
    <2>3. Len(timer_list_') = Len(Without(timer_list_, c)) + 1
      BY <1>1, <1>3, <2>1, ToSetAppend
    <2>4. QED
      BY <2>1, <2>2, <2>3
  <1>4. QED
    BY <1>2, <1>3 DEF Delay

LEMMA DeleteDistinct ==
  ASSUME TypeOK, Distinct(timer_list_), NEW c \in Active, DeleteTimer(c)
  PROVE  /\ Distinct(timer_list_') /\ Len(timer_list_') + 1 = Len(timer_list_)
         /\ c \notin Active' /\ timer' = timer
         /\ \A x \in Active' : x \in Active /\ x \in Conns /\ fdOf'[x] = fdOf[x] /\ x # c
  <1>1. Distinct(timer_list_') /\ Len(timer_list_') + 1 = Len(timer_list_) /\ c \notin Active'
    BY DistinctWithout DEF TypeOK, TimersTypeOK, Active, DeleteTimer
  <1>2. ASSUME NEW x \in Active'
        PROVE  x \in Active /\ x \in Conns /\ fdOf'[x] = fdOf[x] /\ x # c
    <2>1. x \in Active /\ x # c
      BY <1>1, <1>2, DeleteKeeps
    <2>2. x \in Conns
      BY <2>1, ToSetType DEF TypeOK, TimersTypeOK, Active
    <2>3. QED
      BY <2>1, <2>2, DeleteKeeps
  <1>3. QED
    BY <1>1, <1>2, DeleteKeeps

Plain == {"wait", "loop", "accept", "spin", "tick"}

\* As long as no request has failed, the timers of the list are those of the
\* open connections, and of the one that is being closed; and who has an event
\* to come, or is waited for, is open.
BookInv ==
    /\ Distinct(timer_list_)
    /\ \A c \in Active :
          /\ fdOf[c] \in Fds
          /\ \/ owner[fdOf[c]] = c
             \/ pc \in {"close", "spin_close"} /\ mfd = fdOf[c] /\ timer[mfd] = c
    /\ pc = "init" => mfd \in Open /\ timer[mfd] \notin Active
    /\ \A f \in Fds : Pending(f) => f \in Open
    /\ pc = "spin" => mfd \in Open
    /\ \A w \in Workers : wpc[w] \notin {"closed", "count", "arm"}

\* How many there are, between the two halves of an update too.
CountInv ==
    /\ pc \in Plain => /\ user_count_ = Cardinality(Open)
                       /\ Len(timer_list_) = Cardinality(Open)
    /\ pc = "init" => /\ loaded = user_count_ /\ user_count_ + 1 = Cardinality(Open)
                      /\ Len(timer_list_) + 1 = Cardinality(Open)
    /\ pc \in {"close", "spin_close"} =>
          /\ loaded = user_count_ /\ user_count_ = Cardinality(Open) + 1
          /\ Len(timer_list_) = Cardinality(Open) + 1
    /\ pc = "fired" => /\ loaded = user_count_ /\ user_count_ = Cardinality(Open) + 1
                       /\ Len(timer_list_) = Cardinality(Open)
    /\ Cardinality(Open) <= MAX_FD

Books == BookInv /\ CountInv

LEMMA OpenFinite ==
  /\ IsFiniteSet(Open) /\ Cardinality(Open) \in Nat
  BY FS_Subset, FS_CardinalityType DEF Open

\* Steps that change at most the order of the list.
LEMMA BooksOn ==
  ASSUME TypeOK, Books, UNCHANGED <<owner, timer, fdOf, user_count_, wpc>>,
         Active' = Active, Distinct(timer_list_'), Len(timer_list_') = Len(timer_list_),
         pc \in Plain, pc' \in Plain, pc' = "spin" => mfd' \in Open,
         \A f \in Fds : Pending(f)' => f \in Open
  PROVE  Books'
  <1>1. Open' = Open /\ pc \notin {"init", "close", "spin_close", "fired"}
        /\ pc' \notin {"init", "close", "spin_close", "fired"}
    BY DEF Open, Plain
  <1>2. BookInv'
    BY <1>1 DEF Books, BookInv
  <1>3. CountInv'
    BY <1>1 DEF Books, CountInv
  <1>4. QED
    BY <1>2, <1>3 DEF Books

\* Steps of others.
LEMMA BooksSame ==
  ASSUME Books, UNCHANGED <<owner, timer, timer_list_, fdOf, user_count_, pc, mfd, loaded, batch>>,
         \A w \in Workers : wpc'[w] \notin {"closed", "count", "arm"}
  PROVE  Books'
  <1>1. Open' = Open /\ Active' = Active /\ \A f : Pending(f)' <=> Pending(f)
    BY DEF Open, Active, Pending
  <1>2. BookInv'
    BY <1>1 DEF Books, BookInv, Distinct
  <1>3. CountInv'
    BY <1>1 DEF Books, CountInv
  <1>4. QED
    BY <1>2, <1>3 DEF Books

LEMMA BooksWorker ==
  ASSUME TypeOK, Books, NEW w \in Workers, WorkerStep(w)
  PROVE  Books'
  <1>1. wpc[w] \notin {"closed", "count", "arm"}
    BY DEF Books, BookInv
  <1>2. Take(w) \/ WorkerReads(w) \/ WorkerFlags(w) \/ WorkerWrites(w) \/ WorkerEnds(w) \/ Process(w)
    BY <1>1 DEF WorkerStep, ForgetFd, CountDown, ArmClosed
  <1>3. UNCHANGED <<owner, timer, timer_list_, fdOf, user_count_, pc, mfd, loaded, batch>>
    BY <1>2 DEF Take, WorkerReads, WorkerFlags, WorkerWrites, WorkerEnds, Process, mine, timers,
       loop, kernel
  <1>4. wpc'[w] \in {"idle", "read", "write", "flag", "process"} /\ \A v \in Workers : v # w => wpc'[v] = wpc[v]
    BY <1>2 DEF Take, WorkerReads, WorkerFlags, WorkerWrites, WorkerEnds, Process, WGoto, WDone,
       TypeOK, PoolTypeOK
  <1>5. QED
    BY <1>3, <1>4, BooksSame DEF Books, BookInv

\* A handler that delays the timer of its descriptor.
LEMMA BooksDelay ==
  ASSUME TypeOK, WatchInv, Books, pc = "loop", NEW f \in Fds, NEW k, <<f, k>> \in batch,
         Delay(timer[f]), Done(<<f, k>>), UNCHANGED <<owner, user_count_, wpc>>,
         pc' = "loop" \/ (pc' = "spin" /\ mfd' = f)
  PROVE  Books'
  <1>1. Sound(f) /\ Pending(f) /\ \A g \in Fds : Pending(g)' => Pending(g)
    BY HandledEvent DEF Pending, Done
  <1>2. /\ Active' = Active /\ timer' = timer /\ fdOf' = fdOf
        /\ Distinct(timer_list_') /\ Len(timer_list_') = Len(timer_list_)
    BY <1>1, DelayKeeps, DelayDistinct DEF Sound, Books, BookInv
  <1>3. f \in Open /\ \A g \in Fds : Pending(g)' => g \in Open
    BY <1>1 DEF Books, BookInv
  <1>4. QED
    BY <1>2, <1>3, BooksOn DEF Plain

\* The main thread begins to close an open connection.
LEMMA BooksStartClose ==
  ASSUME TypeOK, WatchInv, Books, NEW f \in Open, pc \in {"loop", "spin"},
         NEW label \in {"close", "spin_close"}, StartClose(f, label),
         UNCHANGED <<user_count_, timers, wpc>>, batch' \subseteq batch, ~Pending(f)'
  PROVE  Books'
  <1>1. /\ owner' = [owner EXCEPT ![f] = NONE] /\ loaded' = user_count_ /\ mfd' = f /\ pc' = label
        /\ f \in Fds
    BY DEF StartClose, CloseFd, Goto, Open
  <1>2. Open' = Open \ {f} /\ \A g \in Fds : g # f => owner'[g] = owner[g]
    BY <1>1 DEF Open, TypeOK, KernelTypeOK
  <1>3. owner[f] = timer[f]
    BY DEF WatchInv
  <1>4. Active' = Active /\ timer' = timer /\ fdOf' = fdOf /\ timer_list_' = timer_list_
    BY DEF Active, timers
  <1>5. \A g \in Fds : Pending(g)' => Pending(g) /\ g # f
    BY DEF Pending
  <1>6. \A c \in Active' : fdOf'[c] \in Fds
             /\ (owner'[fdOf'[c]] = c \/ (mfd' = fdOf'[c] /\ timer'[mfd'] = c))
    BY <1>1, <1>2, <1>3, <1>4 DEF Books, BookInv
  <1>7. BookInv'
    BY <1>1, <1>2, <1>4, <1>5, <1>6 DEF Books, BookInv, Distinct
  <1>8. Cardinality(Open') = Cardinality(Open) - 1 /\ Cardinality(Open) \in Nat
    BY <1>2, OpenFinite, FS_RemoveElement
  <1>9. user_count_ = Cardinality(Open) /\ Len(timer_list_) = Cardinality(Open) /\ Cardinality(Open) <= MAX_FD
    BY DEF Books, CountInv, Plain
  <1>10. Cardinality(Open') + 1 = Cardinality(Open) /\ Cardinality(Open') <= MAX_FD
    BY <1>8, <1>9
  <1>11. CountInv'
    BY <1>1, <1>4, <1>9, <1>10 DEF CountInv, Plain
  <1>12. QED
    BY <1>7, <1>11 DEF Books

LEMMA BooksAccept ==
  ASSUME TypeOK, WatchInv, Books, Accept
  PROVE  Books'
  <1>1. PICK f \in Fds \ Open :
          LET unused == (Conns \ Active) \ {owner[g] : g \in Fds}
              c == CHOOSE c \in unused : TRUE
          IN /\ unused # {}
             /\ owner' = [owner EXCEPT ![f] = c]
             /\ timer' = [timer EXCEPT ![f] = c] /\ fdOf' = [fdOf EXCEPT ![c] = f]
             /\ mfd' = f
    BY DEF Accept
  <1>2. PICK c \in (Conns \ Active) \ {owner[g] : g \in Fds} :
             /\ owner' = [owner EXCEPT ![f] = c]
             /\ timer' = [timer EXCEPT ![f] = c] /\ fdOf' = [fdOf EXCEPT ![c] = f]
             /\ mfd' = f
    BY <1>1
  <1>3. /\ pc \in {"loop", "accept"} /\ pc' = "init" /\ loaded' = user_count_
        /\ user_count_' = user_count_ /\ user_count_ < MAX_FD
        /\ Active' = Active /\ timer_list_' = timer_list_ /\ wpc' = wpc
        /\ \A g : Pending(g)' => Pending(g)
    BY DEF Accept, Accepting, Goto, Done, Active, pool, Pending
  <1>4. /\ \A g \in Fds : g # f => owner'[g] = owner[g]
        /\ owner'[f] = c /\ timer'[f] = c /\ c # NONE /\ c \notin Active
        /\ \A x \in Active : fdOf'[x] = fdOf[x]
    BY <1>2 DEF TypeOK, KernelTypeOK, TimersTypeOK, NONE
  <1>5. Open' = Open \cup {f}
    BY <1>4 DEF Open
  <1>6. \A x \in Active : fdOf[x] \in Fds /\ owner[fdOf[x]] = x
    BY <1>3 DEF Books, BookInv
  <1>7. \A x \in Active : x # NONE
    BY ToSetType DEF Active, TypeOK, TimersTypeOK, NONE
  <1>8. \A x \in Active : fdOf[x] \in Open
    BY <1>6, <1>7 DEF Open
  <1>9. \A x \in Active' : fdOf'[x] \in Fds /\ owner'[fdOf'[x]] = x
    BY <1>3, <1>4, <1>6, <1>8
  <1>10. mfd' \in Open' /\ timer'[mfd'] \notin Active'
    BY <1>2, <1>3, <1>4, <1>5
  <1>11. BookInv'
    BY <1>3, <1>5, <1>9, <1>10 DEF Books, BookInv, Distinct
  <1>12. Cardinality(Open') = Cardinality(Open) + 1 /\ Cardinality(Open) \in Nat
    BY <1>5, OpenFinite, FS_AddElement
  <1>13. user_count_ = Cardinality(Open) /\ Len(timer_list_) = Cardinality(Open)
    BY <1>3 DEF Books, CountInv, Plain
  <1>14. Cardinality(Open') <= MAX_FD
    BY <1>3, <1>12, <1>13
  <1>15. CountInv'
    BY <1>3, <1>12, <1>13, <1>14 DEF CountInv, Plain
  <1>16. QED
    BY <1>11, <1>15 DEF Books

LEMMA BooksInitTimer ==
  ASSUME TypeOK, WatchInv, Books, InitTimer
  PROVE  Books'
  <1>1. PICK f \in Open : f = mfd /\ f \in Fds /\ timer[f] \in Conns /\ fdOf[timer[f]] = f
                         /\ owner[f] = timer[f] /\ timer[f] \notin Active /\ pc = "init"
    BY DEF InitTimer, WatchInv, Books, BookInv, Open
  <1>2. /\ Active' = Active \cup {timer[f]} /\ Distinct(timer_list_')
        /\ Len(timer_list_') = Len(timer_list_) + 1 /\ Len(timer_list_) \in Nat
    BY <1>1, ToSetAppend, DistinctAppend, LenProperties DEF InitTimer, Active, TypeOK, TimersTypeOK, Books, BookInv
  <1>3. /\ timer' = timer /\ fdOf' = fdOf /\ owner' = owner /\ batch' = batch /\ wpc' = wpc
        /\ pc' \in {"accept", "loop"} /\ Open' = Open /\ user_count_' = loaded + 1
    BY DEF InitTimer, kernel, pool, Leave, Goto, Open
  <1>4. \A x \in Active : fdOf[x] \in Fds /\ owner[fdOf[x]] = x
    BY <1>1 DEF Books, BookInv
  <1>5. BookInv'
    BY <1>1, <1>2, <1>3, <1>4 DEF Books, BookInv, Pending
  <1>6. loaded = user_count_ /\ user_count_ + 1 = Cardinality(Open) /\ Len(timer_list_) + 1 = Cardinality(Open)
        /\ Cardinality(Open) <= MAX_FD
    BY <1>1 DEF Books, CountInv
  <1>7. user_count_' = Cardinality(Open) /\ Len(timer_list_') = Cardinality(Open)
    BY <1>2, <1>3, <1>6
  <1>8. CountInv'
    BY <1>3, <1>6, <1>7 DEF CountInv, Plain
  <1>9. QED
    BY <1>5, <1>8 DEF Books

LEMMA BooksEndClose ==
  ASSUME TypeOK, WatchInv, Books, EndClose
  PROVE  Books'
  <1>1. PICK f \in Fds : f = mfd /\ Sound(f) /\ f \notin Open /\ pc \in {"close", "spin_close"}
    BY DEF EndClose, WatchInv
  <1>2. DeleteTimer(timer[f]) /\ timer[f] \in Active
    BY <1>1 DEF EndClose, Sound
  <1>3. /\ timer' = timer /\ timer[f] \notin Active'
        /\ Distinct(timer_list_') /\ Len(timer_list_') + 1 = Len(timer_list_)
        /\ \A x \in Active' : x \in Active /\ x \in Conns /\ fdOf'[x] = fdOf[x] /\ x # timer[f]
    BY <1>2, DeleteDistinct DEF Books, BookInv
  <1>4. owner' = owner /\ batch' = batch /\ pc' = "loop" /\ Open' = Open /\ wpc' = wpc /\ user_count_' = loaded - 1
    BY DEF EndClose, kernel, pool, Leave, Goto, Open
  <1>5. \A x \in Active' : fdOf'[x] \in Fds /\ owner'[fdOf'[x]] = x
    BY <1>1, <1>3, <1>4 DEF Books, BookInv
  <1>6. BookInv'
    BY <1>3, <1>4, <1>5 DEF Books, BookInv, Pending
  <1>7. /\ loaded = user_count_ /\ user_count_ = Cardinality(Open) + 1
        /\ Len(timer_list_) = Cardinality(Open) + 1 /\ Cardinality(Open) <= MAX_FD
    BY <1>1 DEF Books, CountInv
  <1>8. Len(timer_list_') \in Nat /\ Cardinality(Open) \in Nat
    BY <1>2, DeleteKeeps, LenProperties, OpenFinite
  <1>9. user_count_' = Cardinality(Open) /\ Len(timer_list_') = Cardinality(Open)
    BY <1>3, <1>4, <1>7, <1>8
  <1>10. CountInv'
    BY <1>4, <1>7, <1>9 DEF CountInv, Plain
  <1>11. QED
    BY <1>6, <1>10 DEF Books

LEMMA BooksFire ==
  ASSUME TypeOK, WatchInv, Books, Fire
  PROVE  Books'
  <1>1. PICK c : c = Head(timer_list_) /\ StartClose(fdOf[c], "fired") /\ DeleteTimer(c)
                 /\ pc = "tick" /\ timer_list_ # <<>>
    BY DEF Fire
  <1>2. c \in Active
    <2>1. timer_list_ \in Seq(Conns) /\ Len(timer_list_) \in Nat \ {0} /\ c = timer_list_[1]
      BY <1>1, EmptySeq DEF TypeOK, TimersTypeOK
    <2>2. 1 \in 1 .. Len(timer_list_)
      BY <2>1
    <2>3. QED
      BY <2>1, <2>2, ToSetType DEF Active
  <1>3. PICK f \in Fds : f = fdOf[c] /\ owner[f] = c /\ c \in Conns
    BY <1>1, <1>2, ToSetType DEF Books, BookInv, Active, TypeOK, TimersTypeOK
  <1>4. /\ timer' = timer /\ c \notin Active'
        /\ Distinct(timer_list_') /\ Len(timer_list_') + 1 = Len(timer_list_)
        /\ \A x \in Active' : x \in Active /\ x \in Conns /\ fdOf'[x] = fdOf[x] /\ x # c
    BY <1>1, <1>2, DeleteDistinct DEF Books, BookInv
  <1>5. /\ owner' = [owner EXCEPT ![f] = NONE] /\ loaded' = user_count_ /\ pc' = "fired"
        /\ user_count_' = user_count_ /\ batch' = batch /\ batch = {} /\ wpc' = wpc
    BY <1>1, <1>3 DEF StartClose, CloseFd, Goto, Fire, WatchInv, pool
  <1>6. f \in Open /\ Open' = Open \ {f} /\ \A g \in Fds : g # f => owner'[g] = owner[g]
    BY <1>3, <1>5 DEF Open, TypeOK, KernelTypeOK, NONE
  <1>7. \A x \in Active : fdOf[x] \in Fds /\ owner[fdOf[x]] = x
    BY <1>1 DEF Books, BookInv
  <1>8. \A x \in Active' : fdOf'[x] \in Fds /\ owner'[fdOf'[x]] = x
    BY <1>3, <1>4, <1>6, <1>7
  <1>9. BookInv'
    BY <1>4, <1>5, <1>8 DEF Books, BookInv, Pending
  <1>10. Cardinality(Open') = Cardinality(Open) - 1 /\ Cardinality(Open) \in Nat
    BY <1>6, OpenFinite, FS_RemoveElement
  <1>11. user_count_ = Cardinality(Open) /\ Len(timer_list_) = Cardinality(Open) /\ Cardinality(Open) <= MAX_FD
    BY <1>1 DEF Books, CountInv, Plain
  <1>12. Len(timer_list_') \in Nat
    BY <1>1, DeleteKeeps, LenProperties
  <1>13. /\ user_count_ = Cardinality(Open') + 1 /\ Len(timer_list_') = Cardinality(Open')
         /\ Cardinality(Open') <= MAX_FD
    BY <1>4, <1>10, <1>11, <1>12
  <1>14. CountInv'
    BY <1>5, <1>13 DEF CountInv, Plain
  <1>15. QED
    BY <1>9, <1>14 DEF Books

LEMMA BooksEndFire ==
  ASSUME TypeOK, WatchInv, Books, EndFire
  PROVE  Books'
  <1>1. /\ pc = "fired" /\ pc' = "tick" /\ user_count_' = loaded - 1
        /\ UNCHANGED <<owner, timer, timer_list_, fdOf, batch, wpc>>
    BY DEF EndFire, Leave, Goto, kernel, timers, pool
  <1>2. Open' = Open /\ Active' = Active /\ \A f : Pending(f)' <=> Pending(f)
    BY <1>1 DEF Open, Active, Pending
  <1>3. BookInv'
    BY <1>1, <1>2 DEF Books, BookInv, Distinct
  <1>4. /\ loaded = user_count_ /\ user_count_ = Cardinality(Open) + 1
        /\ Len(timer_list_) = Cardinality(Open) /\ Cardinality(Open) <= MAX_FD
    BY <1>1 DEF Books, CountInv
  <1>5. user_count_' = Cardinality(Open)
    BY <1>1, <1>4, OpenFinite
  <1>6. CountInv'
    BY <1>1, <1>2, <1>4, <1>5 DEF CountInv, Plain
  <1>7. QED
    BY <1>3, <1>6 DEF Books

LEMMA BooksLoop ==
  ASSUME TypeOK, WatchInv, Books, MainStep \/ EpollWait \/ Accept \/ AcceptNone \/ Alarm
  PROVE  Books'
  <1> USE DEF kernel, timers, pool, loop
  <1>1. CASE /\ UNCHANGED <<owner, timer, timer_list_, fdOf, user_count_, wpc>>
             /\ pc \in Plain /\ pc' \in Plain \ {"spin"}
             /\ \A f \in Fds : Pending(f)' => f \in Open
    BY <1>1, BooksOn DEF Active, Books, BookInv, Distinct
  <1>2. \A f \in Fds : Pending(f) => f \in Open
    BY DEF Books, BookInv
  <1>3. batch' \subseteq batch => \A f \in Fds : Pending(f)' => f \in Open
    BY <1>2 DEF Pending
  <1>4. CASE AcceptNone \/ RecvSignal \/ SpinOut \/ EndBatch \/ EndTick
    BY <1>1, <1>3, <1>4 DEF AcceptNone, Accepting, RecvSignal, SpinOut, EndBatch, EndTick, Done,
       Leave, Goto, Plain
  <1>5. CASE EpollWait
    <2>1. \A f \in Fds : Pending(f)' => f \in Open
      BY <1>5 DEF EpollWait, Pending, Listen, Signal
    <2>2. QED
      BY <1>1, <1>5, <2>1 DEF EpollWait, Goto, Plain
  <1>6. CASE Alarm
    BY <1>6, BooksSame DEF Alarm, Books, BookInv
  <1>7. CASE SpinCloses
    <2>1. PICK f \in Open : f = mfd /\ ~Pending(f) /\ batch' = batch
      BY <1>7 DEF SpinCloses, WatchInv, Books, BookInv
    <2>2. ~Pending(f)' /\ StartClose(f, "spin_close") /\ pc = "spin"
      BY <1>7, <2>1 DEF Pending, SpinCloses
    <2>3. QED
      BY <1>7, <2>1, <2>2, BooksStartClose DEF SpinCloses
  <1>8. ASSUME NEW f \in Fds, Hup(f) PROVE Books'
    <2>1. Pending(f) /\ ~Pending(f)'
      BY <1>8, HandledEvent DEF Hup, Done, Pending
    <2>2. QED
      BY <1>2, <1>8, <2>1, BooksStartClose DEF Hup, Done
  <1>9. ASSUME NEW f \in Fds, NEW event, ActorCloses(f, event) PROVE Books'
    <2>1. Pending(f) /\ ~Pending(f)'
      BY <1>9, HandledEvent DEF ActorCloses, Done, Pending
    <2>2. QED
      BY <1>2, <1>9, <2>1, BooksStartClose DEF ActorCloses, Done
  <1>10. ASSUME NEW f \in Fds, ReadActor(f) PROVE Books'
    BY <1>10, BooksDelay DEF ReadActor
  <1>11. ASSUME NEW f \in Fds, WriteActorOn(f) PROVE Books'
    BY <1>11, BooksDelay DEF WriteActorOn
  <1>12. ASSUME NEW f \in Fds, NEW event, Dispatch(f, event) PROVE Books'
    BY <1>12, BooksDelay DEF Dispatch, Goto
  <1>13. QED
    BY <1>4, <1>5, <1>6, <1>7, <1>8, <1>9, <1>10, <1>11, <1>12,
       BooksAccept, BooksInitTimer, BooksEndClose, BooksFire, BooksEndFire DEF MainStep, Handle

BooksIInv == WatchIInv /\ (failures = 0 => Books)

\* A request that fails ends the books for good.
LEMMA FailuresGrow ==
  ASSUME TypeOK, [Next]_vars, failures' = 0
  PROVE  failures = 0 /\ \A w \in Workers : ~ProcessFails(w)
  <1>1. CASE UNCHANGED vars \/ MainStep \/ EpollWait \/ Accept \/ AcceptNone \/ Alarm
             \/ \E w \in Workers : WorkerStep(w)
    <2>1. failures' = failures
      BY <1>1 DEF vars, ghosts, MainStep, Handle, EpollWait, Accept, AcceptNone, Alarm, InitTimer,
         RecvSignal, SpinOut, SpinCloses, EndClose, EndBatch, Fire, EndFire, EndTick, Hup,
         ReadActor, WriteActorOn, ActorCloses, Dispatch, WorkerStep, Take, WorkerReads,
         WorkerFlags, WorkerWrites, WorkerEnds, Process, ForgetFd, CountDown, ArmClosed
    <2>2. QED
      BY <2>1 DEF ProcessFails, TypeOK, LoopTypeOK
  <1>2. CASE \E w \in Workers : ProcessFails(w)
    BY <1>2 DEF ProcessFails, TypeOK, LoopTypeOK
  <1>3. QED
    BY <1>1, <1>2 DEF Next, Gone, Spin

LEMMA BooksStep == BooksIInv /\ [Next]_vars => BooksIInv'
  <1> SUFFICES ASSUME TypeOK, WatchInv, failures = 0 => Books, [Next]_vars, failures' = 0
               PROVE  Books'
    BY WatchStep DEF BooksIInv, WatchIInv
  <1>1. Books /\ \A w \in Workers : ~ProcessFails(w)
    BY FailuresGrow
  <1>2. CASE UNCHANGED vars
    BY <1>1, <1>2, BooksSame DEF vars, kernel, timers, loop, pool, Books, BookInv
  <1>3. CASE MainStep \/ EpollWait \/ Accept \/ AcceptNone \/ Alarm
    BY <1>1, <1>3, BooksLoop
  <1>4. CASE \E w \in Workers : WorkerStep(w)
    BY <1>1, <1>4, BooksWorker
  <1>5. QED
    BY <1>1, <1>2, <1>3, <1>4 DEF Next, Gone, Spin

LEMMA BooksInit == Init => Books
  <1> SUFFICES ASSUME Init PROVE Books
    OBVIOUS
  <1>1. Open = {} /\ timer_list_ = <<>> /\ Len(timer_list_) = 0 /\ Active = {} /\ pc = "wait"
    BY EmptySeq DEF Init, Open, Active, ToSet, NONE
  <1>2. Cardinality(Open) = 0
    BY <1>1, FS_EmptySet
  <1>3. BookInv
    BY <1>1 DEF Init, BookInv, Distinct, Pending
  <1>4. CountInv
    BY <1>1, <1>2 DEF Init, CountInv, Plain
  <1>5. QED
    BY <1>3, <1>4 DEF Books

LEMMA BooksHold == Spec => []BooksIInv
  <1>1. Init => BooksIInv
    BY InitType, WatchInit, BooksInit DEF BooksIInv, WatchIInv
  <1>2. QED
    BY <1>1, BooksStep, PTL DEF Spec

\* Until a request fails, user_count_, the timer list and the open connections
\* agree whenever the main thread waits, and MAX_FD is kept.
THEOREM BooksAgree == Spec => []BooksBalance
  <1>1. BooksIInv => BooksBalance
    <2> SUFFICES ASSUME TypeOK, WatchInv, Books, pc = "wait"
                 PROVE  /\ user_count_ = Cardinality(Open) /\ user_count_ <= MAX_FD
                        /\ Active = {owner[f] : f \in Open}
                        /\ Len(timer_list_) = Cardinality(Open)
      BY DEF BooksIInv, WatchIInv, BooksBalance
    <2>1. /\ user_count_ = Cardinality(Open) /\ user_count_ <= MAX_FD
          /\ Len(timer_list_) = Cardinality(Open)
      BY DEF Books, CountInv, Plain
    <2>2. \A f \in Open : owner[f] \in Active
      BY DEF WatchInv, Sound
    <2>3. ASSUME NEW c \in Active PROVE c \in {owner[f] : f \in Open}
      <3>1. fdOf[c] \in Fds /\ owner[fdOf[c]] = c /\ c # NONE
        BY ToSetType DEF Books, BookInv, Active, TypeOK, TimersTypeOK, NONE
      <3>2. QED
        BY <3>1 DEF Open
    <2>4. QED
      BY <2>1, <2>2, <2>3
  <1>2. QED
    BY <1>1, BooksHold, PTL

\* What the run server_wrong_timer shows of a connection that a worker closed
\* happens with nothing else: until a request fails, the timer that fires is that
\* of the connection it closes, which is open, whatever the workers do.
THEOREM FiresItsOwn ==
  Spec => [][failures = 0 /\ Fire => owner[fdOf[Head(timer_list_)]] = Head(timer_list_)]_vars
  <1>1. BooksIInv /\ failures = 0 /\ Fire => owner[fdOf[Head(timer_list_)]] = Head(timer_list_)
    <2> SUFFICES ASSUME TypeOK, BookInv, Fire
                 PROVE  owner[fdOf[Head(timer_list_)]] = Head(timer_list_)
      BY DEF BooksIInv, WatchIInv, Books
    <2>1. pc = "tick" /\ timer_list_ # <<>>
      BY DEF Fire
    <2>2. Head(timer_list_) \in Active
      <3>1. timer_list_ \in Seq(Conns) /\ Len(timer_list_) \in Nat \ {0}
            /\ Head(timer_list_) = timer_list_[1]
        BY <2>1, EmptySeq DEF TypeOK, TimersTypeOK
      <3>2. 1 \in 1 .. Len(timer_list_)
        BY <3>1
      <3>3. QED
        BY <3>1, <3>2, ToSetType DEF Active
    <2>3. QED
      BY <2>1, <2>2 DEF BookInv
  <1>2. BooksIInv =>
          [failures = 0 /\ Fire => owner[fdOf[Head(timer_list_)]] = Head(timer_list_)]_vars
    BY <1>1
  <1>3. QED
    BY <1>2, BooksHold, PTL DEF Spec

-----------------------------------------------------------------------------
(* Slots are not shared.                                                   *)

\* A slot with timer_flag_ set is in nobody's hands, and stays so: it is not
\* armed, or closed, or about to be closed or initialised.
FlagInv ==
    /\ \A w \in Workers : wpc[w] \in {"read", "write", "flag"} => actor_pattern_
    /\ ~mixed => \A f \in Fds : timer_flag_[f] =>
          /\ ~HasTask(f) /\ ~Pending(f)
          /\ armed[f] = "off" \/ f \notin Open \/ (pc \in {"spin", "init"} /\ mfd = f)

LEMMA FlagKept ==
  ASSUME FlagInv, mixed => mixed',
         \A w \in Workers : wpc'[w] \in {"read", "write", "flag"} => actor_pattern_,
         ~mixed' => \A f \in Fds : timer_flag_'[f] =>
            /\ timer_flag_[f] /\ (HasTask(f)' => HasTask(f)) /\ (Pending(f)' => Pending(f))
            /\ armed'[f] = armed[f] \/ armed'[f] = "off"
            /\ f \in Open' => f \in Open
            /\ pc \in {"spin", "init"} /\ mfd = f =>
                  (pc' \in {"spin", "init"} /\ mfd' = f) \/ f \notin Open'
  PROVE  FlagInv'
  BY DEF FlagInv

\* When a worker is done with its slot, nobody has it.
LEMMA TaskGone ==
  ASSUME TypeOK, OnceInv, NEW w \in Workers, Busy(w), WDone(w), UNCHANGED workqueue_
  PROVE  \A f : HasTask(f)' => HasTask(f) /\ f # task[w]
  <1>1. /\ ~Busy(w)'
        /\ \A v \in Workers : v # w => task'[v] = task[v] /\ (Busy(v)' <=> Busy(v))
    BY DEF WDone, Busy, TypeOK, PoolTypeOK
  <1> TAKE f
  <1> HAVE HasTask(f)'
  <1>2. CASE f \in ToSet(workqueue_)
    BY <1>2 DEF HasTask, OnceInv
  <1>3. CASE \E v \in Workers : Busy(v)' /\ task'[v] = f
    BY <1>1, <1>3 DEF HasTask, InWork, OnceInv, Busy
  <1>4. QED
    BY <1>2, <1>3 DEF HasTask, InWork, Busy

\* What a worker's step leaves of tasks, events and the main thread.
LEMMA WorkerKeeps ==
  ASSUME TypeOK, TaskInv, ~mixed, NEW w \in Workers, WorkerStep(w) \/ ProcessFails(w)
  PROVE  /\ \A f : HasTask(f)' => HasTask(f)
         /\ \A f : Pending(f)' <=> Pending(f)
         /\ UNCHANGED <<pc, mfd, mixed>>
         /\ \A f \in Fds : f \in Open' => f \in Open
         /\ WorkerStep(w) => Open' = Open
  <1>1. UNCHANGED <<pc, mfd, batch, mixed>>
    BY DEF WorkerStep, Take, WorkerReads, WorkerFlags, WorkerWrites, WorkerEnds, Process,
           ProcessFails, ForgetFd, CountDown, ArmClosed, mine, loop, ghosts
  <1>2. WorkerStep(w) => owner' = owner
    BY DEF WorkerStep, Take, WorkerReads, WorkerFlags, WorkerWrites, WorkerEnds, Process,
           ForgetFd, CountDown, ArmClosed, kernel
  <1>3. \A f \in Fds : f \in Open' => f \in Open
    <2>1. CASE WorkerStep(w)
      BY <1>2, <2>1 DEF Open
    <2>2. CASE ProcessFails(w)
      BY <2>2 DEF ProcessFails, CloseFd, kernel, Open, TypeOK, KernelTypeOK
    <2>3. QED
      BY <2>1, <2>2
  <1>4. \A f : HasTask(f)' => HasTask(f)
    <2>1. CASE Take(w)
      <3>1. /\ Head(workqueue_) \in ToSet(workqueue_) /\ ToSet(workqueue_') \subseteq ToSet(workqueue_)
        <4>1. /\ workqueue_ \in Seq(Fds) /\ Len(workqueue_) \in Nat \ {0} /\ Head(workqueue_) = workqueue_[1]
              /\ workqueue_' \in Seq(Fds) /\ Len(workqueue_') = Len(workqueue_) - 1
              /\ \A i \in 1 .. Len(workqueue_') : workqueue_'[i] = workqueue_[i + 1]
          BY <2>1, HeadTailProperties, EmptySeq DEF Take, TypeOK, PoolTypeOK
        <4>2. /\ ToSet(workqueue_) = {workqueue_[i] : i \in 1 .. Len(workqueue_)}
              /\ ToSet(workqueue_') = {workqueue_'[i] : i \in 1 .. Len(workqueue_')}
          BY <4>1, ToSetType
        <4>3. 1 \in 1 .. Len(workqueue_) /\ \A i \in 1 .. Len(workqueue_') : i + 1 \in 1 .. Len(workqueue_)
          BY <4>1
        <4>4. QED
          BY <4>1, <4>2, <4>3
      <3>2. /\ task'[w] = Head(workqueue_)
            /\ \A v \in Workers : v # w => task'[v] = task[v] /\ wpc'[v] = wpc[v]
        BY <2>1 DEF Take, TypeOK, PoolTypeOK
      <3>3. QED
        BY <3>1, <3>2 DEF HasTask, InWork
    <2>2. CASE WDone(w) /\ UNCHANGED workqueue_ /\ Busy(w)
      BY <2>2, TaskGone DEF TaskInv
    <2>3. CASE UNCHANGED <<workqueue_, task>> /\ Busy(w) /\ \A v \in Workers : v # w => wpc'[v] = wpc[v]
      BY <2>3 DEF HasTask, InWork, Busy
    <2>4. QED
      BY <2>1, <2>2, <2>3 DEF WorkerStep, WorkerReads, WorkerFlags, WorkerWrites, WorkerEnds,
         Process, ProcessFails, ForgetFd, CountDown, ArmClosed, WGoto, Busy, TypeOK, PoolTypeOK
  <1>5. QED
    BY <1>1, <1>2, <1>3, <1>4 DEF Pending, Open

LEMMA FlagWorker ==
  ASSUME TypeOK, TaskInv, FlagInv, actor_pattern_ => ReactorInv,
         NEW w \in Workers, WorkerStep(w) \/ ProcessFails(w)
  PROVE  FlagInv'
  <1> USE DEF kernel, slots, flags
  <1>1. \A v \in Workers : wpc'[v] \in {"read", "write", "flag"} => actor_pattern_
    <2>1. /\ wpc' = wpc \/ \E label : wpc' = [wpc EXCEPT ![w] = label]
          /\ wpc'[w] \in {"read", "write", "flag"} => actor_pattern_
      BY DEF WorkerStep, Take, WorkerReads, WorkerFlags, WorkerWrites, WorkerEnds, Process,
             ProcessFails, ForgetFd, CountDown, ArmClosed, WGoto, WDone, TypeOK, PoolTypeOK, FlagInv
    <2>2. \A v \in Workers : v # w => wpc'[v] = wpc[v]
      BY <2>1 DEF TypeOK, PoolTypeOK
    <2>3. QED
      BY <2>1, <2>2 DEF FlagInv
  <1>2. mixed' = mixed
    BY DEF WorkerStep, Take, WorkerReads, WorkerFlags, WorkerWrites, WorkerEnds, Process,
           ProcessFails, ForgetFd, CountDown, ArmClosed, ghosts
  <1>3. CASE mixed
    BY <1>1, <1>2, <1>3 DEF FlagInv
  <1>4. CASE ~mixed
    <2>1. /\ \A f : HasTask(f)' => HasTask(f)
          /\ \A f : Pending(f)' <=> Pending(f)
          /\ UNCHANGED <<pc, mfd, mixed>>
          /\ \A f \in Fds : f \in Open' => f \in Open
      BY <1>4, WorkerKeeps
    <2>2. ~Take(w) => Busy(w) /\ task[w] \in Fds /\ HasTask(task[w])
      BY TaskOf DEF WorkerStep, WorkerReads, WorkerFlags, WorkerWrites, WorkerEnds, Process,
         ProcessFails, ForgetFd, CountDown, ArmClosed, Busy, TaskInv, SlotsInv
    <2>3. ASSUME NEW f \in Fds, ~HasTask(f) PROVE armed'[f] \in {armed[f], "off"}
      <3>1. CASE armed' = armed
        BY <3>1
      <3>2. CASE \E event : Modify(task[w], event) /\ Busy(w)
        BY <2>3, <3>2, TaskOf, ModifyOwn DEF TaskInv, SlotsInv
      <3>3. CASE CloseFd(sockfd_[task[w]])
        BY <3>3 DEF CloseFd, TypeOK, KernelTypeOK
      <3>4. QED
        BY <3>1, <3>2, <3>3 DEF WorkerStep, Take, WorkerReads, WorkerFlags, WorkerWrites, WorkerEnds,
           Process, ProcessFails, ForgetFd, CountDown, ArmClosed, Busy
    <2>4. CASE WorkerFlags(w) \/ WorkerEnds(w)
      <3>1. PICK g \in Fds : g = task[w] /\ HasTask(g) /\ Busy(w)
        BY <2>2, <2>4 DEF Take, WorkerFlags, WorkerEnds
      <3>2. timer_flag_' = [timer_flag_ EXCEPT ![g] = TRUE]
        BY <2>4, <3>1 DEF WorkerFlags, WorkerEnds
      <3>3. ~HasTask(g)'
        BY <1>4, <2>4, <3>1, TaskGone DEF TaskInv, WorkerFlags, WorkerEnds
      <3>4. ~Pending(g)' /\ armed[g] = "off"
        BY <1>4, <2>1, <3>1 DEF TaskInv, QuietInv
      <3>5. armed'[g] = "off" \/ (pc \in {"spin", "init"} /\ mfd = g)
        <4>1. CASE WorkerFlags(w)
          BY <3>4, <4>1 DEF WorkerFlags
        <4>2. CASE WorkerEnds(w)
          <5>1. HasIt(w) /\ actor_pattern_
            BY <4>2 DEF WorkerEnds, HasIt, FlagInv
          <5>2. pc = "spin" /\ task[w] = mfd
            BY <5>1 DEF ReactorInv, AllTold
          <5>3. QED
            BY <3>1, <5>2
        <4>3. QED
          BY <2>4, <4>1, <4>2
      <3>6. ASSUME NEW f \in Fds, f # g, timer_flag_'[f]
            PROVE  /\ ~HasTask(f)' /\ ~Pending(f)'
                   /\ armed'[f] = "off" \/ f \notin Open' \/ (pc' \in {"spin", "init"} /\ mfd' = f)
        <4>1. timer_flag_[f]
          BY <3>2, <3>6 DEF TypeOK, SlotsTypeOK
        <4>2. ~HasTask(f)
          BY <1>4, <4>1 DEF FlagInv
        <4>3. QED
          BY <1>4, <2>1, <2>3, <4>1, <4>2 DEF FlagInv
      <3>7. QED
        BY <1>1, <2>1, <3>3, <3>4, <3>5, <3>6 DEF FlagInv
    <2>5. CASE ~WorkerFlags(w) /\ ~WorkerEnds(w)
      <3>1. ASSUME NEW f \in Fds, timer_flag_'[f] PROVE timer_flag_[f]
        BY <2>5, <3>1 DEF WorkerStep, Take, WorkerReads, WorkerWrites,
           Process, ProcessFails, ForgetFd, CountDown, ArmClosed, TypeOK, SlotsTypeOK
      <3>2. \A f \in Fds : timer_flag_[f] => ~HasTask(f)
        BY <1>4 DEF FlagInv
      <3>3. QED
        BY <1>1, <2>1, <2>3, <3>1, <3>2, FlagKept
    <2>6. QED
      BY <2>4, <2>5
  <1>5. QED
    BY <1>3, <1>4

\* The steps of the main thread that leave the flags and the queue alone, and
\* arm nothing.
LEMMA FlagQuiet ==
  ASSUME TypeOK, FlagInv, UNCHANGED <<workqueue_, wpc, task, mixed>>,
         \A f \in Fds : timer_flag_'[f] => timer_flag_[f] /\ armed'[f] \in {armed[f], "off"},
         batch' \subseteq batch, \A f \in Fds : f \in Open' => f \in Open,
         \A f \in Fds : timer_flag_'[f] /\ pc \in {"spin", "init"} /\ mfd = f =>
             f \notin Open' \/ (pc' = pc /\ mfd' = mfd)
  PROVE  FlagInv'
  <1>1. \A f : HasTask(f)' <=> HasTask(f)
    BY DEF HasTask, InWork
  <1>2. \A f : Pending(f)' => Pending(f)
    BY DEF Pending
  <1>3. QED
    BY <1>1, <1>2, FlagKept DEF FlagInv

\* The handler of an event of f queues its slot.
LEMMA FlagEnqueue ==
  ASSUME TypeOK, FlagInv, pc = "loop", NEW f \in Fds, NEW k, <<f, k>> \in batch,
         Enqueue(f), Done(<<f, k>>), UNCHANGED <<owner, armed, timer_flag_, wpc, task, mixed>>
  PROVE  FlagInv'
  <1>1. Pending(f) /\ \A g : Pending(g)' => Pending(g)
    BY DEF Pending, Done
  <1>2. ToSet(workqueue_') \subseteq ToSet(workqueue_) \cup {f}
    BY ToSetAppend DEF Enqueue, TypeOK, PoolTypeOK
  <1>3. \A g \in Fds : HasTask(g)' => HasTask(g) \/ g = f
    BY <1>2 DEF HasTask, InWork
  <1>4. \A g \in Fds : ~mixed /\ timer_flag_[g] => g # f
    BY <1>1 DEF FlagInv
  <1>5. Open' = Open
    BY DEF Open
  <1>6. QED
    BY <1>1, <1>3, <1>4, <1>5, FlagKept DEF FlagInv

LEMMA FlagAccept ==
  ASSUME TypeOK, FlagInv, Accept
  PROVE  FlagInv'
  <1>1. PICK f \in Fds \ Open, c \in Conns :
          /\ owner' = [owner EXCEPT ![f] = c] /\ armed' = [armed EXCEPT ![f] = "in"]
          /\ mfd' = f /\ mixed' = (mixed \/ HasTask(f))
    BY DEF Accept
  <1>2. /\ UNCHANGED <<workqueue_, wpc, task, timer_flag_>> /\ pc' = "init"
        /\ pc \notin {"spin", "init"} /\ \A g : Pending(g)' => Pending(g)
    BY DEF Accept, Accepting, pool, flags, Pending, Done, Goto
  <1>3. \A g : HasTask(g)' <=> HasTask(g)
    BY <1>2 DEF HasTask, InWork
  <1>4. \A g \in Fds : g # f => armed'[g] = armed[g] /\ (g \in Open' => g \in Open)
    BY <1>1 DEF Open, TypeOK, KernelTypeOK
  <1>5. ~mixed' => ~mixed
    BY <1>1, Zenon
  <1>6. QED
    BY <1>1, <1>2, <1>3, <1>4, <1>5 DEF FlagInv

LEMMA FlagEpollWait ==
  ASSUME TypeOK, FlagInv, EpollWait
  PROVE  FlagInv'
  <1>1. PICK ready \in SUBSET {f \in Open : armed[f] # "off"}, client \in BOOLEAN :
          \E hup \in SUBSET ready :
             /\ batch' = {<<f, IF f \in hup THEN "hup" ELSE armed[f]>> : f \in ready}
                         \cup (IF client THEN {Listen} ELSE {})
                         \cup (IF alarm = "sent" THEN {Signal} ELSE {})
             /\ armed' = [f \in Fds |-> IF f \in ready THEN "off" ELSE armed[f]]
    BY DEF EpollWait
  <1>2. \A f \in Fds : Pending(f)' => f \in ready
    BY <1>1 DEF Listen, Signal, Pending
  <1>3. UNCHANGED <<owner, timer_flag_, workqueue_, wpc, task, mixed>> /\ pc = "wait"
    BY DEF EpollWait, slots, flags, pool, ghosts
  <1>4. Open' = Open /\ \A f : HasTask(f)' <=> HasTask(f)
    BY <1>3 DEF Open, HasTask, InWork
  <1>5. ASSUME ~mixed, NEW f \in Fds, timer_flag_[f]
        PROVE  ~HasTask(f) /\ f \notin ready /\ (armed[f] = "off" \/ f \notin Open)
    BY <1>3, <1>5 DEF FlagInv
  <1>6. QED
    BY <1>1, <1>2, <1>3, <1>4, <1>5 DEF FlagInv

\* The main thread begins to close a descriptor.
LEMMA FlagStartClose ==
  ASSUME TypeOK, FlagInv, NEW f, NEW label, StartClose(f, label), batch' \subseteq batch,
         UNCHANGED <<slots, pool, ghosts>>, pc \notin {"spin", "init"} \/ (pc = "spin" /\ mfd = f)
  PROVE  FlagInv'
  <1>1. /\ \A g \in Fds : armed'[g] \in {armed[g], "off"}
        /\ \A g \in Fds : g \in Open' => g \in Open /\ g # f
    BY DEF StartClose, CloseFd, Open, TypeOK, KernelTypeOK
  <1>2. UNCHANGED <<workqueue_, wpc, task, mixed, timer_flag_>>
    BY DEF slots, flags, pool, ghosts
  <1>3. QED
    BY <1>1, <1>2, FlagQuiet

LEMMA FlagLoop ==
  ASSUME TypeOK, WatchInv, TaskInv, FlagInv, MainStep \/ EpollWait \/ Accept \/ AcceptNone \/ Alarm
  PROVE  FlagInv'
  <1> USE DEF kernel, slots, flags, pool, ghosts
  <1>1. CASE InitTimer
    <2>1. \A f \in Fds : timer_flag_'[f] => timer_flag_[f] /\ f # mfd
      BY <1>1 DEF InitTimer, ResetFlags, TypeOK, SlotsTypeOK
    <2>2. UNCHANGED <<owner, armed, workqueue_, wpc, task, mixed, batch>>
      BY <1>1 DEF InitTimer
    <2>3. QED
      BY <2>1, <2>2, FlagQuiet DEF Open
  <1>2. CASE RecvSignal \/ Alarm \/ AcceptNone \/ EndBatch \/ EndFire \/ EndTick
    <2>1. /\ UNCHANGED <<owner, armed, timer_flag_, workqueue_, wpc, task, mixed>>
          /\ batch' \subseteq batch /\ (pc \notin {"spin", "init"} \/ UNCHANGED <<pc, mfd>>)
      BY <1>2 DEF RecvSignal, Alarm, AcceptNone, EndBatch, EndFire, EndTick, Accepting, Done, loop
    <2>2. QED
      BY <2>1, FlagQuiet DEF Open
  <1>3. CASE SpinOut
    <2>1. /\ UNCHANGED <<owner, armed, timer_flag_, workqueue_, wpc, task, mixed, batch>>
          /\ pc = "spin" /\ ~timer_flag_[mfd]
      BY <1>3 DEF SpinOut
    <2>2. \A f \in Fds : timer_flag_'[f] => f # mfd
      BY <2>1
    <2>3. QED
      BY <2>1, <2>2, FlagQuiet DEF Open
  <1>4. CASE EndClose
    <2>1. \A f \in Fds : timer_flag_'[f] => timer_flag_[f]
      BY <1>4 DEF EndClose, TypeOK, SlotsTypeOK
    <2>2. /\ UNCHANGED <<owner, armed, workqueue_, wpc, task, mixed, batch>>
          /\ pc \notin {"spin", "init"}
      BY <1>4 DEF EndClose
    <2>3. QED
      BY <2>1, <2>2, FlagQuiet DEF Open
  <1>5. CASE SpinCloses
    <2>1. PICK f : f = mfd
      OBVIOUS
    <2>2. StartClose(f, "spin_close") /\ batch' = batch /\ UNCHANGED <<slots, pool, ghosts>> /\ pc = "spin"
      BY <1>5, <2>1 DEF SpinCloses
    <2>3. QED
      BY <2>1, <2>2, FlagStartClose
  <1>6. CASE Fire
    <2>1. PICK f : f = fdOf[Head(timer_list_)]
      OBVIOUS
    <2>2. StartClose(f, "fired") /\ batch' = batch /\ UNCHANGED <<slots, pool, ghosts>> /\ pc = "tick"
      BY <1>6, <2>1 DEF Fire
    <2>3. QED
      BY <2>2, FlagStartClose
  <1>7. ASSUME NEW f \in Fds, Hup(f) PROVE FlagInv'
    BY <1>7, FlagStartClose DEF Hup, Done
  <1>8. ASSUME NEW f \in Fds, NEW event, ActorCloses(f, event) PROVE FlagInv'
    BY <1>8, FlagStartClose DEF ActorCloses, Done
  <1>9. ASSUME NEW f \in Fds, ReadActor(f) PROVE FlagInv'
    BY <1>9, FlagEnqueue DEF ReadActor
  <1>10. ASSUME NEW f \in Fds, NEW event, Dispatch(f, event) PROVE FlagInv'
    BY <1>10, FlagEnqueue DEF Dispatch
  <1>11. ASSUME NEW f \in Fds, WriteActorOn(f) PROVE FlagInv'
    <2>1. \A g \in Fds : g # f => armed'[g] = armed[g]
      BY <1>11, ModifyOwn DEF WriteActorOn, TaskInv
    <2>2. /\ UNCHANGED <<owner, workqueue_, wpc, task, mixed>> /\ pc = "loop" /\ batch' \subseteq batch
          /\ \A g \in Fds : timer_flag_'[g] => timer_flag_[g]
      BY <1>11 DEF WriteActorOn, ResetFlags, Done, TypeOK, SlotsTypeOK
    <2>3. Pending(f)
      BY <1>11 DEF WriteActorOn, Pending
    <2>4. CASE mixed
      BY <2>2, <2>4 DEF FlagInv
    <2>5. CASE ~mixed
      <3>1. \A g \in Fds : timer_flag_'[g] => g # f
        BY <2>2, <2>3, <2>5 DEF FlagInv
      <3>2. QED
        BY <2>1, <2>2, <3>1, FlagQuiet DEF Open
    <2>6. QED
      BY <2>4, <2>5
  <1>12. QED
    BY <1>1, <1>2, <1>3, <1>4, <1>5, <1>6, <1>7, <1>8, <1>9, <1>10, <1>11, FlagAccept, FlagEpollWait
       DEF MainStep, Handle

\* While no request fails and none is slow, no slot is given to a new
\* connection while the last one's request is queued or in work: the slots
\* with a task are those of open connections.
ShareInv == ~mixed /\ \A f \in Fds : HasTask(f) => f \in Open

LEMMA ShareWorker ==
  ASSUME TypeOK, TaskInv, ShareInv, NEW w \in Workers, WorkerStep(w)
  PROVE  ShareInv'
  BY WorkerKeeps DEF ShareInv

\* The main thread closes a descriptor that nobody works for.
LEMMA ShareStartClose ==
  ASSUME TypeOK, ShareInv, NEW f, NEW label, StartClose(f, label), f \in Fds => ~HasTask(f),
         UNCHANGED <<pool, ghosts>>
  PROVE  ShareInv'
  <1>1. \A g \in Open : g # f => g \in Open'
    BY DEF StartClose, CloseFd, Open, TypeOK, KernelTypeOK
  <1>2. mixed' = mixed /\ \A g : HasTask(g)' <=> HasTask(g)
    BY DEF pool, ghosts, HasTask, InWork
  <1>3. QED
    BY <1>1, <1>2 DEF ShareInv

LEMMA ShareEnqueue ==
  ASSUME TypeOK, ShareInv, NEW f \in Open, Enqueue(f), UNCHANGED <<owner, wpc, task, mixed>>
  PROVE  ShareInv'
  <1>1. f \in Fds
    BY DEF Open
  <1>2. ToSet(workqueue_') \subseteq ToSet(workqueue_) \cup {f}
    BY <1>1, ToSetAppend DEF Enqueue, TypeOK, PoolTypeOK
  <1>3. \A g \in Fds : HasTask(g)' => HasTask(g) \/ g = f
    BY <1>2 DEF HasTask, InWork
  <1>4. QED
    BY <1>3 DEF ShareInv, Open

LEMMA ShareLoop ==
  ASSUME TypeOK, WatchInv, TaskInv, FlagInv, Books, ShareInv, ~SlowTasks,
         MainStep \/ EpollWait \/ Accept \/ AcceptNone \/ Alarm
  PROVE  ShareInv'
  <1> USE DEF kernel, pool, ghosts
  <1>1. CASE UNCHANGED <<owner, workqueue_, wpc, task, mixed>>
    BY <1>1 DEF ShareInv, HasTask, InWork, Open
  <1>2. CASE InitTimer \/ RecvSignal \/ Alarm \/ AcceptNone \/ EndBatch \/ EndFire \/ EndTick
             \/ SpinOut \/ EndClose \/ EpollWait
    BY <1>1, <1>2 DEF InitTimer, RecvSignal, Alarm, AcceptNone, EndBatch, EndFire, EndTick,
       SpinOut, EndClose, EpollWait
  <1>3. CASE Accept
    <2>1. PICK f \in Fds \ Open, c \in Conns :
            owner' = [owner EXCEPT ![f] = c] /\ mixed' = (mixed \/ HasTask(f))
      BY <1>3 DEF Accept
    <2>2. UNCHANGED <<workqueue_, wpc, task>> /\ ~HasTask(f) /\ c # NONE
      BY <1>3, <2>1, ServerAssumption DEF Accept, ShareInv, NONE
    <2>3. ~mixed'
      BY <2>1, <2>2 DEF ShareInv
    <2>4. \A g \in Open : g \in Open'
      BY <2>1 DEF Open, TypeOK, KernelTypeOK
    <2>5. QED
      BY <2>2, <2>3, <2>4 DEF ShareInv, HasTask, InWork
  <1>4. CASE Fire
    <2>1. PICK c : c = Head(timer_list_) /\ StartClose(fdOf[c], "fired") /\ MayFire(c)
                   /\ pc = "tick" /\ timer_list_ # <<>>
      BY <1>4 DEF Fire
    <2>2. c \in Active
      <3>1. timer_list_ \in Seq(Conns) /\ Len(timer_list_) \in Nat \ {0} /\ c = timer_list_[1]
        BY <2>1, EmptySeq DEF TypeOK, TimersTypeOK
      <3>2. 1 \in 1 .. Len(timer_list_)
        BY <3>1
      <3>3. QED
        BY <3>1, <3>2, ToSetType DEF Active
    <2>3. PICK f \in Fds : f = fdOf[c] /\ owner[f] = c /\ c \in Conns
      BY <2>1, <2>2, ToSetType DEF Books, BookInv, Active, TypeOK, TimersTypeOK
    <2>4. timer[f] = c
      BY <2>1, <2>3, ServerAssumption DEF WatchInv, Open, NONE
    <2>5. ~HasTask(f)
      BY <2>1, <2>3, <2>4 DEF MayFire
    <2>6. QED
      BY <1>4, <2>1, <2>3, <2>5, ShareStartClose DEF Fire
  <1>5. CASE SpinCloses
    <2>1. PICK f \in Fds : f = mfd
      BY <1>5 DEF SpinCloses, WatchInv
    <2>2. StartClose(f, "spin_close") /\ timer_flag_[f]
      BY <1>5, <2>1 DEF SpinCloses
    <2>3. ~HasTask(f)
      BY <2>2 DEF FlagInv, ShareInv
    <2>4. QED
      BY <1>5, <2>2, <2>3, ShareStartClose DEF SpinCloses
  <1>6. \A f \in Fds : Pending(f) => ~HasTask(f)
    BY DEF TaskInv, QuietInv, ShareInv
  <1>7. \A f \in Fds : Pending(f) => f \in Open
    BY DEF Books, BookInv
  <1>8. ASSUME NEW f \in Fds, Hup(f) PROVE ShareInv'
    BY <1>6, <1>8, ShareStartClose DEF Hup, Pending
  <1>9. ASSUME NEW f \in Fds, NEW event, ActorCloses(f, event) PROVE ShareInv'
    BY <1>6, <1>9, ShareStartClose DEF ActorCloses, Pending
  <1>10. ASSUME NEW f \in Fds, ReadActor(f) PROVE ShareInv'
    BY <1>7, <1>10, ShareEnqueue DEF ReadActor, Pending
  <1>11. ASSUME NEW f \in Fds, NEW event, Dispatch(f, event) PROVE ShareInv'
    BY <1>7, <1>11, ShareEnqueue DEF Dispatch, Pending
  <1>12. ASSUME NEW f \in Fds, WriteActorOn(f) PROVE ShareInv'
    BY <1>1, <1>12 DEF WriteActorOn
  <1>13. QED
    BY <1>2, <1>3, <1>4, <1>5, <1>8, <1>9, <1>10, <1>11, <1>12 DEF MainStep, Handle


LEMMA ShareInit == Init => FlagInv /\ ShareInv
  <1> SUFFICES ASSUME Init PROVE FlagInv /\ ShareInv
    OBVIOUS
  <1>1. \A f : ~HasTask(f)
    BY EmptySeq DEF Init, HasTask, InWork, ToSet
  <1>2. ~mixed /\ \A f \in Fds : ~timer_flag_[f]
    BY DEF Init
  <1>3. \A w \in Workers : wpc[w] = "idle"
    BY DEF Init
  <1>4. QED
    BY <1>1, <1>2, <1>3 DEF FlagInv, ShareInv

LEMMA FlagStep ==
  ASSUME TypeOK, WatchInv, TaskInv, FlagInv, actor_pattern_ => ReactorInv, [Next]_vars
  PROVE  FlagInv'
  <1>1. CASE UNCHANGED vars
    BY <1>1 DEF vars, kernel, slots, flags, loop, pool, ghosts, FlagInv, HasTask, InWork, Pending, Open
  <1>2. CASE MainStep \/ EpollWait \/ Accept \/ AcceptNone \/ Alarm
    BY <1>2, FlagLoop
  <1>3. CASE \E w \in Workers : WorkerStep(w) \/ ProcessFails(w)
    BY <1>3, FlagWorker
  <1>4. QED
    BY <1>1, <1>2, <1>3 DEF Next, Gone, Spin

LEMMA ShareStep ==
  ASSUME TypeOK, WatchInv, TaskInv, FlagInv, failures = 0 => Books, ~SlowTasks,
         failures = 0 => ShareInv, [Next]_vars, failures' = 0
  PROVE  ShareInv'
  <1>1. Books /\ ShareInv /\ \A w \in Workers : ~ProcessFails(w)
    BY FailuresGrow
  <1>2. CASE UNCHANGED vars
    BY <1>1, <1>2 DEF vars, kernel, pool, ghosts, ShareInv, HasTask, InWork, Open
  <1>3. CASE MainStep \/ EpollWait \/ Accept \/ AcceptNone \/ Alarm
    BY <1>1, <1>3, ShareLoop
  <1>4. CASE \E w \in Workers : WorkerStep(w)
    BY <1>1, <1>4, ShareWorker
  <1>5. QED
    BY <1>1, <1>2, <1>3, <1>4 DEF Next, Gone, Spin

\* However many connections and workers there are: no slot is given to a new
\* connection while the last one's request is queued or in work, as long as no
\* request fails and no timer expires before the request it was delayed for
\* has been processed.
THEOREM SlotsNotShared == Spec => []SlotNotShared
  <1>1. Init => FlagInv /\ (~SlowTasks /\ failures = 0 => ShareInv)
    BY ShareInit
  <1>2. /\ TaskIInv /\ ReactorIInv /\ BooksIInv /\ FlagInv
        /\ (~SlowTasks /\ failures = 0 => ShareInv) /\ [Next]_vars
        => FlagInv' /\ (~SlowTasks /\ failures = 0 => ShareInv)'
    BY FlagStep, ShareStep DEF TaskIInv, ReactorIInv, BooksIInv, WatchIInv
  <1>3. (~SlowTasks /\ failures = 0 => ShareInv) => SlotNotShared
    BY DEF ShareInv, SlotNotShared
  <1>4. QED
    BY <1>1, <1>2, <1>3, TaskHolds, ReactorHolds, BooksHold, PTL DEF Spec
===============================================================================
