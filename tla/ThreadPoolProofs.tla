--------------------------- MODULE ThreadPoolProofs ---------------------------
(***************************************************************************)
(* Proofs about ThreadPool, for any number of workers and of requests.     *)
(***************************************************************************)
EXTENDS ThreadPool, FiniteSetTheorems, TLAPS

-----------------------------------------------------------------------------
(* The number of workers on their way to the queue.                        *)

LEMMA AtLockFinite == IsFiniteSet(AtLock) /\ Cardinality(AtLock) \in Nat
  <1>1. AtLock \subseteq Workers
    BY DEF AtLock
  <1>2. QED
    BY <1>1, ThreadPoolAssumption, FS_Subset, FS_CardinalityType

LEMMA EnterLock ==
  ASSUME NEW w \in Workers, pc[w] # "lock", pc' = [pc EXCEPT ![w] = "lock"],
         pc \in [Workers -> {"wait", "lock", "work"}]
  PROVE  Cardinality(AtLock)' = Cardinality(AtLock) + 1
  <1>1. AtLock' = AtLock \cup {w} /\ w \notin AtLock
    BY DEF AtLock
  <1>2. QED
    BY <1>1, AtLockFinite, FS_AddElement

LEMMA LeaveLock ==
  ASSUME NEW w \in Workers, NEW label, label # "lock", pc[w] = "lock",
         pc' = [pc EXCEPT ![w] = label],
         pc \in [Workers -> {"wait", "lock", "work"}]
  PROVE  /\ Cardinality(AtLock)' = Cardinality(AtLock) - 1
         /\ Cardinality(AtLock) >= 1
  <1>1. AtLock' = AtLock \ {w} /\ w \in AtLock
    BY DEF AtLock
  <1>2. Cardinality(AtLock') = Cardinality(AtLock) - 1
    BY <1>1, AtLockFinite, FS_RemoveElement
  <1>3. IsFiniteSet(AtLock') /\ Cardinality(AtLock') \in Nat
    BY <1>1, AtLockFinite, FS_Subset, FS_CardinalityType
  <1>4. QED
    BY <1>2, <1>3, AtLockFinite

LEMMA SameLock ==
  ASSUME NEW w \in Workers, NEW label, label # "lock", pc[w] # "lock",
         pc' = [pc EXCEPT ![w] = label],
         pc \in [Workers -> {"wait", "lock", "work"}]
  PROVE  Cardinality(AtLock)' = Cardinality(AtLock)
  <1>1. AtLock' = AtLock
    BY DEF AtLock
  <1>2. QED
    BY <1>1

-----------------------------------------------------------------------------
(* Types.                                                                  *)

\* A worker holds a request exactly while it processes one.
HoldsRequest == \A w \in Workers : pc[w] = "work" <=> request[w] # None

TypeInv == TypeOK /\ HoldsRequest

LEMMA NoneNoRequest == None \notin Requests
  BY ThreadPoolAssumption DEF None, Requests

LEMMA TypeStep == TypeInv /\ [Next]_vars => TypeInv'
  <1> SUFFICES ASSUME TypeInv, [Next]_vars PROVE TypeInv'
    OBVIOUS
  <1> USE ThreadPoolAssumption, NoneNoRequest DEF TypeInv, TypeOK, HoldsRequest, Goto
  <1>1. CASE AppendRefused
    BY <1>1 DEF AppendRefused, Requests
  <1>2. CASE AppendRequest
    <2>1. appends + 1 \in Requests /\ appends + 1 \in 0 .. MaxAppends
      BY <1>2 DEF AppendRequest, Requests
    <2>2. Append(workqueue_, appends + 1) \in Seq(Requests)
      BY <2>1
    <2>3. QED
      BY <1>2, <2>1, <2>2 DEF AppendRequest
  <1>3. CASE Post
    <2>1. posting' \in BOOLEAN
      BY <1>3 DEF Post
    <2>2. QED
      BY <1>3, <2>1 DEF Post
  <1>4. ASSUME NEW w \in Workers, Run(w) \/ WaitInterrupted(w) PROVE TypeInv'
    <2>1. CASE Wait(w)
      BY <2>1 DEF Wait
    <2>2. CASE WaitInterrupted(w)
      BY <2>2 DEF WaitInterrupted
    <2>3. CASE FindEmpty(w)
      BY <2>3 DEF FindEmpty
    <2>4. CASE Take(w)
      <3>1. Head(workqueue_) \in Requests /\ Tail(workqueue_) \in Seq(Requests)
        BY <2>4 DEF Take
      <3>2. QED
        BY <2>4, <3>1 DEF Take
    <2>5. CASE Finish(w)
      <3>1. request[w] \in Requests
        BY <2>5 DEF Finish
      <3>2. QED
        BY <2>5, <3>1 DEF Finish
    <2>6. QED
      BY <1>4, <2>1, <2>2, <2>3, <2>4, <2>5 DEF Run
  <1>5. CASE UNCHANGED vars
    BY <1>5 DEF vars
  <1>6. QED
    BY <1>1, <1>2, <1>3, <1>4, <1>5 DEF Next, Main

LEMMA TypeInvariance == Spec => []TypeInv
  <1>1. Init => TypeInv
    <2>1. <<>> \in Seq(Requests)
      OBVIOUS
    <2>2. Init => posting \in BOOLEAN
      BY DEF Init
    <2>3. 0 \in 0 .. MaxAppends
      BY ThreadPoolAssumption
    <2>4. QED
      BY <2>1, <2>2, <2>3 DEF Init, TypeInv, TypeOK, HoldsRequest
  <1>2. QED
    BY <1>1, TypeStep, PTL DEF Spec

\* Every variable keeps its type.
THEOREM TypeCorrect == Spec => []TypeOK
  <1>1. TypeInv => TypeOK
    BY DEF TypeInv
  <1>2. QED
    BY <1>1, TypeInvariance, PTL

-----------------------------------------------------------------------------
(* The semaphore.                                                          *)

\* With interrupted waits the tokens are at least as many as the requests,
\* without them they are exactly as many.
Tokens   == queue_sem_ + Cardinality(AtLock) + Unposted
TokenInv == /\ Len(workqueue_) <= Tokens
            /\ ~Interrupts => Len(workqueue_) = Tokens

LEMMA TokenStep == TypeOK /\ TokenInv /\ [Next]_vars => TokenInv'
  <1> SUFFICES ASSUME TypeOK, TokenInv, [Next]_vars PROVE TokenInv'
    OBVIOUS
  <1> USE AtLockFinite DEF TypeOK, TokenInv, Tokens, Unposted
  <1>1. CASE AppendRefused
    BY <1>1 DEF AppendRefused, AtLock
  <1>2. CASE AppendRequest
    BY <1>2 DEF AppendRequest, AtLock
  <1>3. CASE Post
    BY <1>3 DEF Post, AtLock
  <1>4. ASSUME NEW w \in Workers, Run(w) \/ WaitInterrupted(w) PROVE TokenInv'
    <2>1. CASE Wait(w)
      <3>1. Cardinality(AtLock)' = Cardinality(AtLock) + 1
        BY <2>1, EnterLock DEF Wait, Goto
      <3>2. QED
        BY <2>1, <3>1 DEF Wait
    <2>2. CASE WaitInterrupted(w)
      <3>1. Cardinality(AtLock)' = Cardinality(AtLock) + 1
        BY <2>2, EnterLock DEF WaitInterrupted, Goto
      <3>2. QED
        BY <2>2, <3>1 DEF WaitInterrupted
    <2>3. CASE FindEmpty(w)
      <3>1. Len(workqueue_) = 0 /\ workqueue_' = workqueue_
        BY <2>3 DEF FindEmpty
      <3>2. /\ Cardinality(AtLock)' = Cardinality(AtLock) - 1
            /\ Cardinality(AtLock) >= 1
        BY <2>3, LeaveLock DEF FindEmpty, Goto
      <3>3. QED
        BY <2>3, <3>1, <3>2 DEF FindEmpty
    <2>4. CASE Take(w)
      <3>1. Cardinality(AtLock)' = Cardinality(AtLock) - 1
        BY <2>4, LeaveLock DEF Take, Goto
      <3>2. Len(workqueue_') = Len(workqueue_) - 1
        BY <2>4 DEF Take
      <3>3. QED
        BY <2>4, <3>1, <3>2 DEF Take
    <2>5. CASE Finish(w)
      BY <2>5, SameLock DEF Finish, Goto
    <2>6. QED
      BY <1>4, <2>1, <2>2, <2>3, <2>4, <2>5 DEF Run
  <1>5. CASE UNCHANGED vars
    BY <1>5 DEF vars, AtLock
  <1>6. QED
    BY <1>1, <1>2, <1>3, <1>4, <1>5 DEF Next, Main

THEOREM TokensCover == Spec => []TokenInv
  <1>1. Init => TokenInv
    <2>1. Init => AtLock = {}
      BY DEF Init, AtLock
    <2>2. QED
      BY <2>1, FS_EmptySet DEF Init, TokenInv, Tokens, Unposted
  <1>2. QED
    BY <1>1, TokenStep, TypeCorrect, PTL DEF Spec

\* However the posts, the waits, the interrupted waits and the two critical
\* sections interleave, no request is left in the queue with every worker
\* asleep and no token to wake one.
THEOREM NoneStranded == Spec => []NoStrandedRequest
  <1>1. TokenInv => NoStrandedRequest
    BY DEF TokenInv, Tokens, NoStrandedRequest
  <1>2. QED
    BY <1>1, TokensCover, PTL

\* Without interrupted waits, a worker that has locked finds a request.
THEOREM LockFindsRequest == Spec => []EmptyOnlyInterrupted
  <1>1. TypeOK /\ TokenInv => EmptyOnlyInterrupted
    BY AtLockFinite DEF TypeOK, TokenInv, Tokens, Unposted, EmptyOnlyInterrupted
  <1>2. QED
    BY <1>1, TypeCorrect, TokensCover, PTL

\* append refuses before the queue holds two requests more than its limit.
THEOREM QueueBounded == Spec => []Bounded
  <1>1. Init => Bounded
    BY ThreadPoolAssumption DEF Init, Bounded
  <1>2. TypeOK /\ Bounded /\ [Next]_vars => Bounded'
    BY ThreadPoolAssumption
       DEF TypeOK, Bounded, Next, Main, Run, AppendRefused, AppendRequest, Full, Post,
           Wait, WaitInterrupted, FindEmpty, Take, Finish, vars
  <1>3. QED
    BY <1>1, <1>2, TypeCorrect, PTL DEF Spec

-----------------------------------------------------------------------------
(* Each request once, and in order.                                        *)

ServeInv == /\ EachRequestOnce /\ FirstComeFirstServed
            /\ refused \subseteq 1 .. appends

LEMMA QueuedAppend ==
  ASSUME TypeOK, ServeInv, AppendRequest
  PROVE  /\ Queued' = Queued \cup {appends + 1}
         /\ \A i, j \in DOMAIN workqueue_' : i < j => workqueue_'[i] < workqueue_'[j]
         /\ \A i, j \in DOMAIN workqueue_' : workqueue_'[i] = workqueue_'[j] => i = j
  <1> DEFINE n == Len(workqueue_)
  <1>1. /\ n \in Nat /\ DOMAIN workqueue_ = 1 .. n /\ DOMAIN workqueue_' = 1 .. (n + 1)
        /\ \A i \in 1 .. n : workqueue_'[i] = workqueue_[i]
        /\ workqueue_'[n + 1] = appends + 1
    BY DEF AppendRequest, TypeOK
  <1>2. Queued \subseteq 1 .. appends
    BY DEF ServeInv, EachRequestOnce
  <1>3. appends \in Nat
    BY DEF TypeOK
  <1>4. \A i \in 1 .. n : workqueue_[i] \in Nat /\ workqueue_[i] <= appends
    <2>1. \A i \in 1 .. n : workqueue_[i] \in Queued
      BY <1>1 DEF Queued
    <2>2. \A r \in 1 .. appends : r \in Nat /\ r <= appends
      BY <1>3
    <2>3. QED
      BY <1>2, <2>1, <2>2
  <1>5. Queued' = Queued \cup {appends + 1}
    <2>1. \A i \in 1 .. (n + 1) : i \in 1 .. n \/ i = n + 1
      BY <1>1
    <2>2. \A i \in 1 .. n : i \in 1 .. (n + 1)
      BY <1>1
    <2>3. n + 1 \in 1 .. (n + 1)
      BY <1>1
    <2>4. QED
      BY <1>1, <2>1, <2>2, <2>3 DEF Queued
  <1>6. \A i, j \in 1 .. (n + 1) : i < j => workqueue_'[i] < workqueue_'[j]
    <2>1. SUFFICES ASSUME NEW i \in 1 .. (n + 1), NEW j \in 1 .. (n + 1), i < j
                   PROVE  workqueue_'[i] < workqueue_'[j]
      OBVIOUS
    <2>2. i \in 1 .. n /\ (j \in 1 .. n \/ j = n + 1)
      BY <1>1, <2>1
    <2>3. CASE j \in 1 .. n
      <3>1. workqueue_[i] < workqueue_[j]
        BY <1>1, <2>1, <2>2, <2>3 DEF ServeInv, FirstComeFirstServed
      <3>2. QED
        BY <1>1, <2>2, <2>3, <3>1
    <2>4. CASE j = n + 1
      <3>1. workqueue_[i] < appends + 1
        BY <1>3, <1>4, <2>2
      <3>2. QED
        BY <1>1, <2>2, <2>4, <3>1
    <2>5. QED
      BY <2>2, <2>3, <2>4
  <1>7. \A i, j \in 1 .. (n + 1) : workqueue_'[i] = workqueue_'[j] => i = j
    <2>1. SUFFICES ASSUME NEW i \in 1 .. (n + 1), NEW j \in 1 .. (n + 1),
                          workqueue_'[i] = workqueue_'[j]
                   PROVE  i = j
      OBVIOUS
    <2>2. (i \in 1 .. n \/ i = n + 1) /\ (j \in 1 .. n \/ j = n + 1)
      BY <1>1
    <2>3. QED
      BY <1>1, <1>3, <1>4, <2>1, <2>2 DEF ServeInv, EachRequestOnce
  <1>8. QED
    BY <1>1, <1>5, <1>6, <1>7

LEMMA QueuedTake ==
  ASSUME TypeOK, ServeInv, NEW w \in Workers, Take(w)
  PROVE  /\ Head(workqueue_) \in Queued /\ Queued' = Queued \ {Head(workqueue_)}
         /\ \A q \in Queued' : Head(workqueue_) < q
         /\ \A i, j \in DOMAIN workqueue_' : i < j => workqueue_'[i] < workqueue_'[j]
         /\ \A i, j \in DOMAIN workqueue_' : workqueue_'[i] = workqueue_'[j] => i = j
  <1> DEFINE n == Len(workqueue_)
             h == Head(workqueue_)
  <1>1. /\ n \in Nat /\ n >= 1 /\ DOMAIN workqueue_ = 1 .. n /\ h = workqueue_[1]
        /\ DOMAIN workqueue_' = 1 .. (n - 1)
        /\ \A i \in 1 .. (n - 1) : workqueue_'[i] = workqueue_[i + 1]
    BY DEF Take, TypeOK
  <1>2. 1 \in 1 .. n /\ \A i \in 1 .. (n - 1) : i + 1 \in 1 .. n /\ 1 < i + 1 /\ i + 1 \in Nat
    BY <1>1
  <1>3. \A i \in 1 .. n : i = 1 \/ (i - 1 \in 1 .. (n - 1) /\ (i - 1) + 1 = i)
    BY <1>1
  <1>4. \A i, j \in 1 .. n : workqueue_[i] = workqueue_[j] => i = j
    BY <1>1 DEF ServeInv, EachRequestOnce
  <1>5. \A i, j \in 1 .. n : i < j => workqueue_[i] < workqueue_[j]
    BY <1>1 DEF ServeInv, FirstComeFirstServed
  <1>6. Queued = {workqueue_[i] : i \in 1 .. n}
        /\ Queued' = {workqueue_'[i] : i \in 1 .. (n - 1)}
    BY <1>1 DEF Queued
  <1>7. h \in Queued
    BY <1>1, <1>2, <1>6
  <1>8. Queued' = Queued \ {h}
    <2>1. ASSUME NEW q \in Queued' PROVE q \in Queued \ {h} /\ h < q
      <3>1. PICK i \in 1 .. (n - 1) : q = workqueue_'[i]
        BY <1>6, <2>1
      <3>2. q = workqueue_[i + 1] /\ i + 1 # 1
        BY <1>1, <1>2, <3>1
      <3>3. QED
        BY <1>1, <1>2, <1>4, <1>5, <1>6, <3>2
    <2>2. ASSUME NEW q \in Queued \ {h} PROVE q \in Queued'
      <3>1. PICK i \in 1 .. n : q = workqueue_[i]
        BY <1>6, <2>2
      <3>2. i - 1 \in 1 .. (n - 1) /\ (i - 1) + 1 = i
        BY <1>1, <1>3, <2>2, <3>1
      <3>3. workqueue_'[i - 1] = q
        BY <1>1, <3>1, <3>2
      <3>4. QED
        BY <1>6, <3>2, <3>3
    <2>3. QED
      BY <2>1, <2>2
  <1>9. \A q \in Queued' : h < q
    BY <1>1, <1>2, <1>5, <1>6
  <1>10. \A i, j \in 1 .. (n - 1) : i < j => workqueue_'[i] < workqueue_'[j]
    <2>1. SUFFICES ASSUME NEW i \in 1 .. (n - 1), NEW j \in 1 .. (n - 1), i < j
                   PROVE  workqueue_[i + 1] < workqueue_[j + 1]
      BY <1>1
    <2>2. QED
      BY <1>1, <1>2, <1>5, <2>1
  <1>11. \A i, j \in 1 .. (n - 1) : workqueue_'[i] = workqueue_'[j] => i = j
    <2>1. SUFFICES ASSUME NEW i \in 1 .. (n - 1), NEW j \in 1 .. (n - 1),
                          workqueue_[i + 1] = workqueue_[j + 1]
                   PROVE  i = j
      BY <1>1
    <2>2. i + 1 = j + 1
      BY <1>2, <1>4, <2>1
    <2>3. QED
      BY <2>2
  <1>12. QED
    BY <1>1, <1>7, <1>8, <1>9, <1>10, <1>11

\* The hands of the workers and the done requests do not change.
LEMMA ServeKept ==
  ASSUME ServeInv, UNCHANGED <<workqueue_, request, done, appends, refused>>
  PROVE  ServeInv'
  <1>1. Queued' = Queued /\ Running' = Running
    BY DEF Queued, Running
  <1>2. QED
    BY <1>1 DEF ServeInv, EachRequestOnce, FirstComeFirstServed

LEMMA ServeAppendRequest ==
  ASSUME TypeInv, ServeInv, AppendRequest
  PROVE  ServeInv'
  <1>1. /\ Queued' = Queued \cup {appends + 1} /\ Running' = Running /\ done' = done
        /\ appends' = appends + 1 /\ refused' = refused /\ request' = request
        /\ appends \in Nat
    BY QueuedAppend DEF AppendRequest, Running, TypeInv, TypeOK
  <1>2. Queued \cup Running \cup done \subseteq 1 .. appends
    BY DEF ServeInv, EachRequestOnce
  <1>3. /\ 1 .. (appends + 1) = (1 .. appends) \cup {appends + 1}
        /\ appends + 1 \notin 1 .. appends
        /\ \A r \in 1 .. appends : r < appends + 1
    BY <1>1
  <1>4. EachRequestOnce'
    <2>1. (1 .. appends') \ refused' = Queued' \cup Running' \cup done'
      BY <1>1, <1>3 DEF ServeInv, EachRequestOnce
    <2>2. /\ Queued' \cap Running' = {} /\ Queued' \cap done' = {}
          /\ Running' \cap done' = {}
      BY <1>1, <1>2, <1>3 DEF ServeInv, EachRequestOnce
    <2>3. QED
      BY <1>1, <2>1, <2>2, QueuedAppend DEF ServeInv, EachRequestOnce, TypeInv
  <1>5. FirstComeFirstServed'
    BY <1>1, <1>2, <1>3, QueuedAppend DEF ServeInv, FirstComeFirstServed, TypeInv
  <1>6. refused' \subseteq 1 .. appends'
    BY <1>1, <1>3 DEF ServeInv
  <1>7. QED
    BY <1>4, <1>5, <1>6 DEF ServeInv

LEMMA ServeTake ==
  ASSUME TypeInv, ServeInv, NEW w \in Workers, Take(w)
  PROVE  ServeInv'
  <1> DEFINE h == Head(workqueue_)
  <1>1. /\ Queued' = Queued \ {h} /\ h \in Queued /\ done' = done
        /\ appends' = appends /\ refused' = refused
        /\ request' = [request EXCEPT ![w] = h] /\ request[w] = None
        /\ request \in [Workers -> Requests \cup {None}]
    BY QueuedTake DEF Take, TypeInv, TypeOK, HoldsRequest
  <1>2. h # None
    BY <1>1, NoneNoRequest DEF Queued, TypeInv, TypeOK
  <1>3. Running' = Running \cup {h}
    BY <1>1, <1>2 DEF Running
  <1>4. EachRequestOnce'
    <2>1. (1 .. appends') \ refused' = Queued' \cup Running' \cup done'
      BY <1>1, <1>3 DEF ServeInv, EachRequestOnce
    <2>2. /\ Queued' \cap Running' = {} /\ Queued' \cap done' = {}
          /\ Running' \cap done' = {}
      BY <1>1, <1>3 DEF ServeInv, EachRequestOnce
    <2>3. \A v \in Workers : request[v] # h
      BY <1>1, <1>2 DEF ServeInv, EachRequestOnce, Running
    <2>4. \A u, v \in Workers : request'[u] = request'[v] /\ u # v => request'[u] = None
      BY <1>1, <2>3 DEF ServeInv, EachRequestOnce
    <2>5. QED
      BY <2>1, <2>2, <2>4, QueuedTake DEF EachRequestOnce, TypeInv
  <1>5. FirstComeFirstServed'
    BY <1>1, <1>3, QueuedTake DEF ServeInv, FirstComeFirstServed, TypeInv
  <1>6. QED
    BY <1>1, <1>4, <1>5 DEF ServeInv

LEMMA ServeFinish ==
  ASSUME TypeInv, ServeInv, NEW w \in Workers, Finish(w)
  PROVE  ServeInv'
  <1> DEFINE r == request[w]
  <1>1. /\ workqueue_' = workqueue_ /\ done' = done \cup {r}
        /\ appends' = appends /\ refused' = refused
        /\ request' = [request EXCEPT ![w] = None] /\ r # None
        /\ request \in [Workers -> Requests \cup {None}] /\ Queued' = Queued
    BY DEF Finish, TypeInv, TypeOK, HoldsRequest, Queued
  <1>2. \A v \in Workers \ {w} : request[v] # r
    BY <1>1 DEF ServeInv, EachRequestOnce
  <1>3. r \in Running /\ Running' = Running \ {r}
    BY <1>1, <1>2 DEF Running
  <1>4. EachRequestOnce'
    <2>1. (1 .. appends') \ refused' = Queued' \cup Running' \cup done'
      BY <1>1, <1>3 DEF ServeInv, EachRequestOnce
    <2>2. /\ Queued' \cap Running' = {} /\ Queued' \cap done' = {}
          /\ Running' \cap done' = {}
      BY <1>1, <1>3 DEF ServeInv, EachRequestOnce
    <2>3. \A u, v \in Workers : request'[u] = request'[v] /\ u # v => request'[u] = None
      BY <1>1 DEF ServeInv, EachRequestOnce
    <2>4. QED
      BY <1>1, <2>1, <2>2, <2>3 DEF ServeInv, EachRequestOnce
  <1>5. FirstComeFirstServed'
    BY <1>1, <1>3 DEF ServeInv, FirstComeFirstServed
  <1>6. QED
    BY <1>1, <1>4, <1>5 DEF ServeInv

LEMMA ServeStep == TypeInv /\ ServeInv /\ [Next]_vars => ServeInv'
  <1> SUFFICES ASSUME TypeInv, ServeInv, [Next]_vars PROVE ServeInv'
    OBVIOUS
  <1>1. CASE AppendRefused
    <2>1. /\ appends' = appends + 1 /\ refused' = refused \cup {appends + 1}
          /\ appends \in Nat /\ Queued' = Queued /\ Running' = Running
          /\ UNCHANGED <<workqueue_, request, done>>
      BY <1>1 DEF AppendRefused, TypeInv, TypeOK, Queued, Running
    <2>2. /\ 1 .. (appends + 1) = (1 .. appends) \cup {appends + 1}
          /\ appends + 1 \notin 1 .. appends
      BY <2>1
    <2>3. (1 .. appends') \ refused' = (1 .. appends) \ refused
      BY <2>1, <2>2 DEF ServeInv
    <2>4. QED
      BY <2>1, <2>2, <2>3 DEF ServeInv, EachRequestOnce, FirstComeFirstServed
  <1>2. CASE AppendRequest
    BY <1>2, ServeAppendRequest
  <1>3. CASE Post \/ UNCHANGED vars
    BY <1>3, ServeKept DEF Post, vars
  <1>4. ASSUME NEW w \in Workers, Run(w) \/ WaitInterrupted(w) PROVE ServeInv'
    <2>1. CASE Wait(w) \/ WaitInterrupted(w) \/ FindEmpty(w)
      BY <2>1, ServeKept DEF Wait, WaitInterrupted, FindEmpty
    <2>2. QED
      BY <1>4, <2>1, ServeTake, ServeFinish DEF Run
  <1>5. QED
    BY <1>1, <1>2, <1>3, <1>4 DEF Next, Main

LEMMA ServeInvariance == Spec => []ServeInv
  <1>1. Init => ServeInv
    BY DEF Init, ServeInv, EachRequestOnce, FirstComeFirstServed, Queued, Running, None
  <1>2. QED
    BY <1>1, ServeStep, TypeInvariance, PTL DEF Spec

\* No request is lost between the queue and the workers, and none is handed
\* to two of them or served again.
THEOREM ServedOnce == Spec => []EachRequestOnce
  <1>1. ServeInv => EachRequestOnce
    BY DEF ServeInv
  <1>2. QED
    BY <1>1, ServeInvariance, PTL

\* Requests are taken in the order in which append accepted them.
THEOREM ServedInOrder == Spec => []FirstComeFirstServed
  <1>1. ServeInv => FirstComeFirstServed
    BY DEF ServeInv
  <1>2. QED
    BY <1>1, ServeInvariance, PTL
===============================================================================
