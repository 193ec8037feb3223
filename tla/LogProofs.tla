------------------------------- MODULE LogProofs -------------------------------
(***************************************************************************)
(* Proofs about Log, for any number of threads, any length of the files    *)
(* and any size of the queue.                                              *)
(***************************************************************************)
EXTENDS Log, FiniteSetTheorems, SequenceTheorems, TLAPS

USE LogAssumption

-----------------------------------------------------------------------------
(* Division.                                                               *)

LEMMA Division ==
  ASSUME NEW m \in Nat \ {0}, NEW n \in Nat
  PROVE  /\ n % m \in 0 .. m - 1 /\ n \div m \in Int
         /\ n = m * (n \div m) + (n % m)
  OBVIOUS

LEMMA UniqueRemainder ==
  ASSUME NEW m \in Nat \ {0}, NEW q \in Int, NEW p \in Int,
         NEW r \in 0 .. m - 1, NEW s \in 0 .. m - 1, m * q + r = m * p + s
  PROVE  r = s
  <1>1. CASE q = p
    BY <1>1
  <1>2. CASE q > p
    <2>1. m * (q - p) >= m
      BY <1>2
    <2>2. QED
      BY <1>2, <2>1
  <1>3. CASE q < p
    <2>1. m * (p - q) >= m
      BY <1>3
    <2>2. QED
      BY <1>3, <2>1
  <1>4. QED
    BY <1>1, <1>2, <1>3

LEMMA NextRemainder ==
  ASSUME NEW m \in Nat \ {0}, NEW q \in Int, NEW p \in Int,
         NEW r \in 0 .. m - 1, NEW s \in 0 .. m - 1, m * q + r + 1 = m * p + s, s # 0
  PROVE  s = r + 1
  <1>1. CASE r + 1 < m
    <2> DEFINE t == r + 1
    <2>1. t \in 0 .. m - 1 /\ m * q + t = m * p + s
      BY <1>1
    <2> HIDE DEF t
    <2>2. t = s
      BY <2>1, UniqueRemainder
    <2>3. QED
      BY <2>2 DEF t
  <1>2. CASE r + 1 = m
    <2> DEFINE k == q + 1
    <2>1. k \in Int /\ m * k + 0 = m * p + s
      BY <1>2
    <2> HIDE DEF k
    <2>2. 0 = s
      BY <2>1, UniqueRemainder
    <2>3. QED
      BY <2>2
  <1>3. QED
    BY <1>1, <1>2

\* The line that follows is one further in its file, or the first of one.
LEMMA NextLine ==
  ASSUME NEW m \in Nat \ {0}, NEW n \in Nat, (n + 1) % m # 0
  PROVE  (n + 1) % m = (n % m) + 1
  <1> DEFINE q == n \div m
             r == n % m
             p == (n + 1) \div m
             s == (n + 1) % m
  <1>1. q \in Int /\ r \in 0 .. m - 1 /\ n = m * q + r
    BY Division
  <1>2. p \in Int /\ s \in 0 .. m - 1 /\ n + 1 = m * p + s
    BY Division
  <1>3. s # 0
    OBVIOUS
  <1> HIDE DEF q, r, p, s
  <1>4. m * q + r + 1 = m * p + s
    BY <1>1, <1>2
  <1>5. s = r + 1
    BY <1>1, <1>2, <1>3, <1>4, NextRemainder
  <1>6. QED
    BY <1>5 DEF r, s

LEMMA QuotientIsNat ==
  ASSUME NEW m \in Nat \ {0}, NEW n \in Nat PROVE n \div m \in Nat
  <1> DEFINE q == n \div m
             r == n % m
  <1>1. q \in Int /\ r \in 0 .. m - 1 /\ n = m * q + r
    BY Division
  <1> HIDE DEF q, r
  <1>2. CASE q < 0
    <2>1. m * (0 - q) >= m
      BY <1>1, <1>2
    <2>2. QED
      BY <1>1, <2>1
  <1>3. CASE q >= 0
    BY <1>1, <1>3 DEF q
  <1>4. QED
    BY <1>1, <1>2, <1>3

LEMMA SameQuotient ==
  ASSUME NEW m \in Nat \ {0}, NEW q \in Int, NEW p \in Int, m * q = m * p
  PROVE  q = p
  <1>1. CASE q > p
    <2>1. m * (q - p) >= m
      BY <1>1
    <2>2. QED
      BY <1>1, <2>1
  <1>2. CASE q < p
    <2>1. m * (p - q) >= m
      BY <1>2
    <2>2. QED
      BY <1>2, <2>1
  <1>3. QED
    BY <1>1, <1>2

\* A multiple of m that is not 0 is not below m.
LEMMA Multiple ==
  ASSUME NEW m \in Nat \ {0}, NEW n \in Nat, n # 0, n < m
  PROVE  n % m # 0
  <1> DEFINE q == n \div m
             r == n % m
  <1>1. q \in Int /\ r \in 0 .. m - 1 /\ n = m * q + r
    BY Division
  <1> HIDE DEF q, r
  <1>2. n \in 0 .. m - 1 /\ m * q + r = m * 0 + n
    BY <1>1
  <1>3. r = n
    BY <1>1, <1>2, UniqueRemainder
  <1>4. QED
    BY <1>3 DEF r

LEMMA OwnMultiple ==
  ASSUME NEW m \in Nat \ {0} PROVE m % m = 0
  <1> DEFINE q == m \div m
             r == m % m
  <1>1. q \in Int /\ r \in 0 .. m - 1 /\ m = m * q + r
    BY Division
  <1> HIDE DEF q, r
  <1>2. 0 \in 0 .. m - 1 /\ m * q + r = m * 1 + 0
    BY <1>1
  <1>3. r = 0
    BY <1>1, <1>2, UniqueRemainder
  <1>4. QED
    BY <1>3 DEF r

\* A line that does not fill a file is counted for the same one.
LEMMA SameFile ==
  ASSUME NEW m \in Nat \ {0}, NEW n \in Nat, (n + 1) % m # 0
  PROVE  (n + 1) \div m = n \div m /\ (n + 1 < m <=> n < m)
  <1> DEFINE q == n \div m
             r == n % m
             p == (n + 1) \div m
             s == (n + 1) % m
  <1>1. q \in Int /\ r \in 0 .. m - 1 /\ n = m * q + r
    BY Division
  <1>2. p \in Int /\ s \in 0 .. m - 1 /\ n + 1 = m * p + s
    BY Division
  <1>3. s = r + 1
    BY NextLine
  <1>4. n + 1 # m
    BY OwnMultiple
  <1> HIDE DEF q, r, p, s
  <1>5. m * q = m * p
    BY <1>1, <1>2, <1>3
  <1>6. q = p
    BY <1>1, <1>2, <1>5, SameQuotient
  <1>7. QED
    BY <1>4, <1>6 DEF q, p

-----------------------------------------------------------------------------
(* Types.                                                                  *)

\* One more line is a bag of lines still.
LEMMA BagAdd ==
  ASSUME NEW S, NEW b, IsABag(b), DOMAIN b \subseteq S, NEW x \in S
  PROVE  IsABag(b (+) SetToBag({x})) /\ DOMAIN (b (+) SetToBag({x})) \subseteq S
  BY DEF IsABag, SetToBag, (+)

\* A thread that is in write_log has begun a line, and the queue is used only
\* in asynchronous mode.
LineInv == /\ \A w \in Writers : pc[w] # "idle" => lines[w] >= 1
           /\ \A w \in Writers : pc[w] = "push" => isasync_
           /\ ~isasync_ => taken = None

LogInv == TypeOK /\ LineInv

LEMMA LogInit == Init => LogInv
  <1> SUFFICES ASSUME Init PROVE LogInv
    OBVIOUS
  <1>1. IsABag(EmptyBag) /\ DOMAIN EmptyBag \subseteq Lines
    BY DEF IsABag, EmptyBag, SetToBag
  <1>2. fp_ \in Files /\ log_queue_ \in Seq(Lines) /\ Len(log_queue_) <= max_queue_size
    BY DEF Init, Files
  <1>3. TypeOK
    BY <1>1, <1>2 DEF Init, TypeOK
  <1>4. QED
    BY <1>3 DEF Init, LogInv, LineInv

LEMMA LogStep == LogInv /\ [Next]_vars => LogInv'
  <1> SUFFICES ASSUME LogInv, [Next]_vars PROVE LogInv'
    OBVIOUS
  <1> USE DEF LogInv, TypeOK, LineInv
  <1>0. \A w \in Writers : pc[w] # "idle" => Line(w) \in Lines
    BY DEF Line, Lines
  <1>1. ASSUME NEW w \in Writers, AskTime(w) PROVE LogInv'
    <2>1. lines' \in [Writers -> 0 .. MaxLines] /\ lines'[w] >= 1
          /\ \A v \in Writers \ {w} : lines'[v] = lines[v]
      BY <1>1 DEF AskTime
    <2>2. now' \in [Writers -> 1 .. today] /\ pc' = [pc EXCEPT ![w] = "localtime"]
      BY <1>1 DEF AskTime, Goto
    <2>3. UNCHANGED <<today, tm, date_, count_, fp_, tail, log_queue_, taken, written, size, dropped>>
      BY <1>1 DEF AskTime, files
    <2>4. QED
      BY <2>1, <2>2, <2>3
  <1>2. ASSUME NEW w \in Writers, Localtime(w) PROVE LogInv'
    BY <1>2 DEF Localtime, Goto, files
  <1>3. ASSUME NEW w \in Writers, CountLine(w) PROVE LogInv'
    <2>1. /\ UNCHANGED <<today, tm, now, date_, fp_, tail, log_queue_, lines, taken, written, size, dropped>>
          /\ count_' = count_ + 1 /\ pc[w] = "count"
          /\ pc' = [pc EXCEPT ![w] = "name"] \/ pc' = [pc EXCEPT ![w] = "choose"]
      BY <1>3 DEF CountLine, Goto
    <2>2. count_' \in Nat
      BY <2>1
    <2>3. QED
      BY <2>1, <2>2
  <1>3a. ASSUME NEW w \in Writers, NameFile(w) \/ Compare(w) PROVE LogInv'
    BY <1>3a DEF NameFile, Compare, Goto, files
  <1>3b. ASSUME NEW w \in Writers, OpenNext(w) \/ OpenNewDay(w) PROVE LogInv'
    <2>1. /\ UNCHANGED <<today, tm, now, tail, log_queue_, lines, taken, written, dropped>>
          /\ date_' \in {date_, tm} /\ count_' \in {count_, 0} /\ size' = 0
          /\ pc' = [pc EXCEPT ![w] = "choose"] /\ pc[w] \in {"compare", "redate"}
      BY <1>3b DEF OpenNext, OpenNewDay, Fopen, Goto
    <2>2. fp_' \in Files
      <3>1. tail \in 1 .. MaxDay
        OBVIOUS
      <3>2. count_ \div max_lines_ \in Nat
        BY QuotientIsNat
      <3>3. fp_' \in {<<tail, NoSuffix>>, <<tail, count_ \div max_lines_>>}
        BY <1>3b DEF OpenNext, OpenNewDay, Fopen
      <3>4. QED
        BY <3>1, <3>2, <3>3 DEF Files
    <2>3. QED
      BY <2>1, <2>2
  <1>4. ASSUME NEW w \in Writers, Choose(w) PROVE LogInv'
    BY <1>4 DEF Choose, Goto, files
  <1>5. ASSUME NEW w \in Writers, Push(w) PROVE LogInv'
    <2>1. /\ UNCHANGED <<today, tm, now, date_, count_, fp_, tail, lines, taken, written, size>>
          /\ pc' = [pc EXCEPT ![w] = "idle"] /\ pc[w] = "push"
      BY <1>5 DEF Push, Goto, files
    <2>2. CASE Full
      BY <1>5, <2>1, <2>2, <1>0 DEF Push
    <2>3. CASE ~Full
      <3>1. log_queue_' = Append(log_queue_, Line(w)) /\ dropped' = dropped
        BY <1>5, <2>3 DEF Push
      <3>2. Len(log_queue_) < max_queue_size
        BY <2>3 DEF Full
      <3>3. log_queue_' \in Seq(Lines) /\ Len(log_queue_') <= max_queue_size
        BY <1>0, <2>1, <3>1, <3>2
      <3>4. QED
        BY <2>1, <3>1, <3>3
    <2>4. QED
      BY <2>2, <2>3
  <1>6. ASSUME NEW w \in Writers, Direct(w) PROVE LogInv'
    <2>1. IsABag(written') /\ DOMAIN written' \subseteq Lines /\ size' \in Nat
      <3>1. Line(w) \in Lines /\ written' = written (+) SetToBag({Line(w)})
        BY <1>0, <1>6 DEF Direct, Fputs
      <3>2. IsABag(written) /\ DOMAIN written \subseteq Lines
        OBVIOUS
      <3>3. IsABag(written') /\ DOMAIN written' \subseteq Lines
        BY <3>1, <3>2, BagAdd
      <3>4. size' = size + 1
        BY <1>6 DEF Direct, Fputs
      <3>5. QED
        BY <3>3, <3>4
    <2>2. /\ UNCHANGED <<today, tm, now, date_, count_, fp_, tail, log_queue_, lines, taken, dropped>>
          /\ pc' = [pc EXCEPT ![w] = "idle"]
      BY <1>6 DEF Direct, Goto, files
    <2>3. QED
      BY <2>1, <2>2
  <1>7. CASE TakeLine
    <2>1. log_queue_ # <<>> /\ log_queue_' = Tail(log_queue_) /\ taken' = Head(log_queue_)
      BY <1>7 DEF TakeLine
    <2>2. /\ Head(log_queue_) \in Lines /\ Tail(log_queue_) \in Seq(Lines)
          /\ Len(Tail(log_queue_)) = Len(log_queue_) - 1 /\ Len(log_queue_) # 0
      BY <2>1, HeadTailProperties, EmptySeq
    <2>3. Len(log_queue_') <= max_queue_size /\ isasync_
      BY <2>1, <2>2 DEF isasync_
    <2>4. UNCHANGED <<today, tm, now, date_, count_, fp_, tail, lines, pc, written, size, dropped>>
      BY <1>7 DEF TakeLine, files
    <2>5. QED
      BY <2>1, <2>2, <2>3, <2>4
  <1>8. CASE WriteTaken
    <2>1. taken \in Lines
      BY <1>8 DEF WriteTaken
    <2>2. IsABag(written') /\ DOMAIN written' \subseteq Lines /\ size' \in Nat /\ taken' = None
      <3>1. written' = written (+) SetToBag({taken})
        BY <1>8 DEF WriteTaken, Fputs
      <3>2. IsABag(written) /\ DOMAIN written \subseteq Lines
        OBVIOUS
      <3>3. IsABag(written') /\ DOMAIN written' \subseteq Lines
        BY <2>1, <3>1, <3>2, BagAdd
      <3>4. size' = size + 1 /\ taken' = None
        BY <1>8 DEF WriteTaken, Fputs
      <3>5. QED
        BY <3>3, <3>4
    <2>3. UNCHANGED <<today, tm, now, date_, count_, fp_, tail, log_queue_, lines, pc, dropped>>
      BY <1>8 DEF WriteTaken, files
    <2>4. QED
      BY <2>2, <2>3
  <1>9. CASE Midnight
    BY <1>9 DEF Midnight, files
  <1>10. CASE UNCHANGED vars
    BY <1>10 DEF vars
  <1>11. QED
    BY <1>1, <1>2, <1>3, <1>3a, <1>3b, <1>4, <1>5, <1>6, <1>7, <1>8, <1>9, <1>10
       DEF Next, WriteLog, ChangeFile, AsyncWriteLog, Finished

LEMMA LogAlways == Spec => []LogInv
  BY LogInit, LogStep, PTL DEF Spec

\* The variables stay within their types: the queue never has more than
\* max_queue_size lines, and no day is later than today (write_log).
THEOREM TypeCorrect == Spec => []TypeOK
  <1>1. LogInv => TypeOK
    BY DEF LogInv
  <1>2. QED
    BY <1>1, LogAlways, PTL

-----------------------------------------------------------------------------
(* When a new file is begun.                                               *)

\* The threads that have counted their line and not yet handed it over.
Counted == {w \in Writers : pc[w] \in {"choose", "push", "direct"}}

InHandOfAsync == IF taken = None THEN 0 ELSE 1
Behind == Cardinality(Writers) + (IF isasync_ THEN max_queue_size + 1 ELSE 0)

\* What was written since the last fopen, or is to come, was counted since
\* then, or was on its way.  (While the file is being changed count_ is ahead.)
Due == IF Locked THEN max_lines_ - 1 ELSE count_ % max_lines_
CountInv ==
    size + Cardinality(Counted) + Len(log_queue_) + InHandOfAsync <= Behind + Due

LEMMA CountedFinite ==
  /\ IsFiniteSet(Counted) /\ Cardinality(Counted) \in Nat
  /\ Cardinality(Counted) <= Cardinality(Writers) /\ Cardinality(Writers) \in Nat
  BY FS_Subset, FS_CardinalityType DEF Counted

\* Outside of the section that changes the file, a step leaves it to others.
LEMMA StaysOutside ==
  ASSUME TypeOK, NEW w \in Writers, NEW label, pc[w] \notin InSection, label \notin InSection,
         pc' = [pc EXCEPT ![w] = label]
  PROVE  Locked' <=> Locked
  <1>1. \A v \in Writers : pc'[v] \in InSection <=> pc[v] \in InSection
    BY DEF TypeOK
  <1>2. QED
    BY <1>1 DEF Locked

LEMMA CountStep == LogInv /\ LogInv' /\ CountInv /\ [Next]_vars => CountInv'
  <1> SUFFICES ASSUME LogInv, LogInv', CountInv, [Next]_vars PROVE CountInv'
    OBVIOUS
  <1> DEFINE n == Cardinality(Counted)
             q == Len(log_queue_)
             r == count_ % max_lines_
  <1>a. /\ n \in Nat /\ n <= Cardinality(Writers) /\ Cardinality(Writers) \in Nat
        /\ IsFiniteSet(Counted)
    BY CountedFinite
  <1>b. /\ q \in Nat /\ q <= max_queue_size /\ size \in Nat /\ count_ \in Nat
        /\ InHandOfAsync \in {0, 1} /\ Behind \in Nat
    BY <1>a DEF LogInv, TypeOK, InHandOfAsync, Behind
  <1>c. r \in 0 .. max_lines_ - 1
    BY <1>b, Division
  <1>h. Due \in Nat /\ Due <= max_lines_ - 1 /\ Due = IF Locked THEN max_lines_ - 1 ELSE r
    BY <1>c DEF Due
  <1>d. size + n + q + InHandOfAsync <= Behind + Due
    BY DEF CountInv
  <1>e. q' \in Nat /\ q' <= max_queue_size /\ size' \in Nat /\ count_' \in Nat
    BY DEF LogInv, TypeOK
  <1>f. n' \in Nat
    <2>1. Counted' \in SUBSET Writers
      BY DEF Counted
    <2>2. QED
      BY <2>1, FS_Subset, FS_CardinalityType
  <1>g. Due' \in Nat
    <2> DEFINE k == count_'
    <2>1. k \in Nat
      BY <1>e
    <2> HIDE DEF k
    <2>2. k % max_lines_ \in Nat
      BY <2>1, Division
    <2>3. count_' % max_lines_ \in Nat
      BY <2>2 DEF k
    <2>4. QED
      BY <2>3 DEF Due
  <1>i. TypeOK
    BY DEF LogInv
  <1>1. ASSUME NEW w \in Writers, AskTime(w) \/ Localtime(w) \/ Choose(w) PROVE CountInv'
    <2>1. Counted' = Counted
      BY <1>1 DEF AskTime, Localtime, Choose, Goto, Counted, LogInv, TypeOK
    <2>2. /\ pc[w] \in {"idle", "localtime", "choose"}
          /\ \E label \in {"localtime", "count", "push", "direct"} : pc' = [pc EXCEPT ![w] = label]
          /\ UNCHANGED <<count_, size, log_queue_, taken>>
      BY <1>1 DEF AskTime, Localtime, Choose, Goto, files
    <2>3. Locked' <=> Locked
      BY <1>i, <2>2, StaysOutside DEF InSection
    <2>4. QED
      BY <2>1, <2>2, <2>3 DEF CountInv, Due, InHandOfAsync, Behind
  <1>2. ASSUME NEW w \in Writers, CountLine(w) PROVE CountInv'
    <2>1. /\ pc[w] = "count" /\ ~Locked /\ count_' = count_ + 1
          /\ UNCHANGED <<size, log_queue_, taken>>
      BY <1>2 DEF CountLine
    <2>2. /\ q' = q /\ InHandOfAsync' = InHandOfAsync /\ Behind' = Behind /\ size' = size
          /\ Due = r
      BY <1>h, <2>1 DEF InHandOfAsync, Behind
    <2>3. CASE pc' = [pc EXCEPT ![w] = "name"]
      <3>1. Counted' = Counted /\ Locked'
        BY <1>i, <2>1, <2>3 DEF Counted, TypeOK, Locked, InSection
      <3>2. n' = n /\ Due' = max_lines_ - 1
        BY <3>1 DEF Due
      <3> HIDE DEF n, q, r
      <3>3. size' + n' + q' + InHandOfAsync' <= Behind' + Due'
        BY <1>a, <1>b, <1>c, <1>d, <2>2, <3>2
      <3>4. QED
        BY <3>3 DEF CountInv, n, q
    <2>4. CASE pc' = [pc EXCEPT ![w] = "choose"] /\ (count_ + 1) % max_lines_ # 0
      <3>1. Counted' = Counted \cup {w} /\ w \notin Counted
        BY <1>i, <2>1, <2>4 DEF Counted, TypeOK
      <3>2. n' = n + 1
        BY <1>a, <3>1, FS_AddElement
      <3>3. ~Locked'
        BY <1>i, <2>1, <2>4, StaysOutside DEF InSection
      <3>4. (count_ + 1) % max_lines_ = r + 1
        BY <1>b, <2>4, NextLine
      <3>5. Due' = r + 1
        BY <2>1, <3>3, <3>4 DEF Due
      <3> HIDE DEF n, q, r
      <3>6. size' + n' + q' + InHandOfAsync' <= Behind' + Due'
        BY <1>a, <1>b, <1>c, <1>d, <2>2, <3>2, <3>5
      <3>7. QED
        BY <3>6 DEF CountInv, n, q
    <2>5. QED
      BY <1>2, <2>3, <2>4 DEF CountLine, Goto
  <1>3. ASSUME NEW w \in Writers, NameFile(w) \/ Compare(w) PROVE CountInv'
    <2>1. /\ pc[w] \in {"name", "compare"} /\ UNCHANGED <<count_, size, log_queue_, taken>>
          /\ \E label \in {"compare", "redate"} : pc' = [pc EXCEPT ![w] = label]
      BY <1>3 DEF NameFile, Compare, Goto, files
    <2>2. Counted' = Counted /\ Locked /\ Locked'
      BY <1>i, <2>1 DEF Counted, TypeOK, Locked, InSection
    <2>3. QED
      BY <2>1, <2>2 DEF CountInv, Due, InHandOfAsync, Behind
  <1>3a. ASSUME NEW w \in Writers, OpenNext(w) \/ OpenNewDay(w) PROVE CountInv'
    <2>1. /\ pc[w] \in {"compare", "redate"} /\ pc' = [pc EXCEPT ![w] = "choose"]
          /\ size' = 0 /\ UNCHANGED <<log_queue_, taken>>
      BY <1>3a DEF OpenNext, OpenNewDay, Goto, Fopen
    <2>2. Counted' \in SUBSET Writers
      BY DEF Counted
    <2>3. n' <= Cardinality(Writers)
      BY <2>2, FS_Subset
    <2>4. q' = q /\ InHandOfAsync' = InHandOfAsync /\ Behind' = Behind
      BY <2>1 DEF InHandOfAsync, Behind
    <2>5. q + InHandOfAsync <= IF isasync_ THEN max_queue_size + 1 ELSE 0
      BY <1>a, <1>b DEF LogInv, LineInv, InHandOfAsync, isasync_
    <2>6. size' + n' + q' + InHandOfAsync' <= Behind' + Due'
      BY <1>a, <1>b, <1>f, <1>g, <2>1, <2>3, <2>4, <2>5 DEF Behind
    <2>7. QED
      BY <2>6 DEF CountInv
  <1>4. ASSUME NEW w \in Writers, Push(w) \/ Direct(w) PROVE CountInv'
    <2>1. w \in Counted /\ Counted' = Counted \ {w}
      BY <1>4 DEF Push, Direct, Goto, Counted, LogInv, TypeOK
    <2>2. n' = n - 1
      BY <1>a, <1>b, <1>c, <1>d, <2>1, FS_RemoveElement
    <2>3. /\ InHandOfAsync' = InHandOfAsync /\ Behind' = Behind /\ count_' = count_
      BY <1>4 DEF Push, Direct, files, InHandOfAsync, Behind
    <2>4. \/ size' = size /\ q' \in {q, q + 1}
          \/ size' = size + 1 /\ q' = q
      <3>1. CASE Push(w)
        <4>1. Len(Append(log_queue_, Line(w))) = Len(log_queue_) + 1
          BY DEF LogInv, TypeOK
        <4>2. QED
          BY <3>1, <4>1 DEF Push
      <3>2. CASE Direct(w)
        BY <3>2 DEF Direct, Fputs
      <3>3. QED
        BY <1>4, <3>1, <3>2
    <2>5. Due' = Due
      <3>1. pc[w] \in {"push", "direct"} /\ pc' = [pc EXCEPT ![w] = "idle"]
        BY <1>4 DEF Push, Direct, Goto
      <3>2. Locked' <=> Locked
        BY <1>i, <3>1, StaysOutside DEF InSection
      <3>3. QED
        BY <2>3, <3>2 DEF Due
    <2> HIDE DEF n, q, r
    <2>6. size' + n' + q' + InHandOfAsync' <= Behind' + Due'
      BY <1>a, <1>b, <1>d, <1>h, <2>2, <2>3, <2>4, <2>5
    <2>7. QED
      BY <2>6 DEF CountInv, n, q
  <1>5. CASE TakeLine
    <2>1. taken = None /\ q' = q - 1
      BY <1>5, HeadTailProperties DEF TakeLine, LogInv, TypeOK
    <2>2. /\ Counted' = Counted /\ Behind' = Behind /\ UNCHANGED <<count_, size>> /\ Due' = Due
          /\ InHandOfAsync = 0 /\ InHandOfAsync' \in {0, 1}
      BY <1>5 DEF TakeLine, files, Counted, Behind, Due, Locked, InHandOfAsync
    <2>3. QED
      BY <1>a, <1>b, <1>d, <1>h, <2>1, <2>2 DEF CountInv
  <1>6. CASE WriteTaken
    <2>1. /\ Counted' = Counted /\ Behind' = Behind /\ UNCHANGED <<count_, log_queue_>> /\ Due' = Due
          /\ InHandOfAsync = 1 /\ InHandOfAsync' = 0 /\ size' = size + 1
      BY <1>6 DEF WriteTaken, Fputs, files, Counted, Behind, Due, Locked, InHandOfAsync
    <2>2. QED
      BY <1>a, <1>b, <1>d, <1>h, <2>1 DEF CountInv
  <1>7. CASE Midnight \/ UNCHANGED vars
    BY <1>7 DEF Midnight, vars, files, CountInv, Counted, Due, Locked, InHandOfAsync, Behind
  <1>8. QED
    BY <1>1, <1>2, <1>3, <1>3a, <1>4, <1>5, <1>6, <1>7
       DEF Next, WriteLog, ChangeFile, AsyncWriteLog, Finished

\* On the first day no date differs, and count_ names the file that is open.
NamedByCount == <<1, IF count_ < max_lines_ THEN NoSuffix ELSE count_ \div max_lines_>>
FirstDayInv ==
    today = 1 => /\ \A w \in Writers : pc[w] # "redate"
                 /\ Locked => count_ >= max_lines_
                 /\ ~Locked => fp_ = NamedByCount

LEMMA FirstDayStep == LogInv /\ LogInv' /\ FirstDayInv /\ [Next]_vars => FirstDayInv'
  <1> SUFFICES ASSUME LogInv, LogInv', FirstDayInv, [Next]_vars, today' = 1 PROVE FirstDayInv'
    BY DEF FirstDayInv
  <1>a. TypeOK /\ TypeOK'
    BY DEF LogInv
  <1>b. today = 1
    <2>1. today \in Nat \ {0} /\ MaxDay \in Nat
      BY <1>a DEF TypeOK
    <2>2. CASE Midnight
      BY <2>1, <2>2 DEF Midnight
    <2>3. CASE ~Midnight
      <3>1. UNCHANGED today
        BY <2>3 DEF Next, WriteLog, ChangeFile, AsyncWriteLog, Finished, AskTime, Localtime, CountLine,
           NameFile, Compare, OpenNext, OpenNewDay, Choose, Push, Direct, TakeLine, WriteTaken, vars
      <3>2. QED
        BY <3>1
    <2>4. QED
      BY <2>2, <2>3
  <1>c. date_ = 1 /\ tm = 1 /\ tail = 1 /\ count_ \in Nat
    BY <1>a, <1>b DEF TypeOK
  <1>d. \A w \in Writers : pc[w] # "redate"
    BY <1>b DEF FirstDayInv
  <1>1. ASSUME NEW w \in Writers, CountLine(w) PROVE FirstDayInv'
    <2>1. pc[w] = "count" /\ ~Locked /\ count_' = count_ + 1 /\ UNCHANGED fp_
      BY <1>1 DEF CountLine
    <2>2. CASE (count_ + 1) % max_lines_ = 0
      <3>1. pc' = [pc EXCEPT ![w] = "name"]
        BY <1>1, <2>1, <2>2 DEF CountLine, Goto
      <3>2. Locked' /\ \A v \in Writers : pc'[v] # "redate"
        BY <1>a, <1>d, <3>1 DEF Locked, InSection, TypeOK
      <3>3. count_ + 1 >= max_lines_
        <4> DEFINE k == count_ + 1
        <4>1. k \in Nat /\ k # 0 /\ k % max_lines_ = 0
          BY <1>c, <2>2
        <4> HIDE DEF k
        <4>2. ~(k < max_lines_)
          BY <4>1, Multiple
        <4>3. k >= max_lines_
          BY <4>1, <4>2
        <4>4. QED
          BY <4>3 DEF k
      <3>4. QED
        BY <2>1, <3>2, <3>3 DEF FirstDayInv
    <2>3. CASE (count_ + 1) % max_lines_ # 0
      <3>1. pc' = [pc EXCEPT ![w] = "choose"]
        BY <1>1, <1>c, <2>1, <2>3 DEF CountLine, Goto
      <3>2. ~Locked'
        BY <1>a, <2>1, <3>1, StaysOutside DEF InSection
      <3>3. \A v \in Writers : pc'[v] # "redate"
        BY <1>a, <1>d, <3>1 DEF TypeOK
      <3>4. (count_ + 1) \div max_lines_ = count_ \div max_lines_ /\ (count_ + 1 < max_lines_ <=> count_ < max_lines_)
        BY <1>c, <2>3, SameFile
      <3>5. NamedByCount' = NamedByCount
        BY <2>1, <3>4 DEF NamedByCount
      <3>6. fp_ = NamedByCount
        BY <1>b, <2>1 DEF FirstDayInv
      <3>7. QED
        BY <2>1, <3>2, <3>3, <3>5, <3>6 DEF FirstDayInv
    <2>4. QED
      BY <2>2, <2>3
  <1>2. ASSUME NEW w \in Writers, NameFile(w) \/ Compare(w) PROVE FirstDayInv'
    <2>1. /\ pc[w] = "name" /\ pc' = [pc EXCEPT ![w] = "compare"] /\ UNCHANGED count_
      BY <1>2, <1>c DEF NameFile, Compare, Goto, files
    <2>2. Locked /\ Locked' /\ \A v \in Writers : pc'[v] # "redate"
      BY <1>a, <1>d, <2>1 DEF Locked, InSection, TypeOK
    <2>3. QED
      BY <1>b, <2>1, <2>2 DEF FirstDayInv
  <1>3. ASSUME NEW w \in Writers, OpenNext(w) \/ OpenNewDay(w) PROVE FirstDayInv'
    <2>1. /\ pc[w] = "compare" /\ pc' = [pc EXCEPT ![w] = "choose"] /\ UNCHANGED count_
          /\ fp_' = <<1, count_ \div max_lines_>>
      BY <1>3, <1>c, <1>d DEF OpenNext, OpenNewDay, Goto, Fopen
    <2>2. count_ >= max_lines_
      BY <1>b, <2>1 DEF FirstDayInv, Locked, InSection
    <2>3. ~(count_ < max_lines_)
      BY <1>c, <2>2, LogAssumption
    <2>4. \A v \in Writers : pc'[v] # "redate"
      BY <1>a, <1>d, <2>1 DEF TypeOK
    <2>5. fp_' = NamedByCount'
      BY <2>1, <2>3 DEF NamedByCount
    <2>6. QED
      BY <2>1, <2>2, <2>4, <2>5 DEF FirstDayInv
  <1>4. ASSUME NEW w \in Writers, AskTime(w) \/ Localtime(w) \/ Choose(w) \/ Push(w) \/ Direct(w)
        PROVE  FirstDayInv'
    <2>1. /\ pc[w] \in {"idle", "localtime", "choose", "push", "direct"} /\ UNCHANGED <<count_, fp_>>
          /\ \E label \in {"localtime", "count", "push", "direct", "idle"} : pc' = [pc EXCEPT ![w] = label]
      BY <1>4 DEF AskTime, Localtime, Choose, Push, Direct, Goto, files
    <2>2. Locked' <=> Locked
      BY <1>a, <2>1, StaysOutside DEF InSection
    <2>3. \A v \in Writers : pc'[v] # "redate"
      BY <1>a, <1>d, <2>1 DEF TypeOK
    <2>4. QED
      BY <1>b, <2>1, <2>2, <2>3 DEF FirstDayInv, NamedByCount
  <1>5. CASE TakeLine \/ WriteTaken \/ UNCHANGED vars
    BY <1>b, <1>5 DEF TakeLine, WriteTaken, vars, files, FirstDayInv, NamedByCount, Locked
  <1>6. CASE Midnight
    BY <1>b, <1>6 DEF Midnight
  <1>7. QED
    BY <1>1, <1>2, <1>3, <1>4, <1>5, <1>6 DEF Next, WriteLog, ChangeFile, AsyncWriteLog, Finished

\* However the threads' steps in write_log interleave and whatever the shared
\* buffer of localtime holds, a new file is begun in time: no more lines are
\* written between two calls of fopen than max_lines_ and those that were on
\* their way; and on the first day each file is opened once.
THEOREM RotationInTime == Spec => []RotatesInTime
  <1>1. Init => CountInv /\ FirstDayInv
    <2> SUFFICES ASSUME Init PROVE CountInv /\ FirstDayInv
      OBVIOUS
    <2>1. size = 0 /\ Counted = {} /\ Len(log_queue_) = 0 /\ InHandOfAsync = 0 /\ count_ = 0 /\ ~Locked
      BY DEF Init, Counted, InHandOfAsync, Locked, InSection
    <2>2. Cardinality(Counted) = 0
      BY <2>1, FS_EmptySet
    <2>3. 0 % max_lines_ \in Nat
      BY Division
    <2>4. Behind \in Nat
      BY CountedFinite DEF Behind
    <2>5. CountInv
      BY <2>1, <2>2, <2>3, <2>4 DEF CountInv, Due
    <2>6. \A w \in Writers : pc[w] # "redate"
      BY DEF Init
    <2>7. count_ < max_lines_ /\ fp_ = <<1, NoSuffix>>
      BY <2>1 DEF Init
    <2>8. FirstDayInv
      BY <2>1, <2>6, <2>7 DEF FirstDayInv, NamedByCount
    <2>9. QED
      BY <2>5, <2>8
  <1>2. LogInv /\ CountInv /\ FirstDayInv => RotatesInTime
    <2> SUFFICES ASSUME LogInv, CountInv, FirstDayInv PROVE RotatesInTime
      OBVIOUS
    <2>1. /\ count_ % max_lines_ \in 0 .. max_lines_ - 1 /\ size \in Nat /\ Len(log_queue_) \in Nat
          /\ InHandOfAsync \in {0, 1}
      BY Division DEF LogInv, TypeOK, InHandOfAsync
    <2>2. Due \in Nat /\ Due <= max_lines_ - 1
      BY <2>1 DEF Due
    <2>3. size <= Behind + max_lines_ - 1
      BY <2>1, <2>2, CountedFinite DEF CountInv, Behind
    <2>4. size <= max_lines_ + Cardinality(Writers) - 1 + (IF isasync_ THEN max_queue_size + 1 ELSE 0)
      BY <2>1, <2>3, CountedFinite DEF Behind
    <2>5. QED
      BY <2>4 DEF RotatesInTime, FirstDayInv, NamedByCount
  <1>3. QED
    BY <1>1, <1>2, CountStep, FirstDayStep, LogAlways, PTL DEF Spec

-----------------------------------------------------------------------------
(* Where a line is.                                                        *)

\* EachLineOnce is inductive: a thread's next line is new, as its lines are
\* numbered, and every other step moves one line from one place to the next.

\* A line is added to the queue.
LEMMA QueuedAppend ==
  ASSUME NEW S, NEW s \in Seq(S), NEW e \in S, \A i \in DOMAIN s : s[i] # e,
         \A i, j \in DOMAIN s : i # j => s[i] # s[j],
         NEW t, t = Append(s, e)
  PROVE  /\ {t[i] : i \in DOMAIN t} = {s[i] : i \in DOMAIN s} \cup {e}
         /\ \A i, j \in DOMAIN t : i # j => t[i] # t[j]
  <1>1. /\ Len(s) \in Nat /\ DOMAIN s = 1 .. Len(s)
        /\ t \in Seq(S) /\ Len(t) = Len(s) + 1 /\ DOMAIN t = 1 .. Len(s) + 1
        /\ t[Len(s) + 1] = e
    BY AppendProperties, LenProperties
  <1>2. \A i \in 1 .. Len(s) : t[i] = s[i]
    BY AppendProperties
  <1>3. {t[i] : i \in DOMAIN t} = {s[i] : i \in DOMAIN s} \cup {e}
    BY <1>1, <1>2
  <1>4. ASSUME NEW i \in DOMAIN t, NEW j \in DOMAIN t, i # j PROVE t[i] # t[j]
    <2>1. CASE i = Len(s) + 1
      BY <1>1, <1>2, <1>4, <2>1
    <2>2. CASE j = Len(s) + 1
      BY <1>1, <1>2, <1>4, <2>2
    <2>3. CASE i # Len(s) + 1 /\ j # Len(s) + 1
      BY <1>1, <1>2, <1>4, <2>3
    <2>4. QED
      BY <2>1, <2>2, <2>3
  <1>5. QED
    BY <1>3, <1>4

\* The line that a thread writes is no other thread's.
LEMMA OwnLine ==
  ASSUME TypeOK, NEW w \in Writers, pc[w] # "idle", pc' = [pc EXCEPT ![w] = "idle"],
         UNCHANGED lines
  PROVE  /\ Line(w) \in InHand /\ InHand' = InHand \ {Line(w)} /\ UNCHANGED Begun
  <1>1. \A v \in Writers : (pc'[v] # "idle") <=> (pc[v] # "idle" /\ v # w)
    BY DEF TypeOK
  <1>2. \A v \in Writers : Line(v)' = Line(v) /\ (Line(v) = Line(w) => v = w)
    BY DEF Line
  <1>3. InHand' = InHand \ {Line(w)} /\ Line(w) \in InHand
    BY <1>1, <1>2 DEF InHand
  <1>4. QED
    BY <1>3 DEF Begun

LEMMA OnceStep == LogInv /\ EachLineOnce /\ [Next]_vars => EachLineOnce'
  <1> SUFFICES ASSUME LogInv, EachLineOnce, [Next]_vars PROVE EachLineOnce'
    OBVIOUS
  <1>0. TypeOK
    BY DEF LogInv
  <1>1. ASSUME NEW w \in Writers, AskTime(w) PROVE EachLineOnce'
    <2> DEFINE new == <<w, lines[w] + 1>>
    <2>1. /\ lines' = [lines EXCEPT ![w] = @ + 1] /\ pc[w] = "idle"
          /\ pc' = [pc EXCEPT ![w] = "localtime"] /\ lines[w] < MaxLines
          /\ UNCHANGED <<log_queue_, taken, written, dropped>>
      BY <1>0, <1>1 DEF AskTime, Goto, TypeOK
    <2>2. Begun' = Begun \cup {new} /\ new \notin Begun
      <3>1. lines[w] \in Nat /\ MaxLines \in Nat /\ lines'[w] = lines[w] + 1
            /\ \A v \in Writers \ {w} : lines'[v] = lines[v]
        BY <1>0, <2>1 DEF TypeOK
      <3>2. new \in Lines /\ new \notin Begun
        BY <2>1, <3>1 DEF Lines, Begun
      <3>3. ASSUME NEW line \in Lines
            PROVE  line[2] <= lines'[line[1]] <=> line[2] <= lines[line[1]] \/ line = new
        <4>1. PICK v \in Writers, k \in 1 .. MaxLines : line = <<v, k>>
          BY DEF Lines
        <4>2. CASE v = w
          BY <3>1, <4>1, <4>2
        <4>3. CASE v # w
          BY <3>1, <4>1, <4>3
        <4>4. QED
          BY <4>2, <4>3
      <3>4. QED
        BY <3>2, <3>3 DEF Begun
    <2>3. InHand' = InHand \cup {new}
      <3>1. \A v \in Writers \ {w} : Line(v)' = Line(v)
        BY <1>0, <2>1 DEF Line, TypeOK
      <3>2. Line(w)' = new
        BY <1>0, <2>1 DEF Line, TypeOK
      <3>3. \A v \in Writers : (pc'[v] # "idle") <=> (pc[v] # "idle" \/ v = w)
        BY <1>0, <2>1 DEF TypeOK
      <3>4. QED
        BY <2>1, <3>1, <3>2, <3>3 DEF InHand
    <2>4. UNCHANGED <<Queued, Taken, OnFile>>
      BY <2>1 DEF Queued, Taken, OnFile
    <2> HIDE DEF new
    <2>5. QED
      BY <2>1, <2>2, <2>3, <2>4 DEF EachLineOnce
  <1>2. ASSUME NEW w \in Writers, Localtime(w) \/ CountLine(w) \/ ChangeFile(w) \/ Choose(w)
        PROVE  EachLineOnce'
    <2>1. /\ UNCHANGED <<log_queue_, lines, taken, written, dropped>>
          /\ pc[w] # "idle" /\ \E l : l # "idle" /\ pc' = [pc EXCEPT ![w] = l]
      BY <1>2 DEF Localtime, CountLine, ChangeFile, NameFile, Compare, OpenNext, OpenNewDay, Choose, Goto
    <2>2. \A v \in Writers : (pc'[v] # "idle") <=> (pc[v] # "idle")
      BY <1>0, <2>1 DEF TypeOK
    <2>3. UNCHANGED <<Begun, InHand, Queued, Taken, OnFile>>
      BY <2>1, <2>2 DEF Begun, InHand, Line, Queued, Taken, OnFile
    <2>4. QED
      BY <2>1, <2>3 DEF EachLineOnce
  <1>3. ASSUME NEW w \in Writers, Push(w) PROVE EachLineOnce'
    <2>1. /\ UNCHANGED <<lines, taken, written>>
          /\ pc[w] = "push" /\ pc' = [pc EXCEPT ![w] = "idle"]
      BY <1>3 DEF Push, Goto
    <2>2. /\ Line(w) \in InHand /\ InHand' = InHand \ {Line(w)} /\ UNCHANGED Begun
      BY <1>0, <2>1, OwnLine
    <2>3. UNCHANGED <<Taken, OnFile>>
      BY <2>1 DEF Taken, OnFile
    <2>4. CASE Full
      <3>1. dropped' = dropped \cup {Line(w)} /\ UNCHANGED <<log_queue_, Queued>>
        BY <1>3, <2>4 DEF Push, Queued
      <3>2. QED
        BY <2>1, <2>2, <2>3, <3>1 DEF EachLineOnce
    <2>5. CASE ~Full
      <3>1. log_queue_' = Append(log_queue_, Line(w)) /\ UNCHANGED dropped
        BY <1>3, <2>5 DEF Push
      <3>2. Line(w) \in Lines /\ Line(w) \notin Queued
        BY <2>2 DEF EachLineOnce, Begun
      <3>3. /\ Queued' = Queued \cup {Line(w)}
            /\ (\A i, j \in DOMAIN log_queue_ : i # j => log_queue_[i] # log_queue_[j])'
        <4>1. PICK line \in Lines : line = Line(w)
          BY <3>2
        <4>2. \A i \in DOMAIN log_queue_ : log_queue_[i] # line
          BY <3>2, <4>1 DEF Queued
        <4>3. log_queue_ \in Seq(Lines)
          BY <1>0 DEF TypeOK
        <4>4. \A i, j \in DOMAIN log_queue_ : i # j => log_queue_[i] # log_queue_[j]
          BY DEF EachLineOnce
        <4>5. log_queue_' = Append(log_queue_, line)
          BY <3>1, <4>1
        <4>6. QED
          BY <4>1, <4>2, <4>3, <4>4, <4>5, QueuedAppend DEF Queued
      <3>4. QED
        BY <2>1, <2>2, <2>3, <3>1, <3>2, <3>3 DEF EachLineOnce
    <2>6. QED
      BY <2>4, <2>5
  <1>4. ASSUME NEW w \in Writers, Direct(w) PROVE EachLineOnce'
    <2>1. /\ UNCHANGED <<lines, taken, log_queue_, dropped>>
          /\ pc[w] = "direct" /\ pc' = [pc EXCEPT ![w] = "idle"]
          /\ written' = written (+) SetToBag({Line(w)})
      BY <1>4 DEF Direct, Goto, Fputs
    <2>2. /\ Line(w) \in InHand /\ InHand' = InHand \ {Line(w)} /\ UNCHANGED Begun
      BY <1>0, <2>1, OwnLine
    <2>3. UNCHANGED <<Queued, Taken>>
      BY <2>1 DEF Queued, Taken
    <2>4. OnFile' = OnFile \cup {Line(w)} /\ (\A line \in OnFile : written[line] = 1)'
      <3>1. PICK line : line = Line(w)
        OBVIOUS
      <3>2. /\ line \notin DOMAIN written /\ \A y \in DOMAIN written : written[y] = 1
            /\ written' = written (+) SetToBag({line})
        BY <2>1, <2>2, <3>1 DEF OnFile, EachLineOnce
      <3>3. DOMAIN written' = DOMAIN written \cup {line} /\ \A y \in DOMAIN written' : written'[y] = 1
        BY <3>2 DEF SetToBag, (+)
      <3>4. QED
        BY <3>1, <3>3 DEF OnFile
    <2>5. QED
      BY <2>1, <2>2, <2>3, <2>4 DEF EachLineOnce
  <1>5. CASE TakeLine
    <2>1. /\ taken = None /\ log_queue_ # <<>> /\ taken' = Head(log_queue_)
          /\ log_queue_' = Tail(log_queue_)
          /\ UNCHANGED <<lines, pc, written, dropped>>
      BY <1>5 DEF TakeLine
    <2>2. UNCHANGED <<Begun, InHand, OnFile>>
      BY <2>1 DEF Begun, InHand, Line, OnFile
    <2>3. Head(log_queue_) # None
      <3>1. Head(log_queue_) \in Lines
        BY <1>0, <2>1, HeadTailProperties DEF TypeOK
      <3>2. QED
        BY <3>1 DEF Lines, None
    <2>4. Taken = {} /\ Taken' = {Head(log_queue_)}
      BY <2>1, <2>3 DEF Taken
    <2>5. /\ Queued = Queued' \cup {Head(log_queue_)} /\ Head(log_queue_) \notin Queued'
          /\ (\A i, j \in DOMAIN log_queue_ : i # j => log_queue_[i] # log_queue_[j])'
      <3>1. PICK s, t : s = log_queue_ /\ t = log_queue_'
        OBVIOUS
      <3>2. s \in Seq(Lines) /\ s # <<>> /\ t = Tail(s)
        BY <1>0, <2>1, <3>1 DEF TypeOK
      <3>3. /\ Len(s) \in Nat \ {0} /\ DOMAIN s = 1 .. Len(s)
            /\ DOMAIN t = 1 .. Len(s) - 1 /\ Head(s) = s[1]
        BY <3>2, HeadTailProperties, LenProperties, EmptySeq
      <3>4. \A i \in 1 .. Len(s) - 1 : t[i] = s[i + 1]
        BY <3>2, <3>3, HeadTailProperties
      <3>5. ASSUME NEW i \in DOMAIN s, NEW j \in DOMAIN s, i # j PROVE s[i] # s[j]
        BY <3>1, <3>5 DEF EachLineOnce
      <3>6. ASSUME NEW i \in DOMAIN t, NEW j \in DOMAIN t, i # j PROVE t[i] # t[j]
        <4>1. i + 1 \in DOMAIN s /\ j + 1 \in DOMAIN s /\ i + 1 # j + 1
          BY <3>3, <3>6
        <4>2. QED
          BY <3>3, <3>4, <3>5, <4>1
      <3>7. ASSUME NEW i \in DOMAIN t PROVE t[i] # Head(s) /\ \E j \in DOMAIN s : s[j] = t[i]
        <4>1. i + 1 \in DOMAIN s /\ 1 \in DOMAIN s /\ i + 1 # 1
          BY <3>3
        <4>2. QED
          BY <3>3, <3>4, <3>5, <4>1
      <3>8. ASSUME NEW i \in DOMAIN s, i # 1 PROVE \E j \in DOMAIN t : s[i] = t[j]
        <4>1. i - 1 \in DOMAIN t /\ (i - 1) + 1 = i
          BY <3>3, <3>8
        <4>2. QED
          BY <3>3, <3>4, <4>1
      <3>9. Queued = Queued' \cup {Head(log_queue_)} /\ Head(log_queue_) \notin Queued'
        <4>1. 1 \in DOMAIN s
          BY <3>3
        <4>2. QED
          BY <3>1, <3>3, <3>7, <3>8, <4>1 DEF Queued
      <3>10. QED
        BY <3>1, <3>6, <3>9
    <2>6. QED
      BY <2>1, <2>2, <2>4, <2>5 DEF EachLineOnce
  <1>6. CASE WriteTaken
    <2>1. /\ taken # None /\ taken' = None /\ written' = written (+) SetToBag({taken})
          /\ UNCHANGED <<lines, pc, log_queue_, dropped>>
      BY <1>6 DEF WriteTaken, Fputs
    <2>2. UNCHANGED <<Begun, InHand, Queued>> /\ Taken = {taken} /\ Taken' = {}
      BY <2>1 DEF Begun, InHand, Line, Queued, Taken
    <2>3. OnFile' = OnFile \cup {taken} /\ (\A line \in OnFile : written[line] = 1)'
      <3>1. /\ taken \notin DOMAIN written /\ \A y \in DOMAIN written : written[y] = 1
            /\ written' = written (+) SetToBag({taken})
        BY <2>1, <2>2 DEF OnFile, EachLineOnce
      <3>2. DOMAIN written' = DOMAIN written \cup {taken} /\ \A y \in DOMAIN written' : written'[y] = 1
        BY <3>1 DEF SetToBag, (+)
      <3>3. QED
        BY <3>2 DEF OnFile
    <2>4. QED
      BY <2>1, <2>2, <2>3 DEF EachLineOnce
  <1>7. CASE Midnight \/ UNCHANGED vars
    BY <1>7 DEF Midnight, vars, EachLineOnce, Begun, InHand, Line, Queued, Taken, OnFile
  <1>8. QED
    BY <1>1, <1>2, <1>3, <1>4, <1>5, <1>6, <1>7 DEF Next, WriteLog, AsyncWriteLog, Finished

\* No line is lost on its way through the queue, written twice, or both
\* written and dropped, however the threads' steps in write_log and those of
\* async_write_log interleave.
THEOREM LinesOnce == Spec => []EachLineOnce
  <1>1. Init => EachLineOnce
    <2> SUFFICES ASSUME Init PROVE EachLineOnce
      OBVIOUS
    <2>1. InHand = {} /\ Begun = {} /\ Taken = {} /\ dropped = {}
      BY DEF Init, InHand, Begun, Lines, Taken
    <2>2. Queued = {} /\ OnFile = {} /\ DOMAIN log_queue_ = {}
      BY DEF Init, Queued, OnFile, EmptyBag, SetToBag
    <2>3. QED
      BY <2>1, <2>2 DEF EachLineOnce
  <1>2. QED
    BY <1>1, OnceStep, LogAlways, PTL DEF Spec
===============================================================================
