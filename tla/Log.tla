----------------------------------- MODULE Log -----------------------------------
(***************************************************************************)
(* log/log.h and log.cc: every thread writes lines with write_log, into    *)
(* the file itself or, in asynchronous mode, into a queue that a thread of *)
(* its own empties into the file.  A new file is begun with a new day and  *)
(* with every max_lines_-th line.  write_log takes the mutex three times:  *)
(* to count and to change the file, to format, and to write; in between    *)
(* others may run.  (Formatting changes nothing that others see.)  The     *)
(* mutex does not keep others from calling localtime, whose buffer is read *)
(* up to four times while the file is changed.                             *)
(*                                                                         *)
(* The queue is the one that BlockingQueue implements.  A file is named by *)
(* its day and its suffix.  A line is named by its thread and a number.    *)
(***************************************************************************)
EXTENDS Integers, Sequences, FiniteSets, Bags

CONSTANTS Writers,        \* the threads that log
          max_lines_,
          max_queue_size, \* 0: synchronous
          MaxLines,       \* bound: lines of each thread
          MaxDay          \* bound: days

ASSUME LogAssumption ==
    /\ IsFiniteSet(Writers)
    /\ max_lines_ \in Nat \ {0} /\ max_queue_size \in Nat
    /\ MaxLines \in Nat /\ MaxDay \in Nat \ {0}

VARIABLES today, tm,           \* the day; the day in localtime's shared buffer
          now,                 \* the time each thread has asked for
          date_, count_, fp_,
          tail,                \* the day in the name of the file to be opened
          log_queue_,
          lines,               \* how many lines each thread has begun
          pc,                  \* where it is in write_log
          taken,               \* the line async_write_log has popped
          written,             \* the bag of the lines that are in the files
          size,                \* history: the lines written since the last fopen
          dropped              \* the lines that push refused

vars  == <<today, tm, now, date_, count_, fp_, tail, log_queue_, lines, pc, taken, written, size, dropped>>
files == <<date_, count_, fp_, tail>>

isasync_ == max_queue_size > 0
Lines == Writers \X (1 .. MaxLines)
NoSuffix == -1
Files == (1 .. MaxDay) \X (Nat \cup {NoSuffix})
None  == <<>>
Line(w) == <<w, lines[w]>>
Begun   == {line \in Lines : line[2] <= lines[line[1]]}

TypeOK ==
    /\ today \in 1 .. MaxDay /\ tm \in 1 .. today
    /\ now \in [Writers -> 1 .. today]
    /\ date_ \in 1 .. today /\ count_ \in Nat /\ fp_ \in Files /\ tail \in 1 .. today
    /\ log_queue_ \in Seq(Lines) /\ Len(log_queue_) <= max_queue_size
    /\ lines \in [Writers -> 0 .. MaxLines]
    /\ pc \in [Writers -> {"idle", "localtime", "count", "name", "compare", "redate",
                           "choose", "push", "direct"}]
    /\ taken \in Lines \cup {None}
    /\ IsABag(written) /\ DOMAIN written \subseteq Lines /\ size \in Nat
    /\ dropped \subseteq Lines

\* Log::init.
Init ==
    /\ today = 1 /\ tm = 1 /\ now = [w \in Writers |-> 1]
    /\ date_ = 1 /\ count_ = 0 /\ fp_ = <<1, NoSuffix>> /\ tail = 1
    /\ log_queue_ = <<>>
    /\ lines = [w \in Writers |-> 0] /\ pc = [w \in Writers |-> "idle"]
    /\ taken = None /\ written = EmptyBag /\ size = 0 /\ dropped = {}

Goto(w, label) == pc' = [pc EXCEPT ![w] = label]
Fputs(line) == written' = written (+) SetToBag({line}) /\ size' = size + 1
Fopen(file) == fp_' = file /\ size' = 0

\* A thread is changing the file, and holds mutex_.  (The other sections under
\* mutex_ are single steps.)
InSection == {"name", "compare", "redate"}
Locked    == \E w \in Writers : pc[w] \in InSection

-----------------------------------------------------------------------------
(* write_log.                                                              *)

\* gettimeofday.
AskTime(w) ==
    /\ pc[w] = "idle" /\ lines[w] < MaxLines
    /\ lines' = [lines EXCEPT ![w] = @ + 1]
    /\ now' = [now EXCEPT ![w] = today]
    /\ Goto(w, "localtime")
    /\ UNCHANGED <<today, tm, files, log_queue_, taken, written, size, dropped>>

\* localtime: its result lies in a buffer that all threads share.
Localtime(w) ==
    /\ pc[w] = "localtime"
    /\ tm' = now[w]
    /\ Goto(w, "count")
    /\ UNCHANGED <<today, now, files, log_queue_, lines, taken, written, size, dropped>>

\* Mutant of CountLine: only a new day begins a new file.
CountDaysOnly(w) ==
    /\ pc[w] = "count" /\ ~Locked
    /\ count_' = count_ + 1
    /\ Goto(w, IF date_ # tm THEN "name" ELSE "choose")
    /\ UNCHANGED <<today, tm, now, date_, fp_, tail, log_queue_, lines, taken, written, size, dropped>>

\* The line is counted.  Is it time for a new file?  (The old one is flushed
\* but not closed.)
CountLine(w) ==
    /\ pc[w] = "count" /\ ~Locked
    /\ count_' = count_ + 1
    /\ Goto(w, IF date_ # tm \/ count_' % max_lines_ = 0 THEN "name" ELSE "choose")
    /\ UNCHANGED <<today, tm, now, date_, fp_, tail, log_queue_, lines, taken, written, size, dropped>>

\* The shared buffer is read again, for the file's name,
NameFile(w) ==
    /\ pc[w] = "name"
    /\ tail' = tm
    /\ Goto(w, "compare")
    /\ UNCHANGED <<today, tm, now, date_, count_, fp_, log_queue_, lines, taken, written, size, dropped>>

\* and again, to decide between a day's first file
Compare(w) ==
    /\ pc[w] = "compare" /\ date_ # tm
    /\ Goto(w, "redate")
    /\ UNCHANGED <<today, tm, now, files, log_queue_, lines, taken, written, size, dropped>>

\* and one with a suffix,
OpenNext(w) ==
    /\ pc[w] = "compare" /\ date_ = tm
    /\ Fopen(<<tail, count_ \div max_lines_>>)
    /\ Goto(w, "choose")
    /\ UNCHANGED <<today, tm, now, date_, count_, tail, log_queue_, lines, taken, written, dropped>>

\* and again, for the new day.
OpenNewDay(w) ==
    /\ pc[w] = "redate"
    /\ date_' = tm /\ count_' = 0
    /\ Fopen(<<tail, NoSuffix>>)
    /\ Goto(w, "choose")
    /\ UNCHANGED <<today, tm, now, tail, log_queue_, lines, taken, written, dropped>>

Full == Len(log_queue_) >= max_queue_size

\* isasync_ && !log_queue_->full().
Choose(w) ==
    /\ pc[w] = "choose"
    /\ Goto(w, IF isasync_ /\ ~Full THEN "push" ELSE "direct")
    /\ UNCHANGED <<today, tm, now, files, log_queue_, lines, taken, written, size, dropped>>

\* Mutant of Push: the item is added in any case.
PushUnchecked(w) ==
    /\ pc[w] = "push"
    /\ log_queue_' = Append(log_queue_, Line(w))
    /\ Goto(w, "idle")
    /\ UNCHANGED <<today, tm, now, files, lines, taken, written, size, dropped>>

\* push fails if the queue has become full; write_log does not look.
Push(w) ==
    /\ pc[w] = "push"
    /\ IF Full THEN dropped' = dropped \cup {Line(w)} /\ UNCHANGED log_queue_
       ELSE log_queue_' = Append(log_queue_, Line(w)) /\ UNCHANGED dropped
    /\ Goto(w, "idle")
    /\ UNCHANGED <<today, tm, now, files, lines, taken, written, size>>

Direct(w) ==
    /\ pc[w] = "direct" /\ ~Locked
    /\ Fputs(Line(w))
    /\ Goto(w, "idle")
    /\ UNCHANGED <<today, tm, now, files, log_queue_, lines, taken, dropped>>

-----------------------------------------------------------------------------
(* async_write_log.                                                        *)

\* Mutants of TakeLine: the last line waits until another one follows; the
\* line stays in the queue.
TakeLeavingOne ==
    /\ taken = None /\ Len(log_queue_) > 1
    /\ taken' = Head(log_queue_) /\ log_queue_' = Tail(log_queue_)
    /\ UNCHANGED <<today, tm, now, files, lines, pc, written, size, dropped>>

PeekLine ==
    /\ taken = None /\ log_queue_ # <<>>
    /\ taken' = Head(log_queue_)
    /\ UNCHANGED <<today, tm, now, files, log_queue_, lines, pc, written, size, dropped>>

TakeLine ==
    /\ taken = None /\ log_queue_ # <<>>
    /\ taken' = Head(log_queue_) /\ log_queue_' = Tail(log_queue_)
    /\ UNCHANGED <<today, tm, now, files, lines, pc, written, size, dropped>>

WriteTaken ==
    /\ taken # None /\ ~Locked
    /\ Fputs(taken) /\ taken' = None
    /\ UNCHANGED <<today, tm, now, files, log_queue_, lines, pc, dropped>>

-----------------------------------------------------------------------------
Midnight ==
    /\ today < MaxDay /\ today' = today + 1
    /\ UNCHANGED <<tm, now, files, log_queue_, lines, pc, taken, written, size, dropped>>

ChangeFile(w) == NameFile(w) \/ Compare(w) \/ OpenNext(w) \/ OpenNewDay(w)
WriteLog(w) == \/ AskTime(w) \/ Localtime(w) \/ CountLine(w) \/ ChangeFile(w)
               \/ Choose(w) \/ Push(w) \/ Direct(w)
AsyncWriteLog == TakeLine \/ WriteTaken

\* All lines that the bound allows have been begun and handed over.
Finished == /\ \A w \in Writers : pc[w] = "idle" /\ lines[w] = MaxLines
            /\ UNCHANGED vars

Next == \/ AsyncWriteLog \/ Midnight \/ Finished
        \/ \E w \in Writers : WriteLog(w)

Spec == Init /\ [][Next]_vars

\* The threads run on.  (None need win mutex_ before the others: the fairness
\* is weak.)
FairSpec == /\ Spec /\ WF_vars(AsyncWriteLog)
            /\ \A w \in Writers : WF_vars(WriteLog(w))

-----------------------------------------------------------------------------
(* Properties.                                                             *)

InHand   == {Line(w) : w \in {v \in Writers : pc[v] # "idle"}}
Queued   == {log_queue_[i] : i \in DOMAIN log_queue_}
Taken    == {taken} \ {None}
OnFile   == DOMAIN written

\* A line is in one place: with its thread, in the queue (once), with the
\* writing thread, in one file (once), or dropped.
EachLineOnce ==
    /\ Begun = InHand \cup Queued \cup Taken \cup OnFile \cup dropped
    /\ InHand \cap (Queued \cup Taken \cup OnFile \cup dropped) = {}
    /\ Queued \cap (Taken \cup OnFile \cup dropped) = {}
    /\ Taken \cap (OnFile \cup dropped) = {} /\ OnFile \cap dropped = {}
    /\ \A i, j \in DOMAIN log_queue_ : i # j => log_queue_[i] # log_queue_[j]
    /\ \A line \in OnFile : written[line] = 1

\* A new file is begun in time, however the reads of the shared buffer
\* interleave with the calls of localtime: between two calls of fopen at most
\* max_lines_ lines are written, and those that were counted before it, one
\* for each other thread and what the queue can hold.  On the first day the
\* file is the one that count_ names, so that none is opened twice and this
\* bounds the lines of each file.  (Later fopen, which appends, may open a
\* file of the day before again, or give that file to the new day, for a
\* thread that finds the buffer out of date.)
RotatesInTime ==
    /\ size <= max_lines_ + Cardinality(Writers) - 1
               + (IF isasync_ THEN max_queue_size + 1 ELSE 0)
    /\ today = 1 /\ ~Locked =>
          fp_ = <<1, IF count_ < max_lines_ THEN NoSuffix ELSE count_ \div max_lines_>>

\* A line that was pushed is written in the end, and so is every other.
EveryLineEnds ==
    \A line \in Lines : line \in Begun ~> line \in OnFile \cup dropped

===============================================================================
