--------------------------------- MODULE Server ---------------------------------
(***************************************************************************)
(* The life of a connection: server.cc, utils.cc, the connection slots of  *)
(* http_conn.cc and the worker loop of thread_pool.h, composed with a      *)
(* kernel that hands out descriptors and epoll events.  The main thread    *)
(* waits for a batch of events and handles one after the other; it alone   *)
(* uses the timer list.  Every event of a connection is EPOLLONESHOT:      *)
(* epoll reports nothing more until modify_fd arms the descriptor again.   *)
(* A worker takes a slot (an index into users_) from the queue, not a      *)
(* connection: by then the slot may belong to the next one.                *)
(*                                                                         *)
(* A connection has a number as long as it is open or its timer exists.    *)
(* user_count_ is read and written in two steps, as two threads change it. *)
(* The queue and the timer list are seen from outside: ThreadPool and      *)
(* TimerList have the details.  What becomes of a read, a write or a       *)
(* request is chosen freely, within what the slot allows.                  *)
(***************************************************************************)
EXTENDS Integers, Sequences, SequencesExt, FiniteSets

CONSTANTS Fds, NoFd,           \* the descriptors accept may return; -1
          Workers,
          Conns,               \* bound: numbers for connections with a timer
          MAX_FD,              \* the limit for user_count_
          max_requests_,       \* append refuses a longer queue; what the connections
                               \* outside the model leave of the limit
          actor_pattern_,      \* reactor (TRUE) or proactor
          listenfd_trig_mode_, \* accept in a loop (TRUE) or once
          MaxMissed,           \* the ticks a timer can survive: 3 in the code
          MaxFailures,         \* bound: how often process_write fails
          SlowTasks            \* may a timer expire before the request it was
                               \* delayed for has been processed?

ASSUME ServerAssumption ==
    /\ NoFd \notin Fds
    /\ IsFiniteSet(Fds) /\ IsFiniteSet(Workers) /\ IsFiniteSet(Conns)
    /\ Conns \subseteq Nat \ {0}
    /\ MAX_FD \in Nat /\ max_requests_ \in Nat
    /\ MaxMissed \in Nat /\ MaxFailures \in Nat
    /\ {actor_pattern_, listenfd_trig_mode_, SlowTasks} \subseteq BOOLEAN

VARIABLES
    owner, armed,                             \* the kernel: fd -> connection, epoll
    sockfd_, state_, timer_flag_, improve_,   \* the slots users_[fd]
    user_count_,
    timer, timer_list_, fdOf, missed,         \* users_timer_[fd].timer, the list,
                                              \* user_data, ticks since delayed
    alarm,                                    \* SIGALRM: scheduled or in the pipe
    pc, batch, timeout, mfd, loaded,          \* event_loop: events_ to come, its
                                              \* locals, the user_count_ it read
    workqueue_, wpc, task, wloaded,           \* the queue and the workers
    failures,
    crashed,                                  \* a null pointer was dereferenced
    mixed                                     \* a slot was given to a connection
                                              \* while it was queued or in work

kernel == <<owner, armed>>
flags  == <<state_, timer_flag_, improve_>>
slots  == <<sockfd_, flags>>
timers == <<timer, timer_list_, fdOf, missed>>
loop   == <<pc, batch, timeout, mfd, loaded>>
pool   == <<workqueue_, wpc, task, wloaded>>
ghosts == <<failures, crashed, mixed>>
vars   == <<kernel, slots, user_count_, timers, alarm, loop, pool, ghosts>>

NONE   == 0
Listen == <<NoFd, "listen">>
Signal == <<NoFd, "signal">>
Events == (Fds \X {"in", "out", "hup"}) \cup {Listen, Signal}
Open   == {f \in Fds : owner[f] # NONE}
Active == ToSet(timer_list_)
InWork(f) == {w \in Workers : wpc[w] # "idle" /\ task[w] = f}
HasTask(f) == f \in ToSet(workqueue_) \/ InWork(f) # {}

KernelTypeOK ==
    owner \in [Fds -> Conns \cup {NONE}] /\ armed \in [Fds -> {"off", "in", "out"}]

SlotsTypeOK ==
    /\ sockfd_ \in [Fds -> Fds \cup {NoFd}] /\ state_ \in [Fds -> BOOLEAN]
    /\ timer_flag_ \in [Fds -> BOOLEAN] /\ improve_ \in [Fds -> BOOLEAN]

TimersTypeOK ==
    /\ timer \in [Fds -> Conns \cup {NONE}] /\ timer_list_ \in Seq(Conns)
    /\ fdOf \in [Conns -> Fds \cup {NoFd}] /\ missed \in [Conns -> 0 .. MaxMissed]
    /\ alarm \in {"scheduled", "sent", "none"}

LoopTypeOK ==
    /\ pc \in {"wait", "loop", "accept", "init", "spin", "close", "spin_close", "tick", "fired"}
    /\ batch \subseteq Events /\ timeout \in BOOLEAN /\ mfd \in Fds \cup {NoFd}
    /\ user_count_ \in Int /\ loaded \in Int
    /\ failures \in 0 .. MaxFailures /\ crashed \in BOOLEAN /\ mixed \in BOOLEAN

PoolTypeOK ==
    /\ workqueue_ \in Seq(Fds)
    /\ wpc \in [Workers -> {"idle", "read", "write", "flag", "process",
                            "closed", "count", "arm"}]
    /\ task \in [Workers -> Fds \cup {NoFd}] /\ wloaded \in [Workers -> Int]

TypeOK == KernelTypeOK /\ SlotsTypeOK /\ TimersTypeOK /\ LoopTypeOK /\ PoolTypeOK

\* After event_listen: the alarm is scheduled, no connection is open.
Init ==
    /\ owner = [f \in Fds |-> NONE] /\ armed = [f \in Fds |-> "off"]
    /\ sockfd_ = [f \in Fds |-> NoFd]
    /\ state_ = [f \in Fds |-> FALSE] /\ timer_flag_ = state_ /\ improve_ = state_
    /\ user_count_ = 0 /\ loaded = 0
    /\ timer = [f \in Fds |-> NONE] /\ timer_list_ = <<>>
    /\ fdOf = [c \in Conns |-> NoFd] /\ missed = [c \in Conns |-> 0]
    /\ alarm = "scheduled" /\ timeout = FALSE
    /\ pc = "wait" /\ batch = {} /\ mfd = NoFd
    /\ workqueue_ = <<>> /\ wpc = [w \in Workers |-> "idle"]
    /\ task = [w \in Workers |-> NoFd] /\ wloaded = [w \in Workers |-> 0]
    /\ failures = 0 /\ crashed = FALSE /\ mixed = FALSE

-----------------------------------------------------------------------------
(* What several handlers do.                                               *)

\* EPOLL_CTL_DEL and close, which fail on a closed descriptor.
CloseFd(f) ==
    /\ owner' = [owner EXCEPT ![f] = NONE]
    /\ armed' = [armed EXCEPT ![f] = "off"]

\* The descriptor the slot believes to have is open.
Usable(f) == sockfd_[f] \in Open

\* Utils::modify_fd on the descriptor of the slot; it fails on a closed one.
Modify(f, event) ==
    armed' = IF Usable(f) THEN [armed EXCEPT ![sockfd_[f]] = event] ELSE armed

\* HttpConn::init().
ResetFlags(f) ==
    /\ state_' = [state_ EXCEPT ![f] = FALSE]
    /\ timer_flag_' = [timer_flag_ EXCEPT ![f] = FALSE]
    /\ improve_' = [improve_ EXCEPT ![f] = FALSE]

\* The list without the timer c, which is in it at most once.
Without(list, c) ==
    IF c \in ToSet(list) THEN RemoveAt(list, CHOOSE i \in DOMAIN list : list[i] = c) ELSE list

\* Server::delay_timer with modify_timer: the timer now expires last.  The
\* head of a longer list cannot be moved: null->next is written.
Delay(c) ==
    /\ missed' = [missed EXCEPT ![c] = 0]
    /\ IF c = Last(timer_list_) THEN UNCHANGED <<timer_list_, crashed>>
       ELSE IF c = Head(timer_list_) THEN crashed' = TRUE /\ UNCHANGED timer_list_
       ELSE /\ timer_list_' = Append(Without(timer_list_, c), c)
            /\ UNCHANGED crashed
    /\ UNCHANGED <<timer, fdOf>>

\* TimerList::del_timer, and what tick does with the head.
DeleteTimer(c) ==
    /\ timer_list_' = Without(timer_list_, c)
    /\ fdOf' = [fdOf EXCEPT ![c] = NoFd] /\ missed' = [missed EXCEPT ![c] = 0]
    /\ UNCHANGED timer

\* ThreadPool::append; its result is ignored.
Refuses    == Len(workqueue_) > max_requests_
Enqueue(f) == workqueue_' = IF Refuses THEN workqueue_ ELSE Append(workqueue_, f)

Done(event) == batch' = batch \ {event}
Goto(label) == pc' = label

\* The locals of the handler go out of scope.
Leave(label) == Goto(label) /\ mfd' = NoFd /\ loaded' = 0

\* Server::close_conn, up to the reading of user_count_ in Utils::cb_func.
StartClose(f, label) ==
    /\ CloseFd(f)
    /\ loaded' = user_count_ /\ mfd' = f /\ Goto(label)

-----------------------------------------------------------------------------
(* The event loop.                                                         *)

\* Mutant of EpollWait: the events are not EPOLLONESHOT.
EpollWaitLevel ==
    /\ pc = "wait"
    /\ \E ready \in SUBSET {f \in Open : armed[f] # "off"}, client \in BOOLEAN :
       \E hup \in SUBSET ready :
          /\ batch' = {<<f, IF f \in hup THEN "hup" ELSE armed[f]>> : f \in ready}
                      \cup (IF client THEN {Listen} ELSE {})
                      \cup (IF alarm = "sent" THEN {Signal} ELSE {})
          /\ batch' # {}
    /\ Goto("loop")
    /\ UNCHANGED <<kernel, slots, user_count_, timers, alarm, timeout, mfd, loaded, pool, ghosts>>

\* epoll_wait: some of the armed descriptors are ready, the alarm's byte is
\* reported if it is in the pipe, and a client may be waiting for accept.
EpollWait ==
    /\ pc = "wait"
    /\ \E ready \in SUBSET {f \in Open : armed[f] # "off"}, client \in BOOLEAN :
       \E hup \in SUBSET ready :
          /\ batch' = {<<f, IF f \in hup THEN "hup" ELSE armed[f]>> : f \in ready}
                      \cup (IF client THEN {Listen} ELSE {})
                      \cup (IF alarm = "sent" THEN {Signal} ELSE {})
          /\ batch' # {}
          /\ armed' = [f \in Fds |-> IF f \in ready THEN "off" ELSE armed[f]]
    /\ Goto("loop")
    /\ UNCHANGED <<owner, slots, user_count_, timers, alarm, timeout, mfd, loaded, pool, ghosts>>

\* The event of the listening socket is handled; in ET mode, in a loop.
Accepting == pc = "accept" \/ (pc = "loop" /\ Listen \in batch)

\* accept_client_data: accept, and HttpConn::init up to the reading of
\* user_count_.  Any free descriptor: the log, files and mysql use some too.
Accept ==
    /\ Accepting /\ user_count_ < MAX_FD
    /\ \E f \in Fds \ Open :
       LET unused == (Conns \ Active) \ {owner[g] : g \in Fds}
           c == CHOOSE c \in unused : TRUE
       IN /\ unused # {}
          /\ owner' = [owner EXCEPT ![f] = c]
          /\ armed' = [armed EXCEPT ![f] = "in"]
          /\ sockfd_' = [sockfd_ EXCEPT ![f] = f]
          /\ timer' = [timer EXCEPT ![f] = c] /\ fdOf' = [fdOf EXCEPT ![c] = f]
          /\ mfd' = f
          /\ mixed' = (mixed \/ HasTask(f))
    /\ loaded' = user_count_
    /\ Done(Listen)
    /\ Goto("init")
    /\ UNCHANGED <<flags, user_count_, timer_list_, missed, alarm, timeout,
                   pool, failures, crashed>>

\* The rest of HttpConn::init, and of init_timer.
InitTimer ==
    /\ pc = "init"
    /\ user_count_' = loaded + 1
    /\ ResetFlags(mfd)
    /\ timer_list_' = Append(timer_list_, timer[mfd])
    /\ missed' = [missed EXCEPT ![timer[mfd]] = 0]
    /\ Leave(IF listenfd_trig_mode_ THEN "accept" ELSE "loop")
    /\ UNCHANGED <<kernel, sockfd_, timer, fdOf, alarm, batch, timeout, pool, ghosts>>

\* accept fails, or finds the server busy and closes the new descriptor.  In
\* the loop of ET mode this is the way out.
AcceptNone ==
    /\ Accepting
    /\ Done(Listen)
    /\ Leave("loop")
    /\ UNCHANGED <<kernel, slots, user_count_, timers, alarm, timeout, pool, ghosts>>

\* The client has closed, or the socket has failed.
Hup(f) ==
    /\ pc = "loop" /\ <<f, "hup">> \in batch
    /\ Done(<<f, "hup">>)
    /\ StartClose(f, "close")
    /\ UNCHANGED <<slots, user_count_, timers, alarm, timeout, pool, ghosts>>

\* recv_signal: the pipe holds SIGALRM.
RecvSignal ==
    /\ pc = "loop" /\ Signal \in batch
    /\ Done(Signal)
    /\ timeout' = TRUE /\ alarm' = "none"
    /\ UNCHANGED <<kernel, slots, user_count_, timers, pc, mfd, loaded, pool, ghosts>>

\* read_actor, proactor: read_once succeeds, the slot is queued.
ReadActor(f) ==
    /\ pc = "loop" /\ ~actor_pattern_ /\ <<f, "in">> \in batch
    /\ Usable(f)
    /\ Enqueue(f)
    /\ Delay(timer[f])
    /\ Done(<<f, "in">>)
    /\ UNCHANGED <<kernel, slots, user_count_, alarm, pc, timeout, mfd, loaded,
                   wpc, task, wloaded, failures, mixed>>

\* write_actor, proactor: write comes back with TRUE.  Something is left to
\* be sent, or all is sent and the connection is kept alive.
WriteActorOn(f) ==
    /\ pc = "loop" /\ ~actor_pattern_ /\ <<f, "out">> \in batch
    /\ \/ Modify(f, "out") /\ UNCHANGED flags
       \/ Modify(f, "in") /\ ResetFlags(f)
    /\ Delay(timer[f])
    /\ Done(<<f, "out">>)
    /\ UNCHANGED <<owner, sockfd_, user_count_, alarm, pc, timeout, mfd, loaded,
                   pool, failures, mixed>>

\* read_once or write comes back with FALSE.
ActorCloses(f, event) ==
    /\ pc = "loop" /\ ~actor_pattern_ /\ event \in {"in", "out"} /\ <<f, event>> \in batch
    /\ Done(<<f, event>>)
    /\ StartClose(f, "close")
    /\ UNCHANGED <<slots, user_count_, timers, alarm, timeout, pool, ghosts>>

\* read_actor and write_actor, reactor: the worker is to do it.
Dispatch(f, event) ==
    /\ pc = "loop" /\ actor_pattern_ /\ event \in {"in", "out"} /\ <<f, event>> \in batch
    /\ Delay(timer[f])
    /\ state_' = IF Refuses THEN state_ ELSE [state_ EXCEPT ![f] = (event = "out")]
    /\ Enqueue(f)
    /\ Done(<<f, event>>)
    /\ mfd' = f /\ Goto("spin")
    /\ UNCHANGED <<kernel, sockfd_, timer_flag_, improve_, user_count_, alarm, timeout,
                   loaded, wpc, task, wloaded, failures, mixed>>

\* Mutant of SpinOut: improve_ is not reset.
SpinOutOnly ==
    /\ pc = "spin" /\ improve_[mfd] /\ ~timer_flag_[mfd]
    /\ Leave("loop")
    /\ UNCHANGED <<kernel, slots, user_count_, timers, alarm, batch, timeout,
                   pool, ghosts>>

\* The main thread spins until the worker has set improve_.
SpinOut ==
    /\ pc = "spin" /\ improve_[mfd] /\ ~timer_flag_[mfd]
    /\ improve_' = [improve_ EXCEPT ![mfd] = FALSE]
    /\ Leave("loop")
    /\ UNCHANGED <<kernel, sockfd_, state_, timer_flag_, user_count_, timers, alarm, batch,
                   timeout, pool, ghosts>>

\* A turn of the loop.
Spin == pc = "spin" /\ ~improve_[mfd] /\ UNCHANGED vars

SpinCloses ==
    /\ pc = "spin" /\ improve_[mfd] /\ timer_flag_[mfd]
    /\ StartClose(mfd, "spin_close")
    /\ UNCHANGED <<slots, user_count_, timers, alarm, batch, timeout, pool, ghosts>>

\* Mutant of EndClose: the timer is forgotten.
EndCloseKeepingTimer ==
    /\ pc \in {"close", "spin_close"}
    /\ user_count_' = loaded - 1
    /\ Leave("loop")
    /\ UNCHANGED <<kernel, slots, timers, alarm, batch, timeout, pool, ghosts>>

\* Mutant of EndClose: the first timer goes, whoever's it is.
EndCloseDeletingHead ==
    /\ pc \in {"close", "spin_close"}
    /\ user_count_' = loaded - 1
    /\ DeleteTimer(Head(timer_list_))
    /\ Leave("loop")
    /\ UNCHANGED <<kernel, slots, alarm, batch, timeout,
                   pool, ghosts>>

\* The rest of cb_func, del_timer, and what follows close_conn in the spin.
EndClose ==
    /\ pc \in {"close", "spin_close"}
    /\ user_count_' = loaded - 1
    /\ DeleteTimer(timer[mfd])
    /\ IF pc = "spin_close"
       THEN /\ timer_flag_' = [timer_flag_ EXCEPT ![mfd] = FALSE]
            /\ improve_' = [improve_ EXCEPT ![mfd] = FALSE]
       ELSE UNCHANGED <<timer_flag_, improve_>>
    /\ Leave("loop")
    /\ UNCHANGED <<kernel, sockfd_, state_, alarm, batch, timeout,
                   pool, ghosts>>

EndBatch ==
    /\ pc = "loop" /\ batch = {}
    /\ Goto(IF timeout THEN "tick" ELSE "wait")
    /\ UNCHANGED <<kernel, slots, user_count_, timers, alarm, batch, timeout,
                   mfd, loaded, pool, ghosts>>

-----------------------------------------------------------------------------
(* timer_handler: TimerList::tick, then alarm.                             *)

\* Without SlowTasks the timer that was delayed for a request has not expired
\* when the request is done.
MayFire(c) == SlowTasks \/ timer[fdOf[c]] # c \/ ~HasTask(fdOf[c])

\* Mutant of Fire: the timer is deleted, but cb_func is not called.
FireSilently ==
    /\ pc = "tick" /\ timer_list_ # <<>> /\ MayFire(Head(timer_list_))
    /\ DeleteTimer(Head(timer_list_))
    /\ UNCHANGED <<kernel, slots, user_count_, alarm, loop, pool, ghosts>>

\* The head has expired: cb_func, up to the reading of user_count_.
Fire ==
    /\ pc = "tick" /\ timer_list_ # <<>>
    /\ LET c == Head(timer_list_)
       IN MayFire(c) /\ StartClose(fdOf[c], "fired") /\ DeleteTimer(c)
    /\ UNCHANGED <<slots, user_count_, alarm, batch, timeout, pool, ghosts>>

EndFire ==
    /\ pc = "fired"
    /\ user_count_' = loaded - 1
    /\ Leave("tick")
    /\ UNCHANGED <<kernel, slots, timers, alarm, batch, timeout, pool, ghosts>>

\* The head, if there is one, has not expired.
HeadIsEarly ==
    timer_list_ # <<>> =>
        LET c == Head(timer_list_) IN missed[c] < MaxMissed \/ ~MayFire(c)

\* Mutants of EndTick: expired timers stay; the alarm is not set again.
EndTickLate ==
    /\ pc = "tick"
    /\ missed' = [c \in Conns |-> IF c \in Active THEN missed[c] + 1 ELSE missed[c]]
    /\ timeout' = FALSE /\ alarm' = "scheduled"
    /\ Goto("wait")
    /\ UNCHANGED <<kernel, slots, user_count_, timer, timer_list_, fdOf, batch, mfd, loaded, pool, ghosts>>

EndTickForGood ==
    /\ pc = "tick" /\ HeadIsEarly
    /\ missed' = [c \in Conns |-> IF c \in Active /\ missed[c] < MaxMissed
                                  THEN missed[c] + 1 ELSE missed[c]]
    /\ timeout' = FALSE
    /\ Goto("wait")
    /\ UNCHANGED <<kernel, slots, user_count_, timer, timer_list_, fdOf, alarm, batch,
                   mfd, loaded, pool, ghosts>>

EndTick ==
    /\ pc = "tick" /\ HeadIsEarly
    /\ missed' = [c \in Conns |-> IF c \in Active /\ missed[c] < MaxMissed
                                  THEN missed[c] + 1 ELSE missed[c]]
    /\ timeout' = FALSE /\ alarm' = "scheduled"
    /\ Goto("wait")
    /\ UNCHANGED <<kernel, slots, user_count_, timer, timer_list_, fdOf, batch,
                   mfd, loaded, pool, ghosts>>

-----------------------------------------------------------------------------
(* The workers: ThreadPool::run, with HttpConn::process.                   *)

\* What the main thread and the kernel's side keep while a worker runs.
mine == <<user_count_, timers, alarm, loop>>
WGoto(w, label) == wpc' = [wpc EXCEPT ![w] = label] /\ UNCHANGED task

\* The end of the worker's loop; the locals go out of scope.
WDone(w) ==
    /\ wpc' = [wpc EXCEPT ![w] = "idle"]
    /\ task' = [task EXCEPT ![w] = NoFd] /\ wloaded' = [wloaded EXCEPT ![w] = 0]

Take(w) ==
    /\ wpc[w] = "idle" /\ workqueue_ # <<>>
    /\ task' = [task EXCEPT ![w] = Head(workqueue_)]
    /\ workqueue_' = Tail(workqueue_)
    /\ wpc' = [wpc EXCEPT ![w] = IF ~actor_pattern_ THEN "process"
                                 ELSE IF state_[Head(workqueue_)] THEN "write" ELSE "read"]
    /\ UNCHANGED <<kernel, slots, mine, wloaded, ghosts>>

\* Mutant of WorkerReads: a failed read does not set improve_.
WorkerReadsQuietly(w) ==
    /\ wpc[w] = "read"
    /\ \/ /\ Usable(task[w]) /\ WGoto(w, "process")
          /\ improve_' = [improve_ EXCEPT ![task[w]] = TRUE]
       \/ WGoto(w, "flag") /\ UNCHANGED improve_
    /\ UNCHANGED <<kernel, sockfd_, state_, timer_flag_, mine, workqueue_, wloaded, ghosts>>

\* read_once succeeds, or not; improve_ is set before timer_flag_ is.
WorkerReads(w) ==
    /\ wpc[w] = "read"
    /\ improve_' = [improve_ EXCEPT ![task[w]] = TRUE]
    /\ \/ Usable(task[w]) /\ WGoto(w, "process")
       \/ WGoto(w, "flag")
    /\ UNCHANGED <<kernel, sockfd_, state_, timer_flag_, mine, workqueue_, wloaded, ghosts>>

WorkerFlags(w) ==
    /\ wpc[w] = "flag"
    /\ timer_flag_' = [timer_flag_ EXCEPT ![task[w]] = TRUE]
    /\ WDone(w)
    /\ UNCHANGED <<kernel, sockfd_, state_, improve_, mine, workqueue_, ghosts>>

\* write comes back with TRUE: something is left, or the connection is kept.
\* modify_fd, the flags and improve_ are one step, here and in WorkerEnds: the
\* main thread spins on this slot and looks at nothing but improve_ until it is
\* set, and what a late worker may do to the slot meanwhile (set timer_flag_,
\* forget the descriptor, arm it) it may as well do just before or just after.
WorkerWrites(w) ==
    LET f == task[w] IN
    /\ wpc[w] = "write"
    /\ \/ Modify(f, "out") /\ UNCHANGED <<state_, timer_flag_>>
       \/ /\ Modify(f, "in")
          /\ state_' = [state_ EXCEPT ![f] = FALSE]
          /\ timer_flag_' = [timer_flag_ EXCEPT ![f] = FALSE]
    /\ improve_' = [improve_ EXCEPT ![f] = TRUE]
    /\ WDone(w)
    /\ UNCHANGED <<owner, sockfd_, mine, workqueue_, ghosts>>

\* write comes back with FALSE: it failed, or all is sent and (armed for the
\* next request) the connection is to be closed.
WorkerEnds(w) ==
    LET f == task[w] IN
    /\ wpc[w] = "write"
    /\ Modify(f, "in") \/ UNCHANGED armed
    /\ timer_flag_' = [timer_flag_ EXCEPT ![f] = TRUE]
    /\ improve_' = [improve_ EXCEPT ![f] = TRUE]
    /\ WDone(w)
    /\ UNCHANGED <<owner, sockfd_, state_, mine, workqueue_, ghosts>>

\* process: the request is incomplete, or there is an answer to be sent.
Process(w) ==
    /\ wpc[w] = "process"
    /\ Modify(task[w], "in") \/ Modify(task[w], "out")
    /\ WDone(w)
    /\ UNCHANGED <<owner, slots, mine, workqueue_, ghosts>>

\* process_write has no answer (NO_RESOURCE): HttpConn::close_conn, then
\* modify_fd all the same.  remove_fd acts on the descriptor of the slot ...
ProcessFails(w) ==
    /\ wpc[w] = "process" /\ failures < MaxFailures
    /\ failures' = failures + 1
    /\ IF sockfd_[task[w]] = NoFd THEN WDone(w) /\ UNCHANGED kernel
       ELSE /\ WGoto(w, "closed") /\ UNCHANGED wloaded
            /\ CloseFd(sockfd_[task[w]])
    /\ UNCHANGED <<slots, mine, workqueue_, crashed, mixed>>

\* ... the slot forgets it, user_count_ is read ...
ForgetFd(w) ==
    /\ wpc[w] = "closed"
    /\ sockfd_' = [sockfd_ EXCEPT ![task[w]] = NoFd]
    /\ wloaded' = [wloaded EXCEPT ![w] = user_count_]
    /\ WGoto(w, "count")
    /\ UNCHANGED <<kernel, flags, mine, workqueue_, ghosts>>

\* ... and written ...
CountDown(w) ==
    /\ wpc[w] = "count"
    /\ user_count_' = wloaded[w] - 1
    /\ WGoto(w, "arm")
    /\ UNCHANGED <<kernel, slots, timers, alarm, loop, workqueue_, wloaded, ghosts>>

\* ... and modify_fd finds -1, unless the slot has a new connection.
ArmClosed(w) ==
    /\ wpc[w] = "arm"
    /\ Modify(task[w], "out")
    /\ WDone(w)
    /\ UNCHANGED <<owner, slots, mine, workqueue_, ghosts>>

-----------------------------------------------------------------------------
\* SIGALRM goes off; the handler writes into the pipe.
Alarm ==
    /\ alarm = "scheduled" /\ alarm' = "sent"
    /\ UNCHANGED <<kernel, slots, user_count_, timers, loop, pool, ghosts>>

Handle(f) == \/ Hup(f) \/ ReadActor(f) \/ WriteActorOn(f)
             \/ \E event \in {"in", "out"} : ActorCloses(f, event) \/ Dispatch(f, event)

MainStep == \/ InitTimer \/ RecvSignal \/ SpinOut \/ SpinCloses \/ EndClose \/ EndBatch
            \/ Fire \/ EndFire \/ EndTick \/ \E f \in Fds : Handle(f)

WorkerStep(w) == \/ Take(w) \/ WorkerReads(w) \/ WorkerFlags(w) \/ WorkerWrites(w)
                 \/ WorkerEnds(w) \/ Process(w) \/ ForgetFd(w) \/ CountDown(w) \/ ArmClosed(w)

\* After a crash the program is gone.
Gone == crashed /\ UNCHANGED vars

Next == \/ Gone
        \/ ~crashed /\ ( \/ MainStep \/ Spin \/ EpollWait \/ Accept \/ AcceptNone \/ Alarm
                         \/ \E w \in Workers : WorkerStep(w) \/ ProcessFails(w) )

Spec == Init /\ [][Next]_vars

\* The threads run on, the alarm goes off and its byte is reported.  (Clients
\* need not come or go, nor send anything; a loop of accept calls ends because
\* descriptors do.)
FairSpec ==
    /\ Spec
    /\ WF_vars(~crashed /\ (MainStep \/ AcceptNone))
    /\ WF_vars(~crashed /\ Alarm)
    /\ WF_vars(~crashed /\ EpollWait)
    /\ \A w \in Workers : WF_vars(~crashed /\ WorkerStep(w))

-----------------------------------------------------------------------------
(* Properties.                                                             *)

\* Every open connection has a timer of its own in the list, whatever was
\* closed by whom before it: no connection can stay open for ever unwatched.
EveryOpenWatched ==
    \A f \in Open : ~(pc = "init" /\ mfd = f) =>
        /\ owner[f] = timer[f]
        /\ timer[f] \in Active /\ fdOf[timer[f]] = f

\* The timer pointer that a handler is about to use is that of a timer in the
\* list, never of a deleted one: of the events to come in the batch, none is
\* for a descriptor whose timer has gone.
NoDanglingTimer ==
    /\ pc = "loop" => \A e \in batch \ {Listen, Signal} :
          timer[e[1]] \in Active /\ fdOf[timer[e[1]]] = e[1]
    /\ pc \in {"spin", "close", "spin_close"} =>
          timer[mfd] \in Active /\ fdOf[timer[mfd]] = mfd

Tasks(f) == Cardinality({i \in DOMAIN workqueue_ : workqueue_[i] = f})
            + Cardinality(InWork(f))

\* EPOLLONESHOT keeps threads apart: a slot is queued or worked on at most
\* once, and while it is its descriptor is not armed and no event for it is
\* waiting to be handled.  (Unless the slot was reused under a worker; and the
\* worker that writes arms the descriptor one step before it is done.)
OneTask ==
    ~mixed => \A f \in Fds : HasTask(f) =>
        /\ Tasks(f) = 1
        /\ armed[f] = "off"
        /\ \A e \in batch : e[1] # f

\* Whenever the main thread waits, user_count_ is the number of open
\* connections, which never exceeds MAX_FD, and the timer list has the timers
\* of the open connections and no others; as long as no request failed.
BooksBalance ==
    failures = 0 /\ pc = "wait" =>
        /\ user_count_ = Cardinality(Open) /\ user_count_ <= MAX_FD
        /\ Active = {owner[f] : f \in Open}
        /\ Len(timer_list_) = Cardinality(Open)

\* No slot is given to a new connection while the last one's request is
\* queued or in work, as long as no request fails and none is slow.
SlotNotShared == ~SlowTasks /\ failures = 0 => ~mixed

\* In a reactor the main thread waits for the worker, so the queue has at
\* most one slot, is never full, and no request is refused.
ReactorQueue == actor_pattern_ => Len(workqueue_) <= 1

\* A connection never stays disarmed for ever: it is armed again, or closed.
\* (The timer sees to it when a read fails or append refuses the slot.)
NoneStuck == \A f \in Fds : []<>(f \notin Open \/ armed[f] # "off" \/ crashed)

\* The main thread does not spin for ever in read_actor or write_actor.
SpinEnds == []<>(pc # "spin" \/ crashed)

\* The comment of cb_func says that it closes the inactive connection: the
\* timer that fires is the one of the connection that is closed.  (Here, while
\* the workers are idle.)
FireOwn ==
    [][Fire /\ (\A w \in Workers : wpc[w] = "idle") =>
          LET c == Head(timer_list_) IN owner[fdOf[c]] \in {NONE, c}]_vars
===============================================================================
