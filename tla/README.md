# TinyWebServer-Cpp: a verification project

TLA+ models of a small multi-threaded HTTP server (epoll, a thread pool, a
timer list, a pool of MySQL connections, an asynchronous log), the TLC runs
that check them, and theorems that the TLA+ proof system checks.  Paths such as
`server/server.cc` are those of the repository.

Contents: [1 the system](#1-the-system), [2 modules](#2-the-modules-and-the-code),
[3 runs](#3-the-runs-and-what-they-show), [4 bounds](#4-bounds),
[5 fairness](#5-fairness), [6 proofs](#6-proofs),
[7 disagreements found](#7-where-the-code-and-its-comments-disagree),
[8 not modelled](#8-what-is-not-modelled), [9 plan](#9-plan).

## 1 The system

### Threads

* the **main thread** (`Server::event_loop`): waits for epoll, accepts clients,
  handles the events of connections, signals and timers;
* the **workers** (`ThreadPool::run`): take connection slots from a queue, parse
  the request, ask the database, prepare the answer; in the reactor they read
  and write as well;
* the **log thread** (`Log::async_write_log`), in asynchronous mode;
* the **signal handler** (`Utils::sig_handler`), which only writes a byte into a
  pipe that epoll watches.

Two options change the protocol between them: `actor_pattern_` (proactor: the
main thread reads and writes; reactor: the worker does, and the main thread
spins until the worker has set a flag), and `trig_mode_` (level or edge
triggered, for the listening socket and for the connections).

### Components

| component | state | operations | who calls it |
|---|---|---|---|
| timer list (`timer/`) | a doubly linked list sorted by expiry: `head_`, `tail_`, `next`, `pre` | `add_timer`, `modify_timer`, `del_timer`, `tick`, the destructor | the main thread only |
| thread pool (`thread/`) | `workqueue_` under `queue_mutex_`; `queue_sem_` counts it | `append` (two forms), `run` | main thread; workers |
| connection pool (`cgi-mysql/`) | `conn_list_` under a mutex, `sem_`, two counters | `get_conn`, `rel_conn`, through `ConnRaii` | workers |
| event loop and connections (`server/`, `utils/`) | `users_`, `users_timer_` (indexed by descriptor), the epoll set, `user_count_` | `accept_client_data`, `read_actor`, `write_actor`, `close_conn`, `recv_signal`, `timer_handler`, `cb_func` | main thread; workers through `HttpConn` |
| HTTP connection (`http/`) | a slot: `sockfd_`, `state_`, `timer_flag_`, `improve_`, the buffers, the parser's state, the iovecs and the mapped file | `init`, `read_once`, `process` (`process_read`, `do_request`, `process_write`), `write`, `close_conn` | main thread and workers, without a lock |
| users (`http/http_conn.cc`) | the map `users`, loaded from the database at the start; `mutex`; the table `user` | login and registration in `do_request`, `init_mysql_result` | workers |
| log (`log/`) | the open file, `count_`, `date_`, a queue | `write_log`, `async_write_log` | every thread |
| blocking queue (`queue/`) | a circular array under a mutex, a condition variable | `push`, `pop` with and without timeout, `clear`, `full`, `front`, `back` | the log |
| locks (`lock/`) | wrappers of `sem_t`, `pthread_mutex_t`, `pthread_cond_t` | | everybody |
| configuration (`config/`, `main.cc`) | the options | `parse_arg` | once, at the start |

### What is hard

* **A slot is not a connection.**  The queue holds pointers into `users_`, which
  is indexed by descriptor.  A worker may close a connection
  (`HttpConn::close_conn`) while its timer stays in the list and
  `users_timer_` still points to it; the descriptor, the slot and the timer
  pointer then belong to different connections.
* **Two writers of `user_count_`**, and of the flags `improve_` and
  `timer_flag_`, none of them atomic.
* **EPOLLONESHOT is the only thing that keeps two threads off a slot**: every
  path must arm the descriptor again, or the connection is stuck, and no path
  may do so too early.
* **Ignored results**: of `append`, of `sem_wait` (which a signal interrupts:
  the handlers are installed without `SA_RESTART`), of `push`.
* **Check, then act**: the size of a list that is read before the semaphore,
  `full` before `push`, the users map before its lock.
* **Bytes come in pieces**, in both directions: the parser goes on where the last
  piece ended, `write` where the last `writev` stopped, with counters that
  must agree with the buffers, the iovecs and the file.
* **Two copies of the users**, a map and a table, which are changed one after the
  other, read without the lock, and survive a restart only in the table.
* **Pointers**: the timer list has a case for the head, the tail, a single timer
  and an empty list in every operation.
* **Wall clock**: expiry times are absolute times of a clock that may be set.

`PROJECT.json` lists every such hazard at its line, with the properties that
would catch it.

### What makes each component correct

* timer list: the links are consistent after every operation, the list is
  sorted, `tick` fires exactly the timers that are due, nothing leaks.
* thread pool: every accepted request is processed once, in order of arrival,
  and none is stranded in the queue.
* connection pool: a connection is with one thread at a time, none is lost, and
  a thread that asks gets one.
* event loop: every open connection has its own timer, no handler uses a deleted
  timer, one task per slot, the counter is right, nothing is disarmed for ever,
  and the reactor's hand-shake ends.
* HTTP connection: what is parsed does not depend on how the bytes were cut; the
  client gets the bytes of each answer in order and once; a mapped file is
  unmapped, with its own size; no thread stays with a slot for ever.
* users: the map and the table agree; who was told to be registered stays so,
  across restarts; concurrent requests look as if they came one after the other.
* blocking queue: a bounded queue, first in first out, in which no consumer
  sleeps beside an item.
* log: every line is written once, and files are changed when they are full.

## 2 The modules and the code

| module | code | form |
|---|---|---|
| `TimerSet` | what `timer/timer.h` promises | abstract: a set of timers with expiries |
| `TimerList` | `timer/timer.cc`, `delay_timer` and `init_timer` of `server.cc` | pointers as functions `next`, `pre`; implements `TimerSet` |
| `ThreadPool` | `thread/thread_pool.h`, `Sem` | queue, semaphore, one program counter per worker |
| `ConnPool` | `cgi-mysql/mysql_conn.cc`, `Sem` | list, semaphore, counters, one program counter per thread |
| `Server` | `server/server.cc`, `utils/utils.cc`, the slots of `http/http_conn.cc`, the loop of `thread_pool.h`, and a kernel (external) | composes the main thread, the workers, epoll, the alarm and the timer list |
| `HttpParse` | `read_once`, `parse_line`, `process_read` and what it calls | buffer, indices, one action per turn of the loop; a reference parser |
| `HttpWrite` | the file part of `do_request`, `process_write`, `write`, `unmap` | iovecs, counters, mappings; one action per `writev` |
| `Delivery` | what a client expects of the answers on a connection | abstract: the bytes that have come |
| `HttpConn` | a slot of `users_` through its connections, `cb_func` | composes `HttpParse` and `HttpWrite`; implements `Delivery` |
| `Accounts` | what the login pages promise | abstract: one account per name, requests that take effect at one moment |
| `Registration` | login and registration in `do_request`, `init_mysql_result` | map, table, mutex, one program counter per worker; implements `Accounts` |
| `BoundedQueue` | what `queue/blocking_queue.h` promises | abstract: a sequence |
| `BlockingQueue` | `queue/blocking_queue.h`, `Cond` | array, indices, waiting threads; implements `BoundedQueue` |
| `Log` | `log/log.cc` | writers and the log thread, one step per lock section, but one per read of the shared buffer while the file is changed |
| `MC...` | | model values and symmetry for TLC |
| `TimerListProofs`, `ThreadPoolProofs`, `ConnPoolProofs`, `ServerProofs`, `HttpConnProofs`, `RegistrationProofs`, `BlockingQueueProofs`, `LogProofs` | | theorems |

**Granularity.**  What is done under one lock is one step, for no other thread
can see it half done; what is read without a lock is a step of its own, under a
lock that the other side does not take too (`Log`).
Semaphore operations are steps.  `user_count_++` and `user_count_--` are two
steps, a read and a write, because two threads execute them.  The main thread's
handlers are split where a worker or the kernel can come in between.  A mutex
needs no variable then; a condition variable does (who waits, who was woken).

**TimerList.**  `add_timer` with a walk through the list is several steps
(`InitTimer`, `WalkOn`, `WalkInsert`, `WalkAppend`), so that a cycle would show
as a walk that does not end.  `tick` fires one timer per step and looks at the
next pointer.  A null pointer that is used sets `fault`, after which the program
is gone.  `Lifetime` is `3 * TIMESLOT`.

**ThreadPool.**  A request is the number of the call of `append` that brought
it, so order and multiplicity can be stated.  `append` is two steps, the locked
section and the post; a worker waits, locks and takes, works.  With
`Interrupts`, a wait may return without a token; `run` ignores that and finds
the queue empty, perhaps.

**ConnPool.**  `get_conn` looks at the size of the list (`FindEmpty`,
`FindSome`), waits, and takes the front under the lock; `rel_conn` puts back
and posts.  `pop_front` of an empty list sets `fault`.

**Server.**  A connection has a number only to tell it from later ones on the
same descriptor.  `owner` and `armed` are the kernel: which connection a
descriptor belongs to, and for what epoll would report it.  `EpollWait` takes
a batch of events and disarms their descriptors (EPOLLONESHOT); the batch is
handled in any order, as epoll promises none.  `accept` may return any free
descriptor, since files, the log and the database use some too; `accept` and
`epoll_ctl` of the new descriptor are one step.  The outcome of
`recv`, `writev`, parsing and `process_write` is free within what the state of
the slot allows.  `timer_list_` is here the sequence of timers in expiry order;
that the linked list behaves as one, except for moving the head, is what
`TimerList` shows, and moving the head of a longer list crashes here as it does
there.  `missed` counts ticks since a timer was set.  `mixed` records that a
slot was given to a new connection while a worker still held it: some
properties are claimed only until then, and say so.  `SlowTasks` says whether
a timer may expire while the request it was delayed for is queued or in work.
The reactor's spinning thread reads `improve_` anew in every turn, as the
default build, which does not optimise, does; an optimising compiler may hoist
the read of a plain `bool`.  `append` may refuse a slot; in the reactor it sets
`state_` before it looks whether there is room, only for a slot that it takes.

**HttpParse.**  The buffer holds words: CR, LF, and otherwise texts without a
line end, since inside of one nothing depends on where a piece ends.  `ReadOnce`
appends a piece of the stream of any length (`BufferFull`: the buffer has no
room, and edge triggered the 0 of `recv` is taken for the end).  A turn of the
loop of `process_read` is an action: a line for each state of the parser, the
body, or no line.  `parse_line`'s scan is the least position of a line end at or
behind `checked_idx_` (`Break`); `EndLine` writes the two `\0` into the buffer, as
the code does, so that a later step that looked there again would see them.
LINE_OPEN and LINE_BAD make no difference to `process_read`: both wait for more.
`content_` is a position in the buffer; `ContentText` is the string that lies there
when `do_request` reads it, up to the first `\0` (`PutNul`).  A Content-length is any
integer that `atol` makes of the header: a negative one passes the test of
`parse_content` at once.
`Verdict`, `Declared`, `Body` and `KeepAlive` are the reference: they look
at all bytes of the request at once, without a state.

**HttpWrite.**  `do_request` finds no file (`NoFile`), or maps one (`File`); an
empty file, or one that `open` or `mmap` fails for, is mapped nowhere, and
`file_address_` is then MAP_FAILED, from where `writev` takes no byte.  Bytes are
pairs of a buffer and a position, so that a wrong, doubled or missing byte can be
told from the right one, before the beginning of the file too.  `Writev` takes any
number of the bytes that the iovecs offer; `Iovecs` is the arithmetic of
`write` after it.  `mapped` is the kernel: how much is mapped where.

**HttpConn.**  The steps of one slot, which belong to one thread at a time
(`Server` shows how far).  `CbFunc` closes it from outside while it waits for
input or output; `Accept` is `HttpConn::init` for the next connection, which
resets the parser and the counters and leaves the mapping and the iovecs as they
are.  `cuts` counts how often `writev` stopped within the headers of
the current answer, `torn` says that a part of a body was seen, `abandoned` counts
the connections closed from outside with a file mapped.

**Registration.**  A lookup in `users` takes no mutex; an insertion holds it
from before the query until after the map was changed.  `users.insert` is two
steps, and a lookup in between is a data race: it may miss any name and may
or may not find the new one (`Found`); `operator[]` on a name it misses makes an
empty entry (`Compare`).  The query may fail, which the code notices only after it
has changed the map; or the row is inserted and only the answer is lost.  `Restart` may come between any two steps and fills
the map from the table.  `told` is what clients were told, `doubtful` the names for
which the query failed and the map or the table took the row, that have two rows, or
that were looked up while the map was changed.

**BlockingQueue.**  A consumer that waits holds no mutex; a broadcast makes it
`woken`, and it looks at the size again when it has the mutex.  Wake-ups
without a broadcast are included, as POSIX allows them.  The timed pop may
expire at any time.

**Log.**  `write_log` is: ask for the time; `localtime`, which writes a buffer
that all threads share; count the line (`CountLine`) and change the file; format (no
step, it changes nothing others see); look whether the queue is full; push or write.
The section that changes the file reads the shared buffer four times, and `localtime`
is called without its lock: so each read is a step, and another thread may set the
buffer in between (`CountLine`, `NameFile`, `Compare`, `OpenNewDay`).  While a thread
is in that section (`Locked`) the others cannot enter theirs.
A file is named by its day and suffix, a line by its thread and number.
`size` counts the lines written since the last `fopen`, which appends and may open a
file that is there; in which order is left out: `written` is a bag, which tells a
line that is written twice.

## 3 The runs and what they show

One run per component and question; a run checks the safety and the liveness
properties of its instance together where its size allows it.

| run | instance | what it shows |
|---|---|---|
| `timer_list` | three timers, a clock that advances and may be set back | after every sequence of operations the links are those of a doubly linked list of exactly the allocated timers; moving the head is the only operation that uses a null pointer; the insertion walk ends.  Until the clock is set back the list implements `TimerSet`: exactly the due timers fire |
| `thread_pool` | three workers, interrupted waits | no request is stranded, lost, doubled or overtaken, each is processed in the end |
| `conn_pool` | four threads, two connections, interrupted waits | no connection is shared, lost or stranded; until a wait is interrupted nobody pops from an empty list, however many threads pass the unlocked test.  As long as no more than two threads use the pool at a time, nobody gets `nullptr`, nobody pops from an empty list and nobody waits for ever |
| `server_proactor` | two workers, two descriptors, accept in a loop, a queue that refuses, one failing request | each open connection keeps its own timer, no deleted timer is used, one task per slot; until a request fails, counter, timers and open connections agree and slots are not shared |
| `server_reactor` | one worker, one failing request, timers that expire under a request in work | one task per slot; at most one slot in the queue; the main thread's spinning ends; a disarmed connection is armed again or closed |
| `http_conn` | twelve streams in every division, both trigger modes, two connections in one slot | what was parsed is what the reference says of all bytes at once, until a body comes in two pieces; the client gets each answer in order and once, until `writev` stops twice within the headers; mappings are released but for one per connection closed from outside; every thread is done with the slot in the end |
| `registration` | two workers, two names, queries that fail or seem to, restarts | map and table agree, who was told to be registered stays so, every request is answered; until a name is doubtful the requests take effect one at a time, as `Accounts` says |
| `blocking_queue` | three consumers, three places | the array implements `BoundedQueue`, nobody sleeps beside an item, the first item is taken in the end |
| `log` | two threads, a queue for one line, a midnight | each line is in one place and written in the end or refused by `push`; how many lines can come between two calls of `fopen`, and on the first day into one file |
| `timer_list_head`, `server_wrong_timer`, `http_body` | | violations: see section 7 |

Some properties carry a condition, because the code breaks the unconditional
claim; the condition names the event after which it no longer holds:
`clock = "forward"` (the wall clock was never set back), `peak <= max_conn`
(`peak` is a history variable: the most threads that used the pool at one
time), `failures = 0` (no `process_write` has failed), `~mixed` (no slot was
reused under a worker), `~torn` (no body came in two pieces), `cuts <= 1`,
`abandoned` in `MappingsAccounted`, and `doubtful` names in `Registration`.  Each
run goes on beyond that event, so both sides are explored.

Every property of a passing run has a mutant in `PROJECT.json`: a plausible bug
in one definition under which TLC finds the property violated.  The mutants
stand in the modules, before the definition they replace.

## 4 Bounds

* **TimerList**: three timers give every case of head, tail, inner and single
  timer; `MaxTime` 4 with a lifetime of 3 gives equal, later and expired times.
  The theorems cover any number.
* **ThreadPool**: three workers race for one request and for one token;
  `max_requests_` is 2 and six appends fill it, are refused, and fill it again.
  `MaxAppends` bounds the run; where the system stops there for want of work,
  deadlock is not checked.
* **ConnPool**: four threads and two connections: runs in which one, two (as many
  as connections), three or four threads use the pool at a time;
  `MaxInterrupts` bounds the interrupted waits, which otherwise raise the
  surplus without limit.
* **Server**: two descriptors and three connection
  numbers: a descriptor is reused while its old timer and an old worker still
  exist, and a second connection is affected.  `Conns` bounds the connections
  that are open or still have a timer at one time, not how many there are in
  all (two in `server_reactor`).  `MaxMissed` is 1 where the code has 3: a timer that
  survives at least one tick, and does not survive for ever, is what the
  properties tell apart; in `server_reactor` it is 0, and a timer expires at the
  next tick, also under a request in work (`SlowTasks`).  The theorems cover any
  number of each.  `MaxFailures` bounds `process_write`'s failures.  `max_requests_` is what
  connections outside the model leave of the queue: 0 makes `append` refuse the
  second slot.
* **HttpConn**: the twelve streams hold a request without headers, two requests one
  behind the other, bodies with and without a line end in them, a repeated
  Content-length, a negative one, wrong first lines, line ends without their other half, and one
  stream longer than the buffer of 13 words; each is cut in every way.  Headers
  and page are 3 bytes and files 0 to 2: enough for `writev` to stop twice within
  the headers and once within the file.  Two addresses and two connections
  (`MaxConns`): a mapping that the first leaves is there while the second maps
  another.
* **Registration**: two workers race for one name with two passwords, and for
  two names; requests and restarts are not bounded in number.
* **BlockingQueue**: three places, so that the indices run around with the
  queue neither empty nor full; three consumers race.
* **Log**: three lines of each of two threads (`MaxLines`) and two days (`MaxDay`);
  with `max_lines_` 2 a line may or may not begin a file, and a file that is not begun
  is seen soon; a queue for one line makes the race for the last place.

## 5 Fairness

A thread that can go on does so in the end (weak fairness of its steps): the
scheduler is assumed to be fair, and a mutex to be got in the end.  The
signal that `alarm` scheduled is delivered, and epoll reports in the end what
is there.  Nothing is assumed of clients (but in `HttpConn`, below): they need not connect,
send, close or read.  Nor of wake-ups without a broadcast, or of interrupts.  In `Server`,
fairness of the main thread includes the exit of the accept loop, because
descriptors are finite.  `Registration` needs strong fairness of `Lock`: a
mutex that becomes free again and again is given to each worker that waits for it
in the end; and `mysql_query` returns.  `HandlersEnd` in `HttpConn` needs strong
fairness of a `writev` that takes something, or fails where the file is not there
(`WriteProceeds`), that is, a client that reads in the end: an answer to one that never
does ends only by the timer, which need not come in that module.  A tick comes in the end, so a timer expires in the end
(`NoneStuck`); `server_reactor` has `SlowTasks = TRUE`, and does not need a
worker to be faster than the timer.

The theorems are about safety; liveness is checked by TLC only.

## 6 Proofs

The proof modules prove, for every value of the constants that their
assumptions allow, invariants of `Spec` by `Init => Inv`, `Inv /\ [Next]_vars
=> Inv'`, one step per action.

**TimerListProofs.**  The invariant `IInv` says, as long as no null pointer was
used, how the links lie (`ListInv`): `next` and `pre` are inverse on the linked
timers, `head_` alone has no predecessor and `tail_` no successor, and where a
walk stands.  `ListWellFormed` alone is not inductive: it says nothing of a walk
under way.  Unlinking the head, an inner timer and the tail are lemmas
(`UnlinkHead`, `UnlinkInner`, `UnlinkTail`) that `del_timer`, `modify_timer` and
`tick` share.  `OrderHolds` and `ListRefinesTimerSet` speak of the time until the
clock is set back: after that the order is lost (section 7).  `OrderInv` adds to
the order that no expiry lies beyond one stamped now.
`OnlyMovingHeadCrashes` says that no step sets `fault` but the one that moves
the head.  `WalkGoesForward` is the variant of the insertion walk: the set of the
timers ahead of it (`Ahead`) shrinks in every turn, because following `next` never
leads back (`NoCycle`, from `AllReachable` and the predecessors).

**ThreadPoolProofs.**  `TokenInv`: the queue is never longer than the tokens,
where tokens are the semaphore, the post under way and the workers that have
passed the semaphore but not the lock; without interrupts it is exactly as
long.  From it follow `NoneStranded` and `LockFindsRequest`.  `ServeInv`
gathers that requests are numbered in order in the queue, and that the queue,
the workers' hands and the done ones are disjoint: `ServedOnce`,
`ServedInOrder`.

**ConnPoolProofs.**  The same token argument; `CountInv` adds that free
connections and holders make up `max_conn`, `PeakInv` that `peak` is at least the
number of threads that use the pool; `EnoughInv` puts both together: while that
number is at most `max_conn`, a thread that asks always finds a connection.
`UninterruptedSafe` is `TokenInv` in the state of a thread at the lock: it holds a
token, and there is a connection for it.  `ConnsExclusive` needs no counting: what is in the list is in nobody's hands.

**ServerProofs**, for any number of workers, descriptors and connections.
`WatchInv`: the timer that `users_timer_` names for an open descriptor, or for one
with an event to come, is in the list and is that descriptor's; a batch has at
most one event per descriptor, or a handler would use the timer that the first
one deleted.  From it follow `TypeCorrect`, `OpenAreWatched`, `NoDangling`.
`TaskInv`: until a slot is reused under a worker, a slot is queued once or with one
worker (`OnceInv`), and its descriptor is then not armed and has no event to come
(`QuietInv`); one is not inductive without the other.  `ReactorInv` is the
hand-shake: while the main thread spins, its slot is the only one in the queue, or
one worker has it and has yet to set `improve_`, or `improve_` is set; otherwise
nobody holds a slot that he has not told of.  `ReactorQueueIsShort` and
`SpinIsAnswered` follow.  `BooksAgree`: `BookInv` says that the timers of the list
are those of the open connections and of the one being closed, `CountInv` what
the counter is in between the halves of an update; `FiresItsOwn` follows, that a
timer closes its own connection.  `SlotsNotShared`: a slot with
`timer_flag_` set is in nobody's hands (`FlagInv`), and a slot with a task is one
of an open connection (`ShareInv`).

`OnlyRefusedForgotten` and `ReactorForgetsNone` are about EPOLLONESHOT from the other
side: every path must arm the descriptor again.  An open connection is `Heard` when
it is armed, has an event to come or a task, or is marked in `timer_flag_`;
`HeardLoop` and `HeardWorker` go through every handler, and find `read_actor` with a
refused `append` as the only one that ends that.  `OwnInv` says why `modify_fd`
works: the slot of an open connection has its descriptor, and a worker that
closed one has no open one in its hands.  The claim ends with `mixed`, as a worker
may then arm or forget another connection's descriptor.  A connection that only its
mark makes `Heard` waits for the main thread, or, when that has looked between
`improve_` and `timer_flag_` (`thread/thread_pool.h:121`), for its timer; so does one
that `append` refused.

**HttpConnProofs**, for any streams, any cuts and any sizes of headers and files.
`TypeCorrect` includes that `checked_idx_` and `start_line_` stay within what was
received; it needs `PastCR`: the word before `checked_idx_` is never a CR, or the next
LF would be taken for the end of a line and `EndLine` reach past it.  `AnswersInOrder`: `VecInv` says that the
counters divide the answer into what has come and what the iovecs offer, position
by position, and `OfferedIs`, `Comes` and `TakenComes` that `writev` then adds
the next bytes; `VecSome` is the arithmetic of `write`, for one stop within the
headers, where all that was sent is what this call sent.  `OffersAllThatIsLeft` follows from the
same invariant: `writev` is never called with nothing.  `MappingsKept`: `MapInv` tells
the file of the current answer (`Fresh`), mapped with `file_size`, from the
others, of which there are at most `abandoned`.

`ParsedWhole` says that `process_read`, which sees the bytes in pieces and
remembers only where it stands, says of a request what `Verdict`, `Declared`,
`KeepAlive` and `Body` say of all its bytes at once.  `ParsedAsWhole` alone is not
inductive: it says nothing of what the parser remembers between two pieces.
`ParsedInv` adds that (`Parsing`): no line end lies between the last line taken and
`checked_idx_`; what is not yet taken is in the buffer as it came; and the
state of the parser, the length and the keep-alive flag are the reference's of
the lines taken so far.  The body is `ContentText`, read back from the buffer with the
`\0` that `parse_content` put in: no other lies between `content_` and it.  No induction over the bytes is needed: the reference is
defined by the positions of the line ends, and a turn of the loop adds one line to
them (`LinesGrow`, `EmptyNext`) or finds that there is none (`NoFirstLine`,
`NoNextLine`); what is received later does not change those that were there
(`LinesStay`).  `OnlyTornBodyWaits` draws the conclusion for the run `http_body`:
without a body in two pieces, a connection that waits for input has no complete
request.  `LoopEnds` is the variant of `process_read`'s loop.

**RegistrationProofs**, for any workers, names, passwords and requests.  `PlaceInv`
says what a worker's place in `do_request` implies, the mutex included; `InsertInv`
and `AgreeInv` how far the map is behind the table between the query and the
insertion; `CompareInv` that the second lookup of a login finds what the first
one found.  `ToldInv` carries a row from the query to the answer.  `RefineStep`
maps each step to one of `Accounts`: a registration takes effect when it unlocks
the mutex, or when its lookup finds the name; a restart in between leaves a
registration without an answer that may have taken effect.

**BlockingQueueProofs.**  `IndexInv`: `back_` is `size_` places after `front_` on the
circle.  `QueueRefinesBounded` maps the array to the sequence of its items from
`front_ + 1` on; the indices of a push and a pop are the lemmas.

**LogProofs.**  `RotationInTime` needs a quantity that no step raises beyond its
bound (`CountInv`): the lines since the last `fopen`, those counted and not yet written,
the queue and the line in the log thread's hand are together at most `Behind` (one per
thread, and the queue) more than `count_ % max_lines_`.  It does not mention the shared
buffer, which is why its races do no harm to it.  That a file of the first day is not
opened twice is `FirstDayInv`: every read of the buffer then gives the same day, so a
thread that changes the file does so because `count_` is a multiple of `max_lines_`.
`LinesOnce`: a line is in
one of five places, with its thread, in the queue, with the log thread, on file
or refused; `EachLineOnce` is inductive as it stands, as a thread numbers its
lines, and each step moves one line from one place to the next (`OwnLine`,
`QueuedAppend`).

**Only model-checked**: liveness and the absence of deadlock, everywhere.  Every
invariant and every action property of a passing run is a theorem, and
every refinement.  What a liveness property needs besides fairness is
proved where it is not obvious: `NoneStranded` (nobody sleeps beside a request or
a connection), `NobodySleeps`, `SpinIsAnswered`, `OnlyRefusedForgotten` and
`ReactorForgetsNone` (for `NoneStuck`), `WalkGoesForward`, `LoopEnds` and
`OffersAllThatIsLeft`.  For the three runs that end in a violation,
`OnlyMovingHeadCrashes`, `FiresItsOwn` and `OnlyTornBodyWaits` say that it comes
about in no other way.

## 7 Where the code and its comments disagree

Each of these is a run that TLC ends with a counterexample:

| run | what happens |
|---|---|
| `timer_list_head` | `modify_timer` tests the successor, not the timer, against `head_`: delaying the first of several timers uses a null pointer |
| `server_wrong_timer` | the timer of a connection that a worker closed closes the next connection on the descriptor |
| `http_body` | a body that comes in two pieces is never found complete: `parse_line` searches it for a line end and moves the position it is measured from |

The others have no run of their own.  They are visible in the definitions, or in the
condition of a property that would be false without it:

* `http/http_conn.cc:100`: a worker and the main thread change `user_count_` without a
  lock, and an update may be lost: the condition on `failures` in `BooksBalance`.
* `http/http_conn.cc:620`: after a partial `writev` of the headers the length of the
  first iovec is reduced by all bytes sent so far.  That is right for the
  first such stop; the second subtracts the first one again, and the rest of the
  headers is lost, with the file from before its beginning in its place, or, without
  a file, `writev` is called with nothing for ever (`WriteNothing`): the
  condition on `cuts` in `DeliversInOrder` and `HandlersEnd`.
* `http/http_conn.cc:451`: `do_request` maps a file and only `write` unmaps it; a connection
  that its timer closes in between leaves it: `abandoned` in `MappingsAccounted`.
* `http/http_conn.cc:163`: `process_read` treats a line that ends in the wrong way
  (LINE_BAD) as one that has not ended: the connection waits, and no error is
  sent.  `Verdict` calls it "broken".
* `http/http_conn.cc:29`: `init()` after an answer clears the buffer, and with it a
  second request that came with the first: the streams with two requests.
* `http/http_conn.cc:403`: a user whose insertion into the table failed is in the map all
  the same, and can log in until the server restarts; `http/http_conn.cc:399`: two registrations
  of one name may both find it free, and if the table has no key for
  names both clients are told so: `doubtful` in `Registration`.
* `log/log.cc:139`: a line is dropped, without a word, when the queue fills up between
  `full()` and `push()`: `EachLineOnce` counts it among those refused.
* `timer/timer.cc:97` calls the list ascending.  After the wall clock was set back,
  `modify_timer` leaves a timer in place whose expiry is now before its
  predecessor's: the condition on `clock` in `AscendingOrder`.
* `thread/thread_pool.h:24` calls `max_requests_` the largest number of requests;
  the test is `>`, so that it is one more: `Full` and `Bounded`.
* `cgi-mysql/mysql_conn.cc:60` says that `get_conn` waits when there is no
  connection.  It returns `nullptr` when it finds the list empty (`FindEmpty`), and
  a thread whose `sem_wait` was interrupted pops from a list that may be empty
  (`TakeNothing`): the conditions of `EnoughForAll` and `NoFaultUninterrupted`.
* `queue/blocking_queue.h:66`: `front()` returns `array_[front_]`, the item that was
  popped last, or `array_[-1]`; the first item is `array_[(front_ + 1) % max_size_]`,
  as `pop` knows (`TakeFront`).  Nothing calls `front()`.
* `log/log.h:68` calls `max_lines_` the largest number of lines of a file.  A line is
  counted in one lock section and written in a later one, into the file that is open
  then: the surplus in `RotatesInTime`.
* `log/log.cc:103` begins the log of today.  A thread that asked for the time before
  midnight and calls `localtime` after another thread has, sets the shared buffer
  back, and the log reopens the file of the day before: `Localtime` and `CountLine`.
* `log/log.h:72` says that the files are divided by days.  When the shared buffer
  changes between the name and the comparison (`log/log.cc:101` and `:104`), the new day
  gets the name of the day before (`NameFile`, then `OpenNewDay`), or a file of the day before gets
  a suffix out of turn (`OpenNext`): `RotatesInTime` names the file on the first day only.
* `http/http_conn.cc:331` decides whether the request was read completely.  A negative
  Content-length, or one that overflows an `int`, is accepted before any of the body has
  come, and the byte before the body becomes `\0` (`:335`): `Content` with `Length` -1, and
  the negative case of `Verdict` and `Body`.

## 8 What is not modelled

* SIGTERM and the destructors of `Server`, the pools and the log: the workers are
  detached and use what is freed; there is no state left of which a
  property could speak.  The models begin after `event_listen` and do not end;
* the limit `MAX_FD` for descriptor numbers (the limit for `user_count_` is
  modelled), the backlog of the edge-triggered listener, and a signal pipe that is
  full: what the models leave open there (`EpollWait` may report the listener at
  any time, `Alarm` always succeeds) is more, or less, than the kernel does;
* inside of a line: the method, the URL and the headers are recognised as wholes;
  the choice of the page, the texts of the headers and of the query;
* what a body contains: `Ask` takes a well-formed name and password.  A body without
  an ampersand is searched past its end, and names and passwords longer than their arrays overflow
  them (`http/http_conn.cc:375`); a POST to `/2` or `/3` without a Content-length reads the
  null or stale `content_` there.  Undefined behaviour, with no state after it;
* a `\0` that `http/http_conn.cc:335` writes outside of the buffer (a length below the
  position of the body), the overflow of the sum in the test before it, and the read past a buffer that a
  request fills to its last byte: undefined as well;
* the database connection in the slot (`ConnRaii`): in `ConnPool` as a connection, in
  `Registration` not at all;
* the length of timeouts in the blocking queue, the texts of the log, a failing
  `fopen`;
* memory (what is freed twice or leaks), except for timers;
* `config/`, `main.cc`, the set-up of sockets: sequential, and ended by `exit`
  when something fails.

## 9 Plan

Done: every component of section 1 but the configuration has a module; every
safety property of the passing runs is proved.

What could come next:

1. the backlog of the edge-triggered listener at the limit of connections, in
   `Server`: an event that is reported once, and clients that nobody announces;
2. `Server` through `INSTANCE` of the abstract `TimerSet` and of the pool's queue, as
   far as the runs stay small;
3. `Server` and `HttpConn` in one module: a slot whose worker and whose timer are in
   it at the same time, for what happens after a slot was shared.
