# Verification of the domi server

TLA+ models of the domi server, a small game server in C/C++: an event loop
(`ae`, over select), a TCP server on it, a message queue between threads, pools,
a log, and the process that starts and stops them. TLC checks the models on
small instances; TLAPS proves the main safety properties for every value of the
constants. `PROJECT.json` lists the runs, the source lines each definition
stands for, the hazards and the theorems. All paths below are under `src/`
unless they name a module.

## 1. The system

The server is one thread (`Readme.md:13`): `main` builds `CDomiServer`, which
initialises its log, installs one signal handler, creates the event loop and
listens; then `aeMain` waits for descriptors and calls their callbacks until
someone sets the loop's `stop` flag. Beside it the repository has a library of
classes and functions (message queue, pools, mutexes, condition events, threads,
socket functions, arithmetic, calendar, strings), most of which the server does
not use yet.

The loop runs over `select`: `HAVE_EPOLL` is defined in `network/tcp_server.h`
alone, which the C file `ae.c` does not include, so `ae.c` takes `ae_select.c`.
(With the macro defined it would not link: `ae_epoll.c` has no `aeApiResize`.)

| Component | State | Operations | Talks to |
|---|---|---|---|
| Event loop, file events (`network/ae.c`, `ae_select.c`) | `events[]` (mask, callbacks, clientData per descriptor), `maxfd`, the sets `rfds` and `wfds`, `fired[]`, `stop` | `aeCreateFileEvent`, `aeDeleteFileEvent`, `aeApiPoll`, `aeProcessEvents`, `aeMain`, `aeStop` | kernel; callbacks of the TCP server; `aeStop` from a signal handler |
| Event loop, time events (`network/ae.c`) | list of timers, next id, `lastTime` | create, delete, nearest timer, `processTimeEvents` | the clock; callbacks |
| TCP server (`network/tcp_server.cpp`) | `m_sessions`, `m_free`, `m_idGen`, the event loop | `Initialize`, `StartServer`, `StopServer`, `DoAccept`, `DoRead`, destructor | ae, sockets, log |
| Sockets (`network/anet.c`) | none of its own: descriptors in the kernel | servers, the four ways to connect, blocking, read and write all, options, names | kernel |
| Message queue (`network/message_queue.h`) | two queue pools, pointers `m_message[pop]`, `m_message[push]`, two mutexes | `push`, `front`, `pop`, `swap_queue`, `reset` | producers and a consumer thread |
| Queue pool, map pool (`common/pool`) | queue or map in use, queue of free elements | build, malloc, free, push, pop, clear | message queue |
| Process (`main.cpp`, `logic/domiServer.cpp`) | where `main` is, the handler installed | start, stop, `onBreak` | everything; signals |
| Log (`common/log`) | `m_bInitiate`, a date stamp and a file per stream, one line buffer | `initialize`, `shutdown`, `print`, `info`, `warn`, `error` | files, calendar; called by `main` and by the handler |
| Condition events, mutexes, threads (`common/thread`) | signalled flag and reset mode; owner; handle | create, set, reset, wait; lock; run, attributes | pthreads |
| Basics (`common/basic`) | none | saturating arithmetic, calendar, strings, directories | C library |

Hard behaviours, and where they are:

* **A batch of events grows stale while it is dispatched.** `aeApiPoll` fills
  `fired[]`; each callback may close descriptors, accept new ones on the same
  numbers and change the table that later entries are looked up in
  (`ae.c:407`).
* **Failure in the middle of a callback.** `DoAccept` takes a session before it
  knows that the descriptor can be registered, and closes *the listening
  socket* when it cannot (`tcp_server.cpp:113`).
* **A signal handler that runs in the program's data.** `onBreak` writes
  `stop`, and calls the log, between any two instructions of `main`
  (`domiServer.cpp:13`, `ae.c:429`, `log.cpp:166`).
* **Unlocked reads of shared pointers.** A producer picks its mutex by reading
  a pointer that the consumer is exchanging (`message_queue.h:121`).
* **Boundaries.** `uint16` session ids (`tcp_server.cpp:96`), the limit of the
  queue tested with `>` (`message_queue.h:122`), 10240 slots of the event table
  against 1024 bits of an `fd_set` (`ae_select.c:41`), sums at the edges of a word
  (`basicFunctions.cpp:87`), texts that fill their buffer.
* **Names that are reused.** Descriptors, sessions and thread identifiers are
  handed out again while an object or a batch still remembers the old ones
  (`thread.cpp:205`, `map_pool.h:159`).
* **One call of several failing.** `socket`, `bind`, `listen`, `connect`
  (`anet.c:433`), `pthread_create`, `new`, `std::queue::push` under a `catch` that
  says nothing (`queue_pool.h:75`), `aeCreateEventLoop`, whose NULL nobody looks at
  (`tcp_server.cpp:53`), `mkdir`.
* **Everyone gets served.** A level-triggered loop that reads at most 1024
  bytes a turn; swaps that need both mutexes.

What makes each part correct: for the event loop, that table, `maxfd` and
the sets for select agree, and that no callback runs without work, since `read` and `accept`
block; for the TCP server, that a session belongs to one client, under an id of
its own, is given back, and that clients are served and released; for the queue,
that no element is in two places or forgotten as long as two producers do
not write to one pool and no allocation throws, and that everything pushed is popped; for the log, that
a line composed is in the file of its day; for the process, that a request to
stop ends it and never meets a missing event loop; for the map pool, that an
element is in one place and a walk meets each once; for threads, that an object
acts on its own thread only; for sockets, that whatever fails, no descriptor is
closed twice or left open, and a caller has what it asked for; for the functions,
that they agree with the integers, the calendar and the texts they stand for.

## 2. Modules

```
AeFileEvents  <-EXTENDS-  TcpServer  --implements-->  SessionService
                             ^  ^
                 MCTcpServer-+  +-TcpServer_Proofs
QueuePool     <-EXTENDS-  MessageQueue  --implements-->  MessageChannel
                             ^
                             +-MessageQueue_Proofs
Log           <-EXTENDS-  ServerLifecycle <-EXTENDS- ServerLifecycle_Proofs
AeTimers      <-EXTENDS-  AeTimers_Proofs   (the other half of the event loop)

AeFileEvents  <-EXTENDS-  Dispatch --+
MapPool, Threads, Arithmetic --------+--EXTENDS--  MCLibrary
Routines, Calendar, Sockets ---------+

Threads, Routines, Calendar, Sockets  --EXTENDS--  LibraryComments

CondEvent, MapPool, Threads, Arithmetic  <-EXTENDS-  Common_Proofs
Dispatch, Sockets                        <-EXTENDS-  Network_Proofs
Calendar                                 <-EXTENDS-  Calendar_Proofs
Routines                                 <-EXTENDS-  Routines_Proofs
```

### AeFileEvents

The file event half of `ae.c` over `ae_select.c`, as state and one operator per
function. `events`, `maxfd`, `fdset` (which of `rfds` and `wfds` a descriptor is
in), `fired`, `stop` are the fields of `aeEventLoop`; `loop` says where `aeMain` is.

| Definition | Code |
|---|---|
| `CreateFileEvent`, `CreateFileEventFails` | `aeCreateFileEvent` with `aeApiAddEvent`; its `ERANGE` exit |
| `OutOfBounds` | a descriptor below 0 (the code tests `fd >= setsize` only), or in the table but beyond `FD_SETSIZE`: memory is overwritten |
| `DeleteFileEvent`, `HighestBelow` | `aeDeleteFileEvent` with `aeApiDelEvent`, and its scan for the next `maxfd` |
| `TestStop` | the loop condition of `aeMain` |
| `Selected`, `Poll` | `aeApiPoll`: when `select` leaves anything, every registered descriptor gets an entry, ready or not; the 10 ms timeout and every error are the empty batch |
| `CallsRead`, `CallsWrite`, `SkipEntry`, `BatchDone` | one round of the dispatch loop of `aeProcessEvents`: the masks are looked up again before each callback |
| `AeStop` | `aeStop` |

Entries of a batch are dispatched in the order of descriptors. The server's
callbacks only read, so in TcpServer the write callback is never due; Dispatch has
callbacks of both kinds.

### TcpServer

`CTcpServer` on that loop. `sessions`, `free`, `mid`, `idGen` are `m_sessions`,
`m_free`, the sessions' `m_id` and `m_idGen`; a session is the number it was
created under. `listening`, `backlog`, `sock`, `phase`, `inbox`, `ended` are the
kernel: the listening socket, the accept queue, the connection behind each
descriptor, and per connection where it is, its unread bytes and how its client
left. `Init` is the state after `Initialize` and `StartServer` up to `aeMain`.

`DoAccept` and `DoRead` are one action each, as the loop's thread runs a callback
to its end; clients (`Connect`, `Send`, `Leave`) and the stop request act between
any two of them, in the middle of a batch too. `DoAccept` takes a session
(`TakeSession`: the oldest idle one, or a new one with `++m_idGen`), then
accepts, and either registers the descriptor (`AcceptRegisters`) or fails
(`AcceptNotRegistered`: beyond the table). The failure runs `close(fd)` on the
*listening* descriptor (`CloseListener`): the kernel resets the backlog, but the
bit of the listener stays in `rfds`, so that `select` fails with `EBADF` from then
on, and the loop takes each failure for a timeout: it turns, and sees nobody. The
session stays in `m_sessions`, the accepted descriptor stays open and unwatched. When `accept` is out
of descriptors it returned -1, which is not tested, or it returned a descriptor
without a bit in an `fd_set` (`AcceptOutOfBounds`): the registration writes out of
bounds, `loop` is "wild" (`Overrun` in the properties), and nothing is claimed of
what follows: clients may be queued for ever, ends not noticed and a stop not obeyed.
`DoRead` reads up
to `BufLen` bytes (`ReadBytes`) or sees the end (`ReadEnd`): event deleted,
descriptor closed, session back to `m_free`.

Left out: the contents of bytes, log lines, socket options, `write` back to the
client (there is none). `accept` and `read` block when there is nothing: their
guards say so, and `NoBlockingCallback` that it never happens.

### SessionService (abstract)

What the server promises without descriptors, events and pools: clients in a
line, served in order under an id nobody else has; their bytes read; let go once
gone. The door may close once, and then at most one client in line is kept
inside unserved. `ImplementsSessionService` maps the line to the backlog, a
client's badge to the id of the session its event carries, `inside` to the
connections that were accepted.

### QueuePool, MessageQueue, MessageChannel

`QueuePool` gives `CQueuePool` as operators on a record of two sequences.
`MessageQueue` has the two pools, the two pointers, the two mutexes and the
threads. A producer's `push` is split where another thread can come in:
`Choose` (reads the pointer, without a lock), `Acquire`, `Refuse`/`Admit` (the
limit), `Take` (build if needed, read the free queue's head), `Link` (drop that
head, read the use queue), `Commit` (write it). A read is kept in `seen[p]` and
the later write replaces what is there: two producers in one pool can take the
same element or lose a message. That is all of the undefined behaviour that is
modelled of a race on a `std::queue`; a crash would only end the run, and every
property of the queue is about runs without two producers in one pool, or about
the fact that this can happen. `reset` and `swap_queue` lock instance 0, then 1.
`SwapFirst`/`SwapSecond` move the pointers one at a time; `ResetPop`, `ClearOne`,
`ResetPush`, `ResetDone` are the loop of `reset`, element by element.

Every method of the pool swallows what it throws, and tells nobody. `Take` may stop
building after any element, and forget the one whose push threw after `new`
(`queue_pool.h:71-72`); a head that `pop` or `clear` drops may miss the free queue
(`DropHead`, `queue_pool.h:101`, 133, 145); the element of a `push` may miss the use
queue, and `push` returns it all the same, so that `CMessageQueue::push` says true of a
message that nobody will see (`Commit`, `queue_pool.h:159`). `lost` keeps these elements.

Nothing in the repository drives the queue. The consumer is therefore external
code: it pops, swaps and resets in any order. In particular it may swap while there
are messages left in the pool it pops: no line asks it to wait until that is empty.

`MessageChannel` is what this comes to, as long as no two producers were in one pool
(`raced`): two lanes, and operations put, get, exchange and drop. Only for a caller that
exchanges empty lanes is it one first-in first-out queue; another one sees newer
messages before older ones. `ImplementsChannel` maps the lanes to the pop pool and the
other one.

### Log, ServerLifecycle

`Log` gives `CLog` as operators on a record, so that a call can be taken whole or
step by step. `ServerLifecycle` is `main` from `initialize` to the static
destructors, with the log call it is in (`call`), and the handler `onBreak`
between any two steps: `Signal` when there is an event loop, `SignalFaults` when
the pointer is null (before `CreateLoop`, or for ever when `aeCreateEventLoop` returned
NULL) or dangles (after `~CTcpServer`): the process crashes, or, on a freed loop, may
write to it and go on. `StartServer` does not look at what `aeCreateEventLoop` returns
either: `Listen` may fail in `anetTcpServer`, and otherwise, without a loop, crashes in
`aeCreateFileEvent`. The handler's own steps
are atomic: nested signals, and a signal inside `fopen`, `fclose` or `fprintf`
(rather than before or after), are not modelled. The header line of a log file is
left out. Midnight comes at any moment.

`nline`, `due`, `blind`, `torn`, `fault`, `asked` are history: what was logged
undisturbed, which `fopen` failed, whether a signal came inside `createAFile` or
`shutdown`, whether it met a missing loop, and whether a stop was requested.

### AeTimers

The time events of `ae.c`. `timers` is the list from `timeEventHead`, `te`, `prev`
and `maxId` are the locals of `processTimeEvents`, `alarm` what is left of
select's timeout, `now` the system clock. `Sleep` takes the timeout from the nearest
timer, deleted ones included; `Wake` and `UserCall` in phase "files" stand for the
file events (module AeFileEvents has them); `Start`, `Remove`, `Finalized`,
`Call`, `Return`, `Pass`, `WalkDone` walk the list pointer by pointer: a timer is
unlinked by way of `prev`, or of the head when `prev` is null, and what lies
between is cut off. Callbacks and finalizers, the user's code, create and delete
timers while the walk stands still. Times are seconds and milliseconds
with the code's carry and comparison. The clock may be set between any two steps;
it ticks while the loop sleeps or runs foreign code. `key`, `left`, `skew`,
`alive`, `dying`, `owed` are history. This server creates no timer: the callbacks
are any user's.

What the guard against a clock set back does not do: it compares seconds at two
walks, so a clock set forward and back between them, or back after the walk and
before the poll, is not seen in time. The comment at `ae.c:268` says "try"; the
properties are about what is seen (`SkewForces`), or about timers that the clock
did not disturb (`NotEarly`, `NoOversleep`, `Attended`).

### CondEvent

`CCondEvent`: `set_event`, `reset_event` and the two halves of `wait_event`, each
under the mutex and hence one action; between the halves a thread is "blocked" in
`pthread_cond_(timed)wait`, or "woken", or "late" (ETIMEDOUT). It may wake without a
reason. A wait with 0 ms changes nothing and is left out, as is the conversion of
the time limit. `ended` and `claim` are history.

### Dispatch

`aeProcessEvents` under any callbacks: each opens and closes descriptors and
creates and deletes events, of its own descriptor or of others, so that the table
changes between two entries and between the read and the write callback of one
(`ae.c:414`). The clientData of an event is the opening of its descriptor, so a
callback that runs for a descriptor that was closed and opened again is seen.
`BeginRead`, `BeginWrite` and `EndCallback` enclose the calls of a callback.
`careless` remembers descriptors that were closed before their event was deleted:
the cases that `ae` leaves to its caller, and the only ones the properties except.

### MapPool

`CMapPool`, one action per operation, with `clear` one element at a time. `useList`,
`freeList`, `nCount`, `nMaxFree` are the members, an element is the number of the
`new` that made it, `pos` the caller's iterator. Every method swallows what it
throws: `_build` may stop after any element, and lose one when `push` throws after
`new`; `insert` may throw after `_malloc`; `push` may throw in `_free`. `due` and
`seen` are history of a walk.

### Threads

`CThread` objects over a system that gives an identifier out again once its thread
was joined, or has ended detached. `Begin` is a call up to `pthread_join`, which
waits; `WaitExit`, `CreateSucceeds` and `CreateFails` are what follows, so threads
end, and are cancelled, in between. The setters are one action with the mix-up of
`set_scope` and `set_detach_state` in `Target`: that it is against their comments is
what LibraryComments shows. `suspect` is history: the objects to
which one of the three exceptions of the code applies (a detached thread; a failed
`pthread_create`, which leaves its result undefined; a thread that another object
joined for one of these reasons).

### Sockets

`anetTcpServer` and the connect functions, a system call at a time: each call may
fail, and each way out is an action. `sockets` is the kernel's side: what has been
done to each open descriptor. `given` is what a caller got and asked for, `anetNonBlock`
and `anetBlock` included (`SetBlock`, with the failure of either `fcntl`): after
`anetBlock` the connection is said to be `blocked`, and is the exception that
`ServedAsAsked` names.
`anetRead`, `anetWrite` and the functions that only compute are single calls whose
argument and result `answer` holds.

### Arithmetic, Routines, Calendar

Pure functions as operators, and a machine that calls one of them with any of a
small set of arguments and keeps what came of it; the properties compare that with
the integers, the text or the calendar. `Arithmetic` has one word width, 2 * `Half`
values, for the 8, 32 and 64 bit functions, and a signed overflow as a choice of
what compilers make of the test for it. In `Routines` a text is a sequence of codes,
a buffer a number of cells, a loop over either a recursive function. `Calendar`
computes `localtime` and `mktime` (external) for a zone that may have summer time.
Where a comment of the source promises more than the code does, the property names
the comment and promises nothing (`Astray`, pairs, full buffers, empty needles).

### MCLibrary

The seven modules above in one run. A behaviour has a `subject`, which is one of
them, and the others rest in their initial state: the state space is the sum of
theirs, not the product.

### LibraryComments

Eleven comments on single functions, as predicates of a call that has returned (or of
the setter that runs), and a machine that calls the component of the first comment
that still stands until a call contradicts it.

## 3. Runs

| Run | Question | Bounds, and why they are enough |
|---|---|---|
| `tcp_safe` | Do table, `maxfd` and the sets agree; are sessions owned by one client, uniquely numbered, never lost; does no callback block; is nothing closed early; is SessionService implemented? | 3 clients, a table of 4 under 5 descriptors: so descriptors are reused within a batch, two clients are registered, and the third has no slot: `DoAccept` takes its failure path. Pool of 1: sessions are created and recycled. Clients are symmetric. Order of the limits: see below |
| `tcp_live` | Is every waiting client accepted or reset, every ended connection released, every stop obeyed, unless the server has been overrun? | 3 clients, 4 descriptors under a table of 5: two are registered while the third waits, and an `accept` that finds no descriptor returns -1 and overruns the server |
| `mq` | Is the consumer alone in its pool, is a queue bounded, is every element in one place or lost by name, are the pools two lanes that a swap exchanges, is everything pushed popped? | 2 producers (the most that can hold mutexes at once), 2 pushes each, limit 1, blocks of 2 of at most 4 elements: the limit is hit and passed, build is partial, pools are exhausted, any push or allocation throws, swaps come at any moment |
| `mq_exclusion` | *Violation.* Is a producer alone in the pool it writes? | 2 producers, one push each |
| `lifecycle` | Are lines kept in the right file, does a stamp mean an open file, does a stop never meet a missing loop once `aeCreateEventLoop` has returned one, does the process end? | 2 signals (one to interrupt, one to use what it left), 1 midnight, 1 accepted client; the loop is created or not |
| `timers` | Is no timer lost or freed early, none called early, none slept past, all called when the clock was set back, each attended to? | 3 timers: one that the walk stands on, one before, one behind; seconds of 2 ms, delays of 1 and 2, so that a delay of 1 can carry; one change of the clock, in either direction |
| `timers_finalizer` | *Violation.* Does the walk remove only deleted timers, if finalizers create timers? | 3 timers: two deleted, one new |
| `condevent` | Is no wake-up and no signal lost, does a signal that finds waiters end a wait? | 3 waiters: one woken, one that overtakes it, one that stays; 3 signals, 2 resets; manual and automatic |
| `condevent_auto` | *Violation.* Does a signal of an automatic event end one wait? | 2 waiters, 1 signal |
| `lifecycle_stop` | *Violation.* Is a stop request honoured from the creation of the loop on? | 1 signal |
| `library` | Do the components that stand alone keep their promises (one invariant each, a conjunction of named parts)? | see below |
| `comments` | *Violation.* Is one of eleven comments on single functions right, at least? The trace contradicts each of them in turn | texts of up to 4 characters, 8 days, 1 socket, 1 thread: what each contradiction takes |

The order of the limits. In the code the event table (10240) is larger than
`FD_SETSIZE` (1024), so an `accept` that has no descriptor, or one without a bit, comes
before a table that is full: memory is overwritten, and what follows is undefined.
`tcp_live` has this order, and its properties except the overrun server by name.
The failure path of `DoAccept` (`tcp_server.cpp:113`) is reached only with a table below
both limits, as a smaller argument at `tcp_server.cpp:53` would make it: `tcp_safe` has that
order, so that the path is checked. The theorems of TcpServer_Proofs assume no order of the three.

The bounds of `library`. *Map pool*: 3 keys, so that one lies on either side of the
iterator; 4 elements, `nCount` and `nMaxFree` of 0, 1 and 2: a build that stops
half-way, a free list at its limit. *Threads*: 2 objects and 2 identifiers: an
identifier passes from one object to the other and back. *Arithmetic*: words of 8
values, all pairs and all limits; the proof is for any width. *Routines*: texts of
up to 4 codes out of three (a letter, another, the special one) in buffers with and
without a spare cell: pairs, both ends, the whole text special; the proof is for any
length. *Calendar*: days
around the ends of 1970, of leap year 1972 and of 1973, the changes of the clock,
and times at both ends of the day. *Sockets*: 2 descriptors, so that a call is made
while one is open and another finds none; 2 addresses; transfers of up to 3 in
portions of 1 or 2, an end or an error at any place. *Dispatch*: 2 descriptors,
opened twice each, 2 callbacks of up to 2 calls: a callback closes and reopens a
descriptor of a later entry, or replaces its own other half.

Every property of a passing run has a mutant: a definition of the code changed
the way a bug would (the operators commented as mutants beside the definition
they change), under which TLC finds the property violated.

### What disagrees with the code's own words

* **`mq_exclusion`**: the comment on `push` says a lock is taken against other
  producers. Two producers that read the pointer before and after a swap hold
  different mutexes and write the same pool.
* **`lifecycle_stop`**: `StopServer` closes the service, the header says.
  `aeMain` begins with `stop = 0`: a request between `aeCreateEventLoop` and
  that line is lost, and the server serves on.
* **`timers_finalizer`**: "Remove events scheduled for deletion", says `ae.c:288`. A
  timer created by the finalizer of the first timer of the list is cut off with
  the second, if that is deleted too: `prev` is still null, so the head is
  overwritten. It is neither called nor freed.
* **`condevent_auto`**: an automatic event is reset when a thread was released,
  says `condEvent.cpp:21`. The blocking path of `wait_event` does not clear the
  flag, so the next wait returns at once, and waiters that were not woken sleep on
  beside a raised flag.
* **`comments`**, eleven comments in one trace:
  * `wipeOffChar` removes a character, says `stringFunctions.h:92`: of two in a row the
    second stays as a NUL, and the text ends there.
  * `filtrationBlank` filters blanks, says `stringFunctions.h:95`: when the buffer is full, what
    is moved to the front is repeated behind it.
  * `dStristr` does not find an empty needle, says `stringFunctions.cpp:191`: the same line
    returns the haystack.
  * `divideStr` makes {abc}{de}{f} of "abc,,,de,,f,", says `stringFunctions.h:123`: a separator at the end
    stays in the last piece, {f,}.
  * `diffTimeDay` gets the days between, says `timeFunction.h:41`, by way of 31 December,
    says `timeFunction.cpp:278`: from the first hour of a summer day it gets to 30 December, and
    counts a day too little for every year in between.
  * `diffTimeWeek` counts Saturdays, says `timeFunction.cpp:317`, and has a multiple of 7 to
    divide, says 325: it counts Sundays, and the days between may be one off for the same reason.
  * `anetSetBlock` clears non-blocking, says `anet.c:45` (in the branch for Windows): on Linux
    it sets it.
  * `set_scope` sets the scope and `set_detach_state` the detach state, say `thread.h:71` and 73
    (and `thread.cpp:196`, 219): each sets what the other should.

The passing properties about these functions name the comment they depart from, and promise
nothing in its place, except two that hold the code to what it does instead: weeks are counted
between Mondays (`WeeksCounted`), and an object that made a detached thread is under suspicion
(`ThreadsSound`).

Other things the models show, of which the repository says nothing: after a client that
cannot be registered the listener is closed and `select` fails for good; `accept`
out of descriptors, or a descriptor from 1024 on, writes out of bounds; a NULL event loop
is used; the pools lose elements when something throws, and a push of the queue whose link throws
reports success; a swap of the message queue while messages are left puts newer ones before older;
`anetTcpServer` leaks a descriptor when `SO_REUSEADDR` fails;
`release` of a map pool lets one element more than its limit stay free; `createDirectory` fails
on a directory that another process makes at the same time; a formatted
summer time is read back an hour later. Each is stated in the property it bears on.

## 4. Fairness

* `TcpServer`: weak fairness of the loop thread (`LoopStep`): it is one runnable
  thread, and a poll ends after 10 ms at the latest. Nothing is assumed of the
  clients or of signals.
* `MessageQueue`: weak fairness of each producer, and of the consumer once it has begun a
  swap, a reset or a pop. A consumer that finds nothing swaps at last (`SwapEmpty`), and
  one that comes by a message again and again pops at last (strong fairness of `ConsumerFront`, as
  it may swap the message away in between): this is assumed of a caller that the
  repository does not have. `reset` is never due. Mutexes are not assumed fair: `Drained`
  holds because each producer has finitely many pushes (`MaxPush`).
* `AeTimers`: weak fairness of the loop thread, which includes that `select`
  ends (its timeout is finite) and that callbacks return. The clock need not tick.
* `CondEvent`: a thread that has woken gets the mutex and goes on. Nobody is
  obliged to signal, and no thread to wake without a signal.
* `ServerLifecycle`: weak fairness of `main`. No signal is obliged to come.

## 5. Proofs

TLAPS checks eight modules for all values of the constants: `TcpServer_Proofs`,
`MessageQueue_Proofs`, `ServerLifecycle_Proofs`, `AeTimers_Proofs`, `Network_Proofs`,
`Common_Proofs`, `Calendar_Proofs` and `Routines_Proofs`, under the
assumptions of the modules they are about (`AeAssumption`, `TcpAssumption`,
`MqAssumption`, `LogAssumption`, `LifecycleAssumption`, `TimersAssumption`,
`CondAssumption`, `DispatchAssumption`, `SocketsAssumption`, `MapPoolAssumption`,
`ThreadsAssumption`, `HalfAssumption`, `CalendarAssumption`, `RoutinesAssumption`). Each inductive invariant stands in the module it
is about, below the properties.

**TcpServer.** `IndInv` adds to type correctness what the properties rest on:
the table holds the listener and readable client events only (`EventShape`);
select is given what the table says (`KernelShape`);
each connection is in one place (`ConnPlaces`); session *s* has id *s-1*, and
while the server accepts, each session is idle or held (`SessionPlaces`); the rest
of a batch names registered descriptors, each once (`FiredShape`).

* *Ids never wrap.* A session is created only when none is idle; then each is
  held by a different registered client descriptor, of which there are fewer than
  `SetSize` (`FewSessions`, by an injection into the slots). After a failed accept
  no session is created any more. So `SetSize < IdSpace` is enough: with 10240 slots against
  2^16 ids, `m_idGen` never wraps, however many connections come and go.
* *No callback blocks.* Only a descriptor's own callback consumes its bytes, its
  end or its backlog, and a batch names it once; one that is closed leaves the
  table, and is reused only by an accept whose number was not free at the poll.

* *No session is lost.* `NoSessionLost` needs `MapPlaces` beside `IndInv`: the
  map has each session under its own id, and those that are idle are those it lacks.
  An accept that fails has taken a session and closes the listener, so there is one
  orphan at most.
* *Refinement.* `StepRefines` maps each step: an accept that registers is
  `Serve` under the id of the session taken, which is nobody's badge; one that fails is
  `ShutDoor`; a read of bytes is `Read`; one that sees the end is `Finish`; clients'
  steps are theirs, and all others stutter. `Badges` ties a client's badge to the id of the session its
  descriptor holds.

Theorems: `IndInvCorrect`, `TypeCorrect`, `TableCorrect`, `MaxFdCorrect`,
`OwnershipCorrect`, `IdsCorrect`, `LoopNeverBlocks`, `CloseCorrect`, `SessionsKept`,
`ServiceImplemented`.

**MessageQueue.** `IndInv` says who holds which mutex at which step, that the
pointers differ but in the middle of a swap (`Pointers`), and how far each queue
can have grown. The consumer alone touches the pool it pops, because it swaps
with both mutexes and a producer that holds one keeps it from the other. The
limit is tested before the write by producers that may be in the pool together:
there are two mutexes, so two producers at most pass it together, and a queue has at
most `QueueMax + 2` messages. Theorems: `IndInvCorrect`, `TypeCorrect`, `ConsumerAloneCorrect`,
`QueueBoundCorrect`.

For the refinement `OneQueue` adds that until two producers meet (`raced`), the copy a producer
appends to is the queue as it is. A commit is then a put, a pop a get; the first half of a
swap is the exchange, because the second lane is the pool that the pop pointer is not
at, and the second half stutters. A reset drops both lanes when it begins to clear, and its
steps stutter from then on, as nobody sees a lane before it is done. A step of producers that have
met breaks the channel. Theorem: `ChannelImplemented`.

`ElementsConserved` counts the elements of both pools, of the hand of the one
producer at work, and those that were lost to an exception. Beside `OneQueue` it needs
`FreshRead`: a producer about to drop the head of
the free queue has read the pool as it is, so it drops the element it takes and
no other. `build` adds the ids that follow, the last of them lost if its push throws; `pop`
and `clear` move a head within a pool or lose it, a swap moves none. Theorem: `ElementsCorrect`.

**ServerLifecycle.** The log has no lock, and a signal puts the handler's log call between
any two steps of a call of `main`. `IndInv` holds through that because of four things.

* `CallShape`: a call has a line of its own, a stream once it prints to a file and a
  day once `createAFile` has read the clock; none runs during `shutdown`.
* `LinesFresh`: the buffer that calls share has the line of the call that runs, unless a
  handler came in between (`hit`); no record has that line yet, and nothing that
  is due waits for it. So the step that prints gives `LinesKept` one record, of a line
  that had none, in the file of the day the call read.
* `StampsTrue`: `StampMeansOpen` does not hold by itself, as a call that could not
  create its directory leaves `initiated` down and stamps and opens all the same. So
  it is said of each step of `createAFile`: after the stamp, before the file is open,
  the stamp is the day about to be opened; when it prints, the file is that day's.
* `LoopThere`: only the destructors free the event loop, and from `aeMain` to the last
  batch it exists, whatever the handler does; so a stop finds no loop only before it is
  created, after the destructors, or where it could not be created: `StopNeverFaults`.

Theorems: `IndInvCorrect`, `TypeCorrect`, `LinesCorrect`, `StampCorrect`, `StopSafe`.

**AeTimers.** All theorems assume `FinalizerCreates = FALSE`: with finalizers that create
timers the list is not kept, as `timers_finalizer` shows. `IndInv` needs three
things beside the properties.

* `Punctual`: unless the clock was set, seconds and milliseconds of a timer make up
  the moment its delay is over. It comes from the carry (`ScheduledWhen`) and from
  the fact that comparing seconds, then milliseconds compares the times
  (`LexOrder`), which also makes `Due` and the search for the nearest timer
  correct. That there is a nearest one (`NearestExists`) is the minimum of a set of naturals.
* `Cursor`: the walk is at a timer of the list, with `prev` right before it, unless a
  procedure is running, which may put timers between the two; what lies ahead is older
  than the walk. So unlinking by way of `prev` cuts off one timer (`UnlinkedIs`).
* In `Cursor` too: what a clock set back has made due lies ahead of the walk, with
  `when_sec` 0, which is due whatever the clock says after its first second.

Theorems: `IndInvCorrect`, `TypeCorrect`, `ConservedCorrect`, `NotEarlyCorrect`,
`NoOversleepCorrect`, `SkewForcesCorrect`, `OnlyDeletedRemovedCorrect`.

**CondEvent.** `TypeOK` and `NoLostWakeup` are inductive as they stand: a thread
falls asleep only under a flag that is down, and the flag of a manual event rises
only in `set_event`, which then wakes everybody. The flag is lowered by `reset_event` and by
an auto event's wait that succeeds, once for one success: a wait that blocks, wakes in vain or runs out of
time leaves it. Theorems: `CondTypeCorrect`, `WakeupCorrect`, `SignalCorrect`.

**Dispatch.** `DispatchInv` has no assumption on what callbacks do.

* `EventsOwned`: an event in the table was created for the opening its descriptor has,
  but for descriptors closed with their event in the table. With it the callback
  that runs gets the data it was registered with.
* `BatchOrdered`, `RunsCurrent`: entries are of different descriptors and taken in
  order; only the lowest can have had its read callback, and the callback that runs
  is of that entry, whatever else it creates and deletes.
* `RanCurrent`: what ran as the read callback of the entry is still in `rfileProc`,
  unless a callback put another there: with `fe->wfileProc != fe->rfileProc` (`ae.c:423`)
  it does not run twice.

Theorems: `DispatchInvCorrect`, `DispatchCorrect`.

**Sockets.** `SocketsInv` follows a request: `HandDone` says what has been done to the
socket in hand before each system call, by the flags of the request, and `HandKept` what the error
path and the end find. From these, and because nothing else touches a socket
nobody was given (`StrayOnly`), whoever gets one has what it asked for, but for what
`anetBlock` does not do, and no
descriptor is closed twice or left, but for the one the code leaks
(section 3). `MoveCounted` is about `anetRead` and
`anetWrite`: whatever length is asked for and whatever the kernel says to the first
three calls, the proof unfolds their loop call by call. The interval and
the timeout of `NamesWritten` are shown for any number. Theorems: `SocketsInvCorrect`,
`OwnedCorrect`, `MoveCounted`, `SocketsCorrect`.

**MapPool.** `PoolInv` adds to `PoolSound` that `clear` stands on a key of the map and
that what a walk has yet to meet is in the map. The free list is a sequence
without repetitions whose elements are disjoint from those of the keys that `clear`
has not passed: while it runs, the elements of the others are in map and free list
at once, and nobody else can call. Theorem: `PoolSoundCorrect`.

**Threads.** `ThreadsSound` with the types is inductive as it stands. What has to be
shown is that joining, which makes an identifier free, takes it from nobody but
the object that joins, or puts the other one under suspicion; and that `create`
forgets its old thread only after the join. Theorem: `ThreadsSoundCorrect`.

**Arithmetic.** One lemma per function, each by cases on whether the sum leaves the
word, for any `Half`. Theorem: `ArithmeticSoundCorrect`.

**Calendar.** There is no state to speak of; what has to be shown is that the code's
arithmetic on the fields of a time comes to the number of seconds it should, for every
day from 1970 to 2037 (`Days` is any set of days up to 24800) and every second of it.

* *Every day is one date* (`MonthOf`, `YearOf`, `DateOf`): years and months grow and
  meet, so `Fields` finds the one that a day lies in, and `FieldsShow` says which
  times have which fields. With it `mktime` undoes `localtime` (`MkTimeLocal`), a
  format is read back (`ReadBack`), and a day begins at its midnight (`BeginIs`).
* *Years in between* (`YearEndsAre`): `diffTimeDay` sets the fields to 31 December
  year by year, keeping the season of the early time. Each turn ends on a 31
  December, or, from the first hour of a summer day, on a 30 December (`TurnIs`). The
  loop's closed form (`Came`) is proved by induction, in the form that there is no
  least year for which it fails. `DaysApart` follows.
* *Weeks* (`WeeksApart`): the Sunday set into the fields is the Sunday of that week, at
  the same hour, if the clocks do not change before (`SundayShows`). Its noon decides:
  summer is one stretch of the year, so it cannot come and go in between
  (`SummerConvex`).
* *Dates read* (`ReadSound`): a day past the end of its month carries into the next
  (`MkTimeCarries`), so the fields that come back are others.

Theorem: `CalendarCorrect`.

**Routines.** A routine is a loop over a text, so what it computes is proved by
induction over texts. The library's induction theorems take an operator, which the provers
cannot instantiate. Here a claim is a set, the things it is true of: `Induction` and
`MeasureInduction` are about sets, and rest on the least element of a set of numbers. A
recursion is given by two functions, from an element to the one it calls and from what
comes back to the result; `Recursion` builds a solution and `RecursionTyped` shows
that there is no ill typed one. With these the `CHOOSE` of each recursive function
is a function that satisfies its equation (`SplitIs`, `ReplaceIs`, ...).

* *Pieces* (`SplitJoined`, `DivideSound`, `BetweenHasNoClose`, `ReplaceUndone`): a text is
  its first piece, a separator and the rest, and the rest is shorter.
* *wipeOffChar* (`WipeOffSound`): `WipeInv` says of each turn of the second loop that
  the cells behind it are those of the buffer, moved on by the gaps closed; and that
  those in front of it are the text so far without the character, as long as none of
  them is a gap left over. Without neighbours there is none.
* *filtrationBlank* (`FiltrationBlankSound`): a blank end is one that can be tiled with
  single and wide blanks (`Tiles`). What the loops pass over can (`FirstLoop`, `LastLoop`),
  and however an end is tiled they get at least as far (`FirstThrough`, `LastThrough`):
  so what stays is shortest, although an odd run of halves can be tiled from either side.
* *Searching, lead bytes, directories, nulls, digits, quotients* (`StristrIs`,
  `TestMultibyteIs`, `DirectoryIs`, `ListIs`, `DigitsFit`, `DivisionIs`): `ListIs` carries
  that an exchange leaves the pointers in order and the nulls behind the walk; `DigitsFit`
  compares powers of ten.

Theorem: `RoutinesCorrect`.

Only model-checked: liveness (`Served`, `Released`, `Stops`, `Drained`, `Attended`,
`StopEnds`, `SetServesWaiter`), which needs fairness. Every invariant and action
property of the passing runs is a theorem.

## 6. Not modelled

* `ae_epoll.c`: not in the build, and does not link (section 1). Code under
  `#ifdef WIN32`, the conversions between encodings (empty or one call of the C
  library elsewhere).
* `tcp_session` (an id, and members that nobody calls), `consoleColor`, `atomic.h`
  (one builtin each), the build scripts: no behaviour of their own.
* `aeResizeSetSize`, `beforesleep`, `aeGetFileEvents`; `anetCreateSocket`,
  `anetSetSendBuffer` and the options of Nagle's algorithm; `CThread::kill`,
  `is_runing` and the getters; `CMapPool::release(iterator)`, which cannot be
  compiled; the queue pool's `destroy`: called by nobody, or one call passed on.
* Arithmetic in floating point and the products; the cached clocks of
  `timeFunction.cpp`; `printf`-like wrappers.
* `replaceString` with an empty pattern, which never returns.
* The event loop's file and time events in one model: `AeTimers` has the file events
  as "user code runs", and the server creates no timer.

What could come next: a model of the conversions of numbers that are read from texts, and
of products, which `Arithmetic` leaves out.
