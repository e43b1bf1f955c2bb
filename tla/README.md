# TLA+ verification of cpluscplus_learning

The repository holds a small web server (`webserver_tac`) and the exercises it
grew out of: three thread pools (`thread_pool_c`, `thread_pool_cpp`,
`thread_pool_cpp11`), an echo server on one of them (`socket_server`), a client
and two hello-world programs. This directory models the parts whose state is
hard to get right (threads, condition variables, timers, an event loop with
one-shot notifications), checks the models with TLC on small instances and
proves the most important results with TLAPS for every instance.

Paths below are relative to the repository's source root, `src/` in
`PROJECT.json`.

## 1. Inventory

| Component | State it keeps | Operations | Talks to |
|---|---|---|---|
| Worker pool, `webserver_tac/code/pool/threadpool.h` | queue of `std::function`, `isClosed`, one mutex, one condition variable, shared by detached threads through a `shared_ptr` | construct, `AddTask`, the worker loop, destroy | event loop (submits), connections (tasks) |
| Heap timer, `code/timer/heaptimer.*` | `heap_` (a vector used as binary heap), `ref_` (id to index) | `add`, `adjust`, `doWork`, `tick`, `pop`, `clear`, `GetNextTick`; internally `siftup_`, `siftdown_`, `SwapNode_`, `del_` | event loop; its callback is `CloseConn_` |
| Event loop, `code/server/*` | `users_` (fd to `HttpConn`), listener, event masks, epoll set | `Start`, `DealListen_`, `AddClient_`, `DealRead_`, `DealWrite_`, `CloseConn_`, `ExtentTime_`, and the pool tasks `OnRead_`, `OnProcess`, `OnWrite_` | kernel, timer, pool, connections |
| Connection, `code/http/http_connect.*` | fd, `isClose_`, `iov_`, read and write buffers, request, response, the static `userCount` | `init`, `read`, `write`, `process`, `Close` | buffer, parser, response |
| Request parser, `code/http/http_request.*` | parse state, method/path/version/body, headers, form | `Init`, `parse` and its steps, `UserVerify` | buffer, MySQL pool |
| Response builder, `code/http/http_response.*` | code, path, mapped file | `Init`, `MakeResponse`, `UnmapFile` | buffer, file system |
| Buffer, `code/buffer/*` | vector, read and write index | `Append`, `Retrieve*`, `ReadFd`, `WriteFd`, `MakeSpace_` | connection, parser, log |
| Log, `code/log/*` | file, line count, day, buffer, `BlockDeque`, writer thread | `init`, `write`, `AsyncWrite_`, `flush`, destroy; deque push/pop/`Close` | everyone |
| MySQL pool, `code/pool/sqlconn*` | queue of connections, semaphore | `Init`, `GetConn`, `FreeConn`, `ClosePool`, RAII guard | parser |
| C thread pool, `thread_pool_c` | bounded ring, thread slots, `busyNum`/`liveNum`/`exitNum`, `shutdown`, two mutexes, two conditions | create, `threadPoolAdd`, worker, manager, `threadExit`, destroy | main |
| C++ thread pool, `thread_pool_cpp` | `TaskQueue` with a mutex of its own, counters, `m_shutdown`, pool mutex, condition | construct, `addTask`, worker, manager, exit, destroy | main |
| C++11 thread pool, `thread_pool_cpp11`, copied into `socket_server` | `TaskQueue`, `m_shutdown`, mutex, condition, threads | construct, `submit`, worker, destroy | main, echo server |
| Echo server, `socket_server/server.cpp` | the listening descriptor, one descriptor per client | the accept loop, `work` | C++11 pool, kernel |
| Socket client, hello worlds, `webserver_tac/main.cpp`, build files, pages | none, or trivially sequential | | |

What is hard here, component by component, and what makes it correct:

* **Worker pool.** `AddTask` and the destructor notify *after* they release the
  mutex. Correct when no queued task is left with every worker asleep, no task
  is dropped or run twice, tasks start in order, and destruction ends every
  thread.
* **Heap timer.** Two structures that must agree while nodes move, a clock that
  advances between any two reads of it, millisecond truncation. Correct when
  the pair (`heap_`, `ref_`) is a map from ids to timers that no sifting
  disturbs, nothing fires early, everything fires in the end.
* **Event loop and connections.** `EPOLLONESHOT` passes one connection back and
  forth between epoll, the event list, the task queue and a worker; the timer
  ignores that protocol; descriptors are reused. Correct when each connection
  is in exactly one pair of hands, no client is forgotten or served somebody
  else's response, and the accounting of users and descriptors is right.
* **Parser, response, buffer.** One thread at a time; what is hard is what
  they leave behind for each other: indices in a vector that is compacted or
  grown, input that arrives in pieces while `process` starts anew each time, a
  mapped file, the two parts of `iov_` between partial writes. Correct when the
  bytes reach the parser as they were sent, a request that is there is
  understood and consumed exactly, and what is sent is the response.
* **Log.** Writers, a bounded queue and a writer thread; order of lines,
  rotation outside the mutex, blocking `push_back` under the mutex, shutdown.
* **MySQL pool.** `empty()` is read without the lock before `sem_wait`;
  `UserVerify` checks and inserts in two statements.
* **C and C++ pools.** Signals outside the mutex a waiter tests under
  (lost wakeups), producers never woken at shutdown, manager decisions on
  counters that are stale, tasks dropped at shutdown. Correct when a wakeup is
  lost only in the window the code leaves open, and the pool is taken down only
  when its threads are gone.
* **C++11 pool and echo server.** The same window, and a client that stays
  holds a worker. Correct when each descriptor is in one pair of hands until it
  is closed, and whoever can be served is.

`PROJECT.json` lists the hazards with their lines and the properties that cover
them, or the reason why none does.

## 2. Modules

    TaskPool          <--refines-- WebThreadPool  <--  WebThreadPoolProofs
    TimerMap          <--refines-- HeapTimer      <--  HeapTimerProofs
    TaskPool (safety) <--refines-- ThreadPoolC    <--  ManagedPoolsProofs
    TaskPool (safety) <--refines-- ThreadPoolCpp  <--  ManagedPoolsProofs (as Cpp)
    ThreadPoolCpp11   <--  EchoServer  <--  EchoServerProofs
    Reactor           <--  ReactorProofs
       (uses the contracts of the first two: a FIFO of tasks, a set of timers)
    Buffer   <--  HttpResponse, HttpRequest  <--  HttpConn  <--  HttpConnProofs
    LogQueue          <--  LogQueueProofs
    SqlConnPool       <--  SqlConnPoolProofs

`MC*` modules and `.cfg` files are the instances for TLC; `A <-- B` reads B
extends A.

### TaskPool and WebThreadPool

`TaskPool` is the contract: a queue, the running tasks, the finished ones, and
a flag. `WebThreadPool` is `threadpool.h`. Everything done under `Pool::mtx` is
one action; what happens outside it is another one: running the task
(`FinishTask`), `notify_one` after `AddTask`'s unlock (`NotifyOne`),
`notify_all` after the destructor's (`NotifyAll`). A worker is at `lock` (about
to take or retake the mutex), `run`, `wait` or `exit`. Waking is moving a
waiter back to `lock`; a spurious wakeup is an action. The caller respects
C++'s rule that the pool is not destroyed during a call of `AddTask`.

### TimerMap and HeapTimer

`TimerMap` is the contract of the timer: a function from ids to
`[expires, cb]`, with `Arm`, `Extend`, `Call` and `ClearAll`; the clock calls a
timer only when less than a millisecond is left. `HeapTimer` is
`heaptimer.cpp`, with the `GetNextTick`/`epoll_wait` turn of
`WebServer::Start` around it. The timer is single-threaded, but time is not:
each iteration of a sifting loop and each look at the clock is an action, and
`Advance` may come between any two. `pc` names the loop being executed, `op`
the operation on whose behalf (needed to know where it returns to), and
`start`, `i`, `lim` are that loop's locals. `siftup_`'s comparison is the code's
(`heap_[j] < heap_[i]`, parent earlier), not its comment's. `Ms` truncates
toward zero as `duration_cast` does, and `NextTick` may be negative as the
code's is, `res` being unsigned.

### Reactor

The server between clients and kernel: the main thread's loop, the workers and
the kernel's view of sockets. `interest` is a descriptor's epoll registration
(`none`, `off` after EPOLLONESHOT fired, `in`, `out`), `batch` the events
`epoll_wait` returned and main has not handled, `thr` each thread's place in the
code and the descriptor it holds, `owner` the connection behind a descriptor.
`HttpConn` is kept as `isClose`, `readBuff` (whose pieces it holds), `resp`
(the lengths in `iov_`, how many are used, whose request it answers) and `keep`.
`CloseConn_` is four actions (`DelFd`, the test of `isClose_`, its assignment
with `userCount--`, `close`), because the timer's callback runs it in the main
thread against a worker that uses the same connection. The pool is a FIFO and
the timer a set in which any armed timer may be due: what the two refinements
establish. Parsing is abstracted to what it decides for a connection: how much
of the buffer is taken and whether it stays alive. `iov_` starts with any
content, as it is not initialized. `sends` bounds the pieces that all clients
together may still send; a piece may arrive at any time, behind a request that is
being answered too. `EventsOf` has `Start`'s order: hang-up, input, output.

`preempted` is a history variable: the descriptors whose timer fired while an
event, a queued task or a worker held them. For those descriptors the code
gives no guarantee (main and a worker then share an `HttpConn` without a lock,
and the descriptor may be reused under the worker); the properties except
exactly them, and hold for everybody else in the same behaviours.

### ThreadPoolC

`thread_pool_c/threadpool.c`: the ring (`taskQ`, `queueSize`, `queueFront`,
`queueRear`), the counters, the workers, the manager and the destroying thread.
A critical section under `mutexPool` is one action up to a wait. `shutdown` is
written, and the conditions are signalled by the destroyer and the manager,
without that mutex, so a thread between its test and its wait ("towait", where it
holds the mutex) can miss them. A thread is identified by its index in
`threadIDs`, which is free exactly when the thread is at "none". The manager's
locals are `seen`, read in two critical sections; the decisions on them are
made later. The behaviour ends when the pool is freed, as what a thread does to
freed memory is undefined.

`struck` is a history variable. A worker woken from its wait looks at `exitNum`
before it looks at the queue, and `exitNum` may be left over from a round in which
too few workers were asleep. The worker that `threadPoolAdd` woke for its task
then dies, and nobody is woken in its place: with the others asleep the task
stays queued until somebody adds another one. `NoStrandedTask` excepts these
behaviours and shows that no other wakeup is lost.

### ThreadPoolCpp

`thread_pool_cpp/ThreadPool.cpp`. The queue has a mutex of its own, and
`addTask` is four steps: the look at `m_shutdown` (`Look`), the queue's mutex
(`LockQueue`), the push, and the signal, under no mutex; so between a worker's test of the queue and its
wait (`towait`, `m_lock` held) a task may be pushed and its signal lost. The
manager sleeps, reads the three numbers in one critical section (`seen`) and
decides on them in later ones. The destructor sets `m_shutdown`, joins the manager,
broadcasts once, and then looks at each entry of `m_threadIDs` without the
mutex (`LookAtEntry`) before it joins it (`JoinEntry`): an entry that a worker
clears in between is a `pthread_join` of 0 (`crashed`). A worker that finds the
shutdown returns from `worker` without clearing its entry (`gone`); a dismissed
one clears it first (`leaving`). `m_exitNum` is not initialized; `Garbage` is
what it may hold. `taskNumber()` reads the queue under no lock: while a task is
being pushed (`Pushing`) it may return 0.

Three history variables mark what the code leaves open. `passedOver`: a worker
went to sleep past a task (a signal came in its window, an unlocked size was
read wrong, or a dismissed worker took the signal of a task with it).
`dismissedLate`: a worker was dismissed after the shutdown, on what `m_exitNum`
had left. `missed`: a worker was in its window at the only broadcast, and the
destructor waits for it for ever.

`Running` and `Closed` map its state to `TaskPool`'s, of which it implements the safety
part: workers leave as soon as they see `m_shutdown`, whatever is queued.

### ThreadPoolCpp11 and EchoServer

`ThreadPoolCpp11` has the steps of the pool that `thread_pool_cpp11` and
`socket_server` share; `EchoServer` puts them together with `server.cpp`:
`main` accepts and submits, `work` echoes until its client is gone. A client is
its descriptor and the task that captured it. The predicate of the workers'
wait is evaluated under `m_mutex`, but tasks and `m_shutdown` are set, and
notified, under none, with the same window as above (`passedOver`, `missed`). The
predicate is two actions, as it reads `m_shutdown` (`Predicate`) and then the queue
(`AskQueue`), and `m_shutdown` may be set in between.
A worker's variable `task` is declared before its loop and keeps the last
closure, descriptor included; what keeps the worker from calling it again, when
another one was faster at the queue, is `dequeue`'s result. `OneHolder` says so
of the descriptors. The sockets block: a worker also waits in `write`, for a client that
stays and does not take its echo (`full`). Nothing ignores SIGPIPE: `write` to a
client that is gone may end the process, and with it every connection (`Killed`).

### Buffer, HttpRequest, HttpResponse and HttpConn

A buffer is a value (`size`, `cells`, `readPos`, `writePos`) and its operations
are operators, `MakeSpace_`'s two cases and `ReadFd`'s two-part `readv`
included; so are the parser's line functions (`ParseLine`) and the response's
(`CodeFor`, `ErrorHtml_`, `MakeResponse`). `HttpConn` has the state: one
connection object, used by one client after the other, with what the kernel has
received and not given yet. A cell holds a word instead of a character (a
method, a path, `CR`, `LF`, ...): `CR` and `LF` are two, so a read may end
between them. A turn of `parse`'s loop is an action (the buffer moves with each
line), a turn of `write`'s is one with any number of units taken by `writev`.
`iov_` is kept as where each part begins and how much of it is left;
`iov_[1]`'s length before it is first set is any of `Garbage`, and
`IovFor` leaves it alone when a response has no file, as `process` does.
`mappedUnits` is what the kernel has mapped: `UnmapFile` subtracts the size in
`mmFileStat_`, so a `stat` that changed it while a file was mapped would show.
`Outcomes` are what may come of `open` and `mmap`, whose result is read before it is
looked at: an empty file, or another failure, kills the process, and a file that begins
with four bytes 0xFF is taken for a failure and answered with the error page, its
mapping and descriptor never given back (`leaked` counts the former, apart from
`mappedUnits`).
`due` is what the client should still get, appended when a response is made
from what was found (`Wanted`), not from `iov_`; `before` is the buffer when
`process` was called. Both are history. `WriteFails` and `Respond` have the two
ways in which the process dies: SIGPIPE, and a file that is not mapped. The main thread
closes the connection when nobody is at it (`MainCloses`) or, by its timer, while a
worker is inside a handler (`TimerCloses`). Two threads then race for every member of the
object; the model says so ("raced") and does not follow it further. Which connections
can be hit is `preempted` in `Reactor`.

### LogQueue

`Log` and its `BlockDeque` between the threads that log and the one that writes.
Each method of the deque is an action, up to its wait; `Log::mtx_` is held from
one state to the next where `write` calls the deque under it (`count`, `push`,
`pushwait`), which the consumer's `Put` respects. The date and line count are
tested and reset without a lock, so a rotation is four actions (`Check`,
`ChooseFile` with the store to `toDay_`, `ResetCount`, `Reopen`) with others in between,
and `lineCount_++` is two. `BlockDeque::Close` is two as well: what it does under the
mutex, and its notifications after it (`NotifyClosed`). A line
is its number in the order of `write`'s critical section. Log levels, formatting
and stdio's buffer are left out; a file is its day.

Two history variables mark what the code does not prevent. `stale`: a thread with
a date from before midnight took part in a rotation; the file that is open and
the date in `toDay_` may then part, for the rest of the day. `late`: the consumer
came back to `pop` after `Close` and its notifications. `pop` looks at `isClose_` only after a wait, so
the consumer then sleeps for ever and the destructor's `join` with it. The
destructor closes as soon as the deque is empty, when the consumer may well be
writing the line it has just popped.

### SqlConnPool

`Init`, `GetConn`, `FreeConn` (through `SqlConnRAII`) and `UserVerify`, which holds a
connection from its beginning to whichever of its returns. A connection is known by
the number of its connect. A connect that fails is logged and its `nullptr` queued
and counted like any other (`failed`); when its turn comes `assert(sql)` ends the
process (`aborted` is "null"). `connQue_.empty()` is
asked without the mutex; it compares the two ends of a `std::deque`, so it is two
loads (`Load`, `Compare`) in an order the build decides (`startFirst`): without
optimization, which is what `CMakeLists.txt` sets up, g++ loads the end first. With
that order, pops and pushes of other threads between the loads can make a queue
look empty that never was; `GetConn` returns `nullptr` and `assert(sql)` ends the
process (`aborted` is "busy"), even with as many connections as workers. `first` counts
pops, to give the ends positions; `torn` is history, the workers whose two loads had a
pop between them. The database is outside: each statement may fail, its result may be
had or not (`StoreFails`: `UserVerify` passes NULL to `mysql_num_fields`), and whether a name is unique there is left open. `contested` marks names
whose registrations overlapped or whose `INSERT` failed; `UserVerify` answers yes
to all of them.

## 3. Runs

| Run | Module, bounds | What it shows |
|---|---|---|
| `web_pool` | `WebThreadPool`, 3 workers, 2 callers, 3 tasks | `NoStrandedTask`; `CleanShutdown`; refinement of `TaskPool` with its fairness; `WorkersTerminate` |
| `heap_timer` | `HeapTimer`, 3 ids, 2 callbacks, delays of 1 and 2 ms, 2 ticks per ms, clock up to 4 | `RefConsistent`; refinement of `TimerMap`; `EveryTimerFires` |
| `heap_timer_starved` | 2 ids, delay of 2 ms, clock up to 8 | counterexample: `tick` returns while a timed-out node is in the heap |
| `reactor_owner` | `Reactor`, 2 clients, 2 descriptors, 2 workers, 2 pieces in all, timers on, edge-triggered (main.cpp's setting) | `OneOwner`; `Accounted`; `TimerForEveryWatch` |
| `reactor_http` | 2 clients, 1 worker, 1 user at a time, 4 pieces in all, files up to 2 units, both connection modes | `NoCrosstalk`; `NoOverwrite` |
| `reactor_listen` | 2 clients, 2 descriptors, 1 worker, 2 pieces in all, both listener modes, fairness | `NoStrandedBacklog`; `RequestsAreRead` |
| `http_conn` | `HttpConn`, 2 visits: a short GET, then a keep-alive GET and a login, a login and a GET, or no request; 2 arrivals; read buffer of 8 words, write buffer of 2, files up to 2 units, both connection modes, `iov_[1]` of 0 or 2 | `InOrder`; `WholeRequestUnderstood`; `ResponseIntact`; `ClosesInTime` |
| `c_pool` | `ThreadPoolC`, 2 producers, 3 tasks, 1 to 3 workers, ring of 2, `NUM` 2 | `NoStrandedTask`; `NoStrandedProducer`; `ThreadsAccounted`; refinement of `TaskPool`'s safety part |
| `cpp_pool` | `ThreadPoolCpp`, 2 producers, 2 tasks, 1 to 2 workers, `NUMBER` 2, `m_exitNum` 0 or 1 at first | `NoStrandedTask`; `DestroyedWhenAllGone`; refinement of `TaskPool`'s safety part; `DestructorReturns` |
| `echo_server` | `EchoServer`, 2 workers, 3 clients, 1 piece each | `NoStrandedTask`; `OneHolder`; `EveryClientAnswered`; `ServerEnds` |
| `log_queue` | `LogQueue`, 2 writers, deque of 2, 5 lines, a new file after 2, 2 days, synchronous and asynchronous | `WrittenOnce`; `OnlyDirectOvertakes`; `PushNeverWaits`; `FileOfToday`; `EveryLineWritten`; `DestructorReturns` |
| `sql_pool` | `SqlConnPool`, 3 workers, 1 to 3 connections, 5 calls, 1 name, 2 passwords, both load orders, any connects failing | `ConnsConserved`; `SemCountsFree`; `EnoughForAll`; `RegistrationKept` |

Each module has a `TypeOK` where its state is not a composition of others'. It
is proved for every one; no run repeats it. Every property of a run has a mutation of the
code it is about that a run finds; the mutated definitions stand before the
originals in the modules.

Why these bounds. Two callers and three workers are enough for a notification
to be overtaken by another caller and another worker; three tasks for a
queue with order. Three nodes are the smallest heap in which `siftdown_` has two
children to choose from; with two ticks per millisecond the truncation of both
signs is reached, and a clock of four lets a timer be armed, extended, missed
and called. Two clients on two descriptors let a descriptor be reused while
another client is active and while events for it are queued; two workers let
two tasks run at once. Two pieces let a client send the second one behind the first, while that is read or
answered, or after its connection was re-armed: `RequestsAreRead` fails when a
kept-alive connection is not re-armed for input. `MaxPieces`, `FileUnits` and `Horizon`
bound the counters in the guards; `Threshold` stands for the 10240 bytes of
`HttpConn::write`.

Three tasks go around a ring of two, and a third worker is needed to see the
manager create and dismiss two at once. Five lines fill a deque of two with one
in the consumer's hands, take one past it and one after it, and pass two
rotations by count. Five calls by three workers let the loads of `empty()` be
torn by a connection that is given back and taken again.

The shortest request of `http_conn` is of seven words and its longest stream of more than
three times the read buffer, so the buffer wraps by compaction and by growth, and
`ReadFd` uses the stack. Two arrivals split a request anywhere, between `CR` and
`LF` too; two visits show what one client leaves in the object for the next; a
file of two units and a header of three can be cut by `writev` before, at and
behind their border. One worker above `minNum` is enough for the C++ pool's
manager to create and dismiss, two tasks for a worker to pass over one while
another is awake. Three clients are one more than the echo server's workers.

Symmetry is used in the Reactor's safety runs (clients and workers; descriptors
are ordered because `accept` returns the lowest one), in the C pool's (tasks and
producers) and the MySQL pool's (workers and passwords), none of which checks
liveness. Deadlock is checked in the timer's runs. The others end where the
system may: a destroyed pool, a server whose clients have all left, a log whose
destructor returned or hangs, the bound on calls.

Fairness. Worker pool: a thread that can run does, and gets the mutex in the
end; nobody has to submit, to destroy or to wake up spuriously. Timer: time
passes, the server's thread runs, an `epoll_wait` with a nonnegative timeout
returns. Reactor: main and the workers run, and epoll delivers input, a
hang-up or an arrival that keeps being ready (its ready list is a FIFO, hence strong
fairness for an event that is repeatedly ready); clients and timers owe nothing. A
client need not even take its response, so no output event is promised: while a response
waits for its client nothing of that client is read (`Answering`), as in the code. C++ pool: producers that
began, workers, manager and destructor run. Echo server: main accepts whoever is
in the backlog, and its threads run; a worker that wants `m_mutex`, which others
take and release, gets it in the end (strong fairness, for mutexes do not starve);
clients owe nothing, neither to send, to read nor to leave, and `accept` need not fail.
A worker in `write` for a client that does not read owes nothing either. Log: writers, the
consumer and a destructor that has begun run; nobody has to log or to end the
program. The C pool, the MySQL pool and the single
connection are checked for safety only.

### Findings

* `siftup_` compares the wrong way round. A newly armed timer moves to the root
  although it is the latest; `tick` looks at the root only and returns while
  older nodes have timed out (`heap_timer_starved`). They are not lost: once
  nothing new is armed every timer fires (`EveryTimerFires`).
What follows contradicts no comment, or is an observation the models make rather
than a run; the properties' exceptions stand for it.

* `GetNextTick` stores the remaining time in a `size_t`, so `if (res < 0)` is
  never true. When the deadline passes between `tick` and the second look at
  the clock, `epoll_wait` gets a negative timeout and blocks until some event
  (`Blocked` in `EveryTimerFires`).
* In level-triggered mode `HttpConn::write` stops at the first `writev` that
  leaves at most 10240 bytes and returns a positive number, for which `OnWrite_`
  closes the connection; `ClosesInTime` is therefore about edge-triggered mode,
  which is main.cpp's.
* A response without a file leaves `iov_[1]` as the last aborted one, or the
  uninitialized memory, had it. `ToWriteBytes` then never reaches 0 and a
  keep-alive connection is closed after its response (`ClosesInTime`).
* The parser starts from nothing at each `process` and takes a line that has
  not ended as one: a request that arrives in two pieces is answered as a bad one.
  A `CR` that ends a read is taken with the line, its `LF` begins the next;
  a body in two pieces, or with a request behind it, is swallowed whole.
  `WholeRequestUnderstood` says what is left: a request that is there.
* A bad request is answered with 404 rather than 400 when its path is
  empty: `stat` then finds the directory.
* A connect that fails in `SqlConnPool::Init` is queued as a `nullptr` that counts as a
  connection (`sqlconnpool.cpp:36-42`); the process is aborted by `assert(sql)` when a
  worker gets it. `UserVerify` does not look at what `mysql_store_result` returns.
* `AddContent_` reads the mapping before it knows of one, and compares its first four
  bytes with -1: an empty file kills the process, a file that begins with 0xFFFFFFFF is
  answered with an error page and leaks its mapping and descriptor (`http_response.cpp:146`).
* Writing to a client that is gone raises SIGPIPE, which neither server ignores
  (`http_connect.cpp:81`, `socket_server/server.cpp:26`): the process ends for all clients.
* What a client sent before it closed its side is dropped: `Start` looks at the hang-up
  first (`webserver.cpp:94`).
* `ConverHex` (`http_request.cpp:141`) returns the character code for a
  digit, not its value.
* `threadPoolDestroy` waits two seconds "until they are all gone" and frees the
  pool under whoever is still in a task (`FreePool`).
* Connections closed by the timer under a worker (`preempted`); the stranded task of
  the C pool (`struck`) and of the C++ pools (`passedOver`); destructors that wait
  for a worker that missed their only broadcast (`missed`); an entry joined after it was
  cleared (`dismissedLate`); the log's hanging destructor (`late`) and its file
  of yesterday (`stale`); the torn `empty()` (`torn`) and the failed connect (`failed`); registrations answered yes
  in vain (`contested`).
* The C++11 pool's workers leave their loop as soon as `m_shutdown` is set, and drop
  what is queued; `thread_pool_cpp11/main.cpp` waits for its futures first, the
  echo server's clients are left with an open descriptor. With as many clients that stay as
  workers, the next one is accepted and never answered.
* `Log::init`'s `maxQueueSize` selects the mode but never reaches the deque,
  whose capacity is always its default.

## 4. Proofs

All proofs are for every value of the constants under the named assumptions of
the modules: `Workers` and `Callers` finite and `NoTask` not a task;
`Timeouts` positive, `TicksPerMs` a positive natural, `Horizon` a natural; for
the MySQL pool `Workers` finite, `MaxConns` positive; for the echo server `Workers`
finite, `NoTask` not a task, its bounds positive; for the two pools with a
manager `Producers` finite, their sizes positive, `NoTask` not a task, and `m_exitNum` any
natural number at first (a negative one dismisses nobody, as 0 does); for the Reactor `Fds` finite, the main
thread no worker, `NoConn` and `NoFd` outside their sets, naturals for bounds; for the
log `Writers` finite and its sizes positive; for the connection
sizes that are naturals; `MethodsAndPaths`: no word is both a method and a path, none is
a `CR`; `RequestsAreOfPages`: clients are browsers with the pages of `resources`, whose
forms are not empty (each has named fields) and hold no `CR`, and a GET has no body; and
`StreamsAreWords`: what a client may send is a sequence. `Encoded` computes that by
recursion, about which nothing can be proved here; TLC evaluates all three for the
run's streams.

**WebThreadPoolProofs.** `TypeInv` adds to `TypeOK` that a worker at `run` has a
task. `NoLostWakeup` is by induction on a counting argument: each step changes
the three numbers in `NoStrandedTask` (queued tasks, pending notifications,
workers at `lock`) by what lemma `Moves` says, and a worker falls asleep only
with the queue empty. `ShutsDownClean` needs that an exited worker saw `isClosed`
with an empty queue and that nothing is submitted after; the invariant says
where the destructor is. `Refinement` needs in addition that a task is in one
place only (queue, one worker, finished), which is why its invariant carries
injectivity of the queue and of `task`.

**HeapTimerProofs.** `IInv` is `TypeOK`, `RefConsistent` and `LoopInv`.
`RefConsistent` alone is not inductive: that a swap stays inside the heap
depends on where a loop's cursors are, and that depends on the operation it
runs for; `LoopInv` says so (during a deletion the cursors stay below the last
node, the one about to be removed). `SwapKeepsRef` is the heart: a swap keeps
`ref_` in step and moves every node with its id. `Refinement` maps the heap
to the map of armed timers (`ArmedTimers`: the nodes below the end, without the
last one during a deletion; a re-added timer has its new callback from the
start, `SetCb` is a stutter) and shows that sifting steps stutter, that
`del_` removes its node when it starts (`DeleteDisarms`), and that each
operation is its counterpart. Since `TickPop` tests a deadline truncated to
milliseconds, `DueByMs` gives the contract's `Due`.

**SqlConnPoolProofs.** `ConnsConserved` counts, which is awkward to step; `IInv`
says the same of positions and holders (`Partition`: positions hold different
connections, none of them held, no two workers hold one, none is missing), and
adds that free and held connections together are `MAX_CONN_`. `SemaphoreAgrees`
follows worker by worker: each action moves one between `Holding`, `At("pop")` and
the rest. `EnoughConnections` is the argument that needs all of it: a worker that
is still looking holds nothing, so the others cannot hold every connection
(`RoomForOne`); a front loaded while the queue is not empty stays behind the end
whatever is pushed and popped afterwards, and an end loaded first stays ahead of the
front until somebody pops, which makes the worker `torn` (`LoadedBehind`); and
`Explained` keeps, once the process is aborted, what aborted it. `RegistrationKept` is
about names somebody has been told of; `Registered` adds what is true before: an
uncontested name has at most one row, and whoever is about to insert it finds none,
because an insertion next to another one of that name is contested by the first of them.

**EchoServerProofs.** `NoStrandedTask` is not inductive: it says nothing while
nobody sleeps, and the window in which a notification is lost opens just then.
`Covered` counts for a worker in its window too: the queued tasks are no more than
the workers on their way to the queue (`Coming`) and the notification that is due
(`Due`), unless `passedOver`; a worker between the predicate's two reads counts as one
on its way, as it has yet to ask for the queue. `DescriptorsHeldOnce` needs `Sole`: the queue has
no client twice, no two workers run the same one, no client is in both places, and
exactly the open ones are in one.

**ManagedPoolsProofs, the C pool.** `TypeInv` adds to `TypeOK` that the ring is a window of
`queueSize` places from `queueFront` on (`RingShape`), and that `busyNum` counts the
workers in a task; without it `TypeOK`'s own bounds are not inductive. `Mutex` says of
a thread between its test and `pthread_cond_wait` that the test still holds. With that
each of the three counts goes step by step: a signal moves a sleeper to those on
their way to the mutex (`Awake`), one task taken out frees one place for a producer
(`Locking`), and `liveNum` is the cardinality of `Living`. A wakeup that a dismissed
worker dies on is the exception `NoStrandedTask` names, and the proof needs no other.
For the refinement, `RingGrew` and `RingShrank` turn the positions modulo
`queueCapacity` into a sequence that gets longer at its end and shorter at its front,
`Unique` keeps a task in one place, and `OpenTillDestroyed` ties the contract's
flag to the destroyer's progress.

**ManagedPoolsProofs, the C++ pool.** It is the other pool rewritten, with the same
threads, and its module comes in as `Cpp`, an instance of `ThreadPoolCpp` that shares the
threads' variables; only `NUMBER` and `m_aliveNum` have another name in the C pool. So
the lemmas that count threads at a place (`Moves`, `Signalled`, `FilledRoom`) serve both.
`NoStrandedTask` is not inductive, as it speaks of sleepers only: `CppEnough` claims it from
a worker's test on, while it is still at `towait`, where the lost signals fall
(`passedOver` says when). `ThreadsAccounted` nearly is: whatever is left in `m_exitNum`, a
worker looks at `m_aliveNum` under the mutex before it goes (`CppAccounted`). For
`DestroyedWhenAllGone`, `CppClosing` says where the destructor is and that every entry
behind it is done with (`Over`). What remains is a worker that was dismissed in time
and has cleared its entry, but not ended, when the destructor passes. It holds
`m_lock` (`CppHolder`: one holder at a time), and while it does nobody else can leave; as
`m_minNum` is positive there is somebody else, by `CppAccounted`, whose entry the
destructor waits for. For the refinement the contract is closed once `m_shutdown` is set
and no producer is past its look at it (`Closed`): a task queued after the flag
was set is one the contract still took. `CppClosedStep` is the fact this needs, that a
closed pool stays closed and nobody queues in it; `CppUnique` keeps a task in one place,
and `CppStepKinds` leaves four kinds of step: a task is queued, taken, or
finished, or none is touched.

**ReactorProofs.** `OneOwner` alone is not inductive: it does not say where a
descriptor goes next. `AllPlaced` does: each descriptor is in exactly one of five places
(`Unused`, `InEpoll`, `InBatch`, `InQueue`, `InThread`), and each place fixes what epoll
has armed, whether the connection is marked closed, and which events and tasks
name it. It is claimed of descriptors that no timer has taken from a thread at work
(`preempted`), for which the code does not promise it. `MainLoop` is what
the main thread has in its hands in each phase; `Undisturbed` and `Same` are the frame: a
step leaves every other descriptor where it is. `Counted` adds `userCount`, and
`Accounted` follows. For the data, `Distinct` (a connection has one descriptor, and
nothing in the server is about it before it is accepted: `Fresh`) and `Separate` (what
the object of a descriptor holds is its connection's) are proved side by side, with
the two sides of a connection told apart (`Reading`, `Writing`): a response
is sent whole before the next request is read. `NoCrosstalk` and `NoOverwrite` follow
from them.

**LogQueueProofs.** `TypeInv` needs that the bound on lines leaves room for each writer
on its way to one. `PushNeverWaits` follows from `OneHolder` (`Log::mtx_` has one holder)
and `Room` (who found the deque not full still does: the consumer only takes).
`Dated` says whose day a file about to be opened is of, from the store to `toDay_` on. The other two are about the way
of a line: `OnTheWay` is what the consumer has in hand, then the deque, then what a writer
is pushing, and every step does one of four things to it (`StillWay`, `GoesDirect`,
`Joins`, `FirstWritten`; lemma `WayStep`). `Once` (file and way together are the lines so
far, each once) and `Sorted` (the way is in order, and what is in the file ahead of it
went directly) are then four cases each.

**HttpConnProofs.** First the buffer. `Buffers(S)` are the values it can have, with
cells in `S`. `ContentIs` reduces an equation of contents to the cells between the
indices; `CopyAppends` is what `std::copy` at `BeginWrite` does, `MakeSpaceKeeps` compares
both ways of making space with it, and `AppendAppends` and `ReadFdAppends` follow, the
latter from the former for the part that went to the stack. No run states these
four: they are the lemmas `InputInOrder` rests on. `Reading` is the invariant: the buffer is one of
`Buffers(Words)`, and what it holds is the end of what was taken of the stream
(`Unread`). Reading appends (`UnreadAfterRead`), a line takes from the front
(`UnreadAfterLine`); the latter needs that `search` stays inside the buffer
(`LineEndInside`), for which its `CHOOSE` must have something to choose: every
nonempty set of indices has a least one (`LeastExists`). `ResponseKept` has
`Writing`: while a response goes out, `iov_[0]` is the write buffer's content as long
as it has any (when it has none its base may be stale), `iov_[1]` ends where the
file does, and both together are `due` (`Pointing`); before, the write buffer is
empty and nothing is due, which is why the next response starts at its beginning.
Once a timer has closed the object under a worker, or the process is dead, nothing is due
and nothing mapped (`ForgetKeepsWriting`), and no more is claimed.
`WriteKeeps` is the step that matters: what `writev` took comes off the first part or
off the second, and `write`'s arithmetic follows (`DropsFromFirst`, `DropsFirst`,
`FileDataDrops`). `ClosedInTime` adds to it that in edge-triggered mode `write` returns
without `EAGAIN` only with nothing to offer or the client gone (`Drained`).
`RequestUnderstood` follows `parse` line by line. `Parsing` says that, while the loop runs
with a whole request in front of the buffer, it is at one of five places of that request
(`Underway`: before the request line, a header, the empty line or the body), and at each
knows of it exactly what lies before that place (`Known`), with the rest still in the
buffer. `LineFound` gives what `search` returns on content that begins with a line
(`StartsWith`), `LineTaken` and `RestTaken` what one turn of the loop takes of it; a lemma
per place (`FirstTurn`, `KeepTurn`, `TypeTurn`, `EndTurn`, `BodyTurn`) then moves on to the
next or finishes. `Then` is concatenation under a name the provers do not open: lines of a
known number of words are cut off its front by lemmas, never by index arithmetic.

Only model-checked: all liveness (`WorkersTerminate`, `EveryTimerFires`,
`RequestsAreRead`, `EveryLineWritten`, `DestructorReturns`, `EveryClientAnswered`,
`ServerEnds`, and the fairness part of `ImplementsTaskPool`; the theorem about the worker
pool is about its safety part). Every safety property that a passing run checks is a theorem;
those of the C++ pool are stated as `Cpp!NoStrandedTask` and so on. Two simple invariants are
proved and left out of the runs: `ThreadsAccounted` of the C++ pool, and `NoRequestLeftBehind`
of the connection (it is armed for input with an empty read buffer only).

## 5. Not modelled

The constructor, destructor and `InitSocket_` of `WebServer` (sequential
set-up; `Start` does not return); the characters inside a word, and with them
`ParseFromUrlencoded_` (which fields a form has is kept, not how `%xx` and `+` are
decoded) and `GetFileType_`; files of 2 GiB and more (`ToWriteBytes` returns a sum of
two `size_t` as an `int`) and a file that changes its size while it is mapped; what becomes
of an `HttpConn` that a timer's close and a worker race for; `mysql_init` without memory
(an assertion ends the process in `Init`, before anybody is served);
`WriteFd` and `RetrieveAllToStr`, which no connection uses; log formatting and stdio's
buffer; a second `Log::init` and the deque's methods nobody calls;
`Log::flush` reading `fp_` while another thread closes that file, which is
undefined; `ClosePool`, which runs in the destructor of `WebServer` only; failing
allocations; the values of the C++11 pool's futures; the client and the hello world
programs, one loop of blocking calls and two exercises. See the notes in `PROJECT.json`.

## 6. Plan

Done: every component with state; contracts for the worker pool, the timer and (their
safety part) the pools with a manager; proofs for all of them. What is left: the decoding
of a form as a function on characters, checked against a reference over short inputs.
