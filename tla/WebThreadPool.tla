---------------------------- MODULE WebThreadPool ----------------------------
(***************************************************************************)
(* webserver_tac/code/pool/threadpool.h: the pool of detached worker       *)
(* threads that runs the web server's read and write handlers.             *)
(*                                                                         *)
(* Every access to Pool::tasks and Pool::isClosed happens under Pool::mtx, *)
(* so what a thread does between taking and releasing the mutex is one     *)
(* action.  What happens outside the mutex is an action of its own: the    *)
(* execution of a task, AddTask's notify_one and the destructor's          *)
(* notify_all, each of which may come arbitrarily late.                    *)
(***************************************************************************)
EXTENDS Naturals, Sequences, FiniteSets

CONSTANTS
  Workers,       \* the threadCount detached threads
  Callers,       \* the threads that call AddTask
  Tasks,         \* the std::function objects ever submitted, each one once
  NoTask         \* the content of a worker's local `task' outside task()

ASSUME WorkersFinite == IsFiniteSet(Workers)
ASSUME CallersFinite == IsFiniteSet(Callers)
ASSUME NoTaskIsNoTask == NoTask \notin Tasks

VARIABLES
  tasks,         \* Pool::tasks
  isClosed,      \* Pool::isClosed
  wpc,           \* where each worker is: see WorkerStates
  task,          \* each worker's local variable task
  cpc,           \* "idle", or "notify" between AddTask's unlock and notify_one
  dpc,           \* the destructor: "alive", "notify" after its unlock, "done"
  done           \* history: the tasks whose function returned

vars == <<tasks, isClosed, wpc, task, cpc, dpc, done>>

(* "lock": about to take (or retake) mtx; "run": executing task();         *)
(* "wait": blocked in cond.wait; "exit": left the while (true) loop.       *)
WorkerStates == {"lock", "run", "wait", "exit"}

At(s) == {w \in Workers : wpc[w] = s}
Notifying == {c \in Callers : cpc[c] = "notify"}
Queued == {tasks[i] : i \in 1..Len(tasks)}
Running == {task[w] : w \in At("run")}

(* The shape of the pool's state and of each thread's place in the code.  *)
TypeOK ==
  /\ tasks \in Seq(Tasks)
  /\ isClosed \in BOOLEAN
  /\ wpc \in [Workers -> WorkerStates]
  /\ task \in [Workers -> Tasks \cup {NoTask}]
  /\ cpc \in [Callers -> {"idle", "notify"}]
  /\ dpc \in {"alive", "notify", "done"}
  /\ done \subseteq Tasks

Init ==
  /\ tasks = <<>>
  /\ isClosed = FALSE
  /\ wpc = [w \in Workers |-> "lock"]
  /\ task = [w \in Workers |-> NoTask]
  /\ cpc = [c \in Callers |-> "idle"]
  /\ dpc = "alive"
  /\ done = {}

-----------------------------------------------------------------------------
(* Mutations of the definitions below, each a bug this code could have:    *)
(* notify only when the queue was empty, notify_one instead of notify_all, *)
(* wait without looking at isClosed, and take the back of the queue.       *)

AddTaskNotifiesIfEmpty(c, t) ==
  /\ cpc[c] = "idle" /\ dpc = "alive"
  /\ t \notin Queued \cup Running \cup done
  /\ tasks' = Append(tasks, t)
  /\ cpc' = [cpc EXCEPT ![c] = IF tasks = <<>> THEN "notify" ELSE "idle"]
  /\ UNCHANGED <<isClosed, wpc, task, dpc, done>>

NotifiesOnlyOne ==
  /\ dpc = "notify"
  /\ IF At("wait") = {}
     THEN wpc' = wpc
     ELSE \E w \in At("wait") : wpc' = [wpc EXCEPT ![w] = "lock"]
  /\ dpc' = "done"
  /\ UNCHANGED <<tasks, isClosed, task, cpc, done>>

SleepUnchecked(w) ==
  /\ wpc[w] = "lock" /\ tasks = <<>>
  /\ wpc' = [wpc EXCEPT ![w] = "wait"]
  /\ UNCHANGED <<tasks, isClosed, task, cpc, dpc, done>>

TakeBack(w) ==
  /\ wpc[w] = "lock" /\ tasks # <<>>
  /\ task' = [task EXCEPT ![w] = tasks[Len(tasks)]]
  /\ tasks' = SubSeq(tasks, 1, Len(tasks) - 1)
  /\ wpc' = [wpc EXCEPT ![w] = "run"]
  /\ UNCHANGED <<isClosed, cpc, dpc, done>>

-----------------------------------------------------------------------------
(* The submitting side.  The owner destroys the pool only when no call of  *)
(* AddTask is in progress and calls it no more, as C++ demands.            *)

AddTask(c, t) ==
  /\ cpc[c] = "idle" /\ dpc = "alive"
  /\ t \notin Queued \cup Running \cup done
  /\ tasks' = Append(tasks, t)
  /\ cpc' = [cpc EXCEPT ![c] = "notify"]
  /\ UNCHANGED <<isClosed, wpc, task, dpc, done>>

(* cond.notify_one(): unblocks one waiting thread, if there is one. *)
WakeOne ==
  IF At("wait") = {}
  THEN wpc' = wpc
  ELSE \E w \in At("wait") : wpc' = [wpc EXCEPT ![w] = "lock"]

WakeAll == wpc' = [w \in Workers |-> IF wpc[w] = "wait" THEN "lock" ELSE wpc[w]]

NotifyOne(c) ==
  /\ cpc[c] = "notify"
  /\ WakeOne
  /\ cpc' = [cpc EXCEPT ![c] = "idle"]
  /\ UNCHANGED <<tasks, isClosed, task, dpc, done>>

Destroy ==
  /\ dpc = "alive" /\ Notifying = {}
  /\ isClosed' = TRUE
  /\ dpc' = "notify"
  /\ UNCHANGED <<tasks, wpc, task, cpc, done>>

NotifyAll ==
  /\ dpc = "notify"
  /\ WakeAll
  /\ dpc' = "done"
  /\ UNCHANGED <<tasks, isClosed, task, cpc, done>>

-----------------------------------------------------------------------------
(* One worker: an iteration of the loop ends where it gives up the mutex.  *)

TakeTask(w) ==
  /\ wpc[w] = "lock" /\ tasks # <<>>
  /\ task' = [task EXCEPT ![w] = Head(tasks)]
  /\ tasks' = Tail(tasks)
  /\ wpc' = [wpc EXCEPT ![w] = "run"]
  /\ UNCHANGED <<isClosed, cpc, dpc, done>>

FinishTask(w) ==
  /\ wpc[w] = "run"
  /\ done' = done \cup {task[w]}
  /\ task' = [task EXCEPT ![w] = NoTask]
  /\ wpc' = [wpc EXCEPT ![w] = "lock"]
  /\ UNCHANGED <<tasks, isClosed, cpc, dpc>>

ExitLoop(w) ==
  /\ wpc[w] = "lock" /\ tasks = <<>> /\ isClosed
  /\ wpc' = [wpc EXCEPT ![w] = "exit"]
  /\ UNCHANGED <<tasks, isClosed, task, cpc, dpc, done>>

Sleep(w) ==
  /\ wpc[w] = "lock" /\ tasks = <<>> /\ ~isClosed
  /\ wpc' = [wpc EXCEPT ![w] = "wait"]
  /\ UNCHANGED <<tasks, isClosed, task, cpc, dpc, done>>

(* condition_variable::wait may return with no notification. *)
SpuriousWakeup(w) ==
  /\ wpc[w] = "wait"
  /\ wpc' = [wpc EXCEPT ![w] = "lock"]
  /\ UNCHANGED <<tasks, isClosed, task, cpc, dpc, done>>

Worker(w) == TakeTask(w) \/ FinishTask(w) \/ ExitLoop(w) \/ Sleep(w)

Next ==
  \/ \E c \in Callers, t \in Tasks : AddTask(c, t)
  \/ \E c \in Callers : NotifyOne(c)
  \/ \E w \in Workers : Worker(w) \/ SpuriousWakeup(w)
  \/ Destroy
  \/ NotifyAll

(* Every thread that can run does, and gets the mutex in the end.  Nobody  *)
(* is obliged to submit a task, to destroy the pool or to wake spuriously. *)
Fairness ==
  /\ \A w \in Workers : WF_vars(Worker(w))
  /\ \A c \in Callers : WF_vars(NotifyOne(c))
  /\ WF_vars(NotifyAll)

SafeSpec == Init /\ [][Next]_vars
Spec == SafeSpec /\ Fairness

-----------------------------------------------------------------------------
(* While a worker sleeps, every queued task has a thread on its way to it: *)
(* an AddTask that has not called notify_one yet, or a worker about to     *)
(* take the mutex.  This is why notifying after the unlock loses no wakeup.*)
NoStrandedTask ==
  At("wait") # {} =>
    Len(tasks) <= Cardinality(Notifying) + Cardinality(At("lock"))

(* A worker leaves its loop only when nothing is left to run, and once the *)
(* destructor has notified nobody sleeps: shutdown drops no task and       *)
(* leaves no thread behind.                                                *)
CleanShutdown ==
  /\ At("exit") # {} => tasks = <<>>
  /\ dpc = "done" => At("wait") = {}

(* The pool's promise: submission order, exactly one execution, no loss.   *)
Abstract == INSTANCE TaskPool
              WITH queue <- tasks, running <- Running, finished <- done,
                   closed <- isClosed
ImplementsTaskPool == Abstract!Spec

(* Destroying the pool ends every detached thread. *)
WorkersTerminate == (dpc = "notify") ~> (At("exit") = Workers)
=============================================================================
