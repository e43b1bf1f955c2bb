---------------------------- MODULE ThreadPoolC -----------------------------
(***************************************************************************)
(* thread_pool_c/threadpool.c: a bounded ring of tasks, workers, and a     *)
(* manager that creates workers and tells them to die.                     *)
(*                                                                         *)
(* What is done under mutexPool is one action, up to a wait: shutdown is   *)
(* written, and the conditions are signalled by the destroying thread and  *)
(* the manager, without the mutex, so they may come between a thread's     *)
(* test and its wait ("towait", the only place where the mutex is held     *)
(* from one state to the next).                                            *)
(*                                                                         *)
(* A thread is known by its index in threadIDs, which is 0 exactly when    *)
(* the thread is at "none".                                                *)
(***************************************************************************)
EXTENDS Naturals, Sequences, FiniteSets

CONSTANTS
  Producers,     \* threads that call threadPoolAdd
  Tasks,         \* the (function, arg) pairs ever added, each one once
  NoTask,
  minNum, maxNum, queueCapacity,   \* arguments of threadPoolCreate
  NUM            \* how many threads the manager creates or dismisses at once

ASSUME SizesArePositive ==
  /\ minNum \in Nat \ {0} /\ maxNum \in Nat /\ minNum <= maxNum
  /\ queueCapacity \in Nat \ {0} /\ NUM \in Nat \ {0}
ASSUME NoTaskIsNoTask == NoTask \notin Tasks
ASSUME ProducersFinite == IsFiniteSet(Producers)

VARIABLES
  taskQ, queueSize, queueFront, queueRear,    \* the ring
  busyNum, liveNum, exitNum,                  \* the counters
  shutdown,
  wpc,           \* each worker: see WorkerStates
  task,          \* each worker's local variable task
  ppc,           \* each producer: "idle", "lock", "towait" or "wait"
  mpc,           \* the manager: see ManagerStates
  seen,          \* the manager's locals queueSize, liveNum and busyNum
  signals,       \* notEmpty signals the manager or the destroyer has yet sent
  dpc,           \* threadPoolDestroy: "alive", "join", "wake", "sleep", "freed"
  done,          \* history: the tasks whose function returned
  struck         \* history: a worker died on a wakeup while a task was queued

ring == <<taskQ, queueSize, queueFront, queueRear>>
counters == <<busyNum, liveNum, exitNum>>
manager == <<mpc, seen>>
destroyer == <<dpc, shutdown>>
history == <<done, struck>>
vars == <<ring, counters, wpc, task, ppc, manager, signals, destroyer, history>>

Slots == 0..(maxNum - 1)
Places == 0..(queueCapacity - 1)

(* "lock": about to take mutexPool; "towait": tested, about to wait;       *)
(* "woken": returning from pthread_cond_wait; "start": has a task, not     *)
(* counted busy yet; "exit": in threadExit.                                *)
WorkerStates == {"none", "lock", "towait", "wait", "woken", "start", "run", "exit"}
ManagerStates == {"check", "sleep", "busy", "grow", "shrink", "signal", "done"}

At(s) == {w \in Slots : wpc[w] = s}
Held == At("towait") # {} \/ \E p \in Producers : ppc[p] = "towait"

(* The ring read from its front. *)
Queue == [k \in 1..queueSize |-> taskQ[(queueFront + k - 1) % queueCapacity]]
Queued == {Queue[k] : k \in 1..queueSize}
Running == {task[w] : w \in At("start") \cup At("run")}

(* The shape of the state; the positions stay in the ring. *)
TypeOK ==
  /\ taskQ \in [Places -> Tasks \cup {NoTask}]
  /\ queueSize \in 0..queueCapacity
  /\ queueFront \in Places /\ queueRear \in Places
  /\ busyNum \in 0..maxNum /\ liveNum \in 0..maxNum /\ exitNum \in 0..NUM
  /\ shutdown \in BOOLEAN
  /\ wpc \in [Slots -> WorkerStates]
  /\ task \in [Slots -> Tasks \cup {NoTask}]
  /\ ppc \in [Producers -> {"idle", "lock", "towait", "wait"}]
  /\ mpc \in ManagerStates
  /\ seen \in [queue : 0..queueCapacity, live : 0..maxNum, busy : 0..maxNum]
  /\ signals \in 0..(NUM + maxNum)
  /\ dpc \in {"alive", "join", "wake", "sleep", "freed"}
  /\ done \subseteq Tasks /\ struck \in BOOLEAN

Nothing == [queue |-> 0, live |-> 0, busy |-> 0]

(* threadPoolCreate: the calls of malloc and pthread_*_init succeed. *)
Init ==
  /\ taskQ = [k \in Places |-> NoTask]
  /\ queueSize = 0 /\ queueFront = 0 /\ queueRear = 0
  /\ busyNum = 0 /\ liveNum = minNum /\ exitNum = 0
  /\ shutdown = FALSE
  /\ wpc = [w \in Slots |-> IF w < minNum THEN "lock" ELSE "none"]
  /\ task = [w \in Slots |-> NoTask]
  /\ ppc = [p \in Producers |-> "idle"]
  /\ mpc = "check" /\ seen = Nothing /\ signals = 0
  /\ dpc = "alive"
  /\ done = {} /\ struck = FALSE

-----------------------------------------------------------------------------
(* Mutations of the definitions below, each a bug this code could have:    *)
(* the rear is not moved, no signal from threadPoolAdd or to it, and a     *)
(* dying worker that ignores minNum.                                       *)

RearStays == queueRear

SignalsNobody == UNCHANGED wpc

WakesNoProducer == UNCHANGED ppc

DismissedBelowMin == exitNum > 0

-----------------------------------------------------------------------------
(* pthread_cond_signal wakes one of the waiting threads, if there is one. *)

SignalNotEmpty ==
  IF At("wait") = {}
  THEN UNCHANGED wpc
  ELSE \E w \in At("wait") : wpc' = [wpc EXCEPT ![w] = "woken"]

SignalNotFull ==
  IF \A p \in Producers : ppc[p] # "wait"
  THEN UNCHANGED ppc
  ELSE \E p \in Producers : ppc[p] = "wait" /\ ppc' = [ppc EXCEPT ![p] = "lock"]

-----------------------------------------------------------------------------
(* threadPoolAdd *)

NextRear == (queueRear + 1) % queueCapacity

CallAdd(p) ==
  /\ ppc[p] = "idle" /\ dpc = "alive"
  /\ ppc' = [ppc EXCEPT ![p] = "lock"]
  /\ UNCHANGED <<ring, counters, wpc, task, manager, signals, destroyer, history>>

Put(p, t) ==
  /\ ppc[p] = "lock" /\ ~Held /\ queueSize < queueCapacity /\ ~shutdown
  /\ t \notin Queued \cup Running \cup done
  /\ taskQ' = [taskQ EXCEPT ![queueRear] = t]
  /\ queueRear' = NextRear
  /\ queueSize' = queueSize + 1
  /\ SignalNotEmpty
  /\ ppc' = [ppc EXCEPT ![p] = "idle"]
  /\ UNCHANGED <<queueFront, counters, task, manager, signals, destroyer, history>>

Refused(p) ==
  /\ ppc[p] = "lock" /\ ~Held /\ shutdown
  /\ ppc' = [ppc EXCEPT ![p] = "idle"]
  /\ UNCHANGED <<ring, counters, wpc, task, manager, signals, destroyer, history>>

FindsFull(p) ==
  /\ ppc[p] = "lock" /\ ~Held /\ queueSize = queueCapacity /\ ~shutdown
  /\ ppc' = [ppc EXCEPT ![p] = "towait"]
  /\ UNCHANGED <<ring, counters, wpc, task, manager, signals, destroyer, history>>

(* The wait begins, which releases the mutex; or it ends for no reason.    *)
WaitNotFull(p) ==
  /\ \/ ppc[p] = "towait" /\ ppc' = [ppc EXCEPT ![p] = "wait"]
     \/ ppc[p] = "wait" /\ ppc' = [ppc EXCEPT ![p] = "lock"]
  /\ UNCHANGED <<ring, counters, wpc, task, manager, signals, destroyer, history>>

-----------------------------------------------------------------------------
(* worker.  A woken one looks at exitNum first, with the mutex it got back. *)

Dismissed == exitNum > 0 /\ liveNum > minNum

Dies(w) ==
  /\ wpc[w] = "woken" /\ ~Held /\ Dismissed
  /\ exitNum' = exitNum - 1
  /\ liveNum' = liveNum - 1
  /\ wpc' = [wpc EXCEPT ![w] = "exit"]
  /\ struck' = (struck \/ queueSize > 0)
  /\ UNCHANGED <<ring, busyNum, task, ppc, manager, signals, destroyer, done>>

(* At the test of the inner loop, with the mutex. *)
Tests(w) ==
  /\ ~Held
  /\ \/ wpc[w] = "lock" /\ UNCHANGED exitNum
     \/ /\ wpc[w] = "woken" /\ ~Dismissed
        /\ exitNum' = IF exitNum > 0 THEN exitNum - 1 ELSE exitNum
  /\ UNCHANGED <<busyNum, liveNum, manager, signals, destroyer, history>>

FindsEmpty(w) ==
  /\ Tests(w) /\ queueSize = 0 /\ ~shutdown
  /\ wpc' = [wpc EXCEPT ![w] = "towait"]
  /\ UNCHANGED <<ring, task, ppc>>

FindsShutdown(w) ==
  /\ Tests(w) /\ shutdown
  /\ wpc' = [wpc EXCEPT ![w] = "exit"]
  /\ UNCHANGED <<ring, task, ppc>>

NextFront == (queueFront + 1) % queueCapacity

TakeTask(w) ==
  /\ Tests(w) /\ queueSize > 0 /\ ~shutdown
  /\ task' = [task EXCEPT ![w] = taskQ[queueFront]]
  /\ queueFront' = NextFront
  /\ queueSize' = queueSize - 1
  /\ SignalNotFull
  /\ wpc' = [wpc EXCEPT ![w] = "start"]
  /\ UNCHANGED <<taskQ, queueRear>>

(* The wait begins, which releases the mutex; or it ends for no reason.    *)
WaitNotEmpty(w) ==
  /\ \/ wpc[w] = "towait" /\ wpc' = [wpc EXCEPT ![w] = "wait"]
     \/ wpc[w] = "wait" /\ wpc' = [wpc EXCEPT ![w] = "woken"]
  /\ UNCHANGED <<ring, counters, task, ppc, manager, signals, destroyer, history>>

StartTask(w) ==
  /\ wpc[w] = "start"
  /\ busyNum' = busyNum + 1
  /\ wpc' = [wpc EXCEPT ![w] = "run"]
  /\ UNCHANGED <<ring, liveNum, exitNum, task, ppc, manager, signals, destroyer,
                 history>>

EndTask(w) ==
  /\ wpc[w] = "run"
  /\ busyNum' = busyNum - 1
  /\ done' = done \cup {task[w]}
  /\ task' = [task EXCEPT ![w] = NoTask]
  /\ wpc' = [wpc EXCEPT ![w] = "lock"]
  /\ UNCHANGED <<ring, liveNum, exitNum, ppc, manager, signals, destroyer, struck>>

threadExit(w) ==
  /\ wpc[w] = "exit"
  /\ wpc' = [wpc EXCEPT ![w] = "none"]
  /\ UNCHANGED <<ring, counters, task, ppc, manager, signals, destroyer, history>>

-----------------------------------------------------------------------------
(* manager *)

Check ==
  /\ mpc = "check"
  /\ mpc' = IF shutdown THEN "done" ELSE "sleep"
  /\ UNCHANGED <<ring, counters, wpc, task, ppc, seen, signals, destroyer, history>>

ReadPool ==
  /\ mpc = "sleep" /\ ~Held
  /\ seen' = [seen EXCEPT !.queue = queueSize, !.live = liveNum]
  /\ mpc' = "busy"
  /\ UNCHANGED <<ring, counters, wpc, task, ppc, signals, destroyer, history>>

ReadBusy ==
  /\ mpc = "busy"
  /\ seen' = [seen EXCEPT !.busy = busyNum]
  /\ mpc' = "grow"
  /\ UNCHANGED <<ring, counters, wpc, task, ppc, signals, destroyer, history>>

TooFew == seen.queue > seen.live /\ seen.live < maxNum
TooMany == seen.busy * 2 < seen.live /\ seen.live > minNum

(* The free entries of threadIDs the loop fills: the first ones, as many   *)
(* as NUM and the live threads allow.                                      *)
Filled ==
  {i \in At("none") :
     LET before == Cardinality({j \in At("none") : j < i})
     IN  before < NUM /\ liveNum + before < maxNum}

Grow ==
  /\ mpc = "grow" /\ (TooFew => ~Held)
  /\ IF TooFew
     THEN /\ wpc' = [i \in Slots |-> IF i \in Filled THEN "lock" ELSE wpc[i]]
          /\ liveNum' = liveNum + Cardinality(Filled)
     ELSE UNCHANGED <<wpc, liveNum>>
  /\ mpc' = "shrink"
  /\ UNCHANGED <<ring, busyNum, exitNum, task, ppc, seen, signals, destroyer, history>>

(* exitNum is set under the mutex, the signals come after it. *)
Shrink ==
  /\ mpc = "shrink" /\ (TooMany => ~Held)
  /\ IF TooMany
     THEN exitNum' = NUM /\ signals' = NUM /\ mpc' = "signal"
     ELSE UNCHANGED <<exitNum, signals>> /\ mpc' = "check"
  /\ seen' = Nothing                                   \* not read again
  /\ UNCHANGED <<ring, busyNum, liveNum, wpc, task, ppc, destroyer, history>>

SignalDismissal ==
  /\ mpc = "signal" /\ signals > 0
  /\ SignalNotEmpty
  /\ signals' = signals - 1
  /\ mpc' = IF signals = 1 THEN "check" ELSE "signal"
  /\ UNCHANGED <<ring, counters, task, ppc, seen, destroyer, history>>

-----------------------------------------------------------------------------
(* threadPoolDestroy.  In "wake", signals is the loop's i. *)

SetShutdown ==
  /\ dpc = "alive"
  /\ shutdown' = TRUE
  /\ dpc' = "join"
  /\ UNCHANGED <<ring, counters, wpc, task, ppc, manager, signals, history>>

JoinManager ==
  /\ dpc = "join" /\ mpc = "done"
  /\ dpc' = "wake"
  /\ UNCHANGED <<ring, counters, wpc, task, ppc, manager, signals, shutdown, history>>

WakeWorkers ==
  /\ dpc = "wake"
  /\ IF signals < liveNum
     THEN SignalNotEmpty /\ signals' = signals + 1 /\ UNCHANGED dpc
     ELSE dpc' = "sleep" /\ signals' = 0 /\ UNCHANGED wpc
  /\ UNCHANGED <<ring, counters, task, ppc, manager, shutdown, history>>

(* After two seconds, in which anything may happen or nothing. *)
FreePool ==
  /\ dpc = "sleep"
  /\ dpc' = "freed"
  /\ UNCHANGED <<ring, counters, wpc, task, ppc, manager, signals, shutdown, history>>

-----------------------------------------------------------------------------
Producer(p) == (\E t \in Tasks : Put(p, t)) \/ Refused(p) \/ FindsFull(p)

Worker(w) ==
  \/ Dies(w) \/ FindsEmpty(w) \/ FindsShutdown(w) \/ TakeTask(w)
  \/ StartTask(w) \/ EndTask(w) \/ threadExit(w)

Manager == Check \/ ReadPool \/ ReadBusy \/ Grow \/ Shrink \/ SignalDismissal
Destroyer == JoinManager \/ WakeWorkers \/ FreePool

(* The pool may be freed with a worker in a task (threadPoolDestroy waits  *)
(* two seconds, then frees); what a thread does to the memory of a freed   *)
(* pool is undefined: the behaviour ends there.                            *)
Next ==
  /\ dpc # "freed"
  /\ \/ \E p \in Producers : CallAdd(p) \/ Producer(p) \/ WaitNotFull(p)
     \/ \E w \in Slots : Worker(w) \/ WaitNotEmpty(w)
     \/ Manager
     \/ SetShutdown
     \/ Destroyer

Spec == Init /\ [][Next]_vars

-----------------------------------------------------------------------------
(* The ring is a queue of tasks: what is taken out is what was put in, in  *)
(* order and once, whatever the positions are.  (At shutdown tasks are     *)
(* left in it, so only the safety of TaskPool is promised.)                *)
Abstract == INSTANCE TaskPool
              WITH queue <- Queue, running <- Running, finished <- done,
                   closed <- shutdown
ImplementsTaskPool == Abstract!SafeSpec

(* While a worker sleeps, each queued task has a worker on its way to the  *)
(* mutex: the only wakeup that can be lost is the one a dismissed worker   *)
(* died on.                                                                *)
NoStrandedTask ==
  ~struck /\ ~shutdown /\ At("wait") # {} =>
    queueSize <= Cardinality(At("lock") \cup At("woken"))

(* The manager and the dying workers together keep liveNum right and       *)
(* between its limits, although the manager decides on old numbers.        *)
ThreadsAccounted ==
  /\ minNum <= liveNum /\ liveNum <= maxNum
  /\ ~shutdown =>
       liveNum = Cardinality(Slots \ (At("none") \cup At("exit")))

(* While a producer sleeps, each free place has a producer on its way to   *)
(* the mutex.                                                              *)
NoStrandedProducer ==
  (\E p \in Producers : ppc[p] = "wait") /\ ~shutdown =>
    queueCapacity - queueSize <= Cardinality({p \in Producers : ppc[p] = "lock"})
=============================================================================
