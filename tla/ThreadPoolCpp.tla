---------------------------- MODULE ThreadPoolCpp ----------------------------
(***************************************************************************)
(* thread_pool_cpp/ThreadPool.cpp: workers, a manager that creates and     *)
(* dismisses them, and a TaskQueue with a mutex of its own.                *)
(*                                                                         *)
(* A task is queued under the queue's mutex and signalled under none; the  *)
(* workers test the queue, and wait, under m_lock.  m_shutdown is written  *)
(* and broadcast under none.  So signals may come between a worker's test  *)
(* and its wait ("towait"), and the destructor's look at threadIDs between *)
(* any two steps of a worker.  What is done under m_lock is one action,    *)
(* except where it is held from one state to the next (Held).              *)
(*                                                                         *)
(* taskNumber() reads the queue under no mutex: while a task is being      *)
(* pushed it may return anything, 0 included.                              *)
(*                                                                         *)
(* A worker is known by its index in m_threadIDs, which is 0 exactly when  *)
(* it is at "none" or "leaving".                                           *)
(***************************************************************************)
EXTENDS Naturals, Sequences, FiniteSets

CONSTANTS
  Producers,     \* threads that call addTask
  Tasks,         \* the tasks ever added, each one once
  NoTask,
  minNum, maxNum,            \* the constructor's arguments
  NUMBER,        \* how many threads the manager creates or dismisses at once
  Garbage        \* what m_exitNum may hold, nobody initializes it

ASSUME SizesArePositive ==
  /\ minNum \in Nat \ {0} /\ maxNum \in Nat /\ minNum <= maxNum
  /\ NUMBER \in Nat \ {0} /\ Garbage \subseteq Nat
ASSUME NoTaskIsNoTask == NoTask \notin Tasks

VARIABLES
  queue,         \* m_taskQ's tasks
  busyNum, aliveNum, exitNum, shutdown,
  wpc,           \* each worker: see WorkerStates
  task,          \* each worker's local variable task
  ppc,           \* each producer: "idle", "add", "lock", "push", "signal"
  mpc,           \* the manager: "check", "read", "grow", "shrink", "signal", "done"
  seen,          \* the manager's locals queueSize, liveNum and busyNum
  signals,       \* notEmpty signals the manager has yet to send
  dpc,           \* ~ThreadPool: see DestructorStates
  next,          \* the destructor's i
  done,          \* history: the tasks whose function returned
  passedOver,    \* history: a worker went to sleep past a task
  dismissedLate, \* history: a worker was dismissed after the shutdown
  missed         \* history: a worker was about to wait at the broadcast

counters == <<busyNum, aliveNum, exitNum>>
workers == <<wpc, task>>
manager == <<mpc, seen, signals>>
destructor == <<dpc, next>>
history == <<done, passedOver, dismissedLate, missed>>
vars == <<queue, counters, shutdown, workers, ppc, manager, destructor, history>>

Slots == 0..(maxNum - 1)

(* "towait": about to wait, holding m_lock; "leaving": dismissed, holding  *)
(* m_lock; "gone": returned from worker at the shutdown.                   *)
WorkerStates == {"none", "lock", "towait", "wait", "woken", "run", "leaving", "gone"}
DestructorStates == {"alive", "joinManager", "broadcast", "look", "join", "destroyed",
                     "crashed"}

At(s) == {w \in Slots : wpc[w] = s}
Held == At("towait") \cup At("leaving") # {}
Pushing == \E p \in Producers : ppc[p] = "push"
Cleared(w) == wpc[w] \in {"none", "leaving"}               \* m_threadIDs[w] == 0
Pending == {p \in Producers : ppc[p] = "signal"}

Nothing == [queue |-> 0, live |-> 0, busy |-> 0]

(* The constructor: the mutex, the condition and the threads are created.  *)
Init ==
  /\ queue = <<>>
  /\ busyNum = 0 /\ aliveNum = minNum /\ exitNum \in Garbage
  /\ shutdown = FALSE
  /\ wpc = [w \in Slots |-> IF w < minNum THEN "lock" ELSE "none"]
  /\ task = [w \in Slots |-> NoTask]
  /\ ppc = [p \in Producers |-> "idle"]
  /\ mpc = "check" /\ seen = Nothing /\ signals = 0
  /\ dpc = "alive" /\ next = 0
  /\ done = {} /\ passedOver = FALSE /\ dismissedLate = FALSE /\ missed = FALSE
-----------------------------------------------------------------------------
(* Mutations of the definitions below, each a bug this code could have: no *)
(* signal after a push, joining the first minNum workers only, a worker    *)
(* that waits without a look at m_shutdown, and an addTask that does not   *)
(* look either.                                                            *)

SignalsNobody == UNCHANGED wpc

AdvanceToMin ==
  /\ next' = IF next + 1 < minNum THEN next + 1 ELSE 0
  /\ dpc' = IF next + 1 < minNum THEN "look" ELSE "destroyed"

SleepsOnShutdown == queue = <<>> \/ Pushing

LooksAtNothing(p) ==
  /\ ppc[p] = "add"
  /\ ppc' = [ppc EXCEPT ![p] = "lock"]
  /\ UNCHANGED <<queue, counters, shutdown, workers, manager, destructor, history>>
-----------------------------------------------------------------------------
(* pthread_cond_signal wakes one of the waiting threads, if there is one.  *)
Signal ==
  IF At("wait") = {}
  THEN UNCHANGED wpc
  ELSE \E w \in At("wait") : wpc' = [wpc EXCEPT ![w] = "woken"]
-----------------------------------------------------------------------------
(* addTask: the look at m_shutdown, the queue's mutex, the push, the       *)
(* signal.                                                                 *)

Call(p) ==
  /\ ppc[p] = "idle" /\ dpc = "alive"
  /\ ppc' = [ppc EXCEPT ![p] = "add"]
  /\ UNCHANGED <<queue, counters, shutdown, workers, manager, destructor, history>>

Look(p) ==
  /\ ppc[p] = "add"
  /\ ppc' = [ppc EXCEPT ![p] = IF shutdown THEN "idle" ELSE "lock"]
  /\ UNCHANGED <<queue, counters, shutdown, workers, manager, destructor, history>>

LockQueue(p) ==
  /\ ppc[p] = "lock" /\ ~Pushing
  /\ ppc' = [ppc EXCEPT ![p] = "push"]
  /\ UNCHANGED <<queue, counters, shutdown, workers, manager, destructor, history>>

Push(p, t) ==
  /\ ppc[p] = "push"
  /\ t \notin {queue[k] : k \in DOMAIN queue} \cup {task[w] : w \in Slots} \cup done
  /\ queue' = Append(queue, t)
  /\ ppc' = [ppc EXCEPT ![p] = "signal"]
  /\ UNCHANGED <<counters, shutdown, workers, manager, destructor, history>>

SignalTask(p) ==
  /\ ppc[p] = "signal"
  /\ Signal
  /\ passedOver' = (passedOver \/ (At("wait") = {} /\ At("towait") # {}))
  /\ ppc' = [ppc EXCEPT ![p] = "idle"]
  /\ UNCHANGED <<queue, counters, shutdown, task, manager, destructor,
                 done, dismissedLate, missed>>
-----------------------------------------------------------------------------
(* worker.  A woken one looks at m_exitNum before it looks at the queue. *)

Dismissed == exitNum > 0 /\ aliveNum > minNum

Dies(w) ==
  /\ wpc[w] = "woken" /\ ~Held /\ Dismissed
  /\ exitNum' = exitNum - 1
  /\ aliveNum' = aliveNum - 1
  /\ wpc' = [wpc EXCEPT ![w] = "leaving"]
  /\ passedOver' = (passedOver \/ queue # <<>>)
  /\ dismissedLate' = (dismissedLate \/ shutdown)
  /\ UNCHANGED <<queue, busyNum, shutdown, task, ppc, manager, destructor, done, missed>>

(* The mutex is released, the last use of the pool. *)
Leaves(w) ==
  /\ wpc[w] = "leaving"
  /\ wpc' = [wpc EXCEPT ![w] = "none"]
  /\ UNCHANGED <<queue, counters, shutdown, task, ppc, manager, destructor, history>>

(* At the test of the inner loop, with the mutex. *)
Tests(w) ==
  /\ ~Held
  /\ \/ wpc[w] = "lock" /\ UNCHANGED exitNum
     \/ /\ wpc[w] = "woken" /\ ~Dismissed
        /\ exitNum' = IF exitNum > 0 THEN exitNum - 1 ELSE exitNum
  /\ UNCHANGED <<aliveNum, shutdown, ppc, manager, destructor, done, dismissedLate, missed>>

MayWait == (queue = <<>> \/ Pushing) /\ ~shutdown

FindsEmpty(w) ==
  /\ Tests(w) /\ MayWait
  /\ wpc' = [wpc EXCEPT ![w] = "towait"]
  /\ passedOver' = (passedOver \/ queue # <<>>)
  /\ UNCHANGED <<queue, busyNum, task>>

FindsShutdown(w) ==
  /\ Tests(w) /\ shutdown
  /\ wpc' = [wpc EXCEPT ![w] = "gone"]
  /\ UNCHANGED <<queue, busyNum, task, passedOver>>

(* takeTask needs the queue's mutex. *)
TakeTask(w) ==
  /\ Tests(w) /\ ~shutdown /\ queue # <<>> /\ ~Pushing
  /\ task' = [task EXCEPT ![w] = Head(queue)]
  /\ queue' = Tail(queue)
  /\ busyNum' = busyNum + 1
  /\ wpc' = [wpc EXCEPT ![w] = "run"]
  /\ UNCHANGED passedOver

(* The wait begins, which releases the mutex; or it ends for no reason.    *)
Waits(w) ==
  /\ \/ wpc[w] = "towait" /\ wpc' = [wpc EXCEPT ![w] = "wait"]
     \/ wpc[w] = "wait" /\ wpc' = [wpc EXCEPT ![w] = "woken"]
  /\ UNCHANGED <<queue, counters, shutdown, task, ppc, manager, destructor, history>>

EndTask(w) ==
  /\ wpc[w] = "run" /\ ~Held
  /\ busyNum' = busyNum - 1
  /\ done' = done \cup {task[w]}
  /\ task' = [task EXCEPT ![w] = NoTask]
  /\ wpc' = [wpc EXCEPT ![w] = "lock"]
  /\ UNCHANGED <<queue, aliveNum, exitNum, shutdown, ppc, manager, destructor,
                 passedOver, dismissedLate, missed>>
-----------------------------------------------------------------------------
(* manager *)

Check ==
  /\ mpc = "check"
  /\ mpc' = IF shutdown THEN "done" ELSE "read"
  /\ UNCHANGED <<queue, counters, shutdown, workers, ppc, seen, signals, destructor,
                 history>>

(* What taskNumber() may return. *)
Sizes == IF Pushing THEN 0..(Len(queue) + 1) ELSE {Len(queue)}

ReadPool ==
  /\ mpc = "read" /\ ~Held
  /\ \E n \in Sizes : seen' = [queue |-> n, live |-> aliveNum, busy |-> busyNum]
  /\ mpc' = "grow"
  /\ UNCHANGED <<queue, counters, shutdown, workers, ppc, signals, destructor, history>>

TooFew == seen.queue > seen.live /\ seen.live < maxNum
TooMany == seen.busy * 2 < seen.live /\ seen.live > minNum

(* The free entries of m_threadIDs the loop fills: the first ones, as many *)
(* as NUMBER and the live threads allow.                                   *)
Filled ==
  {i \in At("none") :
     LET before == Cardinality({j \in At("none") : j < i})
     IN  before < NUMBER /\ aliveNum + before < maxNum}

Grow ==
  /\ mpc = "grow" /\ (TooFew => ~Held)
  /\ IF TooFew
     THEN /\ wpc' = [i \in Slots |-> IF i \in Filled THEN "lock" ELSE wpc[i]]
          /\ aliveNum' = aliveNum + Cardinality(Filled)
     ELSE UNCHANGED <<wpc, aliveNum>>
  /\ mpc' = "shrink"
  /\ UNCHANGED <<queue, busyNum, exitNum, shutdown, task, ppc, seen, signals,
                 destructor, history>>

(* m_exitNum is set under the mutex, the signals come after it. *)
Shrink ==
  /\ mpc = "shrink" /\ (TooMany => ~Held)
  /\ IF TooMany
     THEN exitNum' = NUMBER /\ signals' = NUMBER /\ mpc' = "signal"
     ELSE UNCHANGED <<exitNum, signals>> /\ mpc' = "check"
  /\ seen' = Nothing                                  \* not read again
  /\ UNCHANGED <<queue, busyNum, aliveNum, shutdown, workers, ppc, destructor, history>>

SignalDismissal ==
  /\ mpc = "signal"
  /\ Signal
  /\ signals' = signals - 1
  /\ mpc' = IF signals = 1 THEN "check" ELSE "signal"
  /\ UNCHANGED <<queue, counters, shutdown, task, ppc, seen, destructor, history>>
-----------------------------------------------------------------------------
(* ~ThreadPool *)

SetShutdown ==
  /\ dpc = "alive"
  /\ shutdown' = TRUE
  /\ dpc' = "joinManager"
  /\ UNCHANGED <<queue, counters, workers, ppc, manager, next, history>>

JoinManager ==
  /\ dpc = "joinManager" /\ mpc = "done"
  /\ dpc' = "broadcast"
  /\ UNCHANGED <<queue, counters, shutdown, workers, ppc, manager, next, history>>

Broadcast ==
  /\ dpc = "broadcast"
  /\ wpc' = [w \in Slots |-> IF wpc[w] = "wait" THEN "woken" ELSE wpc[w]]
  /\ missed' = (At("towait") # {})
  /\ dpc' = "look"
  /\ UNCHANGED <<queue, counters, shutdown, task, ppc, manager, next,
                 done, passedOver, dismissedLate>>

(* On to the next entry, or through with them: everything is freed. *)
Advance ==
  /\ next' = IF next + 1 < maxNum THEN next + 1 ELSE 0
  /\ dpc' = IF next + 1 < maxNum THEN "look" ELSE "destroyed"

LookAtEntry ==
  /\ dpc = "look"
  /\ IF Cleared(next) THEN Advance ELSE dpc' = "join" /\ UNCHANGED next
  /\ UNCHANGED <<queue, counters, shutdown, workers, ppc, manager, history>>

(* m_threadIDs[i] is read again for pthread_join, unless the build kept it *)
(* in a register: joining thread 0 ends the process.                       *)
JoinEntry ==
  /\ dpc = "join"
  /\ \/ wpc[next] \in {"gone", "none"} /\ Advance
     \/ Cleared(next) /\ dpc' = "crashed" /\ UNCHANGED next
  /\ UNCHANGED <<queue, counters, shutdown, workers, ppc, manager, history>>
-----------------------------------------------------------------------------
Producer(p) ==
  Look(p) \/ LockQueue(p) \/ (\E t \in Tasks : Push(p, t)) \/ SignalTask(p)

Worker(w) ==
  \/ Dies(w) \/ Leaves(w) \/ FindsEmpty(w) \/ FindsShutdown(w) \/ TakeTask(w)
  \/ EndTask(w)

Manager == Check \/ ReadPool \/ Grow \/ Shrink \/ SignalDismissal
Destructor == JoinManager \/ Broadcast \/ LookAtEntry \/ JoinEntry

(* What a thread does to a destroyed pool is undefined: the behaviour ends *)
(* there.                                                                  *)
Next ==
  /\ dpc \notin {"destroyed", "crashed"}
  /\ \/ \E p \in Producers : Call(p) \/ Producer(p)
     \/ \E w \in Slots : Worker(w) \/ Waits(w)
     \/ Manager
     \/ SetShutdown
     \/ Destructor

(* A thread that can run does, and tasks return; nobody has to add a task  *)
(* or to destroy the pool, or wakes up for no reason.                      *)
Fairness ==
  /\ \A p \in Producers : WF_vars(Producer(p))
  /\ \A w \in Slots : WF_vars(Worker(w)) /\ WF_vars(wpc[w] = "towait" /\ Waits(w))
  /\ WF_vars(Manager) /\ WF_vars(Destructor)

Spec == Init /\ [][Next]_vars /\ Fairness
-----------------------------------------------------------------------------
(* The shape of the state, and the mutex: one holder from a state to the   *)
(* next, of m_lock and of the queue's.                                     *)
TypeOK ==
  /\ queue \in Seq(Tasks)
  /\ busyNum \in 0..maxNum /\ aliveNum \in 0..maxNum /\ exitNum \in Nat
  /\ shutdown \in BOOLEAN
  /\ wpc \in [Slots -> WorkerStates] /\ task \in [Slots -> Tasks \cup {NoTask}]
  /\ ppc \in [Producers -> {"idle", "add", "lock", "push", "signal"}]
  /\ mpc \in {"check", "read", "grow", "shrink", "signal", "done"}
  /\ seen \in [queue : Nat, live : 0..maxNum, busy : 0..maxNum]
  /\ signals \in 0..NUMBER
  /\ dpc \in DestructorStates /\ next \in Slots
  /\ done \subseteq Tasks
  /\ passedOver \in BOOLEAN /\ dismissedLate \in BOOLEAN /\ missed \in BOOLEAN

(* While a worker sleeps, each queued task has a signal still to come or a *)
(* worker on its way to the mutex, unless a worker went to sleep past a    *)
(* task: a signal between its test and its wait, an unlocked size read     *)
(* wrong, or a dismissal are the only ways to lose one.                    *)
NoStrandedTask ==
  ~passedOver /\ ~shutdown /\ At("wait") # {} =>
    Len(queue) <= Cardinality(At("lock") \cup At("woken")) + Cardinality(Pending)

(* The numbers the manager decides on, long after it read them, are those  *)
(* of the threads, and it stays between its limits.                        *)
ThreadsAccounted ==
  /\ minNum <= aliveNum /\ aliveNum <= maxNum
  /\ aliveNum = Cardinality(Slots \ (At("none") \cup At("leaving")))
  /\ busyNum = Cardinality(At("run"))

(* A task is queued in order and run once, and a closed pool takes none,   *)
(* although addTask's look and its push are two steps: who looked in time  *)
(* keeps it open.  (Tasks are left at the destruction: safety only.)       *)
Closed == shutdown /\ \A p \in Producers : ppc[p] \in {"idle", "add"}
Running == {task[w] : w \in At("run")}
Abstract == INSTANCE TaskPool WITH running <- Running, finished <- done, closed <- Closed
ImplementsTaskPool == Abstract!SafeSpec

(* The destructor joins exactly the workers that still use the pool, from  *)
(* entries it reads without the mutex: it neither frees the pool under one *)
(* nor joins an entry cleared under it, unless a worker is dismissed after *)
(* the shutdown, on what m_exitNum was left with.                          *)
DestroyedWhenAllGone ==
  ~dismissedLate =>
    /\ dpc # "crashed"
    /\ dpc = "destroyed" => \A w \in Slots : wpc[w] \in {"none", "gone"}

(* The destructor returns, unless a worker was between its test and its    *)
(* wait when the only broadcast came.                                      *)
DestructorReturns ==
  dpc = "joinManager" ~> dpc \in {"destroyed", "crashed"} \/ missed
=============================================================================
