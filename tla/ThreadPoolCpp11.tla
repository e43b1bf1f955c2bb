--------------------------- MODULE ThreadPoolCpp11 ---------------------------
(***************************************************************************)
(* thread_pool_cpp11/ThreadPool.hpp and TaskQueue.hpp, which socket_server *)
(* has copies of: n workers, a queue with a mutex of its own, a condition  *)
(* variable.                                                               *)
(*                                                                         *)
(* submit queues under the queue's mutex and notifies under none; the      *)
(* workers evaluate the predicate of their wait under m_mutex; m_shutdown  *)
(* is written and notified under none.  So notifications may come between  *)
(* the predicate's two reads ("ask"), and between the predicate and the    *)
(* wait ("towait").  Everything under the queue's mutex is one action.     *)
(*                                                                         *)
(* This module has the pool's steps; EchoServer.tla puts them together     *)
(* with what the tasks do.  One thread submits and destroys, as main does  *)
(* in both programs.                                                       *)
(***************************************************************************)
EXTENDS Naturals, Sequences, FiniteSets

CONSTANTS
  Workers,       \* m_threads
  Tasks,         \* what is ever submitted, each one once
  NoTask

ASSUME WorkersFinite == IsFiniteSet(Workers)
ASSUME NoTaskIsNoTask == NoTask \notin Tasks

VARIABLES
  queue,         \* m_queue
  shutdown,      \* m_shutdown
  wpc,           \* each worker: see WorkerStates
  task,          \* each worker's local variable task, which outlives its call
  spc,           \* submit: "idle", or "notify" after the enqueue
  dpc,           \* ~ThreadPool: "alive", "notify", "join", "gone"; "killed"
                 \* when a signal ended the process
  passedOver,    \* history: a notify_one fell between a predicate and its wait
  missed         \* history: a wait began after the notify_all

pool == <<queue, shutdown, wpc, task, spc, dpc, passedOver, missed>>

(* "loop": at while (!m_shutdown); "lock": about to take m_mutex and       *)
(* evaluate the predicate; "ask": it found m_shutdown false and is about   *)
(* to ask for the queue, "towait": which was empty, m_mutex still held;    *)
(* "take": the predicate was true, m_mutex released.                       *)
WorkerStates == {"loop", "lock", "ask", "towait", "wait", "take", "run", "exit"}

At(s) == {w \in Workers : wpc[w] = s}
Held == At("ask") \cup At("towait") # {}
Goto(w, s) == wpc' = [wpc EXCEPT ![w] = s]

PoolTypeOK ==
  /\ queue \in Seq(Tasks) /\ shutdown \in BOOLEAN
  /\ wpc \in [Workers -> WorkerStates] /\ task \in [Workers -> Tasks \cup {NoTask}]
  /\ spc \in {"idle", "notify"} /\ dpc \in {"alive", "notify", "join", "gone", "killed"}
  /\ passedOver \in BOOLEAN /\ missed \in BOOLEAN

(* The constructor; each worker first sleeps for a second. *)
PoolInit ==
  /\ queue = <<>> /\ shutdown = FALSE
  /\ wpc = [w \in Workers |-> "loop"] /\ task = [w \in Workers |-> NoTask]
  /\ spc = "idle" /\ dpc = "alive"
  /\ passedOver = FALSE /\ missed = FALSE
-----------------------------------------------------------------------------
(* Mutations of the definitions below, each a bug this code could have: no *)
(* notification, calling task although nothing was dequeued, and only one  *)
(* worker notified of the shutdown.                                        *)

NotifiesNobody == UNCHANGED wpc

CallsStaleTask(w) == task[w] # NoTask /\ Goto(w, "run")

NotifiesOnlyOne ==
  \/ At("wait") = {} /\ UNCHANGED wpc
  \/ \E w \in At("wait") : Goto(w, "lock")
-----------------------------------------------------------------------------
(* submit *)

Enqueue(t) ==
  /\ spc = "idle" /\ dpc = "alive"
  /\ queue' = Append(queue, t)
  /\ spc' = "notify"
  /\ UNCHANGED <<shutdown, wpc, task, dpc, passedOver, missed>>

WakeOne ==
  IF At("wait") = {} THEN UNCHANGED wpc ELSE \E w \in At("wait") : Goto(w, "lock")

NotifyOne ==
  /\ spc = "notify"
  /\ WakeOne
  /\ passedOver' = (passedOver \/ (At("wait") = {} /\ At("towait") # {}))
  /\ spc' = "idle"
  /\ UNCHANGED <<queue, shutdown, task, dpc, missed>>
-----------------------------------------------------------------------------
(* worker *)

LoopTest(w) ==
  /\ wpc[w] = "loop"
  /\ Goto(w, IF shutdown THEN "exit" ELSE "lock")
  /\ UNCHANGED <<queue, shutdown, task, spc, dpc, passedOver, missed>>

(* The predicate of the wait: m_shutdown, and if that is false the queue.   *)
Predicate(w) ==
  /\ wpc[w] = "lock" /\ ~Held
  /\ Goto(w, IF shutdown THEN "take" ELSE "ask")
  /\ UNCHANGED <<queue, shutdown, task, spc, dpc, passedOver, missed>>

AskQueue(w) ==
  /\ wpc[w] = "ask"
  /\ Goto(w, IF queue = <<>> THEN "towait" ELSE "take")
  /\ UNCHANGED <<queue, shutdown, task, spc, dpc, passedOver, missed>>

WaitBegins(w) ==
  /\ wpc[w] = "towait"
  /\ Goto(w, "wait")
  /\ missed' = (missed \/ dpc = "join")
  /\ UNCHANGED <<queue, shutdown, task, spc, dpc, passedOver>>

SpuriousWakeup(w) ==
  /\ wpc[w] = "wait"
  /\ Goto(w, "lock")
  /\ UNCHANGED <<queue, shutdown, task, spc, dpc, passedOver, missed>>

Dequeue(w) ==
  /\ wpc[w] = "take" /\ queue # <<>>
  /\ task' = [task EXCEPT ![w] = Head(queue)]
  /\ queue' = Tail(queue)
  /\ Goto(w, "run")
  /\ UNCHANGED <<shutdown, spc, dpc, passedOver, missed>>

(* dequeue returned false: task keeps the last closure, and is not called. *)
NotDequeued(w) == Goto(w, "loop")

DequeueFails(w) ==
  /\ wpc[w] = "take" /\ queue = <<>>
  /\ NotDequeued(w)
  /\ UNCHANGED <<queue, shutdown, task, spc, dpc, passedOver, missed>>

TaskReturns(w) ==
  /\ wpc[w] = "run"
  /\ Goto(w, "loop")
  /\ UNCHANGED <<queue, shutdown, task, spc, dpc, passedOver, missed>>
-----------------------------------------------------------------------------
(* ~ThreadPool *)

SetShutdown ==
  /\ dpc = "alive" /\ spc = "idle"
  /\ shutdown' = TRUE
  /\ dpc' = "notify"
  /\ UNCHANGED <<queue, wpc, task, spc, passedOver, missed>>

WakeAll == wpc' = [w \in Workers |-> IF wpc[w] = "wait" THEN "lock" ELSE wpc[w]]

NotifyAll ==
  /\ dpc = "notify"
  /\ WakeAll
  /\ dpc' = "join"
  /\ UNCHANGED <<queue, shutdown, task, spc, passedOver, missed>>

(* The tasks still in the queue are destroyed with it, not called. *)
Join ==
  /\ dpc = "join" /\ At("exit") = Workers
  /\ dpc' = "gone"
  /\ UNCHANGED <<queue, shutdown, wpc, task, spc, passedOver, missed>>

WorkerStep(w) ==
  LoopTest(w) \/ Predicate(w) \/ AskQueue(w) \/ Dequeue(w) \/ DequeueFails(w)

Destructor == NotifyAll \/ Join
-----------------------------------------------------------------------------
(* While a worker sleeps, each queued task has its notification still to   *)
(* come or a worker that will look at the queue, unless a notification     *)
(* found a worker between its predicate and its wait, and nobody asleep.   *)
NoStrandedTask ==
  ~passedOver /\ ~shutdown /\ At("wait") # {} =>
    Len(queue) <= Cardinality(At("loop") \cup At("lock") \cup At("ask") \cup At("take"))
                    + (IF spc = "notify" THEN 1 ELSE 0)
=============================================================================
