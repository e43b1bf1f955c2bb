------------------------- MODULE WebThreadPoolProofs -------------------------
(***************************************************************************)
(* Proofs about WebThreadPool, for any number of workers, callers and      *)
(* tasks: its safety invariants, and that every step of it is a step of    *)
(* TaskPool.                                                               *)
(***************************************************************************)
EXTENDS WebThreadPool, SequenceTheorems, FiniteSetTheorems, TLAPS

(* The effect of one thread's move on the sets NoStrandedTask counts. *)
LEMMA AtFinite == \A s : IsFiniteSet(At(s)) /\ Cardinality(At(s)) \in Nat
BY WorkersFinite, FS_Subset, FS_CardinalityType DEF At

LEMMA NotifyingFinite == IsFiniteSet(Notifying) /\ Cardinality(Notifying) \in Nat
BY CallersFinite, FS_Subset, FS_CardinalityType DEF Notifying

LEMMA Moves ==
  ASSUME TypeOK, NEW w \in Workers, NEW from, NEW to, wpc[w] = from, from # to,
         wpc' = [wpc EXCEPT ![w] = to]
  PROVE  /\ At(to)' = At(to) \cup {w}
         /\ Cardinality(At(to)') = Cardinality(At(to)) + 1
         /\ At(from)' = At(from) \ {w}
         /\ Cardinality(At(from)') = Cardinality(At(from)) - 1
         /\ \A r : r # to /\ r # from => At(r)' = At(r)
<1>1. wpc \in [Workers -> WorkerStates]
  BY DEF TypeOK
<1>2. At(to)' = At(to) \cup {w} /\ w \notin At(to)
  BY <1>1 DEF At
<1>3. At(from)' = At(from) \ {w} /\ w \in At(from)
  BY <1>1 DEF At
<1>4. Cardinality(At(to) \cup {w}) = Cardinality(At(to)) + 1
  BY <1>2, AtFinite, FS_AddElement
<1>5. Cardinality(At(from) \ {w}) = Cardinality(At(from)) - 1
  BY <1>3, AtFinite, FS_RemoveElement
<1>6. \A r : r # to /\ r # from => At(r)' = At(r)
  BY <1>1 DEF At
<1> QED
  BY <1>2, <1>3, <1>4, <1>5, <1>6

-----------------------------------------------------------------------------
(* TypeOK is not inductive: a worker that runs must hold a task. *)
TypeInv ==
  /\ TypeOK
  /\ \A w \in Workers : wpc[w] = "run" => task[w] \in Tasks

LEMMA TypeInit == Init => TypeInv
<1> SUFFICES ASSUME Init PROVE TypeInv
  OBVIOUS
<1>1. tasks \in Seq(Tasks)
  BY DEF Init
<1> QED
  BY <1>1 DEF Init, TypeInv, TypeOK, WorkerStates

LEMMA TypeStep == TypeInv /\ [Next]_vars => TypeInv'
<1> SUFFICES ASSUME TypeInv, [Next]_vars PROVE TypeInv'
  OBVIOUS
<1> USE DEF TypeInv, TypeOK, WorkerStates
<1>1. ASSUME NEW c \in Callers, NEW t \in Tasks, AddTask(c, t) PROVE TypeInv'
  BY <1>1 DEF AddTask
<1>2. ASSUME NEW c \in Callers, NotifyOne(c) PROVE TypeInv'
  BY <1>2 DEF NotifyOne, WakeOne, At
<1>3. ASSUME NEW w \in Workers, TakeTask(w) PROVE TypeInv'
  <2>1. Head(tasks) \in Tasks /\ Tail(tasks) \in Seq(Tasks)
    BY <1>3 DEF TakeTask
  <2> QED
    BY <1>3, <2>1 DEF TakeTask
<1>4. ASSUME NEW w \in Workers, FinishTask(w) PROVE TypeInv'
  BY <1>4 DEF FinishTask
<1>5. ASSUME NEW w \in Workers, ExitLoop(w) PROVE TypeInv'
  BY <1>5 DEF ExitLoop
<1>6. ASSUME NEW w \in Workers, Sleep(w) PROVE TypeInv'
  BY <1>6 DEF Sleep
<1>7. ASSUME NEW w \in Workers, SpuriousWakeup(w) PROVE TypeInv'
  BY <1>7 DEF SpuriousWakeup
<1>8. CASE Destroy
  BY <1>8 DEF Destroy
<1>9. CASE NotifyAll
  BY <1>9 DEF NotifyAll, WakeAll
<1>10. CASE UNCHANGED vars
  BY <1>10 DEF vars
<1> QED
  BY <1>1, <1>2, <1>3, <1>4, <1>5, <1>6, <1>7, <1>8, <1>9, <1>10 DEF Next, Worker

(* Every reachable state has the shape TypeOK describes: in particular     *)
(* only submitted tasks are queued, run or counted as done.                *)
THEOREM TypeCorrect == SafeSpec => []TypeOK
<1>1. TypeInv => TypeOK
  BY DEF TypeInv
<1> QED
  BY <1>1, TypeInit, TypeStep, PTL DEF SafeSpec

-----------------------------------------------------------------------------
LEMMA StrandedInit == Init => NoStrandedTask
BY DEF Init, NoStrandedTask, At

LEMMA StrandedStep ==
  TypeInv /\ NoStrandedTask /\ [Next]_vars => NoStrandedTask'
<1> SUFFICES ASSUME TypeInv, NoStrandedTask, [Next]_vars, (At("wait") # {})'
             PROVE  Len(tasks') <= Cardinality(Notifying') + Cardinality(At("lock")')
  BY DEF NoStrandedTask
<1>t. TypeOK /\ tasks \in Seq(Tasks) /\ cpc \in [Callers -> {"idle", "notify"}]
  BY DEF TypeInv, TypeOK
<1>n. /\ Cardinality(Notifying) \in Nat /\ Cardinality(At("lock")) \in Nat
      /\ IsFiniteSet(Notifying)
      /\ Len(tasks) \in Nat
  BY <1>t, NotifyingFinite, AtFinite
<1>1. ASSUME NEW c \in Callers, NEW t \in Tasks, AddTask(c, t)
      PROVE  Len(tasks') <= Cardinality(Notifying') + Cardinality(At("lock")')
  <2>1. At("wait")' = At("wait") /\ At("lock")' = At("lock")
    BY <1>1 DEF AddTask, At
  <2>2. Notifying' = Notifying \cup {c} /\ c \notin Notifying
    BY <1>1, <1>t DEF AddTask, Notifying
  <2>3. Cardinality(Notifying') = Cardinality(Notifying) + 1
    BY <2>2, <1>n, FS_AddElement
  <2>4. Len(tasks') = Len(tasks) + 1
    BY <1>1, <1>t DEF AddTask
  <2> QED
    BY <2>1, <2>3, <2>4, <1>n DEF NoStrandedTask
<1>2. ASSUME NEW c \in Callers, NotifyOne(c)
      PROVE  Len(tasks') <= Cardinality(Notifying') + Cardinality(At("lock")')
  <2>1. Notifying' = Notifying \ {c} /\ c \in Notifying
    BY <1>2, <1>t DEF NotifyOne, Notifying
  <2>2. Cardinality(Notifying') = Cardinality(Notifying) - 1
    BY <2>1, <1>n, FS_RemoveElement
  <2>3. PICK w \in At("wait") : wpc' = [wpc EXCEPT ![w] = "lock"]
    <3>1. CASE At("wait") = {}
      BY <3>1, <1>2 DEF NotifyOne, WakeOne, At
    <3>2. CASE At("wait") # {}
      BY <3>2, <1>2 DEF NotifyOne, WakeOne
    <3> QED
      BY <3>1, <3>2
  <2>4. w \in Workers /\ wpc[w] = "wait"
    BY <2>3 DEF At
  <2>5. Cardinality(At("lock")') = Cardinality(At("lock")) + 1
    BY <2>3, <2>4, <1>t, Moves
  <2>6. tasks' = tasks
    BY <1>2 DEF NotifyOne
  <2> QED
    BY <2>2, <2>3, <2>5, <2>6, <1>n DEF NoStrandedTask
<1>3. ASSUME NEW w \in Workers, TakeTask(w)
      PROVE  Len(tasks') <= Cardinality(Notifying') + Cardinality(At("lock")')
  <2>1. At("wait")' = At("wait") /\ Notifying' = Notifying
    BY <1>3, <1>t DEF TakeTask, Notifying, At, TypeOK
  <2>2. Cardinality(At("lock")') = Cardinality(At("lock")) - 1
    BY <1>3, <1>t, Moves DEF TakeTask
  <2>3. Len(tasks') = Len(tasks) - 1
    BY <1>3, <1>t DEF TakeTask
  <2> QED
    BY <2>1, <2>2, <2>3, <1>n DEF NoStrandedTask
<1>4. ASSUME NEW w \in Workers, FinishTask(w)
      PROVE  Len(tasks') <= Cardinality(Notifying') + Cardinality(At("lock")')
  <2>1. At("wait")' = At("wait") /\ Notifying' = Notifying /\ tasks' = tasks
    BY <1>4, <1>t DEF FinishTask, Notifying, At, TypeOK
  <2>2. Cardinality(At("lock")') = Cardinality(At("lock")) + 1
    BY <1>4, <1>t, Moves DEF FinishTask
  <2> QED
    BY <2>1, <2>2, <1>n DEF NoStrandedTask
<1>5. ASSUME NEW w \in Workers, ExitLoop(w) \/ Sleep(w)
      PROVE  Len(tasks') <= Cardinality(Notifying') + Cardinality(At("lock")')
  <2>1. tasks' = <<>> /\ Notifying' = Notifying
    BY <1>5 DEF ExitLoop, Sleep, Notifying
  <2>2. Cardinality(At("lock")') \in Nat
    <3>1. PICK to \in {"exit", "wait"} : wpc' = [wpc EXCEPT ![w] = to]
      BY <1>5 DEF ExitLoop, Sleep
    <3>2. wpc[w] = "lock" /\ "lock" # to
      BY <1>5, <3>1 DEF ExitLoop, Sleep
    <3>3. Cardinality(At("lock")') = Cardinality(At("lock")) - 1
      BY <3>1, <3>2, <1>t, Moves
    <3>4. w \in At("lock")
      BY <3>2 DEF At
    <3>5. Cardinality(At("lock")) # 0
      BY <3>4, AtFinite, FS_EmptySet
    <3> QED
      BY <3>3, <3>5, <1>n
  <2>3. Len(tasks') = 0
    BY <2>1
  <2> QED
    BY <2>1, <2>2, <2>3, <1>n
<1>6. ASSUME NEW w \in Workers, SpuriousWakeup(w)
      PROVE  Len(tasks') <= Cardinality(Notifying') + Cardinality(At("lock")')
  <2>1. At("wait") # {} /\ Notifying' = Notifying /\ tasks' = tasks
    BY <1>6 DEF SpuriousWakeup, Notifying, At
  <2>2. Cardinality(At("lock")') = Cardinality(At("lock")) + 1
    BY <1>6, <1>t, Moves DEF SpuriousWakeup
  <2> QED
    BY <2>1, <2>2, <1>n DEF NoStrandedTask
<1>7. CASE NotifyAll
  BY <1>7 DEF NotifyAll, WakeAll, At
<1>8. CASE Destroy \/ UNCHANGED vars
  BY <1>8 DEF Destroy, vars, NoStrandedTask, At, Notifying
<1> QED
  BY <1>1, <1>2, <1>3, <1>4, <1>5, <1>6, <1>7, <1>8 DEF Next, Worker

(* No wakeup is lost although notify_one comes after the unlock: while a   *)
(* worker sleeps, every queued task has a notification or a worker coming. *)
THEOREM NoLostWakeup == SafeSpec => []NoStrandedTask
BY TypeInit, TypeStep, StrandedInit, StrandedStep, PTL DEF SafeSpec

-----------------------------------------------------------------------------
(* Shutdown: only the destructor closes the pool, workers exit only after  *)
(* that and with the queue empty, and nothing is submitted afterwards.     *)
Shut ==
  /\ isClosed <=> dpc # "alive"
  /\ At("exit") # {} => isClosed /\ tasks = <<>>
  /\ dpc = "done" => At("wait") = {}

LEMMA ShutInit == Init => Shut
BY DEF Init, Shut, At

LEMMA ShutStep == TypeInv /\ Shut /\ [Next]_vars => Shut'
<1> SUFFICES ASSUME TypeInv, Shut, [Next]_vars PROVE Shut'
  OBVIOUS
<1>t. wpc \in [Workers -> WorkerStates]
  BY DEF TypeInv, TypeOK
<1> USE DEF Shut, At
<1>1. ASSUME NEW c \in Callers, NEW t \in Tasks, AddTask(c, t) PROVE Shut'
  BY <1>1 DEF AddTask
<1>2. ASSUME NEW c \in Callers, NotifyOne(c) PROVE Shut'
  BY <1>2, <1>t DEF NotifyOne, WakeOne
<1>3. ASSUME NEW w \in Workers, TakeTask(w) PROVE Shut'
  BY <1>3, <1>t DEF TakeTask
<1>4. ASSUME NEW w \in Workers, FinishTask(w) PROVE Shut'
  BY <1>4, <1>t DEF FinishTask
<1>5. ASSUME NEW w \in Workers, ExitLoop(w) PROVE Shut'
  BY <1>5, <1>t DEF ExitLoop
<1>6. ASSUME NEW w \in Workers, Sleep(w) PROVE Shut'
  BY <1>6, <1>t DEF Sleep
<1>7. ASSUME NEW w \in Workers, SpuriousWakeup(w) PROVE Shut'
  BY <1>7, <1>t DEF SpuriousWakeup
<1>8. CASE Destroy
  BY <1>8 DEF Destroy
<1>9. CASE NotifyAll
  BY <1>9, <1>t DEF NotifyAll, WakeAll
<1>10. CASE UNCHANGED vars
  BY <1>10 DEF vars
<1> QED
  BY <1>1, <1>2, <1>3, <1>4, <1>5, <1>6, <1>7, <1>8, <1>9, <1>10 DEF Next, Worker

(* Shutdown drops no accepted task, and once the destructor has notified   *)
(* no worker is left asleep.                                               *)
THEOREM ShutsDownClean == SafeSpec => []CleanShutdown
<1>1. Shut => CleanShutdown
  BY DEF Shut, CleanShutdown
<1> QED
  BY <1>1, TypeInit, TypeStep, ShutInit, ShutStep, PTL DEF SafeSpec

-----------------------------------------------------------------------------
(* A task is in one place: once in the queue, or with one worker. *)
Unique ==
  /\ \A j, k \in 1..Len(tasks) : tasks[j] = tasks[k] => j = k
  /\ Queued \cap Running = {}
  /\ \A v, w \in At("run") : task[v] = task[w] => v = w

LEMMA UniqueInit == Init => Unique
BY DEF Init, Unique, Queued, Running, At

(* What the queue operations do to the set of queued tasks. *)
LEMMA QueuedAfterAppend ==
  ASSUME tasks \in Seq(Tasks), NEW t \in Tasks, tasks' = Append(tasks, t)
  PROVE  Queued' = Queued \cup {t}
<1>1. Len(tasks') = Len(tasks) + 1 /\ Len(tasks) \in Nat
  OBVIOUS
<1>2. \A k \in 1..Len(tasks) : tasks'[k] = tasks[k]
  OBVIOUS
<1>3. tasks'[Len(tasks) + 1] = t
  OBVIOUS
<1>4. 1..Len(tasks') = (1..Len(tasks)) \cup {Len(tasks) + 1}
  BY <1>1
<1> QED
  BY <1>2, <1>3, <1>4 DEF Queued

LEMMA QueuedAfterTail ==
  ASSUME tasks \in Seq(Tasks), tasks # <<>>, tasks' = Tail(tasks),
         \A j, k \in 1..Len(tasks) : tasks[j] = tasks[k] => j = k
  PROVE  /\ Queued' = Queued \ {Head(tasks)}
         /\ Head(tasks) \in Queued
         /\ \A j, k \in 1..Len(tasks') : tasks'[j] = tasks'[k] => j = k
<1>1. Len(tasks) \in Nat /\ Len(tasks) > 0 /\ Len(tasks') = Len(tasks) - 1
  OBVIOUS
<1>2. \A k \in 1..Len(tasks') : tasks'[k] = tasks[k + 1]
  OBVIOUS
<1>3. Head(tasks) = tasks[1]
  OBVIOUS
<1>4. Queued' = {tasks[k + 1] : k \in 1..Len(tasks')}
  BY <1>2 DEF Queued
<1>5. ASSUME NEW x \in Queued, x # Head(tasks) PROVE x \in Queued'
  <2>1. PICK k \in 1..Len(tasks) : x = tasks[k]
    BY DEF Queued
  <2>2. k # 1 /\ k - 1 \in 1..Len(tasks') /\ k = (k - 1) + 1
    BY <2>1, <1>1, <1>3, <1>5
  <2> QED
    BY <2>1, <2>2, <1>4
<1>6. ASSUME NEW x \in Queued' PROVE x \in Queued /\ x # Head(tasks)
  <2>1. PICK k \in 1..Len(tasks') : x = tasks[k + 1]
    BY <1>4
  <2>2. k + 1 \in 1..Len(tasks) /\ 1 \in 1..Len(tasks) /\ k + 1 # 1
    BY <1>1
  <2> QED
    BY <2>1, <2>2, <1>3 DEF Queued
<1>7. Head(tasks) \in Queued
  BY <1>1, <1>3 DEF Queued
<1>8. ASSUME NEW j \in 1..Len(tasks'), NEW k \in 1..Len(tasks'), tasks'[j] = tasks'[k]
      PROVE  j = k
  <2>1. j + 1 \in 1..Len(tasks) /\ k + 1 \in 1..Len(tasks)
    BY <1>1
  <2>2. j + 1 = k + 1
    BY <2>1, <1>2, <1>8
  <2> QED
    BY <2>2
<1> QED
  BY <1>5, <1>6, <1>7, <1>8

(* What the workers do to the set of running tasks. *)
LEMMA RunningAfterTake ==
  ASSUME TypeOK, NEW w \in Workers, TakeTask(w)
  PROVE  /\ At("run")' = At("run") \cup {w}
         /\ Running' = Running \cup {Head(tasks)}
         /\ \A v \in At("run") : task'[v] = task[v] /\ v # w
         /\ task'[w] = Head(tasks)
<1>1. wpc \in [Workers -> WorkerStates] /\ task \in [Workers -> Tasks \cup {NoTask}]
  BY DEF TypeOK
<1>2. At("run")' = At("run") \cup {w} /\ w \notin At("run")
  BY <1>1 DEF TakeTask, At
<1>3. task'[w] = Head(tasks) /\ \A v \in At("run") : task'[v] = task[v] /\ v # w
  BY <1>1, <1>2 DEF TakeTask, At
<1> QED
  BY <1>2, <1>3 DEF Running

LEMMA RunningAfterFinish ==
  ASSUME TypeOK, NEW w \in Workers, FinishTask(w),
         \A v, u \in At("run") : task[v] = task[u] => v = u
  PROVE  /\ At("run")' = At("run") \ {w}
         /\ Running' = Running \ {task[w]}
         /\ \A v \in At("run") \ {w} : task'[v] = task[v]
         /\ w \in At("run")
<1>1. wpc \in [Workers -> WorkerStates] /\ task \in [Workers -> Tasks \cup {NoTask}]
  BY DEF TypeOK
<1>2. At("run")' = At("run") \ {w} /\ w \in At("run")
  BY <1>1 DEF FinishTask, At
<1>3. \A v \in At("run") \ {w} : task'[v] = task[v] /\ task[v] # task[w]
  BY <1>1, <1>2 DEF FinishTask, At
<1> QED
  BY <1>2, <1>3 DEF Running

LEMMA UniqueStep == TypeInv /\ Unique /\ [Next]_vars => Unique'
<1> SUFFICES ASSUME TypeInv, Unique, [Next]_vars PROVE Unique'
  OBVIOUS
<1>t. TypeOK /\ tasks \in Seq(Tasks) /\ wpc \in [Workers -> WorkerStates]
  BY DEF TypeInv, TypeOK
<1>1. ASSUME NEW c \in Callers, NEW t \in Tasks, AddTask(c, t) PROVE Unique'
  <2>1. Queued' = Queued \cup {t} /\ t \notin Queued /\ t \notin Running
    BY <1>1, <1>t, QueuedAfterAppend DEF AddTask
  <2>2. Running' = Running /\ At("run")' = At("run") /\ task' = task
    BY <1>1 DEF AddTask, Running, At
  <2>3. ASSUME NEW j \in 1..Len(tasks'), NEW k \in 1..Len(tasks'), tasks'[j] = tasks'[k]
        PROVE  j = k
    <3>1. /\ Len(tasks') = Len(tasks) + 1 /\ Len(tasks) \in Nat
          /\ tasks'[Len(tasks) + 1] = t
          /\ \A n \in 1..Len(tasks) : tasks'[n] = tasks[n] /\ tasks[n] # t
      BY <1>1, <1>t, <2>1 DEF AddTask, Queued
    <3>2. (j \in 1..Len(tasks) \/ j = Len(tasks) + 1) /\ (k \in 1..Len(tasks) \/ k = Len(tasks) + 1)
      BY <3>1
    <3> QED
      BY <3>1, <3>2, <2>3 DEF Unique
  <2> QED
    BY <2>1, <2>2, <2>3 DEF Unique
<1>2. ASSUME NEW w \in Workers, TakeTask(w) PROVE Unique'
  <2>1. /\ Queued' = Queued \ {Head(tasks)} /\ Head(tasks) \in Queued
        /\ \A j, k \in 1..Len(tasks') : tasks'[j] = tasks'[k] => j = k
    BY <1>2, <1>t, QueuedAfterTail DEF TakeTask, Unique
  <2>2. /\ At("run")' = At("run") \cup {w}
        /\ Running' = Running \cup {Head(tasks)}
        /\ \A v \in At("run") : task'[v] = task[v] /\ v # w
        /\ task'[w] = Head(tasks)
    BY <1>2, <1>t, RunningAfterTake
  <2>3. Queued' \cap Running' = {}
    BY <2>1, <2>2 DEF Unique
  <2>4. \A v \in At("run") : task[v] # Head(tasks)
    BY <2>1 DEF Unique, Running
  <2>5. \A v, u \in At("run")' : task'[v] = task'[u] => v = u
    BY <2>2, <2>4 DEF Unique
  <2> QED
    BY <2>1, <2>3, <2>5 DEF Unique
<1>3. ASSUME NEW w \in Workers, FinishTask(w) PROVE Unique'
  <2>1. /\ At("run")' = At("run") \ {w}
        /\ Running' = Running \ {task[w]}
        /\ \A v \in At("run") \ {w} : task'[v] = task[v]
    BY <1>3, <1>t, RunningAfterFinish DEF Unique
  <2>2. tasks' = tasks /\ Queued' = Queued
    BY <1>3 DEF FinishTask, Queued
  <2> QED
    BY <2>1, <2>2 DEF Unique
<1>4. ASSUME NEW w \in Workers, ExitLoop(w) \/ Sleep(w) \/ SpuriousWakeup(w) PROVE Unique'
  <2>1. At("run")' = At("run") /\ task' = task /\ tasks' = tasks
    BY <1>4, <1>t DEF ExitLoop, Sleep, SpuriousWakeup, At
  <2> QED
    BY <2>1 DEF Unique, Queued, Running
<1>5. ASSUME NEW c \in Callers, NotifyOne(c) PROVE Unique'
  <2>1. At("run")' = At("run") /\ task' = task /\ tasks' = tasks
    BY <1>5, <1>t DEF NotifyOne, WakeOne, At
  <2> QED
    BY <2>1 DEF Unique, Queued, Running
<1>6. CASE NotifyAll
  <2>1. At("run")' = At("run") /\ task' = task /\ tasks' = tasks
    BY <1>6, <1>t DEF NotifyAll, WakeAll, At
  <2> QED
    BY <2>1 DEF Unique, Queued, Running
<1>7. CASE Destroy \/ UNCHANGED vars
  <2>1. At("run")' = At("run") /\ task' = task /\ tasks' = tasks
    BY <1>7 DEF Destroy, vars, At
  <2> QED
    BY <2>1 DEF Unique, Queued, Running
<1> QED
  BY <1>1, <1>2, <1>3, <1>4, <1>5, <1>6, <1>7 DEF Next, Worker

-----------------------------------------------------------------------------
(* The pool keeps TaskPool's promise: every step submits, starts, finishes *)
(* or closes as TaskPool does, or changes nothing TaskPool can see.        *)
(* (TaskPool's fairness is left to the model checker.)                     *)
THEOREM Refinement == SafeSpec => Abstract!SafeSpec
<1>1. Init => Abstract!Init
  BY DEF Init, Abstract!Init, Running, At
<1>2. TypeInv /\ Shut /\ Unique /\ [Next]_vars => [Abstract!Next]_(Abstract!vars)
  <2> SUFFICES ASSUME TypeInv, Shut, Unique, [Next]_vars
               PROVE  [Abstract!Next]_(Abstract!vars)
    OBVIOUS
  <2>t. TypeOK /\ tasks \in Seq(Tasks) /\ wpc \in [Workers -> WorkerStates]
    BY DEF TypeInv, TypeOK
  <2>1. ASSUME NEW c \in Callers, NEW t \in Tasks, AddTask(c, t)
        PROVE  Abstract!Submit(t)
    <3>1. Running' = Running
      BY <2>1 DEF AddTask, Running, At
    <3>2. ~isClosed
      BY <2>1 DEF AddTask, Shut
    <3> QED
      BY <2>1, <3>1, <3>2 DEF AddTask, Abstract!Submit, Abstract!Queued, Queued
  <2>2. ASSUME NEW w \in Workers, TakeTask(w) PROVE Abstract!Start
    <3>1. Running' = Running \cup {Head(tasks)}
      BY <2>2, <2>t, RunningAfterTake
    <3> QED
      BY <2>2, <3>1 DEF TakeTask, Abstract!Start
  <2>3. ASSUME NEW w \in Workers, FinishTask(w) PROVE \E t \in Tasks : Abstract!Finish(t)
    <3>1. Running' = Running \ {task[w]} /\ w \in At("run")
      BY <2>3, <2>t, RunningAfterFinish DEF Unique
    <3>2. task[w] \in Running /\ task[w] \in Tasks
      BY <3>1 DEF Running, At, TypeInv
    <3>3. Abstract!Finish(task[w])
      BY <2>3, <3>1, <3>2 DEF FinishTask, Abstract!Finish
    <3> QED
      BY <3>2, <3>3
  <2>4. CASE Destroy
    <3>1. Running' = Running /\ ~isClosed
      BY <2>4 DEF Destroy, Running, At, Shut
    <3>2. Abstract!Close
      BY <2>4, <3>1 DEF Destroy, Abstract!Close
    <3> QED
      BY <3>2 DEF Abstract!Next
  <2>5. ASSUME NEW w \in Workers, ExitLoop(w) \/ Sleep(w) \/ SpuriousWakeup(w)
        PROVE  UNCHANGED Abstract!vars
    <3>1. Running' = Running
      BY <2>5, <2>t DEF ExitLoop, Sleep, SpuriousWakeup, Running, At
    <3> QED
      BY <2>5, <3>1 DEF ExitLoop, Sleep, SpuriousWakeup, Abstract!vars
  <2>6. ASSUME NEW c \in Callers, NotifyOne(c) PROVE UNCHANGED Abstract!vars
    <3>1. At("run")' = At("run") /\ task' = task
      BY <2>6, <2>t DEF NotifyOne, WakeOne, At
    <3> QED
      BY <2>6, <3>1 DEF NotifyOne, Running, Abstract!vars
  <2>7. CASE NotifyAll
    <3>1. At("run")' = At("run") /\ task' = task
      BY <2>7, <2>t DEF NotifyAll, WakeAll, At
    <3> QED
      BY <2>7, <3>1 DEF NotifyAll, Running, Abstract!vars
  <2>8. CASE UNCHANGED vars
    BY <2>8 DEF vars, Running, At, Abstract!vars
  <2> QED
    BY <2>1, <2>2, <2>3, <2>4, <2>5, <2>6, <2>7, <2>8 DEF Next, Worker, Abstract!Next
<1> QED
  BY <1>1, <1>2, TypeInit, TypeStep, ShutInit, ShutStep, UniqueInit, UniqueStep,
     PTL DEF SafeSpec, Abstract!SafeSpec
=============================================================================
