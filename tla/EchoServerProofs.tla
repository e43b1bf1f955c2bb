--------------------------- MODULE EchoServerProofs ---------------------------
(***************************************************************************)
(* Proofs about EchoServer and the pool under it, for any number of        *)
(* workers and clients: no notification is lost but one that falls between *)
(* a worker's predicate and its wait, and each client's descriptor is in   *)
(* one pair of hands from accept to close.                                 *)
(***************************************************************************)
EXTENDS EchoServer, SequenceTheorems, FiniteSetTheorems, TLAPS

(* TypeOK is not inductive: a worker that runs must hold a task.           *)
TypeInv ==
  /\ TypeOK
  /\ \A w \in Workers : wpc[w] = "run" => task[w] \in Tasks

(* What the steps of the pool do to the workers, and to what they share.   *)
LEMMA PoolStepType ==
  ASSUME PoolTypeOK, \A w \in Workers : wpc[w] = "run" => task[w] \in Tasks,
         \/ \E t \in Tasks : Enqueue(t)
         \/ NotifyOne \/ SetShutdown \/ Destructor
         \/ \E w \in Workers : WorkerStep(w) \/ WaitBegins(w) \/ SpuriousWakeup(w) \/ TaskReturns(w)
  PROVE  PoolTypeOK' /\ \A w \in Workers : wpc'[w] = "run" => task'[w] \in Tasks
<1> DEFINE P == PoolTypeOK' /\ \A w \in Workers : wpc'[w] = "run" => task'[w] \in Tasks
<1> SUFFICES P
  OBVIOUS
<1> USE DEF PoolTypeOK, WorkerStates
<1>1. ASSUME NEW t \in Tasks, Enqueue(t) PROVE P
  BY <1>1 DEF Enqueue
<1>2. CASE NotifyOne
  BY <1>2 DEF NotifyOne, WakeOne, Goto, At, Held
<1>3. CASE SetShutdown
  BY <1>3 DEF SetShutdown
<1>4. CASE Destructor
  BY <1>4 DEF Destructor, NotifyAll, WakeAll, Join, Held
<1>5. ASSUME NEW w \in Workers, LoopTest(w) PROVE P
  BY <1>5 DEF LoopTest, Goto
<1>6. ASSUME NEW w \in Workers, Predicate(w) \/ AskQueue(w) PROVE P
  BY <1>6 DEF Predicate, AskQueue, Goto
<1>7. ASSUME NEW w \in Workers, Dequeue(w) PROVE P
  <2>1. Head(queue) \in Tasks /\ Tail(queue) \in Seq(Tasks)
    BY <1>7 DEF Dequeue
  <2> QED
    BY <1>7, <2>1 DEF Dequeue, Goto
<1>8. ASSUME NEW w \in Workers, DequeueFails(w) PROVE P
  BY <1>8 DEF DequeueFails, NotDequeued, Goto
<1>9. ASSUME NEW w \in Workers, WaitBegins(w) \/ SpuriousWakeup(w) \/ TaskReturns(w) PROVE P
  BY <1>9 DEF WaitBegins, SpuriousWakeup, TaskReturns, Goto
<1> HIDE DEF P
<1> QED
  BY <1>1, <1>2, <1>3, <1>4, <1>5, <1>6, <1>7, <1>8, <1>9 DEF WorkerStep

LEMMA TypeInit == Init => TypeInv
<1> SUFFICES ASSUME Init PROVE TypeInv
  OBVIOUS
<1>1. queue \in Seq(Tasks)
  BY DEF Init, PoolInit
<1>2. PoolTypeOK
  BY <1>1 DEF Init, PoolInit, PoolTypeOK, WorkerStates
<1> QED
  BY <1>2, BoundsArePositive DEF Init, PoolInit, TypeInv, TypeOK, Clients

LEMMA TypeStep == TypeInv /\ [Next]_vars => TypeInv'
<1> SUFFICES ASSUME TypeInv, [Next]_vars PROVE TypeInv'
  OBVIOUS
<1>t. /\ PoolTypeOK /\ MaxPieces \in Nat /\ BufSize \in Nat
      /\ \A w \in Workers : wpc[w] = "run" => task[w] \in Tasks
  BY BoundsArePositive DEF TypeInv, TypeOK
<1>p. ASSUME PoolTypeOK', \A w \in Workers : wpc'[w] = "run" => task'[w] \in Tasks,
             UNCHANGED sockets, listening' \in BOOLEAN
      PROVE  TypeInv'
  BY <1>p DEF TypeInv, TypeOK, sockets, Clients
<1>1. ASSUME NEW c \in Clients, Connect(c) \/ Send(c) \/ Receive(c) \/ Hangup(c) PROVE TypeInv'
  <2>1. PoolTypeOK' /\ wpc' = wpc /\ task' = task
    BY <1>1, <1>t DEF Connect, Send, Receive, Hangup, pool, PoolTypeOK
  <2>2. CASE Connect(c)
    BY <2>1, <2>2 DEF Connect, TypeInv, TypeOK, Clients
  <2>3. CASE Send(c)
    BY <1>t, <2>1, <2>3 DEF Send, TypeInv, TypeOK, Clients
  <2>4. CASE Hangup(c)
    BY <2>1, <2>4 DEF Hangup, TypeInv, TypeOK, Clients
  <2>5. CASE Receive(c)
    BY <2>1, <2>5 DEF Receive, TypeInv, TypeOK, Clients
  <2> QED
    BY <1>1, <2>2, <2>3, <2>4, <2>5
<1>2. ASSUME NEW c \in Clients, Accept(c) PROVE TypeInv'
  <2>1. PoolTypeOK' /\ \A w \in Workers : wpc'[w] = "run" => task'[w] \in Tasks
    BY <1>2, <1>t, PoolStepType DEF Accept, Clients
  <2> QED
    BY <1>2, <2>1 DEF Accept, TypeInv, TypeOK, Clients
<1>3. CASE Notify \/ Return \/ Destroy
  <2>1. PoolTypeOK' /\ \A w \in Workers : wpc'[w] = "run" => task'[w] \in Tasks
    BY <1>3, <1>t, PoolStepType DEF Notify, Return, Destroy
  <2> QED
    BY <1>3, <1>p, <2>1 DEF Notify, Return, Destroy, sockets, TypeInv, TypeOK
<1>4. CASE AcceptFails
  <2>1. PoolTypeOK' /\ wpc' = wpc /\ task' = task
    BY <1>4, <1>t DEF AcceptFails, pool, PoolTypeOK
  <2>2. gone' \in [Clients -> BOOLEAN] /\ full' \in [Clients -> BOOLEAN] /\ listening' \in BOOLEAN
    BY <1>4, Zenon DEF AcceptFails, Forget
  <2> QED
    BY <1>4, <1>t, <2>1, <2>2 DEF AcceptFails, Forget, TypeInv, TypeOK, Clients
<1>5. ASSUME NEW w \in Workers,
             PoolWorker(w) \/ Sleeps(w) \/ (SpuriousWakeup(w) /\ Quiet)
      PROVE  TypeInv'
  <2>1. PoolTypeOK' /\ \A v \in Workers : wpc'[v] = "run" => task'[v] \in Tasks
    BY <1>5, <1>t, PoolStepType DEF PoolWorker, Sleeps
  <2> QED
    BY <1>5, <1>p, <2>1 DEF PoolWorker, Sleeps, Quiet, sockets, TypeInv, TypeOK
<1>6. ASSUME NEW w \in Workers, Echo(w) \/ EchoToGone(w) PROVE TypeInv'
  <2> DEFINE c == task[w]
             left == IF unread[c] > BufSize THEN unread[c] - BufSize ELSE 0
  <2>1. PoolTypeOK' /\ wpc' = wpc /\ task' = task
    BY <1>6, <1>t DEF Echo, EchoToGone, pool, PoolTypeOK
  <2>2. c \in Clients /\ unread[c] \in 0..MaxPieces
    BY <1>6, <1>t DEF Echo, EchoToGone, TypeInv, TypeOK, Clients
  <2>3. /\ unread' = [unread EXCEPT ![c] = left]
        /\ full' = full \/ \E b \in BOOLEAN : full' = [full EXCEPT ![c] = b]
        /\ UNCHANGED <<conn, gone, listening>>
    BY <1>6 DEF Echo, EchoToGone
  <2>4. left \in 0..MaxPieces
    BY <2>2, <1>t
  <2>5. unread' \in [Clients -> 0..MaxPieces] /\ full' \in [Clients -> BOOLEAN]
    <3> HIDE DEF left, c
    <3> QED
      BY <2>2, <2>3, <2>4 DEF TypeInv, TypeOK
  <2> QED
    BY <1>t, <2>1, <2>3, <2>5 DEF TypeInv, TypeOK
<1>9. ASSUME NEW w \in Workers, Killed(w) PROVE TypeInv'
  <2>1. PoolTypeOK' /\ \A v \in Workers : wpc'[v] # "run"
    BY <1>9, <1>t DEF Killed, PoolTypeOK, WorkerStates
  <2>2. gone' \in [Clients -> BOOLEAN] /\ full' \in [Clients -> BOOLEAN] /\ listening' \in BOOLEAN
    BY <1>9, Zenon DEF Killed, Forget
  <2> QED
    BY <1>9, <1>t, <2>1, <2>2 DEF Killed, Forget, TypeInv, TypeOK, Clients
<1>7. ASSUME NEW w \in Workers, Close(w) PROVE TypeInv'
  <2>1. PoolTypeOK' /\ \A v \in Workers : wpc'[v] = "run" => task'[v] \in Tasks
    BY <1>7, <1>t, PoolStepType DEF Close
  <2>2. gone' \in [Clients -> BOOLEAN] /\ full' \in [Clients -> BOOLEAN]
    BY <1>7, Zenon DEF Close, Forget
  <2> QED
    BY <1>7, <1>t, <2>1, <2>2 DEF Close, Forget, TypeInv, TypeOK, Clients
<1>8. CASE UNCHANGED vars
  BY <1>8 DEF vars, pool, sockets, TypeInv, TypeOK, PoolTypeOK
<1> QED
  BY <1>1, <1>2, <1>3, <1>4, <1>5, <1>6, <1>7, <1>8, <1>9 DEF Next, Work

(* Every reachable state has the shape TypeOK describes: in particular     *)
(* nothing is queued or run but a client's task.                           *)
THEOREM TypeCorrect == Spec => []TypeOK
<1>1. TypeInv => TypeOK
  BY DEF TypeInv
<1> QED
  BY <1>1, TypeInit, TypeStep, PTL DEF Spec

-----------------------------------------------------------------------------
(* Those that will look at the queue, the notification under way, and what *)
(* there must be of them also while a worker is about to wait.             *)
Coming == At("loop") \cup At("lock") \cup At("ask") \cup At("take")
Due == IF spc = "notify" THEN 1 ELSE 0

Covered ==
  /\ dpc \notin {"alive", "killed"} => shutdown
  /\ ~passedOver /\ ~shutdown /\ At("wait") \cup At("towait") # {} =>
       Len(queue) <= Cardinality(Coming) + Due

LEMMA ComingFinite == IsFiniteSet(Coming) /\ Cardinality(Coming) \in Nat
BY WorkersFinite, FS_Subset, FS_CardinalityType DEF Coming, At

LEMMA CoveredInit == Init => Covered
BY DEF Init, PoolInit, Covered, At

(* One worker's move, as seen by the sets that are counted. *)
LEMMA Moves ==
  ASSUME PoolTypeOK, NEW w \in Workers, NEW to \in WorkerStates, Goto(w, to)
  PROVE  LET out == {"loop", "lock", "ask", "take"}
         IN  /\ wpc[w] \in out /\ to \in out => Cardinality(Coming') = Cardinality(Coming)
             /\ wpc[w] \notin out /\ to \notin out => Cardinality(Coming') = Cardinality(Coming)
             /\ wpc[w] \notin out /\ to \in out =>
                  Cardinality(Coming') = Cardinality(Coming) + 1
             /\ wpc[w] \in out /\ to \notin out =>
                  Cardinality(Coming') = Cardinality(Coming) - 1
<1> DEFINE out == {"loop", "lock", "ask", "take"}
<1>1. wpc \in [Workers -> WorkerStates] /\ wpc' = [wpc EXCEPT ![w] = to]
  BY DEF PoolTypeOK, Goto
<1>2. /\ wpc[w] \in out /\ to \in out => Coming' = Coming
      /\ wpc[w] \notin out /\ to \notin out => Coming' = Coming
      /\ wpc[w] \notin out /\ to \in out => Coming' = Coming \cup {w} /\ w \notin Coming
      /\ wpc[w] \in out /\ to \notin out => Coming' = Coming \ {w} /\ w \in Coming
  BY <1>1 DEF Coming, At
<1>3. w \notin Coming => Cardinality(Coming \cup {w}) = Cardinality(Coming) + 1
  BY ComingFinite, FS_AddElement
<1>4. w \in Coming => Cardinality(Coming \ {w}) = Cardinality(Coming) - 1
  BY ComingFinite, FS_RemoveElement
<1> QED
  BY <1>2, <1>3, <1>4

(* Each step of the pool keeps the count; what surrounds it does not       *)
(* matter.                                                                 *)
LEMMA CoveredPool ==
  ASSUME PoolTypeOK, Covered,
         \/ \E t \in Tasks : Enqueue(t)
         \/ NotifyOne \/ SetShutdown \/ Destructor
         \/ \E w \in Workers : WorkerStep(w) \/ WaitBegins(w) \/ SpuriousWakeup(w) \/ TaskReturns(w)
  PROVE  Covered'
<1> USE DEF Covered
<1>n. /\ Cardinality(Coming) \in Nat /\ Len(queue) \in Nat /\ Due \in {0, 1}
      /\ queue \in Seq(Tasks) /\ wpc \in [Workers -> WorkerStates]
  BY ComingFinite DEF PoolTypeOK, Due
<1>1. ASSUME NEW t \in Tasks, Enqueue(t) PROVE Covered'
  <2>1. Coming' = Coming /\ At("wait")' = At("wait") /\ At("towait")' = At("towait")
    BY <1>1 DEF Enqueue, Coming, At
  <2>2. Len(queue') = Len(queue) + 1 /\ Due = 0 /\ Due' = 1
    BY <1>1, <1>n DEF Enqueue, Due
  <2> QED
    BY <1>1, <1>n, <2>1, <2>2 DEF Enqueue
<1>2. CASE NotifyOne
  <2>1. queue' = queue /\ dpc' = dpc /\ shutdown' = shutdown /\ Due = 1 /\ Due' = 0
    BY <1>2 DEF NotifyOne, Due
  <2>2. CASE At("wait") = {}
    <3>1. wpc' = wpc /\ passedOver' = (passedOver \/ At("towait") # {})
      BY <1>2, <2>2 DEF NotifyOne, WakeOne
    <3>2. ~passedOver' => At("wait")' = {} /\ At("towait")' = {}
      BY <2>2, <3>1 DEF At
    <3> QED
      BY <2>1, <3>2
  <2>3. CASE At("wait") # {}
    <3>1. PICK w \in At("wait") : Goto(w, "lock")
      BY <1>2, <2>3 DEF NotifyOne, WakeOne
    <3>2. w \in Workers /\ wpc[w] = "wait" /\ "lock" \in WorkerStates
      BY <3>1 DEF At, WorkerStates
    <3>3. Cardinality(Coming') = Cardinality(Coming) + 1
      BY <3>1, <3>2, Moves
    <3>4. ~passedOver' => ~passedOver
      BY <1>2 DEF NotifyOne
    <3> QED
      BY <1>n, <2>1, <2>3, <3>3, <3>4
  <2> QED
    BY <2>2, <2>3
<1>3. CASE SetShutdown
  BY <1>3 DEF SetShutdown
<1>4. CASE Destructor
  BY <1>4, <1>n DEF Destructor, NotifyAll, Join, At, Coming, Due
<1>5. ASSUME NEW w \in Workers, LoopTest(w) \/ Predicate(w) \/ AskQueue(w) \/ DequeueFails(w)
      PROVE  Covered'
  <2>1. PICK to \in WorkerStates : Goto(w, to)
    BY <1>5 DEF LoopTest, Predicate, AskQueue, DequeueFails, NotDequeued, WorkerStates
  <2>2. /\ UNCHANGED <<queue, shutdown, dpc, passedOver, spc>> /\ Due' = Due
        /\ wpc[w] \in {"loop", "lock", "ask", "take"}
    BY <1>5 DEF LoopTest, Predicate, AskQueue, DequeueFails, Due
  <2>3. CASE shutdown
    BY <2>2, <2>3
  <2>4. CASE ~shutdown /\ queue = <<>>
    <3>1. Cardinality(Coming') \in Nat
      <4>1. w \in Coming
        BY <2>2 DEF Coming, At
      <4>2. Cardinality(Coming) # 0
        BY <4>1, ComingFinite, FS_EmptySet
      <4> QED
        BY <1>n, <2>1, <2>2, <4>2, Moves
    <3> QED
      BY <1>n, <2>2, <2>4, <3>1
  <2>5. CASE ~shutdown /\ queue # <<>>
    <3>1. to \in {"lock", "ask", "take"}
      BY <1>5, <1>n, <2>1, <2>5
         DEF LoopTest, Predicate, AskQueue, DequeueFails, NotDequeued, Goto, PoolTypeOK
    <3>2. Cardinality(Coming') = Cardinality(Coming)
      BY <2>1, <2>2, <3>1, Moves
    <3>3. At("wait")' = At("wait") /\ At("towait")' = At("towait")
      BY <1>n, <2>1, <2>2, <3>1 DEF At, Goto
    <3> QED
      BY <2>2, <3>2, <3>3
  <2> QED
    BY <2>3, <2>4, <2>5
<1>6. ASSUME NEW w \in Workers, Dequeue(w) PROVE Covered'
  <2>1. Goto(w, "run") /\ wpc[w] = "take" /\ "run" \in WorkerStates
    BY <1>6 DEF Dequeue, WorkerStates
  <2>2. Cardinality(Coming') = Cardinality(Coming) - 1
    BY <2>1, Moves
  <2>3. Len(queue') = Len(queue) - 1 /\ Due' = Due
    BY <1>6, <1>n DEF Dequeue, Due
  <2>4. At("wait")' = At("wait") /\ At("towait")' = At("towait")
    BY <1>n, <2>1 DEF At, Goto
  <2> QED
    BY <1>6, <1>n, <2>2, <2>3, <2>4 DEF Dequeue
<1>7. ASSUME NEW w \in Workers, WaitBegins(w) PROVE Covered'
  <2>1. Goto(w, "wait") /\ wpc[w] = "towait" /\ "wait" \in WorkerStates
    BY <1>7 DEF WaitBegins, WorkerStates
  <2>2. Cardinality(Coming') = Cardinality(Coming) /\ Due' = Due
    BY <1>7, <2>1, Moves DEF WaitBegins, Due
  <2>3. At("wait") \cup At("towait") # {}
    BY <2>1 DEF At
  <2> QED
    BY <1>7, <2>2, <2>3 DEF WaitBegins
<1>8. ASSUME NEW w \in Workers, SpuriousWakeup(w) PROVE Covered'
  <2>1. Goto(w, "lock") /\ wpc[w] = "wait" /\ "lock" \in WorkerStates
    BY <1>8 DEF SpuriousWakeup, WorkerStates
  <2>2. Cardinality(Coming') = Cardinality(Coming) + 1 /\ Due' = Due
    BY <1>8, <2>1, Moves DEF SpuriousWakeup, Due
  <2>3. At("wait") \cup At("towait") # {}
    BY <2>1 DEF At
  <2> QED
    BY <1>8, <1>n, <2>2, <2>3 DEF SpuriousWakeup
<1>9. ASSUME NEW w \in Workers, TaskReturns(w) PROVE Covered'
  <2>1. Goto(w, "loop") /\ wpc[w] = "run" /\ "loop" \in WorkerStates
    BY <1>9 DEF TaskReturns, WorkerStates
  <2>2. Cardinality(Coming') = Cardinality(Coming) + 1 /\ Due' = Due
    BY <1>9, <2>1, Moves DEF TaskReturns, Due
  <2>3. At("wait")' = At("wait") /\ At("towait")' = At("towait")
    BY <1>n, <2>1 DEF At, Goto
  <2> QED
    BY <1>9, <1>n, <2>2, <2>3 DEF TaskReturns
<1> QED
  BY <1>1, <1>2, <1>3, <1>4, <1>5, <1>6, <1>7, <1>8, <1>9 DEF WorkerStep

LEMMA CoveredStep == TypeInv /\ Covered /\ [Next]_vars => Covered'
<1> SUFFICES ASSUME TypeInv, Covered, [Next]_vars PROVE Covered'
  OBVIOUS
<1>t. PoolTypeOK
  BY DEF TypeInv, TypeOK
<1>1. CASE UNCHANGED pool
  BY <1>1 DEF pool, Covered, Coming, Due, At
<1>2. ASSUME NEW c \in Clients, Connect(c) \/ Send(c) \/ Receive(c) \/ Hangup(c) PROVE Covered'
  BY <1>1, <1>2 DEF Connect, Send, Receive, Hangup
<1>3. ASSUME NEW c \in Clients, Accept(c) PROVE Covered'
  BY <1>3, <1>t, CoveredPool DEF Accept, Clients
<1>4. CASE Notify \/ Return \/ Destroy
  BY <1>4, <1>t, CoveredPool DEF Notify, Return, Destroy
<1>5. CASE AcceptFails
  BY <1>1, <1>5 DEF AcceptFails
<1>6. ASSUME NEW w \in Workers, PoolWorker(w) \/ Sleeps(w) \/ (SpuriousWakeup(w) /\ Quiet)
      PROVE  Covered'
  BY <1>6, <1>t, CoveredPool DEF PoolWorker, Sleeps
<1>7. ASSUME NEW w \in Workers, Work(w) PROVE Covered'
  <2>1. CASE Echo(w) \/ EchoToGone(w)
    BY <1>1, <2>1 DEF Echo, EchoToGone
  <2>2. CASE Close(w)
    BY <1>t, <2>2, CoveredPool DEF Close
  <2>3. CASE Killed(w)
    <3>1. At("wait")' = {} /\ At("towait")' = {}
      BY <2>3 DEF Killed, At
    <3>2. wpc[w] = "run" /\ dpc' = "killed" /\ UNCHANGED <<shutdown, passedOver>>
      BY <2>3 DEF Killed
    <3> QED
      BY <3>1, <3>2 DEF Covered
  <2> QED
    BY <1>7, <2>1, <2>2, <2>3 DEF Work
<1>8. CASE UNCHANGED vars
  BY <1>1, <1>8 DEF vars
<1> QED
  BY <1>2, <1>3, <1>4, <1>5, <1>6, <1>7, <1>8 DEF Next

(* notify_one outside m_mutex loses a notification in one way only: while  *)
(* nobody sleeps and a worker is between its predicate and its wait.       *)
THEOREM NoLostWakeup == Spec => []NoStrandedTask
<1>1. Covered => NoStrandedTask
  BY DEF Covered, NoStrandedTask, Coming, Due
<1> QED
  BY <1>1, TypeInit, TypeStep, CoveredInit, CoveredStep, PTL DEF Spec

-----------------------------------------------------------------------------
(* Who holds what: places of the queue and workers in work are different   *)
(* clients', and theirs are the open descriptors.                          *)
InQueue(c) == \E k \in DOMAIN queue : queue[k] = c
InWork(c) == \E w \in At("run") : task[w] = c

Sole ==
  /\ \A i, j \in DOMAIN queue : queue[i] = queue[j] => i = j
  /\ \A w, v \in At("run") : task[w] = task[v] => w = v
  /\ \A k \in DOMAIN queue, w \in At("run") : queue[k] # task[w]
  /\ \A c \in Clients : conn[c] = "open" <=> InQueue(c) \/ InWork(c)

LEMMA SoleIsOneHolder == Sole => OneHolder
<1> SUFFICES ASSUME Sole, NEW c \in Clients
             PROVE  Cardinality(Places(c)) = (IF conn[c] = "open" THEN 1 ELSE 0)
  BY DEF OneHolder
<1>1. CASE InQueue(c)
  <2>1. PICK k \in DOMAIN queue : queue[k] = c
    BY <1>1 DEF InQueue
  <2>2. Places(c) = {<<"queue", k>>}
    BY <2>1 DEF Sole, Places
  <2> QED
    BY <1>1, <2>2, FS_Singleton DEF Sole
<1>2. CASE InWork(c)
  <2>1. PICK w \in At("run") : task[w] = c
    BY <1>2 DEF InWork
  <2>2. Places(c) = {<<"worker", w>>}
    BY <2>1 DEF Sole, Places
  <2> QED
    BY <1>2, <2>2, FS_Singleton DEF Sole
<1>3. CASE ~InQueue(c) /\ ~InWork(c)
  <2>1. Places(c) = {}
    BY <1>3 DEF Places, InQueue, InWork
  <2> QED
    BY <1>3, <2>1, FS_EmptySet DEF Sole
<1> QED
  BY <1>1, <1>2, <1>3

LEMMA SoleInit == Init => Sole
BY DEF Init, PoolInit, Sole, InQueue, InWork, At

(* Most steps change neither the queue nor who is in work.                 *)
LEMMA SoleKept ==
  ASSUME Sole, queue' = queue, task' = task, At("run")' = At("run"),
         \A c \in Clients : conn'[c] = "open" <=> conn[c] = "open"
  PROVE  Sole'
BY DEF Sole, InQueue, InWork

LEMMA SoleAccept ==
  ASSUME TypeInv, Sole, NEW c \in Clients, Accept(c)
  PROVE  Sole'
<1>1. /\ queue \in Seq(Tasks) /\ c \in Tasks
      /\ queue' = Append(queue, c) /\ task' = task /\ At("run")' = At("run")
  BY DEF TypeInv, TypeOK, PoolTypeOK, Accept, Enqueue, At, Clients
<1>2. conn' = [conn EXCEPT ![c] = "open"] /\ conn[c] = "backlog"
  BY DEF Accept
<1>3. ~InQueue(c) /\ ~InWork(c)
  BY <1>2 DEF Sole
<1>4. /\ DOMAIN queue' = 1..(Len(queue) + 1) /\ DOMAIN queue = 1..Len(queue)
      /\ Len(queue) \in Nat
      /\ \A k \in DOMAIN queue : queue'[k] = queue[k]
      /\ queue'[Len(queue) + 1] = c
  BY <1>1
<1>5. \A k \in DOMAIN queue : queue[k] # c
  BY <1>3 DEF InQueue
<1>6. \A i, j \in DOMAIN queue' : queue'[i] = queue'[j] => i = j
  BY <1>4, <1>5 DEF Sole
<1>7. \A k \in DOMAIN queue', w \in At("run")' : queue'[k] # task'[w]
  BY <1>1, <1>3, <1>4 DEF Sole, InWork
<1>8. \A d \in Clients : conn'[d] = "open" <=> InQueue(d)' \/ InWork(d)'
  <2> SUFFICES ASSUME NEW d \in Clients
               PROVE  conn'[d] = "open" <=> InQueue(d)' \/ InWork(d)'
    OBVIOUS
  <2>1. InWork(d)' <=> InWork(d)
    BY <1>1 DEF InWork
  <2>2. InQueue(d)' <=> InQueue(d) \/ d = c
    BY <1>4 DEF InQueue
  <2>3. conn'[d] = "open" <=> conn[d] = "open" \/ d = c
    BY <1>2 DEF TypeInv, TypeOK
  <2> QED
    BY <2>1, <2>2, <2>3 DEF Sole
<1>9. \A w, v \in At("run")' : task'[w] = task'[v] => w = v
  BY <1>1 DEF Sole
<1> QED
  BY <1>6, <1>7, <1>8, <1>9 DEF Sole

LEMMA SoleDequeue ==
  ASSUME TypeInv, Sole, NEW w \in Workers, Dequeue(w), UNCHANGED conn
  PROVE  Sole'
<1>1. /\ queue \in Seq(Tasks) /\ queue # <<>> /\ queue' = Tail(queue)
      /\ task \in [Workers -> Tasks \cup {NoTask}]
      /\ task' = [task EXCEPT ![w] = Head(queue)]
  BY DEF TypeInv, TypeOK, PoolTypeOK, Dequeue
<1>2. At("run")' = At("run") \cup {w} /\ w \notin At("run")
  BY DEF TypeInv, TypeOK, PoolTypeOK, Dequeue, Goto, At
<1>3. /\ DOMAIN queue' = 1..(Len(queue) - 1) /\ DOMAIN queue = 1..Len(queue)
      /\ Len(queue) \in Nat /\ Len(queue) > 0
      /\ \A k \in DOMAIN queue' : queue'[k] = queue[k + 1]
      /\ Head(queue) = queue[1]
  BY <1>1
<1>4. /\ task'[w] = queue[1]
      /\ \A v \in At("run") : task'[v] = task[v]
  BY <1>1, <1>2, <1>3 DEF At
<1>5. \A i, j \in DOMAIN queue' : queue'[i] = queue'[j] => i = j
  BY <1>3 DEF Sole
<1>6. \A v, u \in At("run")' : task'[v] = task'[u] => v = u
  BY <1>2, <1>3, <1>4 DEF Sole
<1>7. \A k \in DOMAIN queue', v \in At("run")' : queue'[k] # task'[v]
  <2>1. \A k \in DOMAIN queue' : k + 1 \in DOMAIN queue /\ k + 1 # 1 /\ 1 \in DOMAIN queue
    BY <1>3
  <2> QED
    BY <1>2, <1>3, <1>4, <2>1 DEF Sole
<1>8. \A c \in Clients : conn'[c] = "open" <=> InQueue(c)' \/ InWork(c)'
  <2> SUFFICES ASSUME NEW c \in Clients
               PROVE  InQueue(c)' \/ InWork(c)' <=> InQueue(c) \/ InWork(c)
    BY DEF Sole
  <2>1. InWork(c)' <=> InWork(c) \/ c = queue[1]
    BY <1>2, <1>4 DEF InWork
  <2>2. InQueue(c) <=> InQueue(c)' \/ c = queue[1]
    <3>1. ASSUME NEW k \in DOMAIN queue, k # 1
          PROVE  k - 1 \in DOMAIN queue' /\ queue'[k - 1] = queue[k]
      BY <1>3, <3>1
    <3>2. \A k \in DOMAIN queue' : k + 1 \in DOMAIN queue /\ 1 \in DOMAIN queue
      BY <1>3
    <3>3. 1 \in DOMAIN queue
      BY <1>3
    <3> QED
      BY <1>3, <3>1, <3>2, <3>3 DEF InQueue
  <2> QED
    BY <2>1, <2>2
<1> QED
  BY <1>5, <1>6, <1>7, <1>8 DEF Sole

LEMMA SoleClose ==
  ASSUME TypeInv, Sole, NEW w \in Workers, Close(w)
  PROVE  Sole'
<1>1. /\ queue' = queue /\ task' = task /\ w \in At("run") /\ task[w] \in Clients
      /\ At("run")' = At("run") \ {w}
  BY DEF TypeInv, TypeOK, PoolTypeOK, Close, TaskReturns, Goto, At, Clients
<1>2. \A c \in Clients : conn'[c] = "open" <=> conn[c] = "open" /\ c # task[w]
  BY DEF Close, Forget
<1>3. \A c \in Clients : InQueue(c)' <=> InQueue(c) /\ c # task[w]
  BY <1>1 DEF InQueue, Sole
<1>4. \A c \in Clients : InWork(c)' <=> InWork(c) /\ c # task[w]
  BY <1>1 DEF InWork, Sole
<1> QED
  BY <1>1, <1>2, <1>3, <1>4 DEF Sole

LEMMA SoleStep == TypeInv /\ Sole /\ [Next]_vars => Sole'
<1> SUFFICES ASSUME TypeInv, Sole, [Next]_vars PROVE Sole'
  OBVIOUS
<1>t. wpc \in [Workers -> WorkerStates] /\ conn \in [Clients -> {"new", "backlog", "open", "closed"}]
  BY DEF TypeInv, TypeOK, PoolTypeOK
<1>1. ASSUME NEW c \in Clients, Connect(c) \/ Send(c) \/ Receive(c) \/ Hangup(c) PROVE Sole'
  BY <1>1, <1>t, SoleKept DEF Connect, Send, Receive, Hangup, pool, At
<1>2. ASSUME NEW c \in Clients, Accept(c) PROVE Sole'
  BY <1>2, SoleAccept
<1>3. CASE Notify
  BY <1>3, <1>t, SoleKept DEF Notify, NotifyOne, WakeOne, Goto, At, sockets
<1>4. CASE Return \/ Destroy
  BY <1>4, <1>t, SoleKept
     DEF Return, SetShutdown, Destroy, Destructor, NotifyAll, WakeAll, Join, At, sockets
<1>5. CASE AcceptFails
  BY <1>5, <1>t, SoleKept DEF AcceptFails, Forget, pool, At
<1>6. ASSUME NEW w \in Workers, PoolWorker(w) PROVE Sole'
  <2>1. CASE Dequeue(w)
    BY <1>6, <2>1, SoleDequeue DEF PoolWorker, Quiet, sockets
  <2>2. CASE LoopTest(w) \/ Predicate(w) \/ AskQueue(w) \/ DequeueFails(w)
    <3>1. At("run")' = At("run") /\ queue' = queue /\ task' = task
      BY <2>2, <1>t DEF LoopTest, Predicate, AskQueue, DequeueFails, NotDequeued, Goto, At
    <3> QED
      BY <1>6, <3>1, SoleKept DEF PoolWorker, Quiet, sockets
  <2> QED
    BY <1>6, <2>1, <2>2 DEF PoolWorker, WorkerStep
<1>7. ASSUME NEW w \in Workers, Sleeps(w) \/ (SpuriousWakeup(w) /\ Quiet) PROVE Sole'
  BY <1>7, <1>t, SoleKept DEF Sleeps, WaitBegins, SpuriousWakeup, Goto, At, Quiet, sockets
<1>8. ASSUME NEW w \in Workers, Echo(w) \/ EchoToGone(w) PROVE Sole'
  BY <1>8, SoleKept DEF Echo, EchoToGone, pool, At
<1>9. ASSUME NEW w \in Workers, Close(w) PROVE Sole'
  BY <1>9, SoleClose
<1>10. CASE UNCHANGED vars
  BY <1>10, SoleKept DEF vars, pool, sockets, At
<1>11. ASSUME NEW w \in Workers, Killed(w) PROVE Sole'
  <2>1. queue' = <<>> /\ At("run")' = {}
    BY <1>11 DEF Killed, At
  <2>2. \A c \in Clients : conn'[c] # "open"
    BY <1>11 DEF Killed, Forget
  <2> QED
    BY <2>1, <2>2 DEF Sole, InQueue, InWork
<1> QED
  BY <1>1, <1>2, <1>3, <1>4, <1>5, <1>6, <1>7, <1>8, <1>9, <1>10, <1>11 DEF Next, Work

(* From accept to close a client's descriptor is held once, and after that *)
(* by nobody: no worker calls the task it called before.                   *)
THEOREM DescriptorsHeldOnce == Spec => []OneHolder
BY SoleIsOneHolder, TypeInit, TypeStep, SoleInit, SoleStep, PTL DEF Spec
=============================================================================
