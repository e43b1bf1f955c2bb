-------------------------- MODULE ManagedPoolsProofs --------------------------
(***************************************************************************)
(* Proofs about the two pools with a manager, for any number of producers, *)
(* workers and tasks.  First ThreadPoolC: its safety invariants, and that  *)
(* every step of it is a step of TaskPool, for any number of places in the *)
(* ring.  Then the same for ThreadPoolCpp, the C++ rewriting of it, with   *)
(* the lemmas of the first part about the places the threads are in.       *)
(***************************************************************************)
EXTENDS ThreadPoolC, Integers, FiniteSetTheorems, TLAPS

-----------------------------------------------------------------------------
(* The ring is a window of queueSize places, and holds tasks; busyNum      *)
(* counts the workers in a task, and they have one.                        *)
RingShape ==
  /\ queueRear = (queueFront + queueSize) % queueCapacity
  /\ \A k \in 1..queueSize : Queue[k] \in Tasks

Occupied == At("start") \cup At("run")

TypeInv ==
  /\ TypeOK
  /\ RingShape
  /\ busyNum = Cardinality(At("run"))
  /\ \A w \in Occupied : task[w] \in Tasks

(* Who is about to wait holds the mutex alone, and what it tested is still *)
(* so: shutdown is the only thing written without the mutex.               *)
Full(p) == ppc[p] = "towait"
Mutex ==
  /\ \A w \in At("towait") : queueSize = 0
  /\ \A p \in Producers : Full(p) => queueSize = queueCapacity

(* A task is in one place: once in the ring, or with one worker.           *)
Unique ==
  /\ \A j, k \in 1..queueSize : Queue[j] = Queue[k] => j = k
  /\ Queued \cap Running = {}
  /\ \A v, w \in Occupied : task[v] = task[w] => v = w

(* The pool is open until threadPoolDestroy is called.                     *)
OpenTillDestroyed == dpc = "alive" <=> ~shutdown

-----------------------------------------------------------------------------
(* The ring's arithmetic: a position at most one turn ahead.               *)
Place(k) == (queueFront + k - 1) % queueCapacity

LEMMA PlaceOf ==
  ASSUME TypeOK, NEW k \in 1..(queueCapacity + 1)
  PROVE  /\ Place(k) \in Places
         /\ Place(k) = IF queueFront + k - 1 < queueCapacity
                       THEN queueFront + k - 1 ELSE queueFront + k - 1 - queueCapacity
<1>1. queueCapacity \in Nat \ {0} /\ queueFront \in 0..(queueCapacity - 1)
  BY SizesArePositive DEF TypeOK, Places
<1>2. queueFront + k - 1 \in 0..(2 * queueCapacity - 1)
  BY <1>1
<1> QED
  BY <1>1, <1>2 DEF Place, Places

(* No two of them are the same, as long as they are less than a turn apart.*)
LEMMA PlacesDiffer ==
  ASSUME TypeOK, NEW j \in 1..(queueCapacity + 1), NEW k \in 1..(queueCapacity + 1),
         Place(j) = Place(k), j - k < queueCapacity, k - j < queueCapacity
  PROVE  j = k
<1>1. queueCapacity \in Nat \ {0} /\ queueFront \in 0..(queueCapacity - 1)
  BY SizesArePositive DEF TypeOK, Places
<1> QED
  BY <1>1, PlaceOf

LEMMA NextPlace ==
  ASSUME NEW a \in Places
  PROVE  /\ (a + 1) % queueCapacity \in Places
         /\ (a + 1) % queueCapacity = IF a + 1 = queueCapacity THEN 0 ELSE a + 1
<1>1. queueCapacity \in Nat \ {0} /\ a \in 0..(queueCapacity - 1)
  BY SizesArePositive DEF Places
<1>2. a + 1 \in 0..(2 * queueCapacity - 1)
  BY <1>1
<1> QED
  BY <1>1, <1>2 DEF Places

(* The queue the ring stands for, after a task is put in or taken out. *)
LEMMA QueueFields ==
  ASSUME TypeOK
  PROVE  /\ DOMAIN Queue = 1..queueSize /\ queueSize \in Nat
         /\ \A k \in 1..queueSize : Queue[k] = taskQ[Place(k)]
BY DEF Queue, TypeOK, Place

LEMMA QueueSeq ==
  ASSUME TypeOK, RingShape
  PROVE  Queue \in Seq(Tasks) /\ Len(Queue) = queueSize
<1>1. queueSize \in Nat
  BY SizesArePositive DEF TypeOK
<1>2. Queue \in [1..queueSize -> Tasks]
  BY DEF Queue, RingShape
<1> QED
  BY <1>1, <1>2

LEMMA QueueSeqNext ==
  ASSUME TypeOK', RingShape'
  PROVE  Queue' \in Seq(Tasks) /\ Len(Queue') = queueSize'
<1>1. queueSize' \in Nat
  BY SizesArePositive DEF TypeOK
<1>2. Queue' \in [1..queueSize' -> Tasks]
  BY DEF Queue, RingShape
<1> QED
  BY <1>1, <1>2

RingGrew(t) ==
  /\ queueSize' = queueSize + 1
  /\ Queue'[queueSize + 1] = t
  /\ \A k \in 1..queueSize : Queue'[k] = Queue[k]

RingShrank ==
  /\ queueSize' = queueSize - 1
  /\ 1 \in 1..queueSize /\ taskQ[queueFront] = Queue[1]
  /\ \A k \in 1..queueSize' : k + 1 \in 1..queueSize /\ Queue'[k] = Queue[k + 1]

LEMMA PutGrows ==
  ASSUME TypeOK, RingShape, NEW t \in Tasks, queueSize < queueCapacity,
         taskQ' = [taskQ EXCEPT ![queueRear] = t],
         queueRear' = NextRear, queueSize' = queueSize + 1, queueFront' = queueFront
  PROVE  RingGrew(t) /\ RingShape'
<1>1. /\ queueCapacity \in Nat \ {0} /\ queueSize \in 0..(queueCapacity - 1)
      /\ queueFront \in 0..(queueCapacity - 1) /\ queueRear \in Places
      /\ taskQ \in [Places -> Tasks \cup {NoTask}]
  BY SizesArePositive DEF TypeOK, Places
<1>2. queueRear = Place(queueSize + 1)
  BY <1>1 DEF RingShape, Place
<1>3. \A k \in 1..(queueSize + 1) : Queue'[k] = taskQ'[Place(k)]
  BY <1>1 DEF Queue, Place
<1>4. Queue'[queueSize + 1] = t
  BY <1>1, <1>2, <1>3
<1>5. ASSUME NEW k \in 1..queueSize PROVE Queue'[k] = Queue[k]
  <2>1. Place(k) # queueRear
    BY <1>1, <1>2, PlacesDiffer
  <2>2. Place(k) \in Places
    BY <1>1, PlaceOf
  <2> QED
    BY <1>1, <1>3, <2>1, <2>2, QueueFields
<1>6. queueRear' = (queueFront' + queueSize') % queueCapacity
  <2>1. /\ queueRear = IF queueFront + queueSize < queueCapacity
                       THEN queueFront + queueSize ELSE queueFront + queueSize - queueCapacity
    BY <1>1, <1>2, PlaceOf
  <2>2. queueRear' = IF queueRear + 1 = queueCapacity THEN 0 ELSE queueRear + 1
    BY <1>1, NextPlace DEF NextRear
  <2>3. queueFront + queueSize + 1 \in 0..(2 * queueCapacity - 1)
    BY <1>1
  <2>4. (queueFront + queueSize + 1) % queueCapacity =
          IF queueFront + queueSize + 1 < queueCapacity
          THEN queueFront + queueSize + 1 ELSE queueFront + queueSize + 1 - queueCapacity
    BY <1>1, <2>3
  <2> QED
    BY <1>1, <2>1, <2>2, <2>4
<1>7. ASSUME NEW k \in 1..queueSize' PROVE Queue'[k] \in Tasks
  BY <1>1, <1>4, <1>5 DEF RingShape
<1> QED
  BY <1>4, <1>5, <1>6, <1>7 DEF RingGrew, RingShape

LEMMA TakeShrinks ==
  ASSUME TypeOK, RingShape, queueSize > 0,
         queueFront' = NextFront, queueSize' = queueSize - 1,
         UNCHANGED <<taskQ, queueRear>>
  PROVE  RingShrank /\ RingShape'
<1>1. /\ queueCapacity \in Nat \ {0} /\ queueSize \in 1..queueCapacity
      /\ queueFront \in 0..(queueCapacity - 1) /\ queueFront \in Places
  BY SizesArePositive DEF TypeOK, Places
<1>2. queueFront' = IF queueFront + 1 = queueCapacity THEN 0 ELSE queueFront + 1
  BY <1>1, NextPlace DEF NextFront
<1>3. taskQ[queueFront] = Queue[1]
  BY <1>1, QueueFields, PlaceOf
<1>4. ASSUME NEW k \in 1..queueSize'
      PROVE  k + 1 \in 1..queueSize /\ Queue'[k] = Queue[k + 1]
  <2>1. k + 1 \in 1..queueSize /\ k + 1 \in 1..(queueCapacity + 1)
    BY <1>1
  <2>2. Queue'[k] = taskQ[(queueFront' + k - 1) % queueCapacity]
    BY DEF Queue
  <2>3. queueFront' \in 0..(queueCapacity - 1) /\ k \in 1..queueCapacity
    BY <1>1, <1>2
  <2>4. (queueFront' + k - 1) % queueCapacity =
          IF queueFront' + k - 1 < queueCapacity
          THEN queueFront' + k - 1 ELSE queueFront' + k - 1 - queueCapacity
    BY <1>1, <2>3
  <2>5. Place(k + 1) = IF queueFront + k < queueCapacity
                       THEN queueFront + k ELSE queueFront + k - queueCapacity
    BY <1>1, <2>1, PlaceOf
  <2>6. (queueFront' + k - 1) % queueCapacity = Place(k + 1)
    BY <1>1, <1>2, <2>1, <2>4, <2>5
  <2> QED
    BY <2>1, <2>2, <2>6, QueueFields
<1>5. queueRear' = (queueFront' + queueSize') % queueCapacity
  <2>1. queueFront' \in 0..(queueCapacity - 1) /\ queueSize' \in 0..queueCapacity
    BY <1>1, <1>2
  <2>2. (queueFront + queueSize) % queueCapacity =
          IF queueFront + queueSize < queueCapacity
          THEN queueFront + queueSize ELSE queueFront + queueSize - queueCapacity
    BY <1>1, <2>1
  <2>3. (queueFront' + queueSize') % queueCapacity =
          IF queueFront' + queueSize' < queueCapacity
          THEN queueFront' + queueSize' ELSE queueFront' + queueSize' - queueCapacity
    BY <1>1, <2>1
  <2> QED
    BY <1>1, <1>2, <2>2, <2>3 DEF RingShape
<1>6. \A k \in 1..queueSize' : Queue'[k] \in Tasks
  BY <1>4 DEF RingShape
<1> QED
  BY <1>1, <1>3, <1>4, <1>5, <1>6 DEF RingShrank, RingShape

LEMMA RingSame ==
  ASSUME UNCHANGED ring
  PROVE  Queue' = Queue /\ Queued' = Queued /\ (RingShape => RingShape')
BY DEF ring, Queue, Queued, RingShape

-----------------------------------------------------------------------------
(* Counting the threads in a place. *)
LEMMA SlotsFinite == IsFiniteSet(Slots) /\ Cardinality(Slots) = maxNum
<1>1. 0 \in Int /\ maxNum - 1 \in Int /\ maxNum \in Nat
  BY SizesArePositive
<1>2. /\ IsFiniteSet(0..(maxNum - 1))
      /\ Cardinality(0..(maxNum - 1)) = IF 0 > maxNum - 1 THEN 0 ELSE (maxNum - 1) - 0 + 1
  BY <1>1, FS_Interval
<1> QED
  BY <1>1, <1>2 DEF Slots

LEMMA AtFinite ==
  \A s : /\ IsFiniteSet(At(s)) /\ Cardinality(At(s)) \in Nat
         /\ Cardinality(At(s)) <= maxNum /\ At(s) \subseteq Slots
<1> SUFFICES ASSUME NEW s
             PROVE  /\ IsFiniteSet(At(s)) /\ Cardinality(At(s)) \in Nat
                    /\ Cardinality(At(s)) <= maxNum /\ At(s) \subseteq Slots
  OBVIOUS
<1>1. At(s) \subseteq Slots
  BY DEF At
<1> QED
  BY <1>1, SlotsFinite, FS_Subset, FS_CardinalityType

LEMMA Moved ==
  ASSUME NEW S, wpc \in [Slots -> S], NEW w \in Slots, NEW from, NEW to, wpc[w] = from, from # to,
         wpc' = [wpc EXCEPT ![w] = to]
  PROVE  /\ At(to)' = At(to) \cup {w} /\ w \notin At(to)
         /\ Cardinality(At(to)') = Cardinality(At(to)) + 1
         /\ At(from)' = At(from) \ {w} /\ w \in At(from)
         /\ Cardinality(At(from)') = Cardinality(At(from)) - 1
         /\ \A r : r # to /\ r # from => At(r)' = At(r)
<1>1. At(to)' = At(to) \cup {w} /\ w \notin At(to)
  BY DEF At
<1>2. At(from)' = At(from) \ {w} /\ w \in At(from)
  BY DEF At
<1>3. Cardinality(At(to) \cup {w}) = Cardinality(At(to)) + 1
  BY <1>1, AtFinite, FS_AddElement
<1>4. Cardinality(At(from) \ {w}) = Cardinality(At(from)) - 1
  BY <1>2, AtFinite, FS_RemoveElement
<1>5. \A r : r # to /\ r # from => At(r)' = At(r)
  BY DEF At
<1> QED
  BY <1>1, <1>2, <1>3, <1>4, <1>5

LEMMA Moves ==
  ASSUME TypeOK, NEW w \in Slots, NEW from, NEW to, wpc[w] = from, from # to,
         wpc' = [wpc EXCEPT ![w] = to]
  PROVE  /\ At(to)' = At(to) \cup {w} /\ w \notin At(to)
         /\ Cardinality(At(to)') = Cardinality(At(to)) + 1
         /\ At(from)' = At(from) \ {w} /\ w \in At(from)
         /\ Cardinality(At(from)') = Cardinality(At(from)) - 1
         /\ \A r : r # to /\ r # from => At(r)' = At(r)
BY Moved DEF TypeOK

(* Who has been woken or is about to take the mutex anyway: a signal adds  *)
(* one of the sleepers to them, if there is any.                           *)
Awake == At("lock") \cup At("woken")

LEMMA AwakeFinite == IsFiniteSet(Awake) /\ Cardinality(Awake) \in Nat
BY AtFinite, FS_Union, FS_CardinalityType DEF Awake

LEMMA Signalled ==
  ASSUME NEW S, wpc \in [Slots -> S], "woken" \in S, SignalNotEmpty
  PROVE  /\ wpc' \in [Slots -> S]
         /\ \A s : s # "wait" /\ s # "woken" => At(s)' = At(s)
         /\ At("wait")' \subseteq At("wait")
         /\ At("wait") = {} => Awake' = Awake
         /\ At("wait") # {} => Cardinality(Awake') = Cardinality(Awake) + 1
<1>1. CASE At("wait") = {}
  BY <1>1 DEF SignalNotEmpty, At, Awake
<1>2. CASE At("wait") # {}
  <2>1. PICK w \in At("wait") : wpc' = [wpc EXCEPT ![w] = "woken"]
    BY <1>2 DEF SignalNotEmpty
  <2>2. w \in Slots /\ wpc[w] = "wait"
    BY <2>1 DEF At
  <2>3. wpc' \in [Slots -> S]
    BY <2>1
  <2>4. /\ At("woken")' = At("woken") \cup {w} /\ At("wait")' = At("wait") \ {w}
        /\ \A r : r # "woken" /\ r # "wait" => At(r)' = At(r)
    BY <2>1, <2>2, Moved
  <2>5. Awake' = Awake \cup {w} /\ w \notin Awake
    BY <2>2, <2>4 DEF Awake, At
  <2>6. Cardinality(Awake \cup {w}) = Cardinality(Awake) + 1
    BY <2>5, AwakeFinite, FS_AddElement
  <2> QED
    BY <1>2, <2>3, <2>4, <2>5, <2>6
<1> QED
  BY <1>1, <1>2

LEMMA Signals ==
  ASSUME TypeOK, SignalNotEmpty
  PROVE  /\ wpc' \in [Slots -> WorkerStates]
         /\ \A s : s # "wait" /\ s # "woken" => At(s)' = At(s)
         /\ At("wait")' \subseteq At("wait")
         /\ At("wait") = {} => Awake' = Awake
         /\ At("wait") # {} => Cardinality(Awake') = Cardinality(Awake) + 1
<1>1. wpc \in [Slots -> WorkerStates] /\ "woken" \in WorkerStates
  BY DEF TypeOK, WorkerStates
<1> QED
  BY <1>1, Signalled

(* What Grow fills is no more than maxNum allows: the i-th free entry is   *)
(* filled only while liveNum + i stays below it.                           *)
LEMMA FilledRoom ==
  ASSUME liveNum \in 0..maxNum
  PROVE  /\ Filled \subseteq At("none") /\ IsFiniteSet(Filled)
         /\ Cardinality(Filled) \in Nat /\ liveNum + Cardinality(Filled) <= maxNum
<1> DEFINE Below(i) == {j \in At("none") : j < i}
           before == [i \in Filled |-> Cardinality(Below(i))]
           room == maxNum - liveNum
<1>1. liveNum \in Nat /\ maxNum \in Nat /\ room \in Nat
  BY SizesArePositive
<1>2. \A i : IsFiniteSet(Below(i)) /\ Cardinality(Below(i)) \in Nat
  BY AtFinite, FS_Subset, FS_CardinalityType
<1>3. \A i \in Filled : i \in At("none") /\ i \in Nat /\ liveNum + Cardinality(Below(i)) < maxNum
  BY AtFinite DEF Filled, Slots
<1>4. ASSUME NEW i \in Filled, NEW k \in Filled, i < k
      PROVE  Cardinality(Below(i)) < Cardinality(Below(k))
  <2>1. i \notin Below(i) /\ Below(i) \cup {i} \subseteq Below(k)
    <3>1. \A j \in At("none") : j \in Nat
      BY AtFinite DEF Slots
    <3>2. i \in Nat /\ k \in Nat /\ i \in At("none")
      BY <1>3
    <3>3. i \notin Below(i) /\ i \in Below(k)
      BY <1>4, <3>2
    <3>4. \A j \in At("none") : j < i => j < k
      BY <1>4, <3>1, <3>2
    <3> QED
      BY <3>3, <3>4
  <2>2. Cardinality(Below(i) \cup {i}) = Cardinality(Below(i)) + 1
    BY <1>2, <2>1, FS_AddElement
  <2>3. Cardinality(Below(i) \cup {i}) <= Cardinality(Below(k))
    BY <1>2, <2>1, FS_Subset
  <2> HIDE DEF Below
  <2> QED
    BY <1>2, <2>2, <2>3
<1>5. \A i \in Filled : Cardinality(Below(i)) \in 0..(room - 1)
  <2> HIDE DEF Below
  <2> QED
    BY <1>1, <1>2, <1>3
<1>6. before \in Injection(Filled, 0..(room - 1))
  <2>1. before \in [Filled -> 0..(room - 1)]
    BY <1>5
  <2>2. ASSUME NEW i \in Filled, NEW k \in Filled, Cardinality(Below(i)) = Cardinality(Below(k))
        PROVE  i = k
    <3> HIDE DEF Below
    <3> QED
      BY <1>2, <1>3, <1>4, <2>2
  <2> HIDE DEF Below, room
  <2> QED
    BY <2>1, <2>2 DEF Injection, IsInjective
<1>7. IsFiniteSet(0..(room - 1)) /\ Cardinality(0..(room - 1)) = room
  <2>1. /\ IsFiniteSet(0..(room - 1))
        /\ Cardinality(0..(room - 1)) = IF 0 > room - 1 THEN 0 ELSE (room - 1) - 0 + 1
    <3> HIDE DEF room
    <3> QED
      BY <1>1, FS_Interval
  <2> HIDE DEF room
  <2> QED
    BY <1>1, <2>1
<1>8. IsFiniteSet(Filled) /\ Cardinality(Filled) <= room
  <2> HIDE DEF before, room
  <2> QED
    BY <1>6, <1>7, FS_Injection
<1>9. Cardinality(Filled) \in Nat
  BY <1>8, FS_CardinalityType
<1>10. Filled \subseteq At("none")
  BY DEF Filled
<1> HIDE DEF before, Below
<1> QED
  BY <1>1, <1>8, <1>9, <1>10

LEMMA FilledFits ==
  ASSUME TypeOK
  PROVE  /\ Filled \subseteq At("none") /\ IsFiniteSet(Filled)
         /\ Cardinality(Filled) \in Nat /\ liveNum + Cardinality(Filled) <= maxNum
BY FilledRoom DEF TypeOK

-----------------------------------------------------------------------------
(* Most steps touch neither the ring nor a task in a worker's hands.       *)
Aside ==
  /\ UNCHANGED <<ring, busyNum, task, done, shutdown>>
  /\ At("start")' = At("start") /\ At("run")' = At("run")

LEMMA StepKinds ==
  ASSUME TypeOK, [Next]_vars
  PROVE  \/ \E p \in Producers, t \in Tasks : Put(p, t)
         \/ \E w \in Slots : TakeTask(w) \/ StartTask(w) \/ EndTask(w)
         \/ SetShutdown
         \/ Aside
<1>t. wpc \in [Slots -> WorkerStates]
  BY DEF TypeOK
<1>1. ASSUME NEW p \in Producers, CallAdd(p) \/ Refused(p) \/ FindsFull(p) \/ WaitNotFull(p)
      PROVE  Aside
  BY <1>1 DEF CallAdd, Refused, FindsFull, WaitNotFull, Aside, counters, history,
              destroyer, At
<1>2. ASSUME NEW w \in Slots, Dies(w) PROVE Aside
  BY <1>2, <1>t DEF Dies, Aside, destroyer, At
<1>3. ASSUME NEW w \in Slots, FindsEmpty(w) PROVE Aside
  BY <1>3, <1>t DEF FindsEmpty, Tests, Aside, history, destroyer, At
<1>4. ASSUME NEW w \in Slots, FindsShutdown(w) PROVE Aside
  BY <1>4, <1>t DEF FindsShutdown, Tests, Aside, history, destroyer, At
<1>5. ASSUME NEW w \in Slots, WaitNotEmpty(w) \/ threadExit(w) PROVE Aside
  BY <1>5, <1>t DEF WaitNotEmpty, threadExit, Aside, counters, history, destroyer, At
<1>6. CASE Check \/ ReadPool \/ ReadBusy
  BY <1>6 DEF Check, ReadPool, ReadBusy, Aside, counters, history, destroyer, At
<1>7. CASE Shrink
  BY <1>7 DEF Shrink, Aside, history, destroyer, At
<1>8. CASE Grow
  <2>1. \A i \in Filled : wpc[i] = "none"
    BY DEF Filled, At
  <2>2. \A i \in Slots : wpc'[i] = wpc[i] \/ (wpc[i] = "none" /\ wpc'[i] = "lock")
    BY <1>8, <1>t, <2>1 DEF Grow
  <2>3. At("start")' = At("start") /\ At("run")' = At("run")
    BY <2>2 DEF At
  <2> QED
    BY <1>8, <2>3 DEF Grow, Aside, history, destroyer
<1>9. CASE SignalDismissal
  <2>1. At("start")' = At("start") /\ At("run")' = At("run")
    BY <1>9, Signals DEF SignalDismissal
  <2> QED
    BY <1>9, <2>1 DEF SignalDismissal, Aside, counters, history, destroyer
<1>10. CASE WakeWorkers
  <2>1. At("start")' = At("start") /\ At("run")' = At("run")
    BY <1>10, Signals DEF WakeWorkers, At
  <2> QED
    BY <1>10, <2>1 DEF WakeWorkers, Aside, counters, history
<1>11. CASE JoinManager \/ FreePool
  BY <1>11 DEF JoinManager, FreePool, Aside, counters, history, At
<1>12. CASE UNCHANGED vars
  BY <1>12 DEF vars, Aside, counters, history, destroyer, At
<1> QED
  BY <1>1, <1>2, <1>3, <1>4, <1>5, <1>6, <1>7, <1>8, <1>9, <1>10, <1>11, <1>12
     DEF Next, Producer, Worker, Manager, Destroyer

-----------------------------------------------------------------------------
(* TypeOK alone is not inductive: busyNum could fall below zero, and a     *)
(* worker could start or end a task it does not have.                      *)
LEMMA TypeInit == Init => TypeInv
<1> SUFFICES ASSUME Init PROVE TypeInv
  OBVIOUS
<1>1. 0 \in Places /\ queueCapacity \in Nat \ {0} /\ maxNum \in Nat /\ minNum \in 0..maxNum
  BY SizesArePositive DEF Places
<1>2. At("run") = {} /\ At("start") = {}
  BY DEF Init, At
<1>3. Cardinality(At("run")) = 0
  BY <1>2, FS_EmptySet
<1>4. RingShape
  <2>1. queueRear = 0 /\ queueFront = 0 /\ queueSize = 0
    BY DEF Init
  <2>2. (0 + 0) % queueCapacity = 0
    BY <1>1
  <2> QED
    BY <2>1, <2>2 DEF RingShape
<1>5. TypeOK
  <2>1. wpc \in [Slots -> WorkerStates]
    BY DEF Init, WorkerStates
  <2>2. NUM \in Nat
    BY SizesArePositive
  <2>3. seen \in [queue : 0..queueCapacity, live : 0..maxNum, busy : 0..maxNum]
    BY <1>1 DEF Init, Nothing
  <2>4. /\ taskQ \in [Places -> Tasks \cup {NoTask}]
        /\ task \in [Slots -> Tasks \cup {NoTask}]
        /\ ppc \in [Producers -> {"idle", "lock", "towait", "wait"}]
    BY DEF Init
  <2>5. /\ queueSize \in 0..queueCapacity /\ queueFront \in Places /\ queueRear \in Places
        /\ busyNum \in 0..maxNum /\ liveNum \in 0..maxNum /\ exitNum \in 0..NUM
        /\ signals \in 0..(NUM + maxNum)
    BY <1>1, <2>2 DEF Init
  <2> QED
    BY <2>1, <2>3, <2>4, <2>5 DEF Init, TypeOK, ManagerStates
<1>6. busyNum = 0
  BY DEF Init
<1> QED
  BY <1>2, <1>3, <1>4, <1>5, <1>6 DEF TypeInv, Occupied

LEMMA TypeOKStep == TypeInv /\ [Next]_vars => TypeOK'
<1> SUFFICES ASSUME TypeInv, [Next]_vars PROVE TypeOK'
  OBVIOUS
<1>t. TypeOK /\ RingShape
  BY DEF TypeInv
<1>s. /\ maxNum \in Nat /\ minNum \in Nat \ {0} /\ queueCapacity \in Nat \ {0}
      /\ NUM \in Nat \ {0}
  BY SizesArePositive
<1>w. \A w \in Slots, s \in WorkerStates : [wpc EXCEPT ![w] = s] \in [Slots -> WorkerStates]
  BY <1>t DEF TypeOK
<1>p. \A p \in Producers, s \in {"idle", "lock", "towait", "wait"} :
        [ppc EXCEPT ![p] = s] \in [Producers -> {"idle", "lock", "towait", "wait"}]
  BY <1>t DEF TypeOK
<1>f. SignalNotFull => ppc' \in [Producers -> {"idle", "lock", "towait", "wait"}]
  BY <1>t, <1>p DEF SignalNotFull, TypeOK
<1>1. ASSUME NEW p \in Producers, CallAdd(p) \/ Refused(p) \/ FindsFull(p) \/ WaitNotFull(p)
      PROVE  TypeOK'
  <2>1. ppc' \in [Producers -> {"idle", "lock", "towait", "wait"}]
    BY <1>1, <1>p DEF CallAdd, Refused, FindsFull, WaitNotFull
  <2>2. UNCHANGED <<ring, counters, wpc, task, manager, signals, destroyer, history>>
    BY <1>1 DEF CallAdd, Refused, FindsFull, WaitNotFull
  <2> QED
    BY <1>t, <2>1, <2>2 DEF TypeOK, ring, counters, manager, destroyer, history
<1>2. ASSUME NEW p \in Producers, NEW t \in Tasks, Put(p, t) PROVE TypeOK'
  <2>1. queueRear' \in Places /\ queueSize' \in 0..queueCapacity
    BY <1>2, <1>t, <1>s, NextPlace DEF Put, NextRear, TypeOK
  <2>2. wpc' \in [Slots -> WorkerStates]
    BY <1>2, <1>t, Signals DEF Put
  <2>3. ppc' \in [Producers -> {"idle", "lock", "towait", "wait"}]
    BY <1>2, <1>p DEF Put
  <2>4. taskQ' \in [Places -> Tasks \cup {NoTask}]
    BY <1>2, <1>t DEF Put, TypeOK
  <2> QED
    BY <1>2, <1>t, <2>1, <2>2, <2>3, <2>4
       DEF Put, TypeOK, counters, manager, destroyer, history
<1>3. ASSUME NEW w \in Slots, Dies(w) PROVE TypeOK'
  <2>1. wpc' \in [Slots -> WorkerStates]
    BY <1>3, <1>w DEF Dies, WorkerStates
  <2>2. exitNum' \in 0..NUM /\ liveNum' \in 0..maxNum
    BY <1>3, <1>t, <1>s DEF Dies, Dismissed, TypeOK
  <2>3. struck' \in BOOLEAN
    BY <1>3, <1>t DEF Dies, TypeOK
  <2> QED
    BY <1>3, <1>t, <2>1, <2>2, <2>3 DEF Dies, TypeOK, ring, manager, destroyer
<1>4. ASSUME NEW w \in Slots, FindsEmpty(w) \/ FindsShutdown(w) PROVE TypeOK'
  <2>1. wpc' \in [Slots -> WorkerStates]
    BY <1>4, <1>w DEF FindsEmpty, FindsShutdown, WorkerStates
  <2>2. exitNum' \in 0..NUM
    BY <1>4, <1>t, <1>s DEF FindsEmpty, FindsShutdown, Tests, TypeOK
  <2>3. UNCHANGED <<ring, task, ppc, busyNum, liveNum, manager, signals, destroyer, history>>
    BY <1>4 DEF FindsEmpty, FindsShutdown, Tests
  <2> QED
    BY <1>t, <2>1, <2>2, <2>3 DEF TypeOK, ring, manager, destroyer, history
<1>5. ASSUME NEW w \in Slots, TakeTask(w) PROVE TypeOK'
  <2>1. wpc' \in [Slots -> WorkerStates]
    BY <1>5, <1>w DEF TakeTask, WorkerStates
  <2>2. exitNum' \in 0..NUM
    BY <1>5, <1>t, <1>s DEF TakeTask, Tests, TypeOK
  <2>3. queueFront' \in Places /\ queueSize' \in 0..queueCapacity
    BY <1>5, <1>t, <1>s, NextPlace DEF TakeTask, NextFront, TypeOK
  <2>4. task' \in [Slots -> Tasks \cup {NoTask}]
    BY <1>5, <1>t DEF TakeTask, TypeOK
  <2>5. ppc' \in [Producers -> {"idle", "lock", "towait", "wait"}]
    BY <1>5, <1>f DEF TakeTask
  <2>6. UNCHANGED <<taskQ, queueRear, busyNum, liveNum, manager, signals, destroyer, history>>
    BY <1>5 DEF TakeTask, Tests
  <2> QED
    BY <1>t, <2>1, <2>2, <2>3, <2>4, <2>5, <2>6 DEF TypeOK, manager, destroyer, history
<1>6. ASSUME NEW w \in Slots, WaitNotEmpty(w) \/ threadExit(w) PROVE TypeOK'
  <2>1. wpc' \in [Slots -> WorkerStates]
    BY <1>6, <1>w DEF WaitNotEmpty, threadExit, WorkerStates
  <2>2. UNCHANGED <<ring, counters, task, ppc, manager, signals, destroyer, history>>
    BY <1>6 DEF WaitNotEmpty, threadExit
  <2> QED
    BY <1>t, <2>1, <2>2 DEF TypeOK, ring, counters, manager, destroyer, history
<1>7. ASSUME NEW w \in Slots, StartTask(w) PROVE TypeOK'
  <2>1. wpc' \in [Slots -> WorkerStates]
    BY <1>7, <1>w DEF StartTask, WorkerStates
  <2>2. Cardinality(At("run")') = Cardinality(At("run")) + 1
    BY <1>7, <1>t, Moves DEF StartTask
  <2>3. Cardinality(At("run")') <= maxNum
    <3>1. At("run")' = {v \in Slots : wpc'[v] = "run"}
      BY DEF At
    <3> QED
      BY <3>1, SlotsFinite, FS_Subset
  <2>4. busyNum' \in 0..maxNum
    BY <1>7, <1>t, <1>s, <2>2, <2>3 DEF StartTask, TypeInv, TypeOK
  <2> QED
    BY <1>7, <1>t, <2>1, <2>4 DEF StartTask, TypeOK, ring, manager, destroyer, history
<1>8. ASSUME NEW w \in Slots, EndTask(w) PROVE TypeOK'
  <2>1. wpc' \in [Slots -> WorkerStates]
    BY <1>8, <1>w DEF EndTask, WorkerStates
  <2>2. w \in At("run")
    BY <1>8 DEF EndTask, At
  <2>3. busyNum # 0
    BY <2>2, AtFinite, FS_EmptySet DEF TypeInv
  <2>4. busyNum' \in 0..maxNum
    BY <1>8, <1>t, <1>s, <2>3 DEF EndTask, TypeOK
  <2>5. task[w] \in Tasks
    BY <2>2 DEF TypeInv, Occupied
  <2>6. done' \subseteq Tasks /\ task' \in [Slots -> Tasks \cup {NoTask}]
    BY <1>8, <1>t, <2>5 DEF EndTask, TypeOK
  <2> QED
    BY <1>8, <1>t, <2>1, <2>4, <2>6 DEF EndTask, TypeOK, ring, manager, destroyer
<1>9. CASE Check
  BY <1>9, <1>t DEF Check, TypeOK, ManagerStates, ring, counters, destroyer, history
<1>10. CASE ReadPool
  BY <1>10, <1>t DEF ReadPool, TypeOK, ManagerStates, ring, counters, destroyer, history
<1>11. CASE ReadBusy
  BY <1>11, <1>t DEF ReadBusy, TypeOK, ManagerStates, ring, counters, destroyer, history
<1>12. CASE Grow
  <2>1. wpc' \in [Slots -> WorkerStates]
    BY <1>12, <1>t DEF Grow, TypeOK, WorkerStates
  <2>2. liveNum' \in 0..maxNum
    <3>1. liveNum \in 0..maxNum
      BY <1>t DEF TypeOK
    <3>2. Cardinality(Filled) \in Nat /\ liveNum + Cardinality(Filled) <= maxNum
      BY <1>t, FilledFits
    <3> QED
      BY <1>12, <1>s, <3>1, <3>2 DEF Grow
  <2>3. UNCHANGED <<ring, busyNum, exitNum, task, ppc, seen, signals, destroyer, history>>
        /\ mpc' \in ManagerStates
    BY <1>12 DEF Grow, ManagerStates
  <2> QED
    BY <1>t, <2>1, <2>2, <2>3 DEF TypeOK, ring, destroyer, history
<1>13. CASE Shrink
  <2>1. exitNum' \in 0..NUM /\ signals' \in 0..(NUM + maxNum) /\ mpc' \in ManagerStates
    BY <1>13, <1>t, <1>s DEF Shrink, TypeOK, ManagerStates
  <2>2. seen' \in [queue : 0..queueCapacity, live : 0..maxNum, busy : 0..maxNum]
    BY <1>13, <1>s DEF Shrink, Nothing
  <2> QED
    BY <1>13, <1>t, <2>1, <2>2 DEF Shrink, TypeOK, ring, destroyer, history
<1>14. CASE SignalDismissal
  <2>1. wpc' \in [Slots -> WorkerStates]
    BY <1>14, <1>t, Signals DEF SignalDismissal
  <2>2. signals' \in 0..(NUM + maxNum) /\ mpc' \in ManagerStates
    BY <1>14, <1>t, <1>s DEF SignalDismissal, TypeOK, ManagerStates
  <2> QED
    BY <1>14, <1>t, <2>1, <2>2 DEF SignalDismissal, TypeOK, ring, counters, destroyer, history
<1>15. CASE SetShutdown \/ JoinManager \/ FreePool
  BY <1>15, <1>t DEF SetShutdown, JoinManager, FreePool, TypeOK, ring, counters, manager,
                     history
<1>16. CASE WakeWorkers
  <2>1. wpc' \in [Slots -> WorkerStates]
    BY <1>16, <1>t, Signals DEF WakeWorkers, TypeOK
  <2>2. signals' \in 0..(NUM + maxNum) /\ dpc' \in {"alive", "join", "wake", "sleep", "freed"}
    BY <1>16, <1>t, <1>s DEF WakeWorkers, TypeOK
  <2> QED
    BY <1>16, <1>t, <2>1, <2>2 DEF WakeWorkers, TypeOK, ring, counters, manager, history
<1>17. CASE UNCHANGED vars
  BY <1>17, <1>t DEF vars, TypeOK, ring, counters, manager, destroyer, history
<1> QED
  BY <1>1, <1>2, <1>3, <1>4, <1>5, <1>6, <1>7, <1>8, <1>9, <1>10, <1>11, <1>12, <1>13,
     <1>14, <1>15, <1>16, <1>17 DEF Next, Producer, Worker, Manager, Destroyer

LEMMA TypeStep == TypeInv /\ [Next]_vars => TypeInv'
<1> SUFFICES ASSUME TypeInv, [Next]_vars PROVE TypeInv'
  OBVIOUS
<1>t. TypeOK /\ RingShape /\ TypeOK'
  BY TypeOKStep DEF TypeInv
<1>c. task \in [Slots -> Tasks \cup {NoTask}] /\ wpc \in [Slots -> WorkerStates]
  BY <1>t DEF TypeOK
<1>1. ASSUME NEW p \in Producers, NEW t \in Tasks, Put(p, t) PROVE TypeInv'
  <2>1. RingShape'
    BY <1>1, <1>t, PutGrows DEF Put
  <2>2. At("run")' = At("run") /\ At("start")' = At("start")
    BY <1>1, <1>t, Signals DEF Put
  <2> QED
    BY <1>1, <1>t, <2>1, <2>2 DEF Put, TypeInv, Occupied, counters
<1>2. ASSUME NEW w \in Slots, TakeTask(w) PROVE TypeInv'
  <2>1. RingShape' /\ RingShrank
    BY <1>2, <1>t, TakeShrinks DEF TakeTask
  <2>2. task' = [task EXCEPT ![w] = Queue[1]] /\ Queue[1] \in Tasks
    BY <1>2, <1>t, <2>1 DEF TakeTask, RingShrank, RingShape
  <2>3. At("run")' = At("run") /\ At("start")' = At("start") \cup {w}
    BY <1>2, <1>c DEF TakeTask, Tests, At
  <2>4. \A v \in Occupied' : task'[v] \in Tasks
    <3>1. \A v \in Slots : task'[v] = IF v = w THEN Queue[1] ELSE task[v]
      BY <1>c, <2>2
    <3>2. \A v \in Occupied' : v \in Slots /\ (v = w \/ v \in Occupied)
      BY <2>3, AtFinite DEF Occupied
    <3> QED
      BY <2>2, <3>1, <3>2 DEF TypeInv
  <2> QED
    BY <1>2, <1>t, <2>1, <2>3, <2>4 DEF TakeTask, Tests, TypeInv
<1>3. ASSUME NEW w \in Slots, StartTask(w) PROVE TypeInv'
  <2>1. /\ Cardinality(At("run")') = Cardinality(At("run")) + 1
        /\ At("run")' = At("run") \cup {w}
        /\ At("start")' = At("start") \ {w} /\ w \in At("start")
    BY <1>3, <1>t, Moves DEF StartTask
  <2>2. Occupied' = Occupied
    BY <2>1 DEF Occupied
  <2>3. RingShape'
    BY <1>3, <1>t, RingSame DEF StartTask
  <2> QED
    BY <1>3, <1>t, <2>1, <2>2, <2>3 DEF StartTask, TypeInv
<1>4. ASSUME NEW w \in Slots, EndTask(w) PROVE TypeInv'
  <2>1. /\ Cardinality(At("run")') = Cardinality(At("run")) - 1
        /\ At("run")' = At("run") \ {w} /\ At("start")' = At("start")
    <3>1. wpc[w] = "run" /\ wpc' = [wpc EXCEPT ![w] = "lock"]
      BY <1>4 DEF EndTask
    <3>2. At("start")' = At("start")
      BY <3>1, <1>c DEF At
    <3>3. /\ Cardinality(At("run")') = Cardinality(At("run")) - 1
          /\ At("run")' = At("run") \ {w}
      BY <3>1, <1>t, Moves
    <3> QED
      BY <3>2, <3>3
  <2>2. w \notin At("start")
    BY <1>4 DEF EndTask, At
  <2>3. \A v \in Occupied' : task'[v] = task[v] /\ v \in Occupied
    <3>1. \A v \in Slots \ {w} : task'[v] = task[v]
      BY <1>4, <1>c DEF EndTask
    <3>2. \A v \in Occupied' : v \in Occupied /\ v \in Slots \ {w}
      BY <2>1, <2>2, AtFinite DEF Occupied
    <3> QED
      BY <3>1, <3>2
  <2>4. RingShape'
    BY <1>4, <1>t, RingSame DEF EndTask
  <2> QED
    BY <1>4, <1>t, <2>1, <2>3, <2>4 DEF EndTask, TypeInv
<1>5. CASE SetShutdown
  <2>1. RingShape'
    BY <1>5, <1>t, RingSame DEF SetShutdown
  <2>2. At("run")' = At("run") /\ At("start")' = At("start")
    BY <1>5 DEF SetShutdown, At
  <2> QED
    BY <1>5, <1>t, <2>1, <2>2 DEF SetShutdown, TypeInv, Occupied, counters
<1>6. CASE Aside
  <2>1. RingShape'
    BY <1>6, <1>t, RingSame DEF Aside
  <2> QED
    BY <1>6, <1>t, <2>1 DEF Aside, TypeInv, Occupied
<1> QED
  BY <1>t, <1>1, <1>2, <1>3, <1>4, <1>5, <1>6, StepKinds

(* Every reachable state has the shape TypeOK describes: the positions     *)
(* stay in the ring, no counter falls below zero or passes its limit, and  *)
(* what a worker takes out of the ring is a task.                          *)
THEOREM TypeCorrect == Spec => []TypeOK
<1>1. TypeInv => TypeOK
  BY DEF TypeInv
<1> QED
  BY <1>1, TypeInit, TypeStep, PTL DEF Spec

-----------------------------------------------------------------------------
LEMMA MutexInit == Init => Mutex
<1> SUFFICES ASSUME Init PROVE Mutex
  OBVIOUS
<1>1. \A w \in Slots : wpc[w] = "lock" \/ wpc[w] = "none"
  BY DEF Init
<1>2. \A p \in Producers : ppc[p] = "idle"
  BY DEF Init
<1> QED
  BY <1>1, <1>2 DEF Mutex, Full, At

LEMMA MutexStep == TypeInv /\ Mutex /\ [Next]_vars => Mutex'
<1> SUFFICES ASSUME TypeInv, Mutex, [Next]_vars PROVE Mutex'
  OBVIOUS
<1>t. /\ TypeOK /\ wpc \in [Slots -> WorkerStates]
      /\ ppc \in [Producers -> {"idle", "lock", "towait", "wait"}]
  BY DEF TypeInv, TypeOK
<1>1. UNCHANGED queueSize \/ ~Held
  <2>1. ASSUME NEW p \in Producers, NEW t \in Tasks, Put(p, t) PROVE ~Held
    BY <2>1 DEF Put
  <2>2. ASSUME NEW w \in Slots, TakeTask(w) PROVE ~Held
    BY <2>2 DEF TakeTask, Tests
  <2>3. ASSUME NEW w \in Slots, StartTask(w) \/ EndTask(w) PROVE UNCHANGED queueSize
    BY <2>3 DEF StartTask, EndTask, ring
  <2>4. CASE SetShutdown \/ Aside
    BY <2>4 DEF SetShutdown, Aside, ring
  <2> QED
    BY <1>t, <2>1, <2>2, <2>3, <2>4, StepKinds
<1>2. At("towait")' \subseteq At("towait") \/ (UNCHANGED queueSize /\ queueSize = 0)
  <2>1. ASSUME NEW p \in Producers,
               CallAdd(p) \/ Refused(p) \/ FindsFull(p) \/ WaitNotFull(p)
        PROVE  At("towait")' = At("towait")
    BY <2>1 DEF CallAdd, Refused, FindsFull, WaitNotFull, At
  <2>2. ASSUME NEW p \in Producers, NEW t \in Tasks, Put(p, t)
        PROVE  At("towait")' = At("towait")
    BY <2>2, <1>t, Signals DEF Put
  <2>3. ASSUME NEW w \in Slots, NEW s \in WorkerStates, s # "towait",
               wpc' = [wpc EXCEPT ![w] = s]
        PROVE  At("towait")' \subseteq At("towait")
    BY <2>3, <1>t DEF At
  <2>4. ASSUME NEW w \in Slots, Worker(w) \/ WaitNotEmpty(w), ~FindsEmpty(w)
        PROVE  At("towait")' \subseteq At("towait")
    <3>1. PICK s \in WorkerStates \ {"towait"} : wpc' = [wpc EXCEPT ![w] = s]
      BY <2>4 DEF Worker, Dies, FindsShutdown, TakeTask, StartTask, EndTask, threadExit,
                  WaitNotEmpty, WorkerStates
    <3> QED
      BY <3>1, <2>3
  <2>5. ASSUME NEW w \in Slots, FindsEmpty(w) PROVE UNCHANGED queueSize /\ queueSize = 0
    BY <2>5 DEF FindsEmpty, ring
  <2>6. CASE Check \/ ReadPool \/ ReadBusy \/ Shrink
    BY <2>6 DEF Check, ReadPool, ReadBusy, Shrink, At
  <2>7. CASE Grow
    <3>1. \A i \in Slots : wpc'[i] = wpc[i] \/ wpc'[i] = "lock"
      BY <2>7, <1>t DEF Grow
    <3> QED
      BY <3>1 DEF At
  <2>8. CASE SignalDismissal
    BY <2>8, <1>t, Signals DEF SignalDismissal
  <2>9. CASE WakeWorkers
    <3>1. CASE SignalNotEmpty
      BY <3>1, <1>t, Signals
    <3>2. CASE UNCHANGED wpc
      BY <3>2 DEF At
    <3> QED
      BY <2>9, <3>1, <3>2 DEF WakeWorkers
  <2>10. CASE SetShutdown \/ JoinManager \/ FreePool \/ UNCHANGED vars
    BY <2>10 DEF SetShutdown, JoinManager, FreePool, vars, At
  <2> QED
    BY <2>1, <2>2, <2>4, <2>5, <2>6, <2>7, <2>8, <2>9, <2>10
       DEF Next, Producer, Manager, Destroyer
<1>3. ASSUME NEW p \in Producers, Full(p)'
      PROVE  Full(p) \/ (UNCHANGED queueSize /\ queueSize = queueCapacity)
  <2>1. ASSUME NEW q \in Producers, NEW s, s # "towait", ppc' = [ppc EXCEPT ![q] = s]
        PROVE  Full(p)
    BY <1>3, <2>1, <1>t DEF Full
  <2>2. ASSUME NEW q \in Producers, CallAdd(q) \/ Refused(q) \/ WaitNotFull(q)
        PROVE  Full(p)
    BY <2>1, <2>2 DEF CallAdd, Refused, WaitNotFull
  <2>3. ASSUME NEW q \in Producers, NEW t \in Tasks, Put(q, t) PROVE Full(p)
    BY <2>1, <2>3 DEF Put
  <2>4. ASSUME NEW q \in Producers, FindsFull(q)
        PROVE  UNCHANGED queueSize /\ queueSize = queueCapacity
    BY <2>4 DEF FindsFull, ring
  <2>5. ASSUME NEW w \in Slots, TakeTask(w) PROVE Full(p)
    BY <1>3, <2>1, <2>5 DEF TakeTask, SignalNotFull, Full
  <2>6. ASSUME UNCHANGED ppc PROVE Full(p)
    BY <1>3, <2>6 DEF Full
  <2>7. ASSUME NEW w \in Slots, Worker(w) \/ WaitNotEmpty(w), ~TakeTask(w)
        PROVE  Full(p)
    BY <2>6, <2>7 DEF Worker, Dies, FindsEmpty, FindsShutdown, StartTask, EndTask,
                      threadExit, WaitNotEmpty
  <2>8. CASE Manager
    BY <2>6, <2>8 DEF Manager, Check, ReadPool, ReadBusy, Grow, Shrink, SignalDismissal
  <2>9. CASE SetShutdown \/ Destroyer \/ UNCHANGED vars
    BY <2>6, <2>9 DEF SetShutdown, Destroyer, JoinManager, WakeWorkers, FreePool, vars
  <2> QED
    BY <2>2, <2>3, <2>4, <2>5, <2>7, <2>8, <2>9 DEF Next, Producer
<1>4. \A w \in At("towait")' : queueSize' = 0
  BY <1>1, <1>2 DEF Mutex, Held
<1>5. \A p \in Producers : Full(p)' => queueSize' = queueCapacity
  BY <1>1, <1>3 DEF Mutex, Held, Full
<1> QED
  BY <1>4, <1>5 DEF Mutex

-----------------------------------------------------------------------------
LEMMA AwakeFiniteNext == IsFiniteSet(Awake') /\ Cardinality(Awake') \in Nat
<1>1. Awake' \subseteq Slots
  BY DEF Awake, At
<1> QED
  BY <1>1, SlotsFinite, FS_Subset, FS_CardinalityType

LEMMA StrandedTaskInit == Init => NoStrandedTask
<1> SUFFICES ASSUME Init PROVE NoStrandedTask
  OBVIOUS
<1>1. At("wait") = {}
  BY DEF Init, At
<1> QED
  BY <1>1 DEF NoStrandedTask

LEMMA StrandedTaskStep ==
  TypeInv /\ Mutex /\ NoStrandedTask /\ [Next]_vars => NoStrandedTask'
<1> DEFINE Enough == queueSize' <= Cardinality(Awake')
<1> SUFFICES ASSUME TypeInv, Mutex, NoStrandedTask, [Next]_vars,
                    ~struck', ~shutdown', At("wait")' # {}
             PROVE  Enough
  BY DEF NoStrandedTask, Awake
<1>t. /\ TypeOK /\ wpc \in [Slots -> WorkerStates] /\ queueSize \in Nat
  BY SizesArePositive DEF TypeInv, TypeOK
<1>c. /\ Cardinality(Awake) \in Nat /\ IsFiniteSet(Awake)
      /\ Cardinality(Awake') \in Nat /\ IsFiniteSet(Awake')
  BY AwakeFinite, AwakeFiniteNext
<1>s. ASSUME ~struck, ~shutdown, At("wait") # {} PROVE queueSize <= Cardinality(Awake)
  BY <1>s DEF NoStrandedTask, Awake
<1>same. ASSUME UNCHANGED <<queueSize, struck, shutdown>>, At("wait") # {}, Awake \subseteq Awake'
         PROVE  Enough
  <2>1. Cardinality(Awake) <= Cardinality(Awake')
    BY <1>same, <1>c, FS_Subset
  <2> QED
    BY <1>same, <1>s, <1>c, <1>t, <2>1
<1>empty. ASSUME queueSize' = 0 PROVE Enough
  BY <1>empty, <1>c
<1>signal. ASSUME UNCHANGED <<queueSize, struck, shutdown>>, SignalNotEmpty PROVE Enough
  <2>1. /\ At("wait") # {} /\ Cardinality(Awake') = Cardinality(Awake) + 1
    BY <1>signal, <1>t, Signals
  <2> QED
    BY <1>signal, <1>s, <1>c, <1>t, <2>1
<1>still. ASSUME UNCHANGED <<queueSize, struck, shutdown, wpc>> PROVE Enough
  BY <1>still, <1>same DEF Awake, At
<1>1. ASSUME NEW p \in Producers, CallAdd(p) \/ Refused(p) \/ FindsFull(p) \/ WaitNotFull(p)
      PROVE  Enough
  <2>1. UNCHANGED <<queueSize, struck, shutdown, wpc>>
    BY <1>1 DEF CallAdd, Refused, FindsFull, WaitNotFull, ring, history, destroyer
  <2> QED
    BY <2>1, <1>still
<1>2. ASSUME NEW p \in Producers, NEW t \in Tasks, Put(p, t) PROVE Enough
  <2>1. At("wait") # {} /\ Cardinality(Awake') = Cardinality(Awake) + 1
    BY <1>2, <1>t, Signals DEF Put
  <2>2. queueSize' = queueSize + 1 /\ ~struck /\ ~shutdown
    BY <1>2 DEF Put, history, destroyer
  <2> QED
    BY <1>s, <1>c, <1>t, <2>1, <2>2
<1>3. ASSUME NEW w \in Slots, Dies(w) PROVE Enough
  <2>1. queueSize = 0 /\ queueSize' = queueSize
    <3>1. struck' = (struck \/ queueSize > 0) /\ queueSize' = queueSize
      BY <1>3 DEF Dies, ring
    <3>2. ~(queueSize > 0)
      BY <3>1
    <3> QED
      BY <1>t, <3>1, <3>2
  <2> QED
    BY <2>1, <1>empty
<1>4. ASSUME NEW w \in Slots, FindsEmpty(w) PROVE Enough
  BY <1>4, <1>empty DEF FindsEmpty, ring
<1>5. ASSUME NEW w \in Slots, FindsShutdown(w) PROVE Enough
  BY <1>5 DEF FindsShutdown, Tests, destroyer
<1>6. ASSUME NEW w \in Slots, TakeTask(w) PROVE Enough
  <2>1. /\ wpc' = [wpc EXCEPT ![w] = "start"] /\ (wpc[w] = "lock" \/ wpc[w] = "woken")
        /\ queueSize' = queueSize - 1 /\ ~struck /\ ~shutdown
    BY <1>6 DEF TakeTask, Tests, history, destroyer
  <2>2. At("wait")' = At("wait") /\ Awake' = Awake \ {w} /\ w \in Awake
    BY <1>t, <2>1 DEF Awake, At
  <2>3. Cardinality(Awake \ {w}) = Cardinality(Awake) - 1
    BY <1>c, <2>2, FS_RemoveElement
  <2> QED
    BY <1>s, <1>c, <1>t, <2>1, <2>2, <2>3
<1>7. ASSUME NEW w \in Slots, WaitNotEmpty(w) PROVE Enough
  <2>1. CASE wpc[w] = "towait"
    <3>1. w \in At("towait")
      BY <2>1 DEF At
    <3>2. queueSize' = 0
      BY <1>7, <3>1 DEF Mutex, WaitNotEmpty, ring
    <3> QED
      BY <3>2, <1>empty
  <2>2. CASE wpc[w] = "wait"
    <3>1. wpc' = [wpc EXCEPT ![w] = "woken"] /\ w \in At("wait")
      BY <1>7, <2>2 DEF WaitNotEmpty, At
    <3>2. Awake \subseteq Awake'
      BY <1>t, <2>2, <3>1 DEF Awake, At
    <3> QED
      BY <1>7, <1>same, <3>1, <3>2 DEF WaitNotEmpty, ring, history, destroyer
  <2> QED
    BY <1>7, <2>1, <2>2 DEF WaitNotEmpty
<1>8. ASSUME NEW w \in Slots, StartTask(w) \/ EndTask(w) \/ threadExit(w) PROVE Enough
  <2>1. PICK s \in {"run", "lock", "none"} : wpc' = [wpc EXCEPT ![w] = s]
    BY <1>8 DEF StartTask, EndTask, threadExit
  <2>2. wpc[w] \in {"start", "run", "exit"}
    BY <1>8 DEF StartTask, EndTask, threadExit
  <2>3. At("wait")' = At("wait") /\ Awake \subseteq Awake'
    BY <1>t, <2>1, <2>2 DEF Awake, At
  <2>4. UNCHANGED <<queueSize, struck, shutdown>>
    BY <1>8 DEF StartTask, EndTask, threadExit, ring, history, destroyer
  <2> QED
    BY <1>same, <2>3, <2>4
<1>9. CASE Check \/ ReadPool \/ ReadBusy \/ Shrink
  <2>1. UNCHANGED <<queueSize, struck, shutdown, wpc>>
    BY <1>9 DEF Check, ReadPool, ReadBusy, Shrink, ring, history, destroyer
  <2> QED
    BY <2>1, <1>still
<1>10. CASE Grow
  <2>1. \A i \in Filled : wpc[i] = "none"
    BY DEF Filled, At
  <2>2. \A i \in Slots : wpc'[i] = wpc[i] \/ (wpc[i] = "none" /\ wpc'[i] = "lock")
    BY <1>10, <1>t, <2>1 DEF Grow
  <2>3. At("wait")' = At("wait") /\ Awake \subseteq Awake'
    BY <2>2 DEF Awake, At
  <2>4. UNCHANGED <<queueSize, struck, shutdown>>
    BY <1>10 DEF Grow, ring, history, destroyer
  <2> QED
    BY <1>same, <2>3, <2>4
<1>11. CASE SignalDismissal
  BY <1>11, <1>signal DEF SignalDismissal, ring, history, destroyer
<1>12. CASE WakeWorkers
  <2>1. UNCHANGED <<queueSize, struck, shutdown>>
    BY <1>12 DEF WakeWorkers, ring, history
  <2>2. SignalNotEmpty \/ UNCHANGED wpc
    BY <1>12 DEF WakeWorkers
  <2> QED
    BY <1>signal, <1>still, <2>1, <2>2
<1>13. CASE SetShutdown
  BY <1>13 DEF SetShutdown
<1>14. CASE JoinManager \/ FreePool \/ UNCHANGED vars
  <2>1. UNCHANGED <<queueSize, struck, shutdown, wpc>>
    BY <1>14 DEF JoinManager, FreePool, vars, ring, history, destroyer
  <2> QED
    BY <2>1, <1>still
<1> QED
  BY <1>1, <1>2, <1>3, <1>4, <1>5, <1>6, <1>7, <1>8, <1>9, <1>10, <1>11, <1>12, <1>13,
     <1>14 DEF Next, Producer, Worker, Manager, Destroyer

(* While a worker sleeps, each queued task has a worker on its way to the  *)
(* mutex, unless a dismissed worker died on the wakeup: threadPoolAdd, the *)
(* manager and the destroyer signal in any order, and the signals of the   *)
(* last two come without the mutex.                                        *)
THEOREM TasksNotStranded == Spec => []NoStrandedTask
BY TypeInit, TypeStep, MutexInit, MutexStep, StrandedTaskInit, StrandedTaskStep, PTL
   DEF Spec

-----------------------------------------------------------------------------
(* The producers on their way to the mutex. *)
Locking == {p \in Producers : ppc[p] = "lock"}

LEMMA LockingFinite ==
  /\ IsFiniteSet(Locking) /\ Cardinality(Locking) \in Nat
  /\ IsFiniteSet(Locking') /\ Cardinality(Locking') \in Nat
BY ProducersFinite, FS_Subset, FS_CardinalityType DEF Locking

LEMMA StrandedProducerInit == Init => NoStrandedProducer
BY DEF Init, NoStrandedProducer

LEMMA StrandedProducerStep ==
  TypeInv /\ Mutex /\ NoStrandedProducer /\ [Next]_vars => NoStrandedProducer'
<1> DEFINE Enough == queueCapacity - queueSize' <= Cardinality(Locking')
           Waits == \E p \in Producers : ppc[p] = "wait"
<1> SUFFICES ASSUME TypeInv, Mutex, NoStrandedProducer, [Next]_vars, ~shutdown', Waits'
             PROVE  Enough
  BY DEF NoStrandedProducer, Locking
<1>t. /\ TypeOK /\ ppc \in [Producers -> {"idle", "lock", "towait", "wait"}]
      /\ queueSize \in 0..queueCapacity /\ queueCapacity \in Nat \ {0}
  BY SizesArePositive DEF TypeInv, TypeOK
<1>c. /\ Cardinality(Locking) \in Nat /\ IsFiniteSet(Locking)
      /\ Cardinality(Locking') \in Nat /\ IsFiniteSet(Locking')
  BY LockingFinite
<1>s. ASSUME ~shutdown, Waits PROVE queueCapacity - queueSize <= Cardinality(Locking)
  BY <1>s DEF NoStrandedProducer, Locking
<1>more. ASSUME UNCHANGED <<queueSize, shutdown>>, Waits, NEW p \in Producers,
                Locking' = Locking \cup {p}, p \notin Locking
         PROVE  Enough
  <2>1. Cardinality(Locking \cup {p}) = Cardinality(Locking) + 1
    BY <1>more, <1>c, FS_AddElement
  <2> HIDE DEF Waits
  <2> QED
    BY <1>more, <1>s, <1>c, <1>t, <2>1
<1>full. ASSUME queueSize' = queueCapacity PROVE Enough
  BY <1>full, <1>c, <1>t
<1>still. ASSUME UNCHANGED <<queueSize, shutdown, ppc>> PROVE Enough
  <2>1. Waits /\ Locking' = Locking
    BY <1>still DEF Locking
  <2> HIDE DEF Waits
  <2> QED
    BY <1>still, <1>s, <2>1
<1>1. ASSUME NEW p \in Producers, CallAdd(p) PROVE Enough
  <2>1. ppc[p] = "idle" /\ ppc' = [ppc EXCEPT ![p] = "lock"]
    BY <1>1 DEF CallAdd
  <2>2. Locking' = Locking \cup {p} /\ p \notin Locking /\ Waits
    BY <1>t, <2>1 DEF Locking
  <2> QED
    BY <1>1, <1>more, <2>2 DEF CallAdd, ring, destroyer
<1>2. ASSUME NEW p \in Producers, NEW t \in Tasks, Put(p, t) PROVE Enough
  <2>1. ppc[p] = "lock" /\ ppc' = [ppc EXCEPT ![p] = "idle"]
    BY <1>2 DEF Put
  <2>2. Locking' = Locking \ {p} /\ p \in Locking /\ Waits
    BY <1>t, <2>1 DEF Locking
  <2>3. Cardinality(Locking \ {p}) = Cardinality(Locking) - 1
    BY <1>c, <2>2, FS_RemoveElement
  <2>4. queueSize' = queueSize + 1 /\ ~shutdown
    BY <1>2 DEF Put
  <2> HIDE DEF Waits
  <2> QED
    BY <1>s, <1>c, <1>t, <2>2, <2>3, <2>4
<1>3. ASSUME NEW p \in Producers, Refused(p) PROVE Enough
  BY <1>3 DEF Refused, destroyer
<1>4. ASSUME NEW p \in Producers, FindsFull(p) PROVE Enough
  BY <1>4, <1>full DEF FindsFull, ring
<1>5. ASSUME NEW p \in Producers, WaitNotFull(p) PROVE Enough
  <2>1. CASE ppc[p] = "towait"
    <3>1. queueSize' = queueCapacity
      BY <1>5, <2>1 DEF Mutex, Full, WaitNotFull, ring
    <3> QED
      BY <3>1, <1>full
  <2>2. CASE ppc[p] = "wait"
    <3>1. ppc' = [ppc EXCEPT ![p] = "lock"]
      BY <1>5, <2>2 DEF WaitNotFull
    <3>2. Locking' = Locking \cup {p} /\ p \notin Locking /\ Waits
      BY <1>t, <2>2, <3>1 DEF Locking
    <3> QED
      BY <1>5, <1>more, <3>2 DEF WaitNotFull, ring, destroyer
  <2> QED
    BY <1>5, <2>1, <2>2 DEF WaitNotFull
<1>6. ASSUME NEW w \in Slots, TakeTask(w) PROVE Enough
  <2>1. SignalNotFull /\ queueSize' = queueSize - 1 /\ ~shutdown
    BY <1>6 DEF TakeTask
  <2>2. Waits
    BY <2>1 DEF SignalNotFull
  <2>3. PICK p \in Producers : ppc[p] = "wait" /\ ppc' = [ppc EXCEPT ![p] = "lock"]
    BY <2>1, <2>2 DEF SignalNotFull
  <2>4. Locking' = Locking \cup {p} /\ p \notin Locking
    BY <1>t, <2>3 DEF Locking
  <2>5. Cardinality(Locking \cup {p}) = Cardinality(Locking) + 1
    BY <1>c, <2>4, FS_AddElement
  <2> HIDE DEF Waits
  <2> QED
    BY <1>s, <1>c, <1>t, <2>1, <2>2, <2>4, <2>5
<1>7. ASSUME NEW w \in Slots, Dies(w) \/ FindsEmpty(w) \/ FindsShutdown(w) \/ StartTask(w)
                              \/ EndTask(w) \/ threadExit(w) \/ WaitNotEmpty(w)
      PROVE  Enough
  <2>1. UNCHANGED <<queueSize, shutdown, ppc>>
    BY <1>7 DEF Dies, FindsEmpty, FindsShutdown, Tests, StartTask, EndTask, threadExit,
                WaitNotEmpty, ring, destroyer
  <2> QED
    BY <2>1, <1>still
<1>8. CASE Manager
  <2>1. UNCHANGED <<queueSize, shutdown, ppc>>
    BY <1>8 DEF Manager, Check, ReadPool, ReadBusy, Grow, Shrink, SignalDismissal, ring,
                destroyer
  <2> QED
    BY <2>1, <1>still
<1>9. CASE SetShutdown
  BY <1>9 DEF SetShutdown
<1>10. CASE Destroyer \/ UNCHANGED vars
  <2>1. UNCHANGED <<queueSize, shutdown, ppc>>
    BY <1>10 DEF Destroyer, JoinManager, WakeWorkers, FreePool, vars, ring, destroyer
  <2> QED
    BY <2>1, <1>still
<1> QED
  BY <1>1, <1>2, <1>3, <1>4, <1>5, <1>6, <1>7, <1>8, <1>9, <1>10 DEF Next, Producer, Worker

(* While a producer sleeps because the ring was full, each place that is   *)
(* free has a producer on its way to the mutex: one signal for each task   *)
(* taken out is enough, for any number of producers.                       *)
THEOREM ProducersNotStranded == Spec => []NoStrandedProducer
BY TypeInit, TypeStep, MutexInit, MutexStep, StrandedProducerInit, StrandedProducerStep, PTL
   DEF Spec

-----------------------------------------------------------------------------
(* The threads liveNum counts. *)
Living == Slots \ (At("none") \cup At("exit"))

LEMMA LivingFinite ==
  /\ IsFiniteSet(Living) /\ Cardinality(Living) \in Nat
  /\ IsFiniteSet(Living') /\ Cardinality(Living') \in Nat
<1>1. Living \subseteq Slots /\ Living' \subseteq Slots
  BY DEF Living
<1> QED
  BY <1>1, SlotsFinite, FS_Subset, FS_CardinalityType

LEMMA DisjointUnion ==
  ASSUME NEW S, NEW T, IsFiniteSet(S), IsFiniteSet(T), S \cap T = {}
  PROVE  Cardinality(S \cup T) = Cardinality(S) + Cardinality(T)
<1>1. Cardinality(S \cup T) = Cardinality(S) + Cardinality(T) - Cardinality(S \cap T)
  BY FS_Union
<1>2. Cardinality(S \cap T) = 0
  BY FS_EmptySet, Zenon
<1>3. Cardinality(S) \in Nat /\ Cardinality(T) \in Nat
  BY FS_CardinalityType
<1> QED
  BY <1>1, <1>2, <1>3

LEMMA AccountedInit == Init => ThreadsAccounted
<1> SUFFICES ASSUME Init PROVE ThreadsAccounted
  OBVIOUS
<1>1. minNum \in Nat \ {0} /\ maxNum \in Nat /\ minNum <= maxNum
  BY SizesArePositive
<1>2. Living = 0..(minNum - 1)
  <2>1. \A w \in Slots : wpc[w] = IF w < minNum THEN "lock" ELSE "none"
    BY DEF Init
  <2>2. \A w \in Slots : w \in Living <=> w < minNum
    BY <2>1 DEF Living, At
  <2> QED
    BY <1>1, <2>2 DEF Slots, Living
<1>3. Cardinality(0..(minNum - 1)) = minNum
  <2>1. 0 \in Int /\ minNum - 1 \in Int
    BY <1>1
  <2>2. Cardinality(0..(minNum - 1)) =
          IF 0 > minNum - 1 THEN 0 ELSE (minNum - 1) - 0 + 1
    BY <2>1, FS_Interval
  <2> QED
    BY <1>1, <2>2
<1>4. liveNum = minNum
  BY DEF Init
<1>5. liveNum = Cardinality(Living)
  BY <1>2, <1>3, <1>4
<1> QED
  BY <1>1, <1>4, <1>5 DEF ThreadsAccounted, Living

LEMMA AccountedStep == TypeInv /\ ThreadsAccounted /\ [Next]_vars => ThreadsAccounted'
<1> DEFINE Right == liveNum' = Cardinality(Living')
           Within == minNum <= liveNum' /\ liveNum' <= maxNum
<1> SUFFICES ASSUME TypeInv, ThreadsAccounted, [Next]_vars
             PROVE  Within /\ (~shutdown' => Right)
  BY DEF ThreadsAccounted, Living
<1>t. /\ TypeOK /\ wpc \in [Slots -> WorkerStates]
      /\ liveNum \in Nat /\ minNum \in Nat /\ maxNum \in Nat
  BY SizesArePositive DEF TypeInv, TypeOK
<1>c. IsFiniteSet(Living) /\ Cardinality(Living) \in Nat
  BY LivingFinite
<1>a. /\ minNum <= liveNum /\ liveNum <= maxNum
      /\ ~shutdown => liveNum = Cardinality(Living)
  BY DEF ThreadsAccounted, Living
<1>same. ASSUME UNCHANGED <<liveNum, shutdown>>, Living' = Living
         PROVE  Within /\ (~shutdown' => Right)
  BY <1>same, <1>a
<1>still. ASSUME UNCHANGED <<liveNum, shutdown, wpc>>
          PROVE  Within /\ (~shutdown' => Right)
  <2>1. Living' = Living
    BY <1>still DEF Living, At
  <2> QED
    BY <1>still, <1>same, <2>1
<1>moves. ASSUME UNCHANGED <<liveNum, shutdown>>,
                 NEW w \in Slots, NEW s, wpc' = [wpc EXCEPT ![w] = s],
                 wpc[w] \in {"none", "exit"} <=> s \in {"none", "exit"}
          PROVE  Within /\ (~shutdown' => Right)
  <2>1. Living' = Living
    BY <1>moves, <1>t DEF Living, At
  <2> QED
    BY <1>moves, <1>same, <2>1
<1>signal. ASSUME UNCHANGED <<liveNum, shutdown>>, SignalNotEmpty
           PROVE  Within /\ (~shutdown' => Right)
  <2>1. Living' = Living
    BY <1>signal, <1>t, Signals DEF Living
  <2> QED
    BY <1>signal, <1>same, <2>1
<1>1. ASSUME NEW p \in Producers, CallAdd(p) \/ Refused(p) \/ FindsFull(p) \/ WaitNotFull(p)
      PROVE  Within /\ (~shutdown' => Right)
  <2>1. UNCHANGED <<liveNum, shutdown, wpc>>
    BY <1>1 DEF CallAdd, Refused, FindsFull, WaitNotFull, counters, destroyer
  <2> QED
    BY <2>1, <1>still
<1>2. ASSUME NEW p \in Producers, NEW t \in Tasks, Put(p, t)
      PROVE  Within /\ (~shutdown' => Right)
  BY <1>2, <1>signal DEF Put, counters, destroyer
<1>3. ASSUME NEW w \in Slots, Dies(w) PROVE Within /\ (~shutdown' => Right)
  <2>1. /\ wpc[w] = "woken" /\ wpc' = [wpc EXCEPT ![w] = "exit"]
        /\ liveNum' = liveNum - 1 /\ liveNum > minNum /\ shutdown' = shutdown
    BY <1>3 DEF Dies, Dismissed, destroyer
  <2>2. Living' = Living \ {w} /\ w \in Living
    BY <1>t, <2>1 DEF Living, At
  <2>3. Cardinality(Living \ {w}) = Cardinality(Living) - 1
    BY <1>c, <2>2, FS_RemoveElement
  <2> QED
    BY <1>t, <1>a, <1>c, <2>1, <2>2, <2>3
<1>4. ASSUME NEW w \in Slots, FindsEmpty(w) PROVE Within /\ (~shutdown' => Right)
  <2>1. /\ wpc[w] = "lock" \/ wpc[w] = "woken"
        /\ wpc' = [wpc EXCEPT ![w] = "towait"] /\ UNCHANGED <<liveNum, shutdown>>
    BY <1>4 DEF FindsEmpty, Tests, destroyer
  <2> QED
    BY <2>1, <1>moves
<1>5. ASSUME NEW w \in Slots, FindsShutdown(w) PROVE Within /\ (~shutdown' => Right)
  <2>1. shutdown' /\ liveNum' = liveNum
    BY <1>5 DEF FindsShutdown, Tests, destroyer
  <2> QED
    BY <1>a, <2>1
<1>6. ASSUME NEW w \in Slots, TakeTask(w) PROVE Within /\ (~shutdown' => Right)
  <2>1. /\ wpc[w] = "lock" \/ wpc[w] = "woken"
        /\ wpc' = [wpc EXCEPT ![w] = "start"] /\ UNCHANGED <<liveNum, shutdown>>
    BY <1>6 DEF TakeTask, Tests, destroyer
  <2> QED
    BY <2>1, <1>moves
<1>7. ASSUME NEW w \in Slots, WaitNotEmpty(w) PROVE Within /\ (~shutdown' => Right)
  <2>1. PICK s \in {"wait", "woken"} : wpc' = [wpc EXCEPT ![w] = s]
    BY <1>7 DEF WaitNotEmpty
  <2>2. wpc[w] \in {"towait", "wait"} /\ UNCHANGED <<liveNum, shutdown>>
    BY <1>7 DEF WaitNotEmpty, counters, destroyer
  <2> QED
    BY <2>1, <2>2, <1>moves
<1>8. ASSUME NEW w \in Slots, StartTask(w) PROVE Within /\ (~shutdown' => Right)
  <2>1. /\ wpc[w] = "start" /\ wpc' = [wpc EXCEPT ![w] = "run"]
        /\ UNCHANGED <<liveNum, shutdown>>
    BY <1>8 DEF StartTask, destroyer
  <2> QED
    BY <2>1, <1>moves
<1>9. ASSUME NEW w \in Slots, EndTask(w) PROVE Within /\ (~shutdown' => Right)
  <2>1. /\ wpc[w] = "run" /\ wpc' = [wpc EXCEPT ![w] = "lock"]
        /\ UNCHANGED <<liveNum, shutdown>>
    BY <1>9 DEF EndTask, destroyer
  <2> QED
    BY <2>1, <1>moves
<1>10. ASSUME NEW w \in Slots, threadExit(w) PROVE Within /\ (~shutdown' => Right)
  <2>1. /\ wpc[w] = "exit" /\ wpc' = [wpc EXCEPT ![w] = "none"]
        /\ UNCHANGED <<liveNum, shutdown>>
    BY <1>10 DEF threadExit, counters, destroyer
  <2> QED
    BY <2>1, <1>moves
<1>11. CASE Grow
  <2>1. CASE TooFew
    <3>1. /\ wpc' = [i \in Slots |-> IF i \in Filled THEN "lock" ELSE wpc[i]]
          /\ liveNum' = liveNum + Cardinality(Filled) /\ shutdown' = shutdown
      BY <1>11, <2>1 DEF Grow, destroyer
    <3>2. /\ Filled \subseteq At("none") /\ IsFiniteSet(Filled)
          /\ Cardinality(Filled) \in Nat /\ liveNum + Cardinality(Filled) <= maxNum
      BY <1>t, FilledFits
    <3>3. \A i \in Filled : i \in Slots /\ wpc[i] = "none"
      BY <3>2 DEF At
    <3>4. Living' = Living \cup Filled /\ Living \cap Filled = {}
      BY <1>t, <3>1, <3>3 DEF Living, At
    <3>5. Cardinality(Living \cup Filled) = Cardinality(Living) + Cardinality(Filled)
      BY <1>c, <3>2, <3>4, DisjointUnion
    <3> QED
      BY <1>t, <1>a, <3>1, <3>2, <3>4, <3>5
  <2>2. CASE ~TooFew
    BY <1>11, <2>2, <1>still DEF Grow, destroyer
  <2> QED
    BY <2>1, <2>2
<1>12. CASE Check \/ ReadPool \/ ReadBusy \/ Shrink
  <2>1. UNCHANGED <<liveNum, shutdown, wpc>>
    BY <1>12 DEF Check, ReadPool, ReadBusy, Shrink, counters, destroyer
  <2> QED
    BY <2>1, <1>still
<1>13. CASE SignalDismissal
  BY <1>13, <1>signal DEF SignalDismissal, counters, destroyer
<1>14. CASE SetShutdown
  <2>1. shutdown' /\ liveNum' = liveNum
    BY <1>14 DEF SetShutdown, counters
  <2> QED
    BY <1>a, <2>1
<1>15. CASE WakeWorkers
  <2>1. UNCHANGED <<liveNum, shutdown>> /\ (SignalNotEmpty \/ UNCHANGED wpc)
    BY <1>15 DEF WakeWorkers, counters
  <2> QED
    BY <2>1, <1>signal, <1>still
<1>16. CASE JoinManager \/ FreePool \/ UNCHANGED vars
  <2>1. UNCHANGED <<liveNum, shutdown, wpc>>
    BY <1>16 DEF JoinManager, FreePool, vars, counters, destroyer
  <2> QED
    BY <2>1, <1>still
<1> QED
  BY <1>1, <1>2, <1>3, <1>4, <1>5, <1>6, <1>7, <1>8, <1>9, <1>10, <1>11, <1>12, <1>13,
     <1>14, <1>15, <1>16 DEF Next, Producer, Worker, Manager, Destroyer

(* The manager grows and dismisses on numbers it read earlier, and the     *)
(* dismissed workers leave on their own: liveNum is right all the same,    *)
(* never below minNum and never above maxNum.                              *)
THEOREM LiveThreadsAccounted == Spec => []ThreadsAccounted
BY TypeInit, TypeStep, AccountedInit, AccountedStep, PTL DEF Spec

-----------------------------------------------------------------------------
LEMMA UniqueInit == Init => Unique /\ OpenTillDestroyed
<1> SUFFICES ASSUME Init PROVE Unique /\ OpenTillDestroyed
  OBVIOUS
<1>1. 1..queueSize = {} /\ Occupied = {}
  BY DEF Init, Occupied, At
<1> QED
  BY <1>1 DEF Init, Unique, OpenTillDestroyed, Queued

(* What a worker that takes or ends a task does to the tasks being run.    *)
LEMMA RunningAfterTake ==
  ASSUME TypeOK, NEW w \in Slots, TakeTask(w)
  PROVE  /\ Occupied' = Occupied \cup {w} /\ w \notin Occupied
         /\ \A v \in Occupied : task'[v] = task[v]
         /\ task'[w] = taskQ[queueFront]
         /\ Running' = Running \cup {taskQ[queueFront]}
<1>1. wpc \in [Slots -> WorkerStates] /\ task \in [Slots -> Tasks \cup {NoTask}]
  BY DEF TypeOK
<1>2. /\ wpc' = [wpc EXCEPT ![w] = "start"] /\ (wpc[w] = "lock" \/ wpc[w] = "woken")
      /\ task' = [task EXCEPT ![w] = taskQ[queueFront]]
  BY DEF TakeTask, Tests
<1>3. Occupied' = Occupied \cup {w} /\ w \notin Occupied
  BY <1>1, <1>2 DEF Occupied, At
<1>4. Occupied \subseteq Slots
  BY AtFinite DEF Occupied
<1>5. task'[w] = taskQ[queueFront] /\ \A v \in Occupied : task'[v] = task[v]
  BY <1>1, <1>2, <1>3, <1>4
<1>6. Running = {task[v] : v \in Occupied} /\ Running' = {task'[v] : v \in Occupied'}
  BY DEF Running, Occupied
<1> QED
  BY <1>3, <1>5, <1>6

LEMMA RunningAfterEnd ==
  ASSUME TypeOK, Unique, NEW w \in Slots, EndTask(w)
  PROVE  /\ Occupied' = Occupied \ {w} /\ w \in Occupied
         /\ \A v \in Occupied' : task'[v] = task[v]
         /\ Running' = Running \ {task[w]} /\ task[w] \in Running
<1>1. wpc \in [Slots -> WorkerStates] /\ task \in [Slots -> Tasks \cup {NoTask}]
  BY DEF TypeOK
<1>2. /\ wpc' = [wpc EXCEPT ![w] = "lock"] /\ wpc[w] = "run"
      /\ task' = [task EXCEPT ![w] = NoTask]
  BY DEF EndTask
<1>3. Occupied' = Occupied \ {w} /\ w \in Occupied
  BY <1>1, <1>2 DEF Occupied, At
<1>4. Occupied \subseteq Slots
  BY AtFinite DEF Occupied
<1>5. \A v \in Occupied' : task'[v] = task[v] /\ task[v] # task[w]
  BY <1>1, <1>2, <1>3, <1>4 DEF Unique
<1>6. Running = {task[v] : v \in Occupied} /\ Running' = {task'[v] : v \in Occupied'}
  BY DEF Running, Occupied
<1> QED
  BY <1>3, <1>5, <1>6

LEMMA UniqueStep == TypeInv /\ Unique /\ [Next]_vars => Unique'
<1> SUFFICES ASSUME TypeInv, Unique, [Next]_vars PROVE Unique'
  OBVIOUS
<1>t. TypeOK /\ RingShape /\ queueSize \in Nat
  BY SizesArePositive DEF TypeInv, TypeOK
<1>same. ASSUME UNCHANGED ring, Occupied' = Occupied, task' = task PROVE Unique'
  <2>1. Queue' = Queue /\ Queued' = Queued /\ queueSize' = queueSize
    BY <1>same, RingSame DEF ring
  <2>2. Running' = Running
    BY <1>same DEF Running, Occupied
  <2> QED
    BY <1>same, <2>1, <2>2 DEF Unique
<1>1. ASSUME NEW p \in Producers, NEW t \in Tasks, Put(p, t) PROVE Unique'
  <2>1. RingGrew(t)
    BY <1>1, <1>t, PutGrows DEF Put
  <2>2. t \notin Queued /\ t \notin Running
    BY <1>1 DEF Put
  <2>3. At("run")' = At("run") /\ At("start")' = At("start") /\ task' = task
    BY <1>1, <1>t, Signals DEF Put
  <2>4. Running' = Running /\ Occupied' = Occupied
    BY <2>3 DEF Running, Occupied
  <2>5. \A k \in 1..queueSize' : k \in 1..queueSize \/ k = queueSize + 1
    BY <1>t, <2>1 DEF RingGrew
  <2>6. \A k \in 1..queueSize : Queue[k] \in Queued
    BY DEF Queued
  <2>7. Queued' \subseteq Queued \cup {t}
    <3>1. Queued' = {Queue'[k] : k \in 1..queueSize'}
      BY DEF Queued
    <3> QED
      BY <2>1, <2>5, <2>6, <3>1 DEF RingGrew
  <2>8. ASSUME NEW j \in 1..queueSize', NEW k \in 1..queueSize', Queue'[j] = Queue'[k]
        PROVE  j = k
    BY <2>1, <2>2, <2>5, <2>6, <2>8 DEF RingGrew, Unique
  <2> QED
    BY <2>2, <2>3, <2>4, <2>7, <2>8 DEF Unique
<1>2. ASSUME NEW w \in Slots, TakeTask(w) PROVE Unique'
  <2>1. RingShrank
    BY <1>2, <1>t, TakeShrinks DEF TakeTask
  <2>2. /\ Occupied' = Occupied \cup {w} /\ w \notin Occupied
        /\ \A v \in Occupied : task'[v] = task[v]
        /\ task'[w] = Queue[1] /\ Running' = Running \cup {Queue[1]}
    BY <1>2, <1>t, <2>1, RunningAfterTake DEF RingShrank
  <2>3. \A k \in 1..queueSize' : k + 1 \in 1..queueSize /\ Queue'[k] = Queue[k + 1]
    BY <2>1 DEF RingShrank
  <2>4. ASSUME NEW j \in 1..queueSize', NEW k \in 1..queueSize', Queue'[j] = Queue'[k]
        PROVE  j = k
    <3>1. j + 1 = k + 1
      BY <2>3, <2>4 DEF Unique
    <3> QED
      BY <3>1
  <2>5. ASSUME NEW k \in 1..queueSize' PROVE Queue'[k] \in Queued /\ Queue'[k] # Queue[1]
    <3>1. k + 1 \in 1..queueSize /\ 1 \in 1..queueSize /\ k + 1 # 1
      BY <2>1, <2>3 DEF RingShrank
    <3> QED
      BY <2>3, <3>1 DEF Queued, Unique
  <2>6. Queue[1] \in Queued
    BY <2>1 DEF RingShrank, Queued
  <2>7. \A v \in Occupied : task[v] \in Running
    BY DEF Running, Occupied
  <2>8. Queued' \cap Running' = {}
    <3>1. Queued' = {Queue'[k] : k \in 1..queueSize'}
      BY DEF Queued
    <3> QED
      BY <2>2, <2>5, <3>1 DEF Unique
  <2>9. \A v, u \in Occupied' : task'[v] = task'[u] => v = u
    BY <2>2, <2>6, <2>7 DEF Unique
  <2> QED
    BY <2>4, <2>8, <2>9 DEF Unique
<1>3. ASSUME NEW w \in Slots, StartTask(w) PROVE Unique'
  <2>1. At("run")' = At("run") \cup {w} /\ At("start")' = At("start") \ {w} /\ w \in At("start")
    BY <1>3, <1>t, Moves DEF StartTask
  <2>2. Occupied' = Occupied
    BY <2>1 DEF Occupied
  <2> QED
    BY <1>3, <1>same, <2>2 DEF StartTask
<1>4. ASSUME NEW w \in Slots, EndTask(w) PROVE Unique'
  <2>1. /\ Occupied' = Occupied \ {w}
        /\ \A v \in Occupied' : task'[v] = task[v]
        /\ Running' = Running \ {task[w]}
    BY <1>4, <1>t, RunningAfterEnd
  <2>2. Queue' = Queue /\ Queued' = Queued /\ queueSize' = queueSize
    BY <1>4, RingSame DEF EndTask, ring
  <2> QED
    BY <2>1, <2>2 DEF Unique
<1>5. CASE SetShutdown
  <2>1. Occupied' = Occupied
    BY <1>5 DEF SetShutdown, Occupied, At
  <2> QED
    BY <1>5, <1>same, <2>1 DEF SetShutdown
<1>6. CASE Aside
  BY <1>6, <1>same DEF Aside, Occupied
<1> QED
  BY <1>t, <1>1, <1>2, <1>3, <1>4, <1>5, <1>6, StepKinds

LEMMA OpenStep == TypeInv /\ OpenTillDestroyed /\ [Next]_vars => OpenTillDestroyed'
<1> SUFFICES ASSUME TypeInv, OpenTillDestroyed, [Next]_vars PROVE OpenTillDestroyed'
  OBVIOUS
<1>same. ASSUME UNCHANGED <<dpc, shutdown>> PROVE OpenTillDestroyed'
  BY <1>same DEF OpenTillDestroyed
<1>1. ASSUME NEW p \in Producers,
             CallAdd(p) \/ Producer(p) \/ WaitNotFull(p)
      PROVE  UNCHANGED <<dpc, shutdown>>
  BY <1>1 DEF CallAdd, Producer, Put, Refused, FindsFull, WaitNotFull, destroyer
<1>2. ASSUME NEW w \in Slots, Worker(w) \/ WaitNotEmpty(w)
      PROVE  UNCHANGED <<dpc, shutdown>>
  BY <1>2 DEF Worker, Dies, FindsEmpty, FindsShutdown, TakeTask, Tests, StartTask, EndTask,
              threadExit, WaitNotEmpty, destroyer
<1>3. CASE Manager \/ UNCHANGED vars
  <2>1. UNCHANGED <<dpc, shutdown>>
    BY <1>3 DEF Manager, Check, ReadPool, ReadBusy, Grow, Shrink, SignalDismissal, vars,
                destroyer
  <2> QED
    BY <2>1, <1>same
<1>4. CASE SetShutdown
  BY <1>4 DEF SetShutdown, OpenTillDestroyed
<1>5. CASE Destroyer
  BY <1>5 DEF Destroyer, JoinManager, WakeWorkers, FreePool, OpenTillDestroyed
<1> QED
  BY <1>same, <1>1, <1>2, <1>3, <1>4, <1>5 DEF Next

-----------------------------------------------------------------------------
(* Each step of the pool is a step of TaskPool: adding submits, taking     *)
(* starts, ending finishes and destroying closes, and nothing else changes *)
(* what TaskPool sees.                                                     *)
LEMMA RefinementInit == Init => Abstract!Init
<1> SUFFICES ASSUME Init PROVE Abstract!Init
  OBVIOUS
<1>1. queueSize = 0 /\ done = {} /\ shutdown = FALSE
  BY DEF Init
<1>2. Queue = <<>>
  BY <1>1 DEF Queue
<1>3. At("start") \cup At("run") = {}
  BY DEF Init, At
<1> QED
  BY <1>1, <1>2, <1>3 DEF Abstract!Init, Running

LEMMA RefinementStep ==
  TypeInv /\ Unique /\ OpenTillDestroyed /\ [Next]_vars => [Abstract!Next]_(Abstract!vars)
<1> SUFFICES ASSUME TypeInv, Unique, OpenTillDestroyed, [Next]_vars
             PROVE  [Abstract!Next]_(Abstract!vars)
  OBVIOUS
<1>t. TypeOK /\ RingShape /\ TypeOK' /\ RingShape'
  BY TypeStep DEF TypeInv
<1>q. /\ Queue \in Seq(Tasks) /\ Len(Queue) = queueSize
      /\ Queue' \in Seq(Tasks) /\ Len(Queue') = queueSize'
      /\ queueSize \in Nat /\ queueSize' \in Nat
  <2>1. Queue' \in Seq(Tasks) /\ Len(Queue') = queueSize'
    BY <1>t, QueueSeqNext
  <2> QED
    BY <1>t, <2>1, QueueSeq, SizesArePositive DEF TypeOK
<1>a. Abstract!Queued = Queued
  BY <1>q DEF Abstract!Queued, Queued
<1>1. ASSUME NEW p \in Producers, NEW t \in Tasks, Put(p, t) PROVE Abstract!Submit(t)
  <2>1. RingGrew(t)
    BY <1>1, <1>t, PutGrows DEF Put
  <2>2. Queue' = Append(Queue, t)
    <3> QED
      BY <1>q, <2>1 DEF RingGrew
  <2>3. At("run")' = At("run") /\ At("start")' = At("start") /\ task' = task
    BY <1>1, <1>t, Signals DEF Put
  <2>4. Running' = Running
    BY <2>3 DEF Running
  <2>5. ~shutdown /\ t \notin Queued \cup Running \cup done /\ UNCHANGED <<done, shutdown>>
    BY <1>1 DEF Put, history, destroyer
  <2> QED
    BY <1>a, <2>2, <2>4, <2>5 DEF Abstract!Submit
<1>2. ASSUME NEW w \in Slots, TakeTask(w) PROVE Abstract!Start
  <2>1. RingShrank
    BY <1>2, <1>t, TakeShrinks DEF TakeTask
  <2>2. Queue # <<>> /\ Head(Queue) = Queue[1] /\ Queue' = Tail(Queue)
    <3> QED
      BY <1>q, <2>1 DEF RingShrank
  <2>3. Running' = Running \cup {Queue[1]}
    BY <1>2, <1>t, <2>1, RunningAfterTake DEF RingShrank
  <2>4. UNCHANGED <<done, shutdown>>
    BY <1>2 DEF TakeTask, Tests, history, destroyer
  <2> QED
    BY <2>2, <2>3, <2>4 DEF Abstract!Start
<1>3. ASSUME NEW w \in Slots, EndTask(w) PROVE \E t \in Tasks : Abstract!Finish(t)
  <2>1. /\ Running' = Running \ {task[w]} /\ task[w] \in Running /\ w \in Occupied
    BY <1>3, <1>t, RunningAfterEnd
  <2>2. task[w] \in Tasks
    BY <2>1 DEF TypeInv
  <2>3. Queue' = Queue
    BY <1>3, RingSame DEF EndTask
  <2>4. done' = done \cup {task[w]} /\ shutdown' = shutdown
    BY <1>3 DEF EndTask, destroyer
  <2>5. Abstract!Finish(task[w])
    BY <2>1, <2>3, <2>4 DEF Abstract!Finish
  <2> QED
    BY <2>2, <2>5
<1>4. CASE SetShutdown
  <2>1. ~shutdown /\ shutdown' = TRUE /\ done' = done
    BY <1>4 DEF SetShutdown, OpenTillDestroyed, history
  <2>2. Queue' = Queue
    BY <1>4, RingSame DEF SetShutdown
  <2>3. Running' = Running
    BY <1>4 DEF SetShutdown, Running, At
  <2> QED
    BY <2>1, <2>2, <2>3 DEF Abstract!Close, Abstract!Next
<1>5. ASSUME NEW w \in Slots, StartTask(w) PROVE UNCHANGED Abstract!vars
  <2>1. At("run")' = At("run") \cup {w} /\ At("start")' = At("start") \ {w} /\ w \in At("start")
    BY <1>5, <1>t, Moves DEF StartTask
  <2>2. At("start")' \cup At("run")' = At("start") \cup At("run")
    BY <2>1
  <2>3. Running' = Running
    BY <1>5, <2>2 DEF StartTask, Running
  <2>4. Queue' = Queue
    BY <1>5, RingSame DEF StartTask
  <2> QED
    BY <1>5, <2>3, <2>4 DEF StartTask, history, destroyer, Abstract!vars
<1>6. CASE Aside
  <2>1. Queue' = Queue
    BY <1>6, RingSame DEF Aside
  <2>2. Running' = Running
    BY <1>6 DEF Aside, Running
  <2> QED
    BY <1>6, <2>1, <2>2 DEF Aside, Abstract!vars
<1> QED
  BY <1>t, <1>1, <1>2, <1>3, <1>4, <1>5, <1>6, StepKinds DEF Abstract!Next

(* The ring implements TaskPool: what is taken out is what was put in, in  *)
(* order and once, wherever the front and the rear stand, for any capacity *)
(* and any number of producers and workers.                                *)
THEOREM Refinement == Spec => ImplementsTaskPool
BY TypeInit, TypeStep, UniqueInit, UniqueStep, OpenStep, RefinementInit, RefinementStep, PTL
   DEF Spec, ImplementsTaskPool, Abstract!SafeSpec

-----------------------------------------------------------------------------
(* The C++ pool, a rewriting of the C one.  The threads of both are the    *)
(* same here, so that what is said above of the places they are in and of  *)
(* counting them serves both; only NUMBER and m_aliveNum have other names. *)
(* Nobody initializes m_exitNum: it begins as any number.                  *)
VARIABLES queue, next, passedOver, dismissedLate, missed

Cpp == INSTANCE ThreadPoolCpp
         WITH NUMBER <- NUM, aliveNum <- liveNum, Garbage <- Nat

LEMMA SameThreads ==
  /\ Cpp!Slots = Slots
  /\ \A s : Cpp!At(s) = At(s) /\ Cpp!At(s)' = At(s)'
BY DEF Cpp!Slots, Slots, Cpp!At, At

LEMMA SameCardinality == \A S : Cpp!Cardinality(S) = Cardinality(S)
BY DEF Cpp!Cardinality, Cardinality

LEMMA SameSteps ==
  /\ Cpp!Filled = Filled /\ Cpp!Cardinality(Cpp!Filled) = Cardinality(Filled)
  /\ Cpp!Signal <=> SignalNotEmpty
  /\ Cpp!Dismissed <=> Dismissed
<1>1. Cpp!Filled = Filled
  BY SameThreads, SameCardinality DEF Cpp!Filled, Filled
<1>2. Cpp!Signal <=> SignalNotEmpty
  BY SameThreads DEF Cpp!Signal, SignalNotEmpty
<1> QED
  BY <1>1, <1>2, SameCardinality DEF Cpp!Dismissed, Dismissed

LEMMA AtFiniteNext == \A s : Cardinality(At(s)') \in 0..maxNum /\ At(s)' \subseteq Slots
<1> SUFFICES ASSUME NEW s PROVE Cardinality(At(s)') \in 0..maxNum /\ At(s)' \subseteq Slots
  OBVIOUS
<1>1. At(s)' \subseteq Slots
  BY DEF At
<1>2. Cardinality(At(s)') \in Nat /\ Cardinality(At(s)') <= maxNum
  BY <1>1, SlotsFinite, FS_Subset, FS_CardinalityType
<1> QED
  BY <1>1, <1>2, SizesArePositive

(* busyNum counts the workers in a task, and they have one; the manager    *)
(* signals as often as it means to.                                        *)
CppTypeInv ==
  /\ Cpp!TypeOK
  /\ busyNum = Cardinality(At("run"))
  /\ \A w \in At("run") : task[w] \in Tasks
  /\ mpc = "signal" => signals \in 1..NUM

LEMMA CppTypes ==
  ASSUME Cpp!TypeOK
  PROVE  /\ queue \in Seq(Tasks) /\ busyNum \in 0..maxNum /\ liveNum \in 0..maxNum
         /\ exitNum \in Nat /\ shutdown \in BOOLEAN
         /\ wpc \in [Slots -> Cpp!WorkerStates] /\ task \in [Slots -> Tasks \cup {NoTask}]
         /\ ppc \in [Producers -> {"idle", "add", "lock", "push", "signal"}]
         /\ next \in Slots /\ done \subseteq Tasks /\ signals \in 0..NUM
         /\ passedOver \in BOOLEAN /\ dismissedLate \in BOOLEAN
BY SameThreads DEF Cpp!TypeOK

LEMMA CppTypeInit == Cpp!Init => CppTypeInv
<1> SUFFICES ASSUME Cpp!Init PROVE CppTypeInv
  OBVIOUS
<1>1. minNum \in 0..maxNum /\ maxNum \in Nat \ {0} /\ NUM \in Nat
  BY SizesArePositive
<1>2. At("run") = {} /\ Cardinality({}) = 0
  <2>1. At("run") = {}
    BY SameThreads DEF Cpp!Init, At
  <2> QED
    BY <2>1, FS_EmptySet
<1>3. 0 \in Slots
  BY <1>1 DEF Slots
<1>4. Cpp!TypeOK
  BY <1>1, <1>3, SameThreads
     DEF Cpp!Init, Cpp!TypeOK, Cpp!WorkerStates, Cpp!DestructorStates, Cpp!Nothing
<1> QED
  BY <1>2, <1>4 DEF CppTypeInv, Cpp!Init

(* What a step does to the counts: a task is taken, ended, or neither.     *)
LEMMA CppTypeStep == CppTypeInv /\ [Cpp!Next]_(Cpp!vars) => CppTypeInv'
<1> SUFFICES ASSUME CppTypeInv, [Cpp!Next]_(Cpp!vars) PROVE CppTypeInv'
  OBVIOUS
<1> USE SameThreads, SizesArePositive
    DEF Cpp!counters, Cpp!workers, Cpp!manager, Cpp!destructor, Cpp!history
<1>t. /\ Cpp!TypeOK /\ wpc \in [Slots -> Cpp!WorkerStates]
      /\ task \in [Slots -> Tasks \cup {NoTask}]
      /\ maxNum \in Nat \ {0} /\ minNum \in Nat \ {0} /\ NUM \in Nat \ {0}
      /\ liveNum \in 0..maxNum /\ busyNum \in 0..maxNum /\ exitNum \in Nat
  BY CppTypes DEF CppTypeInv
<1>n. \A s : Cardinality(At(s)') \in 0..maxNum
  BY AtFiniteNext
<1>same. ASSUME Cpp!TypeOK', UNCHANGED <<busyNum, task>>, At("run")' = At("run"),
                mpc' = "signal" => signals' \in 1..NUM
         PROVE  CppTypeInv'
  BY <1>same DEF CppTypeInv
<1>still. ASSUME Cpp!TypeOK', UNCHANGED <<busyNum, task, wpc>>,
                 mpc' = "signal" => signals' \in 1..NUM
          PROVE  CppTypeInv'
  BY <1>same, <1>still DEF At
<1>moved. ASSUME NEW w \in Slots, NEW to \in Cpp!WorkerStates \ {"run"}, wpc[w] # "run",
                 wpc' = [wpc EXCEPT ![w] = to]
          PROVE  At("run")' = At("run") /\ wpc' \in [Slots -> Cpp!WorkerStates]
  BY <1>t, <1>moved DEF At
<1>signal. ASSUME Cpp!Signal
           PROVE  At("run")' = At("run") /\ wpc' \in [Slots -> Cpp!WorkerStates]
  <2>1. "woken" \in Cpp!WorkerStates /\ SignalNotEmpty
    BY <1>signal, SameSteps DEF Cpp!WorkerStates
  <2> QED
    BY <1>t, <2>1, Signalled
<1>1. ASSUME NEW p \in Producers, Cpp!Call(p) \/ Cpp!Look(p) \/ Cpp!LockQueue(p) PROVE CppTypeInv'
  <2>1. Cpp!TypeOK'
    BY <1>1, <1>t DEF Cpp!Call, Cpp!Look, Cpp!LockQueue, Cpp!TypeOK
  <2> QED
    BY <1>1, <1>still, <2>1 DEF Cpp!Call, Cpp!Look, Cpp!LockQueue, CppTypeInv
<1>2. ASSUME NEW p \in Producers, NEW t \in Tasks, Cpp!Push(p, t) PROVE CppTypeInv'
  <2>1. Cpp!TypeOK'
    BY <1>2, <1>t DEF Cpp!Push, Cpp!TypeOK
  <2> QED
    BY <1>2, <1>still, <2>1 DEF Cpp!Push, CppTypeInv
<1>3. ASSUME NEW p \in Producers, Cpp!SignalTask(p) PROVE CppTypeInv'
  <2>1. Cpp!TypeOK'
    BY <1>3, <1>t, <1>signal DEF Cpp!SignalTask, Cpp!TypeOK
  <2> QED
    BY <1>3, <1>same, <1>signal, <2>1 DEF Cpp!SignalTask, CppTypeInv
<1>4. ASSUME NEW w \in Slots, Cpp!Dies(w) PROVE CppTypeInv'
  <2>1. At("run")' = At("run") /\ wpc' \in [Slots -> Cpp!WorkerStates]
    BY <1>4, <1>moved DEF Cpp!Dies, Cpp!WorkerStates
  <2>2. exitNum' \in Nat /\ liveNum' \in 0..maxNum
    BY <1>4, <1>t DEF Cpp!Dies, Cpp!Dismissed
  <2>3. Cpp!TypeOK'
    BY <1>4, <1>t, <2>1, <2>2 DEF Cpp!Dies, Cpp!TypeOK
  <2> QED
    BY <1>4, <1>same, <2>1, <2>3 DEF Cpp!Dies, CppTypeInv
<1>5. ASSUME NEW w \in Slots, Cpp!Leaves(w) \/ Cpp!Waits(w) PROVE CppTypeInv'
  <2>1. At("run")' = At("run") /\ wpc' \in [Slots -> Cpp!WorkerStates]
    BY <1>5, <1>moved DEF Cpp!Leaves, Cpp!Waits, Cpp!WorkerStates
  <2>2. Cpp!TypeOK'
    BY <1>5, <1>t, <2>1 DEF Cpp!Leaves, Cpp!Waits, Cpp!TypeOK
  <2> QED
    BY <1>5, <1>same, <2>1, <2>2 DEF Cpp!Leaves, Cpp!Waits, CppTypeInv
<1>tests. ASSUME NEW w \in Slots, Cpp!Tests(w)
          PROVE  exitNum' \in Nat /\ (wpc[w] = "lock" \/ wpc[w] = "woken")
  BY <1>tests, <1>t DEF Cpp!Tests
<1>6. ASSUME NEW w \in Slots, Cpp!FindsEmpty(w) \/ Cpp!FindsShutdown(w) PROVE CppTypeInv'
  <2>1. exitNum' \in Nat /\ (wpc[w] = "lock" \/ wpc[w] = "woken")
    BY <1>6, <1>tests DEF Cpp!FindsEmpty, Cpp!FindsShutdown
  <2>2. At("run")' = At("run") /\ wpc' \in [Slots -> Cpp!WorkerStates]
    BY <1>6, <2>1, <1>moved DEF Cpp!FindsEmpty, Cpp!FindsShutdown, Cpp!WorkerStates
  <2>3. Cpp!TypeOK'
    BY <1>6, <1>t, <2>1, <2>2
       DEF Cpp!FindsEmpty, Cpp!FindsShutdown, Cpp!Tests, Cpp!TypeOK
  <2> QED
    BY <1>6, <1>same, <2>2, <2>3 DEF Cpp!FindsEmpty, Cpp!FindsShutdown, Cpp!Tests, CppTypeInv
<1>7. ASSUME NEW w \in Slots, Cpp!TakeTask(w) PROVE CppTypeInv'
  <2>1. exitNum' \in Nat /\ (wpc[w] = "lock" \/ wpc[w] = "woken")
    BY <1>7, <1>tests DEF Cpp!TakeTask
  <2>2. /\ At("run")' = At("run") \cup {w} /\ w \notin At("run")
        /\ Cardinality(At("run")') = Cardinality(At("run")) + 1
    BY <1>7, <1>t, <2>1, Moved DEF Cpp!TakeTask
  <2>3. queue \in Seq(Tasks) /\ queue # <<>>
    BY <1>7, <1>t, CppTypes DEF Cpp!TakeTask
  <2>4. Head(queue) \in Tasks /\ Tail(queue) \in Seq(Tasks)
    BY <2>3
  <2>5. /\ busyNum' = Cardinality(At("run")') /\ busyNum' \in 0..maxNum
        /\ wpc' \in [Slots -> Cpp!WorkerStates] /\ queue' = Tail(queue)
        /\ task' = [task EXCEPT ![w] = Head(queue)]
    BY <1>7, <1>t, <1>n, <2>2 DEF Cpp!TakeTask, Cpp!WorkerStates, CppTypeInv
  <2>6. Cpp!TypeOK'
    BY <1>7, <1>t, <2>1, <2>4, <2>5 DEF Cpp!TakeTask, Cpp!Tests, Cpp!TypeOK
  <2>7. \A v \in At("run")' : task'[v] \in Tasks
    BY <1>t, <2>2, <2>4, <2>5, AtFinite DEF CppTypeInv
  <2>8. mpc' = "signal" => signals' \in 1..NUM
    BY <1>7 DEF Cpp!TakeTask, Cpp!Tests, CppTypeInv
  <2> QED
    BY <2>5, <2>6, <2>7, <2>8 DEF CppTypeInv
<1>8. ASSUME NEW w \in Slots, Cpp!EndTask(w) PROVE CppTypeInv'
  <2>1. /\ At("run")' = At("run") \ {w} /\ w \in At("run")
        /\ Cardinality(At("run")') = Cardinality(At("run")) - 1
    BY <1>8, <1>t, Moved DEF Cpp!EndTask
  <2>2. /\ busyNum' = Cardinality(At("run")') /\ busyNum' \in 0..maxNum
        /\ wpc' \in [Slots -> Cpp!WorkerStates] /\ task[w] \in Tasks
        /\ task' = [task EXCEPT ![w] = NoTask]
    BY <1>8, <1>t, <1>n, <2>1 DEF Cpp!EndTask, Cpp!WorkerStates, CppTypeInv
  <2>3. Cpp!TypeOK'
    BY <1>8, <1>t, <2>2 DEF Cpp!EndTask, Cpp!TypeOK
  <2>4. \A v \in At("run")' : task'[v] \in Tasks
    BY <1>t, <2>1, <2>2, AtFinite DEF CppTypeInv
  <2>5. mpc' = "signal" => signals' \in 1..NUM
    BY <1>8 DEF Cpp!EndTask, CppTypeInv
  <2> QED
    BY <2>2, <2>3, <2>4, <2>5 DEF CppTypeInv
<1>9. CASE Cpp!Check
  <2>1. Cpp!TypeOK'
    BY <1>9, <1>t DEF Cpp!Check, Cpp!TypeOK
  <2> QED
    BY <1>9, <1>still, <2>1 DEF Cpp!Check
<1>10. CASE Cpp!ReadPool
  <2>1. Cpp!Sizes \subseteq Nat
    BY <1>t, CppTypes DEF Cpp!Sizes
  <2>2. seen' \in [queue : Nat, live : 0..maxNum, busy : 0..maxNum]
    BY <1>10, <1>t, <2>1 DEF Cpp!ReadPool
  <2>3. Cpp!TypeOK'
    BY <1>10, <1>t, <2>2 DEF Cpp!ReadPool, Cpp!TypeOK
  <2> QED
    BY <1>10, <1>still, <2>3 DEF Cpp!ReadPool
<1>11. CASE Cpp!Grow
  <2>1. \A i \in Filled : wpc[i] = "none"
    BY DEF Filled, At
  <2>2. /\ wpc' \in [Slots -> Cpp!WorkerStates]
        /\ \A i \in Slots : wpc'[i] = wpc[i] \/ (wpc[i] = "none" /\ wpc'[i] = "lock")
    BY <1>11, <1>t, <2>1, SameSteps DEF Cpp!Grow, Cpp!WorkerStates
  <2>3. At("run")' = At("run")
    BY <2>2 DEF At
  <2>4. liveNum' \in 0..maxNum
    BY <1>11, <1>t, FilledRoom, SameSteps DEF Cpp!Grow
  <2>5. Cpp!TypeOK'
    BY <1>11, <1>t, <2>2, <2>4 DEF Cpp!Grow, Cpp!TypeOK
  <2> QED
    BY <1>11, <1>same, <2>3, <2>5 DEF Cpp!Grow
<1>12. CASE Cpp!Shrink
  <2>1. /\ exitNum' \in Nat /\ signals' \in 0..NUM
        /\ mpc' = "signal" => signals' \in 1..NUM
    BY <1>12, <1>t, CppTypes DEF Cpp!Shrink
  <2>2. seen' \in [queue : Nat, live : 0..maxNum, busy : 0..maxNum]
    BY <1>12, <1>t DEF Cpp!Shrink, Cpp!Nothing
  <2>3. Cpp!TypeOK'
    BY <1>12, <1>t, <2>1, <2>2 DEF Cpp!Shrink, Cpp!TypeOK
  <2> QED
    BY <1>12, <1>still, <2>1, <2>3 DEF Cpp!Shrink
<1>13. CASE Cpp!SignalDismissal
  <2>1. /\ signals' \in 0..NUM
        /\ mpc' = "signal" => signals' \in 1..NUM
    BY <1>13, <1>t DEF Cpp!SignalDismissal, CppTypeInv
  <2>2. Cpp!TypeOK'
    BY <1>13, <1>t, <1>signal, <2>1 DEF Cpp!SignalDismissal, Cpp!TypeOK
  <2> QED
    BY <1>13, <1>same, <1>signal, <2>1, <2>2 DEF Cpp!SignalDismissal
<1>14. CASE Cpp!SetShutdown \/ Cpp!JoinManager
  <2>1. Cpp!TypeOK'
    BY <1>14, <1>t DEF Cpp!SetShutdown, Cpp!JoinManager, Cpp!TypeOK, Cpp!DestructorStates
  <2> QED
    BY <1>14, <1>still, <2>1 DEF Cpp!SetShutdown, Cpp!JoinManager, CppTypeInv
<1>15. CASE Cpp!Broadcast
  <2>1. /\ wpc' \in [Slots -> Cpp!WorkerStates] /\ At("run")' = At("run")
    BY <1>15, <1>t DEF Cpp!Broadcast, Cpp!WorkerStates, At
  <2>2. Cpp!TypeOK'
    BY <1>15, <1>t, <2>1 DEF Cpp!Broadcast, Cpp!TypeOK, Cpp!DestructorStates
  <2> QED
    BY <1>15, <1>same, <2>1, <2>2 DEF Cpp!Broadcast, CppTypeInv
<1>advance. ASSUME Cpp!Advance PROVE next' \in Slots /\ dpc' \in Cpp!DestructorStates
  BY <1>advance, <1>t, CppTypes DEF Cpp!Advance, Cpp!DestructorStates, Slots
<1>16. CASE Cpp!LookAtEntry \/ Cpp!JoinEntry
  <2>1. next' \in Slots /\ dpc' \in Cpp!DestructorStates
    BY <1>16, <1>t, <1>advance, CppTypes
       DEF Cpp!LookAtEntry, Cpp!JoinEntry, Cpp!DestructorStates
  <2>2. Cpp!TypeOK'
    BY <1>16, <1>t, <2>1 DEF Cpp!LookAtEntry, Cpp!JoinEntry, Cpp!TypeOK
  <2> QED
    BY <1>16, <1>still, <2>2 DEF Cpp!LookAtEntry, Cpp!JoinEntry, CppTypeInv
<1>17. CASE UNCHANGED Cpp!vars
  <2>1. Cpp!TypeOK'
    BY <1>17, <1>t DEF Cpp!vars, Cpp!TypeOK
  <2> QED
    BY <1>17, <1>still, <2>1 DEF Cpp!vars, CppTypeInv
<1> QED
  BY <1>1, <1>2, <1>3, <1>4, <1>5, <1>6, <1>7, <1>8, <1>9, <1>10, <1>11, <1>12, <1>13, <1>14,
     <1>15, <1>16, <1>17
     DEF Cpp!Next, Cpp!Producer, Cpp!Worker, Cpp!Manager, Cpp!Destructor

(* The C++ pool's state keeps its shape, for any number of producers,      *)
(* workers and tasks.                                                      *)
THEOREM CppTypeCorrect == Cpp!Spec => []Cpp!TypeOK
<1>1. CppTypeInv => Cpp!TypeOK
  BY DEF CppTypeInv
<1> QED
  BY <1>1, CppTypeInit, CppTypeStep, PTL DEF Cpp!Spec

-----------------------------------------------------------------------------
(* A worker may be signalled past between its test and its wait: what the  *)
(* sleepers are promised is kept from the test on.                         *)
CppEnough ==
  ~passedOver /\ ~shutdown /\ At("wait") \cup At("towait") # {} =>
    Len(queue) <= Cardinality(Awake) + Cardinality(Cpp!Pending)

LEMMA PendingFinite ==
  /\ IsFiniteSet(Cpp!Pending) /\ Cardinality(Cpp!Pending) \in Nat
  /\ IsFiniteSet(Cpp!Pending') /\ Cardinality(Cpp!Pending') \in Nat
<1>1. Cpp!Pending \subseteq Producers /\ Cpp!Pending' \subseteq Producers
  BY DEF Cpp!Pending
<1> QED
  BY <1>1, ProducersFinite, FS_Subset, FS_CardinalityType

LEMMA CppEnoughInit == Cpp!Init => CppEnough
<1> SUFFICES ASSUME Cpp!Init PROVE CppEnough
  OBVIOUS
<1>1. Len(queue) = 0
  BY DEF Cpp!Init
<1> QED
  BY <1>1, AwakeFinite, PendingFinite DEF CppEnough

LEMMA CppEnoughStep == CppTypeInv /\ CppEnough /\ [Cpp!Next]_(Cpp!vars) => CppEnough'
<1> DEFINE Enough == Len(queue') <= Cardinality(Awake') + Cardinality(Cpp!Pending')
<1> SUFFICES ASSUME CppTypeInv, CppEnough, [Cpp!Next]_(Cpp!vars),
                    ~passedOver', ~shutdown', (At("wait") \cup At("towait"))' # {}
             PROVE  Enough
  BY DEF CppEnough
<1> USE SameThreads
    DEF Cpp!counters, Cpp!workers, Cpp!manager, Cpp!destructor, Cpp!history
<1>t. /\ wpc \in [Slots -> Cpp!WorkerStates] /\ queue \in Seq(Tasks) /\ Len(queue) \in Nat
      /\ ppc \in [Producers -> {"idle", "add", "lock", "push", "signal"}]
      /\ passedOver \in BOOLEAN
  BY CppTypes DEF CppTypeInv
<1>c. /\ Cardinality(Awake) \in Nat /\ IsFiniteSet(Awake)
      /\ Cardinality(Awake') \in Nat /\ IsFiniteSet(Awake')
      /\ Cardinality(Cpp!Pending) \in Nat /\ Cardinality(Cpp!Pending') \in Nat
  BY AwakeFinite, AwakeFiniteNext, PendingFinite
<1>s. ASSUME ~passedOver, ~shutdown, At("wait") \cup At("towait") # {}
      PROVE  Len(queue) <= Cardinality(Awake) + Cardinality(Cpp!Pending)
  BY <1>s DEF CppEnough
<1>empty. ASSUME queue' = <<>> PROVE Enough
  BY <1>empty, <1>c
<1>same. ASSUME UNCHANGED <<queue, ppc, passedOver, shutdown>>,
                At("wait") \cup At("towait") # {}, Awake \subseteq Awake'
         PROVE  Enough
  <2>1. Cardinality(Awake) <= Cardinality(Awake')
    BY <1>same, <1>c, FS_Subset
  <2>2. Cpp!Pending' = Cpp!Pending
    BY <1>same DEF Cpp!Pending
  <2> QED
    BY <1>same, <1>s, <1>c, <1>t, <2>1, <2>2
<1>still. ASSUME UNCHANGED <<queue, ppc, passedOver, shutdown, wpc>> PROVE Enough
  BY <1>still, <1>same DEF Awake, At
<1>signal. ASSUME Cpp!Signal
           PROVE  /\ At("wait") = {} => Awake' = Awake /\ wpc' = wpc
                  /\ At("wait") # {} => Cardinality(Awake') = Cardinality(Awake) + 1
  <2>1. "woken" \in Cpp!WorkerStates /\ SignalNotEmpty
    BY <1>signal, SameSteps DEF Cpp!WorkerStates
  <2>2. At("wait") = {} => wpc' = wpc
    BY <2>1 DEF SignalNotEmpty
  <2> QED
    BY <1>t, <2>1, <2>2, Signalled
<1>1. ASSUME NEW p \in Producers, Cpp!Call(p) \/ Cpp!Look(p) \/ Cpp!LockQueue(p) PROVE Enough
  <2>1. Cpp!Pending' = Cpp!Pending
    BY <1>1, <1>t DEF Cpp!Call, Cpp!Look, Cpp!LockQueue, Cpp!Pending
  <2>2. UNCHANGED <<queue, wpc, passedOver, shutdown>>
    BY <1>1 DEF Cpp!Call, Cpp!Look, Cpp!LockQueue
  <2>3. Awake' = Awake /\ At("wait") \cup At("towait") # {}
    BY <2>2 DEF Awake, At
  <2> QED
    BY <2>1, <2>2, <2>3, <1>s
<1>2. ASSUME NEW p \in Producers, NEW t \in Tasks, Cpp!Push(p, t) PROVE Enough
  <2>1. /\ Len(queue') = Len(queue) + 1 /\ ~passedOver /\ ~shutdown
        /\ At("wait") \cup At("towait") # {} /\ Awake' = Awake
    BY <1>2, <1>t DEF Cpp!Push, Awake, At
  <2>2. Cpp!Pending' = Cpp!Pending \cup {p} /\ p \notin Cpp!Pending
    BY <1>2, <1>t DEF Cpp!Push, Cpp!Pending
  <2>3. Cardinality(Cpp!Pending') = Cardinality(Cpp!Pending) + 1
    BY <2>2, PendingFinite, FS_AddElement
  <2> QED
    BY <1>s, <1>c, <1>t, <2>1, <2>3
<1>3. ASSUME NEW p \in Producers, Cpp!SignalTask(p) PROVE Enough
  <2>1. Cpp!Pending' = Cpp!Pending \ {p} /\ p \in Cpp!Pending
    BY <1>3, <1>t DEF Cpp!SignalTask, Cpp!Pending
  <2>2. Cardinality(Cpp!Pending') = Cardinality(Cpp!Pending) - 1
    BY <2>1, PendingFinite, FS_RemoveElement
  <2>3. UNCHANGED <<queue, shutdown>> /\ Cpp!Signal
    BY <1>3 DEF Cpp!SignalTask
  <2>4. ~passedOver /\ ~(At("wait") = {} /\ At("towait") # {})
    BY <1>3 DEF Cpp!SignalTask
  <2>5. At("wait") # {}
    <3>1. ASSUME At("wait") = {} PROVE FALSE
      <4>1. wpc' = wpc
        BY <3>1, <2>3, <1>signal
      <4>2. At("wait") \cup At("towait") # {}
        BY <4>1 DEF At
      <4> QED
        BY <3>1, <4>2, <2>4
    <3> QED
      BY <3>1
  <2> QED
    BY <1>s, <1>c, <1>t, <1>signal, <2>2, <2>3, <2>4, <2>5
<1>4. ASSUME NEW w \in Slots, Cpp!Dies(w) \/ Cpp!FindsEmpty(w) PROVE Enough
  <2>1. queue' = <<>>
    <3>1. queue' = queue /\ passedOver' = (passedOver \/ queue # <<>>)
      BY <1>4 DEF Cpp!Dies, Cpp!FindsEmpty, Cpp!Tests
    <3> QED
      BY <3>1
  <2> QED
    BY <2>1, <1>empty
<1>5. ASSUME NEW w \in Slots, Cpp!FindsShutdown(w) PROVE Enough
  BY <1>5 DEF Cpp!FindsShutdown, Cpp!Tests
<1>6. ASSUME NEW w \in Slots, Cpp!TakeTask(w) PROVE Enough
  <2>1. /\ wpc' = [wpc EXCEPT ![w] = "run"] /\ (wpc[w] = "lock" \/ wpc[w] = "woken")
        /\ queue' = Tail(queue) /\ queue # <<>> /\ UNCHANGED <<ppc, passedOver, shutdown>>
    BY <1>6 DEF Cpp!TakeTask, Cpp!Tests
  <2>2. /\ At("wait")' = At("wait") /\ At("towait")' = At("towait")
        /\ Awake' = Awake \ {w} /\ w \in Awake
    BY <1>t, <2>1 DEF Awake, At
  <2>3. Cardinality(Awake') = Cardinality(Awake) - 1
    BY <1>c, <2>2, FS_RemoveElement
  <2>4. Cpp!Pending' = Cpp!Pending
    BY <2>1 DEF Cpp!Pending
  <2>5. Len(queue') = Len(queue) - 1
    BY <1>t, <2>1
  <2> QED
    BY <1>s, <1>c, <1>t, <2>1, <2>2, <2>3, <2>4, <2>5
<1>7. ASSUME NEW w \in Slots, Cpp!Waits(w) PROVE Enough
  <2>1. UNCHANGED <<queue, ppc, passedOver, shutdown>>
    BY <1>7 DEF Cpp!Waits
  <2>2. w \in At("wait") \cup At("towait") /\ Awake \subseteq Awake'
    BY <1>7, <1>t DEF Cpp!Waits, Awake, At
  <2> QED
    BY <2>1, <2>2, <1>same
<1>8. ASSUME NEW w \in Slots, Cpp!Leaves(w) \/ Cpp!EndTask(w) PROVE Enough
  <2>1. UNCHANGED <<queue, ppc, passedOver, shutdown>>
    BY <1>8 DEF Cpp!Leaves, Cpp!EndTask
  <2>2. /\ At("wait")' = At("wait") /\ At("towait")' = At("towait")
        /\ Awake \subseteq Awake'
    BY <1>8, <1>t DEF Cpp!Leaves, Cpp!EndTask, Awake, At
  <2> QED
    BY <2>1, <2>2, <1>same
<1>9. CASE Cpp!Check \/ Cpp!ReadPool \/ Cpp!Shrink
  BY <1>9, <1>still DEF Cpp!Check, Cpp!ReadPool, Cpp!Shrink
<1>10. CASE Cpp!Grow
  <2>1. UNCHANGED <<queue, ppc, passedOver, shutdown>>
    BY <1>10 DEF Cpp!Grow
  <2>2. \A i \in Filled : wpc[i] = "none"
    BY DEF Filled, At
  <2>3. \A i \in Slots : wpc'[i] = wpc[i] \/ (wpc[i] = "none" /\ wpc'[i] = "lock")
    BY <1>10, <1>t, <2>2, SameSteps DEF Cpp!Grow
  <2>4. /\ At("wait")' = At("wait") /\ At("towait")' = At("towait")
        /\ Awake \subseteq Awake'
    BY <2>3 DEF Awake, At
  <2> QED
    BY <2>1, <2>4, <1>same
<1>11. CASE Cpp!SignalDismissal
  <2>1. UNCHANGED <<queue, ppc, passedOver, shutdown>> /\ Cpp!Signal
    BY <1>11 DEF Cpp!SignalDismissal
  <2>2. Cpp!Pending' = Cpp!Pending
    BY <2>1 DEF Cpp!Pending
  <2>3. At("wait") \cup At("towait") # {}
    <3>1. At("wait") = {} => wpc' = wpc
      BY <2>1, <1>signal
    <3> QED
      BY <3>1 DEF At
  <2> QED
    BY <1>s, <1>c, <1>t, <1>signal, <2>1, <2>2, <2>3
<1>12. CASE Cpp!SetShutdown
  BY <1>12 DEF Cpp!SetShutdown
<1>13. CASE Cpp!JoinManager \/ Cpp!LookAtEntry \/ Cpp!JoinEntry \/ UNCHANGED Cpp!vars
  BY <1>13, <1>still DEF Cpp!JoinManager, Cpp!LookAtEntry, Cpp!JoinEntry, Cpp!vars
<1>14. CASE Cpp!Broadcast
  <2>1. UNCHANGED <<queue, ppc, passedOver, shutdown>>
    BY <1>14 DEF Cpp!Broadcast
  <2>2. At("wait") \cup At("towait") # {} /\ Awake \subseteq Awake'
    BY <1>14, <1>t DEF Cpp!Broadcast, Awake, At
  <2> QED
    BY <2>1, <2>2, <1>same
<1> QED
  BY <1>1, <1>2, <1>3, <1>4, <1>5, <1>6, <1>7, <1>8, <1>9, <1>10, <1>11, <1>12, <1>13, <1>14
     DEF Cpp!Next, Cpp!Producer, Cpp!Worker, Cpp!Manager, Cpp!Destructor

(* addTask signals under no mutex, and the worker tests a queue it has not *)
(* locked: still, while a worker sleeps, each queued task has a signal to  *)
(* come or a worker on its way, unless one went to sleep past a task.      *)
THEOREM CppTasksNotStranded == Cpp!Spec => []Cpp!NoStrandedTask
<1>1. CppEnough => Cpp!NoStrandedTask
  BY SameThreads, SameCardinality DEF CppEnough, Cpp!NoStrandedTask, Awake
<1> QED
  BY <1>1, CppTypeInit, CppTypeStep, CppEnoughInit, CppEnoughStep, PTL DEF Cpp!Spec

-----------------------------------------------------------------------------
CppLiving == Slots \ (At("none") \cup At("leaving"))

LEMMA CppLivingFinite ==
  /\ IsFiniteSet(CppLiving) /\ Cardinality(CppLiving) \in Nat
<1>1. CppLiving \subseteq Slots
  BY DEF CppLiving
<1> QED
  BY <1>1, SlotsFinite, FS_Subset, FS_CardinalityType

(* No dismissal takes the last minNum.  (No upper limit: CppTypeInv has it.)*)
CppAccounted == minNum <= liveNum /\ liveNum = Cardinality(CppLiving)

LEMMA CppAccountedInit == Cpp!Init => CppAccounted
<1> SUFFICES ASSUME Cpp!Init PROVE CppAccounted
  OBVIOUS
<1>1. minNum \in Nat \ {0} /\ maxNum \in Nat /\ minNum <= maxNum
  BY SizesArePositive
<1>2. CppLiving = 0..(minNum - 1)
  <2>1. \A w \in Slots : wpc[w] = IF w < minNum THEN "lock" ELSE "none"
    BY SameThreads DEF Cpp!Init
  <2>2. \A w \in Slots : w \in CppLiving <=> w < minNum
    BY <2>1 DEF CppLiving, At
  <2> QED
    BY <1>1, <2>2 DEF Slots, CppLiving
<1>3. Cardinality(0..(minNum - 1)) = minNum
  <2>1. 0 \in Int /\ minNum - 1 \in Int
    BY <1>1
  <2>2. Cardinality(0..(minNum - 1)) =
          IF 0 > minNum - 1 THEN 0 ELSE (minNum - 1) - 0 + 1
    BY <2>1, FS_Interval
  <2> QED
    BY <1>1, <2>2
<1>4. liveNum = minNum
  BY DEF Cpp!Init
<1> QED
  BY <1>1, <1>2, <1>3, <1>4 DEF CppAccounted

LEMMA CppAccountedStep ==
  CppTypeInv /\ CppAccounted /\ [Cpp!Next]_(Cpp!vars) => CppAccounted'
<1> SUFFICES ASSUME CppTypeInv, CppAccounted, [Cpp!Next]_(Cpp!vars) PROVE CppAccounted'
  OBVIOUS
<1> USE SameThreads
    DEF Cpp!counters, Cpp!workers, Cpp!manager, Cpp!destructor, Cpp!history
<1>t. /\ wpc \in [Slots -> Cpp!WorkerStates] /\ liveNum \in 0..maxNum
      /\ liveNum \in Nat /\ minNum \in Nat /\ maxNum \in Nat
  BY CppTypes, SizesArePositive DEF CppTypeInv
<1>c. IsFiniteSet(CppLiving) /\ Cardinality(CppLiving) \in Nat
  BY CppLivingFinite
<1>same. ASSUME liveNum' = liveNum, CppLiving' = CppLiving PROVE CppAccounted'
  BY <1>same DEF CppAccounted
<1>still. ASSUME UNCHANGED <<liveNum, wpc>> PROVE CppAccounted'
  BY <1>still, <1>same DEF CppLiving, At
<1>moves. ASSUME liveNum' = liveNum, NEW w \in Slots, NEW s, wpc' = [wpc EXCEPT ![w] = s],
                 wpc[w] \in {"none", "leaving"} <=> s \in {"none", "leaving"}
          PROVE  CppAccounted'
  <2>1. CppLiving' = CppLiving
    BY <1>moves, <1>t DEF CppLiving, At
  <2> QED
    BY <1>moves, <1>same, <2>1
<1>signal. ASSUME liveNum' = liveNum, Cpp!Signal PROVE CppAccounted'
  <2>1. "woken" \in Cpp!WorkerStates /\ SignalNotEmpty
    BY <1>signal, SameSteps DEF Cpp!WorkerStates
  <2>2. CppLiving' = CppLiving
    BY <2>1, <1>t, Signalled DEF CppLiving
  <2> QED
    BY <1>signal, <1>same, <2>2
<1>1. ASSUME NEW p \in Producers, \/ Cpp!Call(p) \/ Cpp!Look(p) \/ Cpp!LockQueue(p)
                                  \/ \E t \in Tasks : Cpp!Push(p, t)
      PROVE  CppAccounted'
  BY <1>1, <1>still DEF Cpp!Call, Cpp!Look, Cpp!LockQueue, Cpp!Push
<1>2. ASSUME NEW p \in Producers, Cpp!SignalTask(p) PROVE CppAccounted'
  BY <1>2, <1>signal DEF Cpp!SignalTask
<1>3. ASSUME NEW w \in Slots, Cpp!Dies(w) PROVE CppAccounted'
  <2>1. /\ wpc[w] = "woken" /\ wpc' = [wpc EXCEPT ![w] = "leaving"]
        /\ liveNum' = liveNum - 1 /\ liveNum > minNum
    BY <1>3 DEF Cpp!Dies, Cpp!Dismissed
  <2>2. CppLiving' = CppLiving \ {w} /\ w \in CppLiving
    BY <1>t, <2>1 DEF CppLiving, At
  <2>3. Cardinality(CppLiving \ {w}) = Cardinality(CppLiving) - 1
    BY <1>c, <2>2, FS_RemoveElement
  <2> QED
    BY <1>t, <1>c, <2>1, <2>2, <2>3 DEF CppAccounted
<1>4. ASSUME NEW w \in Slots, Cpp!Leaves(w) \/ Cpp!EndTask(w) \/ Cpp!Waits(w)
      PROVE  CppAccounted'
  <2>1. PICK s \in {"none", "lock", "wait", "woken"} :
          /\ wpc' = [wpc EXCEPT ![w] = s] /\ liveNum' = liveNum
          /\ wpc[w] \in {"none", "leaving"} <=> s \in {"none", "leaving"}
    BY <1>4 DEF Cpp!Leaves, Cpp!EndTask, Cpp!Waits
  <2> QED
    BY <2>1, <1>moves
<1>5. ASSUME NEW w \in Slots, Cpp!FindsEmpty(w) \/ Cpp!FindsShutdown(w) \/ Cpp!TakeTask(w)
      PROVE  CppAccounted'
  <2>1. PICK s \in {"towait", "gone", "run"} : wpc' = [wpc EXCEPT ![w] = s]
    BY <1>5 DEF Cpp!FindsEmpty, Cpp!FindsShutdown, Cpp!TakeTask
  <2>2. (wpc[w] = "lock" \/ wpc[w] = "woken") /\ liveNum' = liveNum
    BY <1>5 DEF Cpp!FindsEmpty, Cpp!FindsShutdown, Cpp!TakeTask, Cpp!Tests
  <2> QED
    BY <2>1, <2>2, <1>moves
<1>6. CASE Cpp!Check \/ Cpp!ReadPool \/ Cpp!Shrink
  BY <1>6, <1>still DEF Cpp!Check, Cpp!ReadPool, Cpp!Shrink
<1>7. CASE Cpp!Grow
  <2>1. CASE Cpp!TooFew
    <3>1. /\ wpc' = [i \in Slots |-> IF i \in Filled THEN "lock" ELSE wpc[i]]
          /\ liveNum' = liveNum + Cardinality(Filled)
      BY <1>7, <2>1, SameSteps DEF Cpp!Grow
    <3>2. /\ Filled \subseteq At("none") /\ IsFiniteSet(Filled)
          /\ Cardinality(Filled) \in Nat
      BY <1>t, FilledRoom
    <3>3. \A i \in Filled : i \in Slots /\ wpc[i] = "none"
      BY <3>2 DEF At
    <3>4. CppLiving' = CppLiving \cup Filled /\ CppLiving \cap Filled = {}
      BY <1>t, <3>1, <3>3 DEF CppLiving, At
    <3>5. Cardinality(CppLiving \cup Filled) = Cardinality(CppLiving) + Cardinality(Filled)
      BY <1>c, <3>2, <3>4, DisjointUnion
    <3> QED
      BY <1>t, <1>c, <3>1, <3>2, <3>4, <3>5 DEF CppAccounted
  <2>2. CASE ~Cpp!TooFew
    BY <1>7, <2>2, <1>still DEF Cpp!Grow
  <2> QED
    BY <2>1, <2>2
<1>8. CASE Cpp!SignalDismissal
  BY <1>8, <1>signal DEF Cpp!SignalDismissal
<1>9. CASE Cpp!SetShutdown \/ Cpp!JoinManager \/ Cpp!LookAtEntry \/ Cpp!JoinEntry
           \/ UNCHANGED Cpp!vars
  BY <1>9, <1>still
     DEF Cpp!SetShutdown, Cpp!JoinManager, Cpp!LookAtEntry, Cpp!JoinEntry, Cpp!vars
<1>10. CASE Cpp!Broadcast
  <2>1. CppLiving' = CppLiving /\ liveNum' = liveNum
    BY <1>10, <1>t DEF Cpp!Broadcast, CppLiving, At
  <2> QED
    BY <2>1, <1>same
<1> QED
  BY <1>1, <1>2, <1>3, <1>4, <1>5, <1>6, <1>7, <1>8, <1>9, <1>10
     DEF Cpp!Next, Cpp!Producer, Cpp!Worker, Cpp!Manager, Cpp!Destructor

(* m_aliveNum and m_busyNum are the numbers of living and of busy threads, *)
(* and no dismissal goes below m_minNum nor a creation above m_maxNum,     *)
(* although the manager decides on what it read before.                    *)
THEOREM CppThreadsAccounted == Cpp!Spec => []Cpp!ThreadsAccounted
<1>1. CppTypeInv /\ CppAccounted => Cpp!ThreadsAccounted
  <2> SUFFICES ASSUME CppTypeInv, CppAccounted PROVE Cpp!ThreadsAccounted
    OBVIOUS
  <2>1. liveNum <= maxNum
    BY CppTypes, SizesArePositive DEF CppTypeInv
  <2> QED
    BY <2>1, SameThreads, SameCardinality
       DEF CppTypeInv, CppAccounted, CppLiving, Cpp!ThreadsAccounted
<1> QED
  BY <1>1, CppTypeInit, CppTypeStep, CppAccountedInit, CppAccountedStep, PTL DEF Cpp!Spec

-----------------------------------------------------------------------------
(* The mutex has one holder between two states, a worker about to wait or  *)
(* one on its way out; and one who is on its way out before the shutdown   *)
(* is out before any other: all of them need the mutex to end.             *)
CppHolder ==
  /\ \A v, w \in At("towait") \cup At("leaving") : v = w
  /\ At("gone") # {} => shutdown
  /\ ~dismissedLate /\ At("leaving") # {} => At("gone") = {}

(* Where the destructor is, the manager has ended, and the entries behind  *)
(* it are done with.                                                       *)
Over(w) == wpc[w] \in {"none", "leaving", "gone"}
CppClosing ==
  /\ dpc = "alive" <=> ~shutdown
  /\ dpc \notin {"alive", "joinManager"} => mpc = "done"
  /\ dpc \in {"alive", "joinManager", "broadcast"} => next = 0
  /\ dpc \in {"look", "join"} => \A w \in Slots : w < next => Over(w)
  /\ dpc = "join" /\ ~dismissedLate => wpc[next] \notin {"none", "leaving"}
  /\ dpc = "crashed" => dismissedLate
  /\ dpc = "destroyed" => \A w \in Slots : Over(w)

LEMMA CppHolderInit == Cpp!Init => CppHolder /\ CppClosing
BY SameThreads DEF Cpp!Init, CppHolder, CppClosing, At

(* What the steps do to who holds the mutex and who has ended.             *)
LEMMA CppHolderStep == CppTypeInv /\ CppHolder /\ [Cpp!Next]_(Cpp!vars) => CppHolder'
<1> SUFFICES ASSUME CppTypeInv, CppHolder, [Cpp!Next]_(Cpp!vars) PROVE CppHolder'
  OBVIOUS
<1> USE SameThreads
    DEF Cpp!counters, Cpp!workers, Cpp!manager, Cpp!destructor, Cpp!history
<1>t. /\ wpc \in [Slots -> Cpp!WorkerStates] /\ shutdown \in BOOLEAN
      /\ dismissedLate \in BOOLEAN
  BY CppTypes DEF CppTypeInv
<1>same. ASSUME UNCHANGED dismissedLate, shutdown => shutdown',
                At("towait")' \subseteq At("towait"), At("leaving")' \subseteq At("leaving"),
                At("gone")' = At("gone")
         PROVE  CppHolder'
  BY <1>same DEF CppHolder
<1>still. ASSUME UNCHANGED <<dismissedLate, wpc>>, shutdown => shutdown' PROVE CppHolder'
  BY <1>still, <1>same DEF At
<1>signal. ASSUME Cpp!Signal, UNCHANGED <<dismissedLate, shutdown>> PROVE CppHolder'
  <2>1. "woken" \in Cpp!WorkerStates /\ SignalNotEmpty
    BY <1>signal, SameSteps DEF Cpp!WorkerStates
  <2>2. \A s \in {"towait", "leaving", "gone"} : At(s)' = At(s)
    BY <2>1, <1>t, Signalled
  <2> QED
    BY <1>signal, <1>same, <2>2
<1>free. ASSUME ~Cpp!Held PROVE At("towait") = {} /\ At("leaving") = {}
  BY <1>free DEF Cpp!Held
<1>1. ASSUME NEW p \in Producers, \/ Cpp!Call(p) \/ Cpp!Look(p) \/ Cpp!LockQueue(p)
                                  \/ \E t \in Tasks : Cpp!Push(p, t)
      PROVE  CppHolder'
  BY <1>1, <1>still DEF Cpp!Call, Cpp!Look, Cpp!LockQueue, Cpp!Push
<1>2. ASSUME NEW p \in Producers, Cpp!SignalTask(p) PROVE CppHolder'
  BY <1>2, <1>signal DEF Cpp!SignalTask
<1>3. ASSUME NEW w \in Slots, Cpp!Dies(w) PROVE CppHolder'
  <2>1. /\ wpc' = [wpc EXCEPT ![w] = "leaving"] /\ wpc[w] = "woken"
        /\ dismissedLate' = (dismissedLate \/ shutdown) /\ shutdown' = shutdown
        /\ At("towait") = {} /\ At("leaving") = {}
    BY <1>3, <1>free DEF Cpp!Dies
  <2>2. At("towait")' = {} /\ At("leaving")' = {w} /\ At("gone")' = At("gone")
    BY <2>1, <1>t DEF At
  <2>3. ~dismissedLate' => ~shutdown
    BY <2>1, <1>t
  <2> QED
    BY <2>1, <2>2, <2>3 DEF CppHolder
<1>4. ASSUME NEW w \in Slots, Cpp!Leaves(w) \/ Cpp!EndTask(w) \/ Cpp!Waits(w)
      PROVE  CppHolder'
  <2>1. UNCHANGED <<dismissedLate, shutdown>>
    BY <1>4 DEF Cpp!Leaves, Cpp!EndTask, Cpp!Waits
  <2>2. /\ At("towait")' \subseteq At("towait") /\ At("leaving")' \subseteq At("leaving")
        /\ At("gone")' = At("gone")
    BY <1>4, <1>t DEF Cpp!Leaves, Cpp!EndTask, Cpp!Waits, At
  <2> QED
    BY <2>1, <2>2, <1>same
<1>5. ASSUME NEW w \in Slots, Cpp!FindsEmpty(w) PROVE CppHolder'
  <2>1. /\ wpc' = [wpc EXCEPT ![w] = "towait"] /\ (wpc[w] = "lock" \/ wpc[w] = "woken")
        /\ UNCHANGED <<dismissedLate, shutdown>>
        /\ At("towait") = {} /\ At("leaving") = {}
    BY <1>5, <1>free DEF Cpp!FindsEmpty, Cpp!Tests
  <2>2. At("towait")' = {w} /\ At("leaving")' = {} /\ At("gone")' = At("gone")
    BY <2>1, <1>t DEF At
  <2> QED
    BY <2>1, <2>2 DEF CppHolder
<1>6. ASSUME NEW w \in Slots, Cpp!FindsShutdown(w) PROVE CppHolder'
  <2>1. /\ wpc' = [wpc EXCEPT ![w] = "gone"] /\ (wpc[w] = "lock" \/ wpc[w] = "woken")
        /\ shutdown /\ shutdown' = shutdown /\ At("towait") = {} /\ At("leaving") = {}
    BY <1>6, <1>free DEF Cpp!FindsShutdown, Cpp!Tests
  <2>2. At("towait")' = {} /\ At("leaving")' = {}
    BY <2>1, <1>t DEF At
  <2> QED
    BY <2>1, <2>2 DEF CppHolder
<1>7. ASSUME NEW w \in Slots, Cpp!TakeTask(w) PROVE CppHolder'
  <2>1. /\ wpc' = [wpc EXCEPT ![w] = "run"] /\ (wpc[w] = "lock" \/ wpc[w] = "woken")
        /\ UNCHANGED <<dismissedLate, shutdown>>
    BY <1>7 DEF Cpp!TakeTask, Cpp!Tests
  <2>2. \A s \in {"towait", "leaving", "gone"} : At(s)' = At(s)
    BY <2>1, <1>t DEF At
  <2> QED
    BY <2>1, <2>2, <1>same
<1>8. CASE Cpp!Check \/ Cpp!ReadPool \/ Cpp!Shrink
  BY <1>8, <1>still DEF Cpp!Check, Cpp!ReadPool, Cpp!Shrink
<1>9. CASE Cpp!Grow
  <2>1. \A i \in Filled : wpc[i] = "none"
    BY DEF Filled, At
  <2>2. \A i \in Slots : wpc'[i] = wpc[i] \/ (wpc[i] = "none" /\ wpc'[i] = "lock")
    BY <1>9, <1>t, <2>1, SameSteps DEF Cpp!Grow
  <2>3. \A s \in {"towait", "leaving", "gone"} : At(s)' = At(s)
    BY <2>2 DEF At
  <2> QED
    BY <1>9, <1>same, <2>3 DEF Cpp!Grow
<1>10. CASE Cpp!SignalDismissal
  BY <1>10, <1>signal DEF Cpp!SignalDismissal
<1>11. CASE Cpp!SetShutdown \/ Cpp!JoinManager \/ Cpp!LookAtEntry \/ Cpp!JoinEntry
            \/ UNCHANGED Cpp!vars
  BY <1>11, <1>still
     DEF Cpp!SetShutdown, Cpp!JoinManager, Cpp!LookAtEntry, Cpp!JoinEntry, Cpp!vars
<1>12. CASE Cpp!Broadcast
  <2>1. \A s \in {"towait", "leaving", "gone"} : At(s)' = At(s)
    BY <1>12, <1>t DEF Cpp!Broadcast, At
  <2> QED
    BY <1>12, <1>same, <2>1 DEF Cpp!Broadcast
<1> QED
  BY <1>1, <1>2, <1>3, <1>4, <1>5, <1>6, <1>7, <1>8, <1>9, <1>10, <1>11, <1>12
     DEF Cpp!Next, Cpp!Producer, Cpp!Worker, Cpp!Manager, Cpp!Destructor

(* Once the manager has ended nobody begins, and nobody clears an entry    *)
(* after the shutdown but a worker that is dismissed late.                 *)
LEMMA CppClosingStep ==
  CppTypeInv /\ CppClosing /\ [Cpp!Next]_(Cpp!vars) => CppClosing'
<1> SUFFICES ASSUME CppTypeInv, CppClosing, [Cpp!Next]_(Cpp!vars) PROVE CppClosing'
  OBVIOUS
<1> USE SameThreads
    DEF Cpp!counters, Cpp!workers, Cpp!manager, Cpp!destructor, Cpp!history
<1>t. /\ wpc \in [Slots -> Cpp!WorkerStates] /\ shutdown \in BOOLEAN
      /\ dismissedLate \in BOOLEAN /\ next \in Slots
  BY CppTypes DEF CppTypeInv
<1>same. ASSUME UNCHANGED <<dpc, shutdown, next>>, dismissedLate => dismissedLate',
                mpc = "done" => mpc' = "done",
                mpc = "done" => \A w \in Slots : Over(w) => Over(w)',
                shutdown /\ ~dismissedLate' =>
                  \A w \in Slots : wpc[w] \notin {"none", "leaving"}
                                   => wpc'[w] \notin {"none", "leaving"}
         PROVE  CppClosing'
  BY <1>t, <1>same DEF CppClosing
<1>still. ASSUME UNCHANGED <<dpc, shutdown, next, wpc, dismissedLate>>,
                 mpc = "done" => mpc' = "done"
          PROVE  CppClosing'
  BY <1>still, <1>same DEF Over
<1>signal. ASSUME Cpp!Signal, UNCHANGED <<dpc, shutdown, next, dismissedLate>>,
                  mpc = "done" => mpc' = "done"
           PROVE  CppClosing'
  <2>1. \A w \in Slots : wpc'[w] = wpc[w] \/ (wpc[w] = "wait" /\ wpc'[w] = "woken")
    BY <1>signal, <1>t, SameSteps DEF SignalNotEmpty, At
  <2> QED
    BY <1>signal, <1>same, <2>1 DEF Over
<1>moves. ASSUME UNCHANGED <<dpc, shutdown, next, mpc, dismissedLate>>,
                 NEW w \in Slots, NEW s, wpc' = [wpc EXCEPT ![w] = s],
                 wpc[w] \notin {"none", "gone"}, s # "leaving",
                 wpc[w] = "leaving" <=> s = "none"
          PROVE  CppClosing'
  <2>1. \A v \in Slots : Over(v) => Over(v)'
    BY <1>moves, <1>t DEF Over
  <2>2. \A v \in Slots : wpc[v] \notin {"none", "leaving"} => wpc'[v] \notin {"none", "leaving"}
    BY <1>moves, <1>t
  <2> QED
    BY <1>moves, <1>same, <2>1, <2>2
<1>1. ASSUME NEW p \in Producers, \/ Cpp!Call(p) \/ Cpp!Look(p) \/ Cpp!LockQueue(p)
                                  \/ \E t \in Tasks : Cpp!Push(p, t)
      PROVE  CppClosing'
  BY <1>1, <1>still DEF Cpp!Call, Cpp!Look, Cpp!LockQueue, Cpp!Push
<1>2. ASSUME NEW p \in Producers, Cpp!SignalTask(p) PROVE CppClosing'
  BY <1>2, <1>signal DEF Cpp!SignalTask
<1>3. ASSUME NEW w \in Slots, Cpp!Dies(w) PROVE CppClosing'
  <2>1. /\ wpc' = [wpc EXCEPT ![w] = "leaving"] /\ wpc[w] = "woken"
        /\ dismissedLate' = (dismissedLate \/ shutdown)
        /\ UNCHANGED <<dpc, shutdown, next, mpc>>
    BY <1>3 DEF Cpp!Dies
  <2>2. \A v \in Slots : Over(v) => Over(v)'
    BY <2>1, <1>t DEF Over
  <2>3. shutdown => dismissedLate'
    BY <2>1
  <2>4. dismissedLate => dismissedLate'
    BY <2>1
  <2> QED
    BY <2>1, <2>2, <2>3, <2>4, <1>same
<1>4. ASSUME NEW w \in Slots, Cpp!Leaves(w) \/ Cpp!EndTask(w) \/ Cpp!Waits(w)
      PROVE  CppClosing'
  <2>1. PICK s \in {"none", "lock", "wait", "woken"} :
          /\ wpc' = [wpc EXCEPT ![w] = s]
          /\ wpc[w] \in {"leaving", "run", "towait", "wait"}
          /\ wpc[w] = "leaving" <=> s = "none"
    BY <1>4 DEF Cpp!Leaves, Cpp!EndTask, Cpp!Waits
  <2>2. UNCHANGED <<dpc, shutdown, next, mpc, dismissedLate>>
    BY <1>4 DEF Cpp!Leaves, Cpp!EndTask, Cpp!Waits
  <2> QED
    BY <2>1, <2>2, <1>moves
<1>5. ASSUME NEW w \in Slots, Cpp!FindsEmpty(w) \/ Cpp!FindsShutdown(w) \/ Cpp!TakeTask(w)
      PROVE  CppClosing'
  <2>1. PICK s \in {"towait", "gone", "run"} : wpc' = [wpc EXCEPT ![w] = s]
    BY <1>5 DEF Cpp!FindsEmpty, Cpp!FindsShutdown, Cpp!TakeTask
  <2>2. /\ wpc[w] = "lock" \/ wpc[w] = "woken"
        /\ UNCHANGED <<dpc, shutdown, next, mpc, dismissedLate>>
    BY <1>5 DEF Cpp!FindsEmpty, Cpp!FindsShutdown, Cpp!TakeTask, Cpp!Tests
  <2> QED
    BY <2>1, <2>2, <1>moves
<1>6. CASE Cpp!Check \/ Cpp!ReadPool \/ Cpp!Shrink
  BY <1>6, <1>still DEF Cpp!Check, Cpp!ReadPool, Cpp!Shrink
<1>7. CASE Cpp!Grow
  <2>1. \A i \in Filled : wpc[i] = "none"
    BY DEF Filled, At
  <2>2. \A i \in Slots : wpc'[i] = wpc[i] \/ (wpc[i] = "none" /\ wpc'[i] = "lock")
    BY <1>7, <1>t, <2>1, SameSteps DEF Cpp!Grow
  <2>3. /\ mpc # "done" /\ UNCHANGED <<dpc, shutdown, next, dismissedLate>>
    BY <1>7 DEF Cpp!Grow
  <2> QED
    BY <2>2, <2>3, <1>same
<1>8. CASE Cpp!SignalDismissal
  BY <1>8, <1>signal DEF Cpp!SignalDismissal
<1>9. CASE Cpp!SetShutdown \/ Cpp!JoinManager
  BY <1>9, <1>t DEF Cpp!SetShutdown, Cpp!JoinManager, CppClosing
<1>10. CASE Cpp!Broadcast
  <2>1. \A w \in Slots : ~(w < 0)
    BY SizesArePositive DEF Slots
  <2>2. next = 0
    BY <1>10 DEF Cpp!Broadcast, CppClosing
  <2> QED
    BY <1>10, <1>t, <2>1, <2>2 DEF Cpp!Broadcast, CppClosing
<1>advance. ASSUME Cpp!Advance, dpc \in {"look", "join"}, Over(next),
                   UNCHANGED <<shutdown, mpc, wpc, dismissedLate>>
            PROVE  CppClosing'
  <2>1. next \in Nat /\ maxNum \in Nat /\ \A w \in Slots : w \in Nat /\ w < maxNum
    BY <1>t, SizesArePositive DEF Slots
  <2>2. \A w \in Slots : w < next + 1 => Over(w)
    BY <1>advance, <1>t, <2>1 DEF CppClosing
  <2>3. CASE next + 1 < maxNum
    <3>1. next' = next + 1 /\ dpc' = "look"
      BY <1>advance, <2>3 DEF Cpp!Advance
    <3> QED
      BY <1>advance, <2>2, <3>1 DEF CppClosing, Over
  <2>4. CASE ~(next + 1 < maxNum)
    <3>1. dpc' = "destroyed"
      BY <1>advance, <2>4 DEF Cpp!Advance
    <3>2. \A w \in Slots : Over(w)
      BY <2>1, <2>2, <2>4
    <3> QED
      BY <1>advance, <3>1, <3>2 DEF CppClosing, Over
  <2> QED
    BY <2>3, <2>4
<1>11. CASE Cpp!LookAtEntry
  <2>1. dpc = "look" /\ UNCHANGED <<shutdown, mpc, wpc, dismissedLate>>
    BY <1>11 DEF Cpp!LookAtEntry
  <2>2. CASE Cpp!Cleared(next)
    <3>1. Over(next) /\ Cpp!Advance
      BY <1>11, <2>2 DEF Cpp!LookAtEntry, Cpp!Cleared, Over
    <3> QED
      BY <2>1, <3>1, <1>advance
  <2>3. CASE ~Cpp!Cleared(next)
    <3>1. dpc' = "join" /\ next' = next /\ wpc[next] \notin {"none", "leaving"}
      BY <1>11, <2>3 DEF Cpp!LookAtEntry, Cpp!Cleared
    <3> QED
      BY <2>1, <3>1 DEF CppClosing, Over
  <2> QED
    BY <2>2, <2>3
<1>12. CASE Cpp!JoinEntry
  <2>1. dpc = "join" /\ UNCHANGED <<shutdown, mpc, wpc, dismissedLate>>
    BY <1>12 DEF Cpp!JoinEntry
  <2>2. CASE wpc[next] \in {"gone", "none"} /\ Cpp!Advance
    BY <2>1, <2>2, <1>advance DEF Over
  <2>3. CASE Cpp!Cleared(next) /\ dpc' = "crashed" /\ UNCHANGED next
    BY <2>1, <2>3 DEF CppClosing, Cpp!Cleared
  <2> QED
    BY <1>12, <2>2, <2>3 DEF Cpp!JoinEntry
<1>13. CASE UNCHANGED Cpp!vars
  BY <1>13, <1>still DEF Cpp!vars
<1> QED
  BY <1>1, <1>2, <1>3, <1>4, <1>5, <1>6, <1>7, <1>8, <1>9, <1>10, <1>11, <1>12, <1>13
     DEF Cpp!Next, Cpp!Producer, Cpp!Worker, Cpp!Manager, Cpp!Destructor

(* ~ThreadPool reads threadIDs under no mutex, and a worker clears its     *)
(* entry before it lets go of the pool.  The pool is freed under none of   *)
(* them, and no cleared entry is joined, unless one is dismissed after the *)
(* shutdown: one that was dismissed before is waited for with the others,  *)
(* who need the mutex it holds, and there is another, for m_minNum is not  *)
(* zero.                                                                   *)
THEOREM CppDestroyedWhenAllGone == Cpp!Spec => []Cpp!DestroyedWhenAllGone
<1>1. CppTypeInv /\ CppAccounted /\ CppHolder /\ CppClosing => Cpp!DestroyedWhenAllGone
  <2> SUFFICES ASSUME CppTypeInv, CppAccounted, CppHolder, CppClosing, ~dismissedLate
               PROVE  /\ dpc # "crashed"
                      /\ dpc = "destroyed" => \A w \in Slots : wpc[w] \in {"none", "gone"}
    BY SameThreads DEF Cpp!DestroyedWhenAllGone
  <2>1. dpc # "crashed"
    BY DEF CppClosing
  <2>2. ASSUME dpc = "destroyed" PROVE At("leaving") = {}
    <3>1. CppLiving # {}
      <4>1. minNum \in Nat \ {0} /\ minNum <= Cardinality(CppLiving)
        BY SizesArePositive DEF CppAccounted
      <4>2. Cardinality({}) = 0
        BY FS_EmptySet
      <4> QED
        BY <4>1, <4>2
    <3>2. At("gone") # {}
      BY <2>2, <3>1 DEF CppClosing, Over, CppLiving, At
    <3> QED
      BY <3>2 DEF CppHolder
  <2> QED
    BY <2>1, <2>2 DEF CppClosing, Over, At
<1> QED
  BY <1>1, CppTypeInit, CppTypeStep, CppAccountedInit, CppAccountedStep,
     CppHolderInit, CppHolderStep, CppClosingStep, PTL DEF Cpp!Spec

-----------------------------------------------------------------------------
(* A task is in one place: once in the queue, or with one worker.          *)
CppUnique ==
  /\ \A j, k \in 1..Len(queue) : queue[j] = queue[k] => j = k
  /\ \A k \in 1..Len(queue) : \A w \in At("run") : queue[k] # task[w]
  /\ \A v, w \in At("run") : task[v] = task[w] => v = w

(* Most steps touch neither the queue nor a task in a worker's hands.      *)
CppAside == UNCHANGED <<queue, task, done>> /\ At("run")' = At("run")

LEMMA CppStepKinds ==
  ASSUME CppTypeInv, [Cpp!Next]_(Cpp!vars)
  PROVE  \/ \E p \in Producers, t \in Tasks : Cpp!Push(p, t)
         \/ \E w \in Slots : Cpp!TakeTask(w) \/ Cpp!EndTask(w)
         \/ CppAside
<1> USE SameThreads
    DEF Cpp!counters, Cpp!workers, Cpp!manager, Cpp!destructor, Cpp!history
<1>t. wpc \in [Slots -> Cpp!WorkerStates]
  BY CppTypes DEF CppTypeInv
<1>signal. ASSUME Cpp!Signal PROVE At("run")' = At("run")
  <2>1. "woken" \in Cpp!WorkerStates /\ SignalNotEmpty
    BY <1>signal, SameSteps DEF Cpp!WorkerStates
  <2> QED
    BY <1>t, <2>1, Signalled
<1>1. ASSUME NEW p \in Producers, Cpp!Call(p) \/ Cpp!Look(p) \/ Cpp!LockQueue(p) PROVE CppAside
  BY <1>1 DEF Cpp!Call, Cpp!Look, Cpp!LockQueue, CppAside, At
<1>2. ASSUME NEW p \in Producers, Cpp!SignalTask(p) PROVE CppAside
  BY <1>2, <1>signal DEF Cpp!SignalTask, CppAside
<1>3. ASSUME NEW w \in Slots, Cpp!Dies(w) \/ Cpp!Leaves(w) \/ Cpp!Waits(w) PROVE CppAside
  BY <1>3, <1>t DEF Cpp!Dies, Cpp!Leaves, Cpp!Waits, CppAside, At
<1>4. ASSUME NEW w \in Slots, Cpp!FindsEmpty(w) \/ Cpp!FindsShutdown(w) PROVE CppAside
  BY <1>4, <1>t DEF Cpp!FindsEmpty, Cpp!FindsShutdown, Cpp!Tests, CppAside, At
<1>5. CASE Cpp!Check \/ Cpp!ReadPool \/ Cpp!Shrink
  BY <1>5 DEF Cpp!Check, Cpp!ReadPool, Cpp!Shrink, CppAside, At
<1>6. CASE Cpp!Grow
  <2>1. \A i \in Filled : wpc[i] = "none"
    BY DEF Filled, At
  <2>2. \A i \in Slots : wpc'[i] = wpc[i] \/ (wpc[i] = "none" /\ wpc'[i] = "lock")
    BY <1>6, <1>t, <2>1, SameSteps DEF Cpp!Grow
  <2>3. At("run")' = At("run")
    BY <2>2 DEF At
  <2> QED
    BY <1>6, <2>3 DEF Cpp!Grow, CppAside
<1>7. CASE Cpp!SignalDismissal
  BY <1>7, <1>signal DEF Cpp!SignalDismissal, CppAside
<1>8. CASE Cpp!SetShutdown \/ Cpp!JoinManager \/ Cpp!LookAtEntry \/ Cpp!JoinEntry
           \/ UNCHANGED Cpp!vars
  BY <1>8 DEF Cpp!SetShutdown, Cpp!JoinManager, Cpp!LookAtEntry, Cpp!JoinEntry, Cpp!vars,
              CppAside, At
<1>9. CASE Cpp!Broadcast
  BY <1>9, <1>t DEF Cpp!Broadcast, CppAside, At
<1> QED
  BY <1>1, <1>2, <1>3, <1>4, <1>5, <1>6, <1>7, <1>8, <1>9
     DEF Cpp!Next, Cpp!Producer, Cpp!Worker, Cpp!Manager, Cpp!Destructor

(* What a worker that takes or ends a task does to the tasks being run.    *)
LEMMA CppTakes ==
  ASSUME CppTypeInv, NEW w \in Slots, Cpp!TakeTask(w)
  PROVE  /\ queue \in Seq(Tasks) /\ queue # <<>> /\ queue' = Tail(queue)
         /\ At("run")' = At("run") \cup {w} /\ w \notin At("run")
         /\ task'[w] = Head(queue) /\ \A v \in At("run") : task'[v] = task[v]
<1> USE SameThreads
<1>1. /\ wpc \in [Slots -> Cpp!WorkerStates] /\ task \in [Slots -> Tasks \cup {NoTask}]
      /\ queue \in Seq(Tasks)
  BY CppTypes DEF CppTypeInv
<1>2. /\ wpc' = [wpc EXCEPT ![w] = "run"] /\ (wpc[w] = "lock" \/ wpc[w] = "woken")
      /\ task' = [task EXCEPT ![w] = Head(queue)] /\ queue' = Tail(queue) /\ queue # <<>>
  BY DEF Cpp!TakeTask, Cpp!Tests
<1>3. At("run")' = At("run") \cup {w} /\ w \notin At("run")
  BY <1>1, <1>2 DEF At
<1> QED
  BY <1>1, <1>2, <1>3, AtFinite

LEMMA CppEnds ==
  ASSUME CppTypeInv, NEW w \in Slots, Cpp!EndTask(w)
  PROVE  /\ UNCHANGED queue /\ done' = done \cup {task[w]} /\ task[w] \in Tasks
         /\ At("run")' = At("run") \ {w} /\ w \in At("run")
         /\ \A v \in At("run") \ {w} : task'[v] = task[v]
<1> USE SameThreads
<1>1. /\ wpc \in [Slots -> Cpp!WorkerStates] /\ task \in [Slots -> Tasks \cup {NoTask}]
  BY CppTypes DEF CppTypeInv
<1>2. /\ wpc' = [wpc EXCEPT ![w] = "lock"] /\ wpc[w] = "run"
      /\ task' = [task EXCEPT ![w] = NoTask] /\ queue' = queue
      /\ done' = done \cup {task[w]}
  BY DEF Cpp!EndTask
<1>3. At("run")' = At("run") \ {w} /\ w \in At("run")
  BY <1>1, <1>2 DEF At
<1> QED
  BY <1>1, <1>2, <1>3, AtFinite DEF CppTypeInv

LEMMA CppUniqueInit == Cpp!Init => CppUnique
<1> SUFFICES ASSUME Cpp!Init PROVE CppUnique
  OBVIOUS
<1>1. 1..Len(queue) = {} /\ At("run") = {}
  BY SameThreads DEF Cpp!Init, At
<1> QED
  BY <1>1 DEF CppUnique

LEMMA CppUniqueStep == CppTypeInv /\ CppUnique /\ [Cpp!Next]_(Cpp!vars) => CppUnique'
<1> SUFFICES ASSUME CppTypeInv, CppUnique, [Cpp!Next]_(Cpp!vars) PROVE CppUnique'
  OBVIOUS
<1>t. queue \in Seq(Tasks)
  BY CppTypes DEF CppTypeInv
<1>1. ASSUME NEW p \in Producers, NEW t \in Tasks, Cpp!Push(p, t) PROVE CppUnique'
  <2>1. /\ queue' = Append(queue, t) /\ UNCHANGED <<wpc, task>>
        /\ t \notin {queue[k] : k \in DOMAIN queue} \cup {task[w] : w \in Slots}
    BY <1>1, SameThreads DEF Cpp!Push, Cpp!workers
  <2>2. /\ Len(queue') = Len(queue) + 1 /\ queue'[Len(queue) + 1] = t
        /\ \A k \in 1..Len(queue) : queue'[k] = queue[k] /\ queue[k] # t
    BY <1>t, <2>1
  <2>3. At("run")' = At("run") /\ \A w \in At("run") : task[w] # t
    BY <2>1, AtFinite DEF At
  <2>4. \A k \in 1..Len(queue') : k \in 1..Len(queue) \/ k = Len(queue) + 1
    BY <1>t, <2>2
  <2> QED
    BY <2>1, <2>2, <2>3, <2>4 DEF CppUnique
<1>2. ASSUME NEW w \in Slots, Cpp!TakeTask(w) PROVE CppUnique'
  <2>1. /\ queue # <<>> /\ queue' = Tail(queue)
        /\ At("run")' = At("run") \cup {w} /\ w \notin At("run")
        /\ task'[w] = Head(queue) /\ \A v \in At("run") : task'[v] = task[v]
    BY <1>2, CppTakes
  <2>2. /\ 1 \in 1..Len(queue) /\ Head(queue) = queue[1]
        /\ \A k \in 1..Len(queue') : k + 1 \in 1..Len(queue) /\ queue'[k] = queue[k + 1]
        /\ \A k \in 1..Len(queue') : k \in Nat /\ k + 1 # 1
    BY <1>t, <2>1
  <2>3. \A j, k \in 1..Len(queue') : queue'[j] = queue'[k] => j = k
    <3>1. \A j, k \in 1..Len(queue') : j + 1 = k + 1 => j = k
      BY <2>2
    <3> QED
      BY <2>2, <3>1 DEF CppUnique
  <2>4. \A k \in 1..Len(queue') : queue'[k] # task'[w]
    BY <2>1, <2>2 DEF CppUnique
  <2>5. \A k \in 1..Len(queue') : \A v \in At("run") : queue'[k] # task'[v]
    BY <2>1, <2>2 DEF CppUnique
  <2>6. \A v \in At("run") : task'[v] # task'[w]
    BY <2>1, <2>2 DEF CppUnique
  <2>7. \A u, v \in At("run") : task'[u] = task'[v] => u = v
    BY <2>1 DEF CppUnique
  <2> QED
    BY <2>1, <2>3, <2>4, <2>5, <2>6, <2>7 DEF CppUnique
<1>3. ASSUME NEW w \in Slots, Cpp!EndTask(w) PROVE CppUnique'
  BY <1>3, CppEnds DEF CppUnique
<1>4. CASE CppAside
  BY <1>4 DEF CppAside, CppUnique
<1> QED
  BY <1>1, <1>2, <1>3, <1>4, CppStepKinds

-----------------------------------------------------------------------------
(* Each step of the C++ pool is a step of TaskPool.  It is closed by       *)
(* whoever comes last of the destructor, which sets m_shutdown, and the    *)
(* producers who looked before.                                            *)
LEMMA CppClosedStep ==
  CppTypeInv /\ CppClosing /\ [Cpp!Next]_(Cpp!vars) => (Cpp!Closed => Cpp!Closed')
<1> SUFFICES ASSUME CppTypeInv, CppClosing, [Cpp!Next]_(Cpp!vars), Cpp!Closed
             PROVE  Cpp!Closed'
  OBVIOUS
<1> USE SameThreads
    DEF Cpp!counters, Cpp!workers, Cpp!manager, Cpp!destructor, Cpp!history
<1>t. ppc \in [Producers -> {"idle", "add", "lock", "push", "signal"}]
  BY CppTypes DEF CppTypeInv
<1>1. ASSUME NEW p \in Producers, Cpp!Call(p) \/ Cpp!Producer(p) PROVE Cpp!Closed'
  BY <1>1, <1>t
     DEF Cpp!Call, Cpp!Producer, Cpp!Look, Cpp!LockQueue, Cpp!Push, Cpp!SignalTask, Cpp!Closed
<1>2. ASSUME NEW w \in Slots, Cpp!Worker(w) \/ Cpp!Waits(w) PROVE Cpp!Closed'
  BY <1>2 DEF Cpp!Worker, Cpp!Waits, Cpp!Dies, Cpp!Leaves, Cpp!FindsEmpty,
              Cpp!FindsShutdown, Cpp!TakeTask, Cpp!Tests, Cpp!EndTask, Cpp!Closed
<1>3. CASE Cpp!Manager
  BY <1>3 DEF Cpp!Manager, Cpp!Check, Cpp!ReadPool, Cpp!Grow, Cpp!Shrink,
              Cpp!SignalDismissal, Cpp!Closed
<1>4. CASE Cpp!SetShutdown \/ Cpp!Destructor \/ UNCHANGED Cpp!vars
  BY <1>4 DEF Cpp!SetShutdown, Cpp!Destructor, Cpp!JoinManager, Cpp!Broadcast,
              Cpp!LookAtEntry, Cpp!JoinEntry, Cpp!vars, Cpp!Closed
<1> QED
  BY <1>1, <1>2, <1>3, <1>4 DEF Cpp!Next

LEMMA CppRefinementInit == Cpp!Init => Cpp!Abstract!Init
<1> SUFFICES ASSUME Cpp!Init PROVE Cpp!Abstract!Init
  OBVIOUS
<1>1. At("run") = {} /\ shutdown = FALSE /\ done = {} /\ queue = <<>>
  BY SameThreads DEF Cpp!Init, At
<1> QED
  BY <1>1, SameThreads DEF Cpp!Abstract!Init, Cpp!Running, Cpp!Closed

LEMMA CppRefinementStep ==
  CppTypeInv /\ CppUnique /\ CppClosing /\ [Cpp!Next]_(Cpp!vars)
    => [Cpp!Abstract!Next]_(Cpp!Abstract!vars)
<1> SUFFICES ASSUME CppTypeInv, CppUnique, CppClosing, [Cpp!Next]_(Cpp!vars)
             PROVE  [Cpp!Abstract!Next]_(Cpp!Abstract!vars)
  OBVIOUS
<1>t. queue \in Seq(Tasks)
  BY CppTypes DEF CppTypeInv
<1>c. Cpp!Closed => Cpp!Closed'
  BY CppClosedStep
<1>r. /\ Cpp!Running = {task[w] : w \in At("run")}
      /\ Cpp!Running' = {task'[w] : w \in At("run")'}
  BY SameThreads DEF Cpp!Running
<1>1. ASSUME NEW p \in Producers, NEW t \in Tasks, Cpp!Push(p, t)
      PROVE  Cpp!Abstract!Submit(t)
  <2>1. /\ queue' = Append(queue, t) /\ UNCHANGED <<wpc, task, done>> /\ ppc[p] = "push"
        /\ t \notin {queue[k] : k \in DOMAIN queue} \cup {task[w] : w \in Slots} \cup done
        /\ ppc' = [ppc EXCEPT ![p] = "signal"]
    BY <1>1, SameThreads DEF Cpp!Push, Cpp!workers, Cpp!history
  <2>2. Cpp!Running' = Cpp!Running /\ t \notin Cpp!Running
    BY <1>r, <2>1, AtFinite DEF At
  <2>3. ~Cpp!Closed /\ ~Cpp!Closed'
    <3>1. ppc'[p] = "signal"
      BY <2>1, CppTypes DEF CppTypeInv
    <3> QED
      BY <2>1, <3>1 DEF Cpp!Closed
  <2>4. t \notin Cpp!Abstract!Queued
    BY <1>t, <2>1 DEF Cpp!Abstract!Queued
  <2> QED
    BY <2>1, <2>2, <2>3, <2>4 DEF Cpp!Abstract!Submit, Cpp!Closed
<1>2. ASSUME NEW w \in Slots, Cpp!TakeTask(w) PROVE Cpp!Abstract!Start
  <2>1. /\ queue # <<>> /\ queue' = Tail(queue)
        /\ At("run")' = At("run") \cup {w}
        /\ task'[w] = Head(queue) /\ \A v \in At("run") : task'[v] = task[v]
    BY <1>2, CppTakes
  <2>2. Cpp!Running' = Cpp!Running \cup {Head(queue)}
    BY <1>r, <2>1
  <2>3. UNCHANGED <<done, shutdown, ppc>>
    BY <1>2 DEF Cpp!TakeTask, Cpp!Tests
  <2> QED
    BY <2>1, <2>2, <2>3 DEF Cpp!Abstract!Start, Cpp!Closed
<1>3. ASSUME NEW w \in Slots, Cpp!EndTask(w) PROVE \E t \in Tasks : Cpp!Abstract!Finish(t)
  <2>1. /\ UNCHANGED queue /\ done' = done \cup {task[w]} /\ task[w] \in Tasks
        /\ At("run")' = At("run") \ {w} /\ w \in At("run")
        /\ \A v \in At("run") \ {w} : task'[v] = task[v]
    BY <1>3, CppEnds
  <2>2. \A v \in At("run") \ {w} : task[v] # task[w]
    BY <2>1 DEF CppUnique
  <2>3. Cpp!Running' = Cpp!Running \ {task[w]} /\ task[w] \in Cpp!Running
    BY <1>r, <2>1, <2>2
  <2>4. UNCHANGED <<shutdown, ppc>>
    BY <1>3 DEF Cpp!EndTask
  <2>5. Cpp!Abstract!Finish(task[w])
    BY <2>1, <2>3, <2>4 DEF Cpp!Abstract!Finish, Cpp!Closed
  <2> QED
    BY <2>1, <2>5
<1>4. CASE CppAside
  <2>1. Cpp!Running' = Cpp!Running /\ UNCHANGED <<queue, done>>
    BY <1>4, <1>r DEF CppAside
  <2>2. CASE Cpp!Closed' = Cpp!Closed
    BY <2>1, <2>2 DEF Cpp!Abstract!vars
  <2>3. CASE ~Cpp!Closed /\ Cpp!Closed'
    BY <2>1, <2>3 DEF Cpp!Abstract!Next, Cpp!Abstract!Close
  <2> QED
    BY <1>c, <2>2, <2>3 DEF Cpp!Closed
<1> QED
  BY <1>1, <1>2, <1>3, <1>4, CppStepKinds DEF Cpp!Abstract!Next

(* The C++ pool implements TaskPool: tasks are started in the order they   *)
(* were queued in, each runs once, and none is queued when the pool is     *)
(* closed, although addTask looks at m_shutdown some time before it queues.*)
THEOREM CppRefinement == Cpp!Spec => Cpp!ImplementsTaskPool
BY CppTypeInit, CppTypeStep, CppUniqueInit, CppUniqueStep, CppHolderInit, CppClosingStep,
   CppRefinementInit, CppRefinementStep, PTL
   DEF Cpp!Spec, Cpp!ImplementsTaskPool, Cpp!Abstract!SafeSpec
===============================================================================
