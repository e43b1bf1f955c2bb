----------------------------- MODULE HeapTimer ------------------------------
(***************************************************************************)
(* webserver_tac/code/timer/heaptimer.cpp: a binary heap of deadlines in a *)
(* vector (heap_), and a hash map from a timer's id to its place in it     *)
(* (ref_), driven by the event loop of WebServer::Start.                   *)
(*                                                                         *)
(* The timer is used by one thread.  Each iteration of a sifting loop is   *)
(* an action, because the clock moves on between any two reads of it.      *)
(***************************************************************************)
EXTENDS Integers

CONSTANTS
  Ids,           \* timer ids
  Callbacks,     \* TimeoutCallBack values
  Timeouts,      \* delays in milliseconds
  TicksPerMs,    \* clock ticks in a millisecond, see Ms
  Horizon        \* bound on the clock: nothing is armed beyond it

ASSUME TimeoutsArePositive == Timeouts \subseteq Nat \ {0}
ASSUME ClockResolution == TicksPerMs \in Nat \ {0}
ASSUME HorizonIsTime == Horizon \in Nat

VARIABLES
  heap,          \* heap_, a function on 0 .. size - 1
  size,          \* heap_.size()
  ref,           \* ref_: place of an id in heap_, or Absent
  now,           \* Clock::now()
  pc,            \* the loop being executed, see Places
  op,            \* on whose behalf: see Operations
  start, i, lim, \* the locals index (siftdown_), i and n of that loop
  arg,           \* add's id and cb while adjust runs on its behalf
  timeMS,        \* what GetNextTick returned to Start
  wake,          \* when the epoll_wait with that timeout gives up
  called         \* history: the callback the operation in progress called

timer == <<heap, size, ref>>
cursor == <<start, i, lim>>
loop == <<timeMS, wake>>
vars == <<timer, now, pc, op, cursor, arg, loop, called>>

Absent == -1
NoArg == [id |-> -1, cb |-> "none"]
NothingCalled == [id |-> -1, cb |-> "none", by |-> "none"]

(* handle: Start deals with events (the only state add and adjust are      *)
(* called in); tick: the head of tick's loop; next: GetNextTick after      *)
(* tick; wait: in epoll_wait.  The others are inside the named function.   *)
Places == {"handle", "siftup", "siftdown", "setcb", "erase", "tick", "next",
           "wait"}
Operations == {"none", "add", "readd", "adjust", "clock", "request"}

Deleting == op \in {"clock", "request"}       \* inside del_
Nodes == [id : Ids, expires : Int, cb : Callbacks]

(* The shape of the state: heap_ has size nodes, ref_ maps ids to places.  *)
TypeOK ==
  /\ size \in Nat
  /\ heap \in [0..(size - 1) -> Nodes]
  /\ ref \in [Ids -> Nat \cup {Absent}]
  /\ now \in 0..Horizon
  /\ pc \in Places /\ op \in Operations
  /\ start \in Nat /\ i \in Nat /\ lim \in Nat
  /\ arg \in [id : Ids, cb : Callbacks] \cup {NoArg}
  /\ timeMS \in Int /\ wake \in Int

Init ==
  /\ heap = [k \in 0..-1 |-> 0] /\ size = 0
  /\ ref = [id \in Ids |-> Absent]
  /\ now = 0
  /\ pc = "handle" /\ op = "none"
  /\ start = 0 /\ i = 0 /\ lim = 0
  /\ arg = NoArg
  /\ timeMS = -1 /\ wake = 0
  /\ called = NothingCalled

-----------------------------------------------------------------------------
(* Mutations of the definitions below, each a bug this code could have:    *)
(* the second position is not recorded, the moved node is not followed,    *)
(* and due means a millisecond early.                                      *)

SwapNodeForgetsJ(a, b) ==
  /\ heap' = [heap EXCEPT ![a] = heap[b], ![b] = heap[a]]
  /\ ref' = [ref EXCEPT ![heap[b].id] = a]
  /\ UNCHANGED size

SiftDownStays(child) ==
  /\ heap' = [heap EXCEPT ![i] = heap[child], ![child] = heap[i]]
  /\ ref' = [ref EXCEPT ![heap[child].id] = i, ![heap[i].id] = child]
  /\ UNCHANGED <<size, i>>

DueEarly == heap[0].expires - now <= TicksPerMs

-----------------------------------------------------------------------------
Present(id) == ref[id] # Absent
Parent(k) == (k - 1) \div 2
Earlier(a, b) == heap[a].expires < heap[b].expires     \* operator<

Deadline(ms) == now + ms * TicksPerMs

(* duration_cast to milliseconds, which truncates toward zero. *)
Ms(d) == IF d >= 0 THEN d \div TicksPerMs ELSE -((-d) \div TicksPerMs)

SwapNode_(a, b) ==
  /\ heap' = [heap EXCEPT ![a] = heap[b], ![b] = heap[a]]
  /\ ref' = [ref EXCEPT ![heap[b].id] = a, ![heap[a].id] = b]
  /\ UNCHANGED size

Enter(place, first, n) ==
  /\ pc' = place
  /\ start' = first /\ i' = first /\ lim' = n

Leave(place) ==
  /\ pc' = place
  /\ start' = 0 /\ i' = 0 /\ lim' = 0

-----------------------------------------------------------------------------
(* siftup_: the test is the code's, heap_[j] < heap_[i]. *)
SiftUpContinues == i > 0 /\ Earlier(Parent(i), i)

SiftUpSwap ==
  /\ pc = "siftup" /\ SiftUpContinues
  /\ SwapNode_(i, Parent(i))
  /\ i' = Parent(i)
  /\ UNCHANGED <<now, pc, op, start, lim, arg, loop, called>>

SiftUpDone ==
  /\ pc = "siftup" /\ ~SiftUpContinues
  /\ Leave(IF Deleting THEN "erase" ELSE "handle")
  /\ op' = IF Deleting THEN op ELSE "none"
  /\ UNCHANGED <<timer, now, arg, loop, called>>

(* siftdown_ compares i with its smaller child. *)
Child == LET j == 2 * i + 1
         IN  IF j + 1 < lim /\ Earlier(j + 1, j) THEN j + 1 ELSE j
SiftDownContinues == 2 * i + 1 < lim /\ ~Earlier(i, Child)

(* SwapNode_, then i = j *)
SiftDownStep(child) == SwapNode_(i, child) /\ i' = child

SiftDownSwap ==
  /\ pc = "siftdown" /\ SiftDownContinues
  /\ SiftDownStep(Child)
  /\ UNCHANGED <<now, pc, op, start, lim, arg, loop, called>>

(* del_ sifts up a node that siftdown_ did not move; add sets the callback *)
(* after adjust.                                                           *)
SiftDownDone ==
  /\ pc = "siftdown" /\ ~SiftDownContinues
  /\ \/ Deleting /\ i > start /\ Leave("erase") /\ UNCHANGED op
     \/ Deleting /\ i = start /\ Enter("siftup", start, 0) /\ UNCHANGED op
     \/ op = "readd" /\ Leave("setcb") /\ UNCHANGED op
     \/ op = "adjust" /\ Leave("handle") /\ op' = "none"
  /\ UNCHANGED <<timer, now, arg, loop, called>>

SetCb ==
  /\ pc = "setcb"
  /\ heap' = [heap EXCEPT ![ref[arg.id]].cb = arg.cb]
  /\ arg' = NoArg
  /\ pc' = "handle" /\ op' = "none"
  /\ UNCHANGED <<size, ref, now, cursor, loop, called>>

(* del_(k), up to the removal of the last node *)
StartDelete(k) ==
  IF k < size - 1
  THEN SwapNode_(k, size - 1) /\ Enter("siftdown", k, size - 1)
  ELSE pc' = "erase" /\ UNCHANGED <<timer, cursor>>

Erase ==
  /\ pc = "erase"
  /\ ref' = [ref EXCEPT ![heap[size - 1].id] = Absent]
  /\ heap' = [k \in 0..(size - 2) |-> heap[k]]
  /\ size' = size - 1
  /\ pc' = IF op = "clock" THEN "tick" ELSE "handle"
  /\ op' = "none"
  /\ UNCHANGED <<now, cursor, arg, loop, called>>

-----------------------------------------------------------------------------
(* The operations Start's event handlers call. *)

AddNew(id, ms, cb) ==
  /\ pc = "handle" /\ ~Present(id) /\ Deadline(ms) <= Horizon
  /\ heap' = [k \in 0..size |->
               IF k = size THEN [id |-> id, expires |-> Deadline(ms), cb |-> cb]
                           ELSE heap[k]]
  /\ size' = size + 1
  /\ ref' = [ref EXCEPT ![id] = size]
  /\ Enter("siftup", size, 0)
  /\ op' = "add"
  /\ called' = NothingCalled
  /\ UNCHANGED <<now, arg, loop>>

(* adjust's first line, shared by adjust and by add of a present id *)
SetDeadline(id, ms) ==
  /\ Present(id) /\ Deadline(ms) <= Horizon
  /\ heap' = [heap EXCEPT ![ref[id]].expires = Deadline(ms)]
  /\ Enter("siftdown", ref[id], size)
  /\ UNCHANGED <<size, ref>>

AddPresent(id, ms, cb) ==
  /\ pc = "handle"
  /\ SetDeadline(id, ms)
  /\ arg' = [id |-> id, cb |-> cb]
  /\ op' = "readd"
  /\ called' = NothingCalled
  /\ UNCHANGED <<now, loop>>

(* The caller keeps adjust's precondition ref_.count(id) > 0. *)
Adjust(id, ms) ==
  /\ pc = "handle"
  /\ SetDeadline(id, ms)
  /\ op' = "adjust"
  /\ called' = NothingCalled
  /\ UNCHANGED <<now, arg, loop>>

CallBack(node, by) == called' = [id |-> node.id, cb |-> node.cb, by |-> by]

(* doWork returns at once when the id is absent. *)
DoWork(id) ==
  /\ pc = "handle" /\ Present(id)
  /\ CallBack(heap[ref[id]], "request")
  /\ StartDelete(ref[id])
  /\ op' = "request"
  /\ UNCHANGED <<now, arg, loop>>

Clear ==
  /\ pc = "handle"
  /\ ref' = [id \in Ids |-> Absent]
  /\ heap' = [k \in 0..-1 |-> 0] /\ size' = 0
  /\ called' = NothingCalled
  /\ UNCHANGED <<now, pc, op, cursor, arg, loop>>

-----------------------------------------------------------------------------
(* The event loop: GetNextTick, then epoll_wait with what it returned. *)

GetNextTick ==
  /\ pc = "handle"
  /\ pc' = "tick"
  /\ UNCHANGED <<timer, now, op, cursor, arg, loop, called>>

RootIsDue == Ms(heap[0].expires - now) <= 0

TickPop ==
  /\ pc = "tick" /\ size > 0 /\ RootIsDue
  /\ CallBack(heap[0], "clock")
  /\ StartDelete(0)
  /\ op' = "clock"
  /\ UNCHANGED <<now, arg, loop>>

TickEnds ==
  /\ pc = "tick" /\ (size > 0 => ~RootIsDue)
  /\ pc' = "next"
  /\ UNCHANGED <<timer, now, op, cursor, arg, loop, called>>

(* res is a size_t, so `res < 0' is never true and a negative remainder is *)
(* returned as it is (the conversion to int gives the same negative int).  *)
NextTick == IF size > 0 THEN Ms(heap[0].expires - now) ELSE -1

Wait ==
  /\ pc = "next"
  /\ timeMS' = NextTick
  /\ wake' = now + NextTick * TicksPerMs
  /\ pc' = "wait"
  /\ UNCHANGED <<timer, now, op, cursor, arg, called>>

WaitReturns ==
  /\ pc = "wait"
  /\ pc' = "handle"
  /\ timeMS' = -1 /\ wake' = 0                 \* neither is read again
  /\ UNCHANGED <<timer, now, op, cursor, arg, called>>

(* epoll_wait's time is up; with a negative timeout it never is. *)
WaitTimesOut == timeMS >= 0 /\ now >= wake /\ WaitReturns

Advance ==
  /\ now < Horizon
  /\ now' = now + 1
  /\ called' = NothingCalled
  /\ UNCHANGED <<timer, pc, op, cursor, arg, loop>>

Sift == SiftUpSwap \/ SiftUpDone \/ SiftDownSwap \/ SiftDownDone
Run == Sift \/ SetCb \/ Erase \/ GetNextTick \/ TickPop \/ TickEnds \/ Wait

Handle ==
  \E id \in Ids :
    \/ \E ms \in Timeouts, cb \in Callbacks :
         AddNew(id, ms, cb) \/ AddPresent(id, ms, cb)
    \/ \E ms \in Timeouts : Adjust(id, ms)
    \/ DoWork(id)

Next == Run \/ Handle \/ Clear \/ WaitReturns \/ Advance

(* Time passes, the server's thread runs, and an epoll_wait returns when   *)
(* its timeout is over.  Events need not happen.                           *)
Fairness == WF_vars(Run) /\ WF_vars(WaitTimesOut) /\ WF_vars(Advance)

SafeSpec == Init /\ [][Next]_vars
Spec == SafeSpec /\ Fairness

-----------------------------------------------------------------------------
(* ref_ and heap_ agree whenever anybody looks, in the middle of a sifting *)
(* loop too: SwapNode_, push, erase and pop keep the two in step.          *)
RefConsistent ==
  /\ \A k \in 0..(size - 1) : ref[heap[k].id] = k
  /\ \A id \in Ids : Present(id) => ref[id] < size /\ heap[ref[id]].id = id

(* The armed timers: del_ has moved the node it removes to the end. *)
Live == 0..(IF Deleting THEN size - 2 ELSE size - 1)
Armed == {heap[k].id : k \in Live}

TimerOf(id) ==
  [expires |-> heap[ref[id]].expires,
   cb |-> IF op = "readd" /\ arg.id = id THEN arg.cb ELSE heap[ref[id]].cb]

ArmedTimers == [id \in Armed |-> TimerOf(id)]

(* Sifting loses, duplicates and alters no timer; the clock calls nothing  *)
(* before its deadline, and always the callback of the last add.           *)
Abstract == INSTANCE TimerMap WITH timers <- ArmedTimers
ImplementsTimerMap == Abstract!Spec

(* epoll_wait cannot time out although a timer is armed. *)
Blocked == pc = "wait" /\ timeMS < 0 /\ size > 0

(* Every timer is called in the end, once nothing is armed or extended any *)
(* more (the horizon ends that): no sifting loop runs forever, no timer is *)
(* forgotten, and epoll_wait always comes back, unless it is Blocked.      *)
EveryTimerFires ==
  \A id \in Ids : (id \in Armed) ~> (id \notin Armed \/ Blocked)

(* "Remove the timed-out nodes": when tick returns, none is left that was  *)
(* due at its last look at the clock.                                      *)
TickRemovesTimedOut ==
  [][TickEnds => \A k \in 0..(size - 1) : Ms(heap[k].expires - now) > 0]_vars
=============================================================================
