------------------------------ MODULE TimerMap ------------------------------
(***************************************************************************)
(* What the web server's timer promises its caller: a set of timers, each  *)
(* with a deadline and a callback.  Arming a timer twice replaces its      *)
(* deadline and callback, the clock calls a callback only once its         *)
(* deadline is due, and each arming is called at most once.                *)
(***************************************************************************)
EXTENDS Integers

CONSTANTS
  Ids,           \* what identifies a timer (the server uses descriptors)
  Callbacks,     \* the functions a timer may call
  Timeouts,      \* the delays the caller asks for, in milliseconds
  TicksPerMs,    \* resolution of the clock
  Horizon        \* bound on the clock: no timer is armed beyond it

VARIABLES
  timers,        \* the armed timers: id -> [expires, cb]
  now,           \* the clock
  called         \* the callback the last step called, and on whose account

vars == <<timers, now, called>>

NothingCalled == [id |-> -1, cb |-> "none", by |-> "none"]

Put(id, t) ==
  [x \in DOMAIN timers \cup {id} |-> IF x = id THEN t ELSE timers[x]]

Init ==
  /\ timers = [x \in {} |-> 0]
  /\ now = 0
  /\ called = NothingCalled

Arm(id, ms, cb) ==
  /\ timers' = Put(id, [expires |-> now + ms * TicksPerMs, cb |-> cb])
  /\ called' = NothingCalled
  /\ UNCHANGED now

Extend(id, ms) ==
  /\ id \in DOMAIN timers
  /\ timers' = [timers EXCEPT ![id].expires = now + ms * TicksPerMs]
  /\ called' = NothingCalled
  /\ UNCHANGED now

(* Less than a millisecond is left, or none. *)
Due(id) == timers[id].expires - now < TicksPerMs

Call(id, by) ==
  /\ id \in DOMAIN timers
  /\ by = "clock" => Due(id)
  /\ called' = [id |-> id, cb |-> timers[id].cb, by |-> by]
  /\ timers' = [x \in DOMAIN timers \ {id} |-> timers[x]]
  /\ UNCHANGED now

ClearAll ==
  /\ timers' = [x \in {} |-> 0]
  /\ called' = NothingCalled
  /\ UNCHANGED now

Advance ==
  /\ now < Horizon
  /\ now' = now + 1
  /\ called' = NothingCalled
  /\ UNCHANGED timers

Next ==
  \/ \E id \in Ids, ms \in Timeouts :
       Extend(id, ms) \/ \E cb \in Callbacks : Arm(id, ms, cb)
  \/ \E id \in Ids, by \in {"clock", "request"} : Call(id, by)
  \/ ClearAll
  \/ Advance

Spec == Init /\ [][Next]_vars
=============================================================================
