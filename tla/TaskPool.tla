------------------------------ MODULE TaskPool ------------------------------
(***************************************************************************)
(* What a thread pool promises the code that submits work to it, with no   *)
(* threads, locks or condition variables: a task that was submitted is     *)
(* started in submission order, runs once, and is not lost when the pool   *)
(* is closed.  WebThreadPool is shown to implement this, and ThreadPoolC   *)
(* and ThreadPoolCpp its safety part.                                      *)
(***************************************************************************)
EXTENDS Naturals, Sequences

CONSTANT Tasks            \* the tasks that may ever be submitted

VARIABLES
  queue,                  \* submitted tasks, oldest first
  running,                \* tasks being executed
  finished,               \* tasks whose function has returned
  closed                  \* no more tasks are accepted

vars == <<queue, running, finished, closed>>

Queued == {queue[i] : i \in 1..Len(queue)}

Init ==
  /\ queue = <<>>
  /\ running = {}
  /\ finished = {}
  /\ closed = FALSE

Submit(t) ==
  /\ ~closed
  /\ t \notin Queued \cup running \cup finished
  /\ queue' = Append(queue, t)
  /\ UNCHANGED <<running, finished, closed>>

Start ==
  /\ queue # <<>>
  /\ running' = running \cup {Head(queue)}
  /\ queue' = Tail(queue)
  /\ UNCHANGED <<finished, closed>>

Finish(t) ==
  /\ t \in running
  /\ running' = running \ {t}
  /\ finished' = finished \cup {t}
  /\ UNCHANGED <<queue, closed>>

Close ==
  /\ ~closed
  /\ closed' = TRUE
  /\ UNCHANGED <<queue, running, finished>>

Next == (\E t \in Tasks : Submit(t) \/ Finish(t)) \/ Start \/ Close

SafeSpec == Init /\ [][Next]_vars

(* Tasks terminate, and a queued task is eventually started. *)
Spec == SafeSpec /\ WF_vars(Start) /\ \A t \in Tasks : WF_vars(Finish(t))
=============================================================================
