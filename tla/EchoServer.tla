------------------------------ MODULE EchoServer ------------------------------
(***************************************************************************)
(* socket_server/server.cpp: main accepts clients and submits work(cfd) to *)
(* the pool for each; work reads and echoes until the client is gone, so a *)
(* client holds a worker for as long as it stays.  The sockets block: also  *)
(* write does, when a client that stays does not read.  And SIGPIPE is not *)
(* ignored: writing to a client that is gone may end the whole process.    *)
(*                                                                         *)
(* A client is its descriptor and the pool's task.  Data is counted in     *)
(* pieces; what is sent after the server closed is left out.               *)
(***************************************************************************)
EXTENDS ThreadPoolCpp11

CONSTANTS
  MaxPieces,     \* bound on what the kernel holds of one client's data
  BufSize        \* sizeof(buf), in pieces

ASSUME BoundsArePositive == MaxPieces \in Nat \ {0} /\ BufSize \in Nat \ {0}

Clients == Tasks

VARIABLES
  conn,          \* each client: "new", "backlog", "open" (accepted), "closed"
  gone,          \* it has closed or reset the connection
  unread,        \* pieces it has sent that are not echoed yet
  full,          \* what was echoed fills the buffers on the way to it
  listening      \* main is in its loop, lfd is open

sockets == <<conn, gone, unread, full>>
vars == <<pool, sockets, listening>>

Init ==
  /\ PoolInit
  /\ conn = [c \in Clients |-> "new"] /\ gone = [c \in Clients |-> FALSE]
  /\ unread = [c \in Clients |-> 0] /\ full = [c \in Clients |-> FALSE]
  /\ listening = TRUE
-----------------------------------------------------------------------------
(* A mutation: work that keeps reading when read returns 0. *)
NeverEnds(c) == FALSE
-----------------------------------------------------------------------------
(* Clients. *)

Connect(c) ==
  /\ conn[c] = "new" /\ listening
  /\ conn' = [conn EXCEPT ![c] = "backlog"]
  /\ UNCHANGED <<pool, gone, unread, full, listening>>

Send(c) ==
  /\ conn[c] \in {"backlog", "open"} /\ ~gone[c] /\ unread[c] < MaxPieces
  /\ unread' = [unread EXCEPT ![c] = @ + 1]
  /\ UNCHANGED <<pool, conn, gone, full, listening>>

Receive(c) ==
  /\ full[c] /\ ~gone[c]
  /\ full' = [full EXCEPT ![c] = FALSE]
  /\ UNCHANGED <<pool, conn, gone, unread, listening>>

Hangup(c) ==
  /\ conn[c] \in {"backlog", "open"} /\ ~gone[c]
  /\ gone' = [gone EXCEPT ![c] = TRUE]
  /\ full' = [full EXCEPT ![c] = FALSE]
  /\ UNCHANGED <<pool, conn, unread, listening>>
-----------------------------------------------------------------------------
(* main *)

(* These connections are closed; what they carried counts no more. *)
Forget(cs) ==
  /\ conn' = [c \in Clients |-> IF c \in cs THEN "closed" ELSE conn[c]]
  /\ gone' = [c \in Clients |-> gone[c] \/ c \in cs]
  /\ unread' = [c \in Clients |-> IF c \in cs THEN 0 ELSE unread[c]]
  /\ full' = [c \in Clients |-> full[c] /\ c \notin cs]

(* accept and submit, up to the notification. *)
Accept(c) ==
  /\ listening /\ conn[c] = "backlog"
  /\ conn' = [conn EXCEPT ![c] = "open"]
  /\ Enqueue(c)
  /\ UNCHANGED <<gone, unread, full, listening>>

Notify == NotifyOne /\ UNCHANGED <<sockets, listening>>

(* accept fails for a reason of its own: lfd is closed, which resets the   *)
(* connections of the backlog.                                             *)
AcceptFails ==
  /\ listening /\ spc = "idle"
  /\ listening' = FALSE
  /\ Forget({c \in Clients : conn[c] = "backlog"})
  /\ UNCHANGED pool

(* main returns, which destroys the pool. *)
Return == ~listening /\ SetShutdown /\ UNCHANGED <<sockets, listening>>

Destroy == Destructor /\ UNCHANGED <<sockets, listening>>
-----------------------------------------------------------------------------
(* work, run by worker w for client task[w] *)

(* read, and write for a client that stays, which waits for room.  What    *)
(* work has read and not written yet counts as unread.                     *)
Echo(w) ==
  LET c == task[w]
  IN  /\ wpc[w] = "run" /\ unread[c] > 0 /\ ~full[c] /\ ~gone[c]
      /\ unread' = [unread EXCEPT ![c] = IF @ > BufSize THEN @ - BufSize ELSE 0]
      /\ \E b \in BOOLEAN : full' = [full EXCEPT ![c] = b]
      /\ UNCHANGED <<pool, conn, gone, listening>>

(* write for a client that is gone, which may not be known yet; an error   *)
(* is not looked at, SIGPIPE ends the process.                             *)
EchoToGone(w) ==
  LET c == task[w]
  IN  /\ wpc[w] = "run" /\ unread[c] > 0 /\ gone[c]
      /\ unread' = [unread EXCEPT ![c] = IF @ > BufSize THEN @ - BufSize ELSE 0]
      /\ UNCHANGED <<pool, conn, gone, full, listening>>

Killed(w) ==
  /\ wpc[w] = "run" /\ unread[task[w]] > 0 /\ gone[task[w]]
  /\ Forget({c \in Clients : conn[c] # "new"})
  /\ queue' = <<>> /\ wpc' = [v \in Workers |-> "exit"]
  /\ spc' = "idle" /\ dpc' = "killed" /\ listening' = FALSE
  /\ UNCHANGED <<shutdown, task, passedOver, missed>>

(* read returns 0, once all is read, or fails, at any time after a reset. *)
Ends(c) == gone[c]

Close(w) ==
  /\ wpc[w] = "run" /\ Ends(task[w])
  /\ Forget({task[w]})
  /\ TaskReturns(w)
  /\ UNCHANGED listening

Work(w) == Echo(w) \/ EchoToGone(w) \/ Killed(w) \/ Close(w)
-----------------------------------------------------------------------------
Quiet == UNCHANGED <<sockets, listening>>
PoolWorker(w) == WorkerStep(w) /\ Quiet
Sleeps(w) == WaitBegins(w) /\ Quiet

Next ==
  \/ \E c \in Clients : Connect(c) \/ Send(c) \/ Receive(c) \/ Hangup(c) \/ Accept(c)
  \/ Notify \/ AcceptFails \/ Return \/ Destroy
  \/ \E w \in Workers :
       PoolWorker(w) \/ Sleeps(w) \/ (SpuriousWakeup(w) /\ Quiet) \/ Work(w)

(* Main accepts whoever is in the backlog, and threads that can run do;    *)
(* clients owe nothing, not even to read, and accept need not fail.        *)
Fairness ==
  /\ \A c \in Clients : WF_vars(Accept(c))
  /\ WF_vars(Notify) /\ WF_vars(Return) /\ WF_vars(Destroy)
  /\ \A w \in Workers : SF_vars(PoolWorker(w)) /\ WF_vars(Sleeps(w)) /\ WF_vars(Work(w))

Spec == Init /\ [][Next]_vars /\ Fairness
-----------------------------------------------------------------------------
TypeOK ==
  /\ PoolTypeOK
  /\ conn \in [Clients -> {"new", "backlog", "open", "closed"}]
  /\ gone \in [Clients -> BOOLEAN]
  /\ unread \in [Clients -> 0..MaxPieces] /\ full \in [Clients -> BOOLEAN]
  /\ listening \in BOOLEAN

(* Who holds a client's descriptor: a place in the queue, or a worker in   *)
(* work for it.                                                            *)
Places(c) == {<<"queue", k>> : k \in {i \in DOMAIN queue : queue[i] = c}}
               \cup {<<"worker", w>> : w \in {v \in At("run") : task[v] = c}}

(* Each open descriptor is held once, from the moment it is accepted, and  *)
(* a closed one by nobody: no worker reads from or closes a descriptor     *)
(* that is not its own any more, though its variable task still names it.  *)
OneHolder ==
  \A c \in Clients : Cardinality(Places(c)) = (IF conn[c] = "open" THEN 1 ELSE 0)

Serving(w) == wpc[w] = "run" /\ ~gone[task[w]]

(* A client that stays and reads has all it sent echoed again and again,   *)
(* or sends without end and some of it echoed without end; unless a        *)
(* notification was lost, clients that stay hold all the workers, accept   *)
(* failed, or SIGPIPE ended the process on account of a client that did    *)
(* not stay.                                                               *)
EveryClientAnswered ==
  \A c \in Clients :
    \/ []<>(\/ unread[c] = 0 \/ gone[c] \/ full[c]
            \/ passedOver \/ (\A w \in Workers : Serving(w)) \/ ~listening)
    \/ []<><<unread'[c] < unread[c]>>_vars

(* Once accept has failed the server ends, unless a worker began its wait  *)
(* after the only notification: it never waits but for clients that stay.  *)
ServerEnds ==
  ~listening ~>
    \/ dpc \in {"gone", "killed"} \/ missed
    \/ dpc = "join" /\ \A w \in Workers : wpc[w] = "exit" \/ Serving(w)
=============================================================================
