------------------------------- MODULE Reactor -------------------------------
(***************************************************************************)
(* webserver_tac: the event loop (server/webserver.cpp), the connection    *)
(* objects (http/http_connect.cpp), the epoll instance and the worker      *)
(* threads, between the kernel's sockets and the clients.                  *)
(*                                                                         *)
(* The main thread fires timers, waits for events and hands each one to    *)
(* the pool; a worker reads, processes or writes and re-arms or closes the *)
(* descriptor.  EPOLLONESHOT is meant to give a connection to one thread   *)
(* at a time; only the timer breaks that rule, and `preempted' records it. *)
(*                                                                         *)
(* The pool is TaskPool (a queue started in order) and the timer is        *)
(* TimerMap without its clock: any armed timer may be due when tick runs.  *)
(***************************************************************************)
EXTENDS Integers, Sequences, FiniteSets

CONSTANTS
  Conns,         \* connections clients ever make
  NoConn,
  Fds,           \* descriptors free for connections (a set of numbers)
  NoFd,
  Workers,       \* the pool's threads
  Main,          \* the thread in WebServer::Start
  MaxUsers,      \* MAX_FD
  MaxPieces,     \* bound on what the clients send, in pieces (see `inbox')
  FileUnits,     \* bound on the length of a file, a header is one unit
  Threshold,     \* the 10240 bytes of HttpConn::write, in units
  Configs        \* the [listenET, connET, timeout] settings of WebServer

ASSUME MainIsNoWorker == Main \notin Workers
ASSUME NoneIsNone == NoConn \notin Conns /\ NoFd \notin Fds
ASSUME FdsFinite == IsFiniteSet(Fds)            \* a process has a limit of them
ASSUME BoundsAreNat == MaxPieces \in Nat /\ FileUnits \in Nat
ASSUME ConfigsAreSettings ==
  Configs \subseteq [listenET : BOOLEAN, connET : BOOLEAN, timeout : BOOLEAN]

VARIABLES
  conf,          \* trigMode and timeoutMS_ > 0, fixed by the constructor
  client,        \* each client: "new", "up", or "gone" (closed, or cut off)
  inbox,         \* pieces of requests the kernel holds for each connection
  sends,         \* pieces the clients may still send
  backlog,       \* connections the kernel completed and nobody accepted
  edge,          \* listenFd_: an arrival not reported since
  owner,         \* the connection behind each descriptor, NoConn when free
  interest,      \* epoll: "none" (not registered), "off" (disarmed), "in",
                 \* "out"
  phase,         \* main: "tick", "events" or "accept" (DealListen_'s loop)
  batch,         \* the epoll events main has not dealt with
  thr,           \* each thread's place in the code and the fd it works on
  tasks,         \* the pool's queue of OnRead_ and OnWrite_ calls
  timers,        \* descriptors with an armed timer
  isClose,       \* users_[fd].isClose_
  readBuff,      \* users_[fd].readBuff_: whose piece each one is
  resp,          \* users_[fd]: iov_[0] and iov_[1] lengths, iovCnt_, request
  keep,          \* users_[fd].request_.IsKeepAlive()
  userCount,     \* HttpConn::userCount
  got,           \* history: whose responses each client received
  full,          \* history: accept ever failed or a client was refused
  preempted      \* history: descriptors whose timer fired while they were in use

kernel == <<client, inbox, sends, backlog, edge>>
users == <<isClose, readBuff, resp, keep>>
history == <<got, full, preempted>>
vars == <<conf, kernel, owner, interest, phase, batch, thr, tasks, timers,
          users, userCount, history>>

Threads == Workers \cup {Main}
Idle == [pc |-> "idle", fd |-> NoFd]
Closing == {"del", "check", "mark", "close"}       \* inside CloseConn_
WorkerPlaces == {"read", "process", "rearmIn", "rearmOut", "write"}
Responses == [src : Conns \cup {NoConn}, h : 0..1, f : 0..FileUnits,
              cnt : 1..2]
Tasks == [pc : {"read", "write"}, fd : Fds]
Events == [kind : {"in", "out", "hup"}, fd : Fds] \cup {[kind |-> "listen"]}

(* The shape of the state, and that an idle thread holds no connection.   *)
TypeOK ==
  /\ conf \in Configs
  /\ client \in [Conns -> {"new", "up", "gone"}]
  /\ inbox \in [Conns -> Nat] /\ sends \in Nat
  /\ backlog \subseteq Conns /\ edge \in BOOLEAN
  /\ owner \in [Fds -> Conns \cup {NoConn}]
  /\ interest \in [Fds -> {"none", "off", "in", "out"}]
  /\ phase \in {"tick", "events", "accept"}
  /\ batch \subseteq Events
  /\ thr \in [Threads -> {Idle} \cup [pc : Closing \cup WorkerPlaces, fd : Fds]]
  /\ tasks \in Seq(Tasks)
  /\ timers \subseteq Fds
  /\ isClose \in [Fds -> BOOLEAN]
  /\ readBuff \in [Fds -> Seq(Conns)]
  /\ resp \in [Fds -> Responses] /\ keep \in [Fds -> BOOLEAN]
  /\ userCount \in Int
  /\ got \in [Conns -> SUBSET (Conns \cup {NoConn})] /\ full \in BOOLEAN
  /\ preempted \subseteq Fds

(* users_ creates a HttpConn on the first use of a descriptor; its iov_ is *)
(* not initialized, so iov_[1]'s length is whatever memory holds.          *)
Init ==
  /\ conf \in Configs
  /\ client = [c \in Conns |-> "new"]
  /\ inbox = [c \in Conns |-> 0] /\ sends = MaxPieces
  /\ backlog = {} /\ edge = FALSE
  /\ owner = [fd \in Fds |-> NoConn]
  /\ interest = [fd \in Fds |-> "none"]
  /\ phase = "tick" /\ batch = {}
  /\ thr = [t \in Threads |-> Idle]
  /\ tasks = <<>> /\ timers = {}
  /\ isClose = [fd \in Fds |-> TRUE]
  /\ readBuff = [fd \in Fds |-> <<>>]
  /\ \E garbage \in [Fds -> 0..FileUnits] :
       resp = [fd \in Fds |->
                [src |-> NoConn, h |-> 0, f |-> garbage[fd], cnt |-> 1]]
  /\ keep = [fd \in Fds |-> FALSE]
  /\ userCount = 0
  /\ got = [c \in Conns |-> {}] /\ full = FALSE
  /\ preempted = {}

At(t, place) == thr[t].pc = place
Goto(t, place) == thr' = [thr EXCEPT ![t].pc = place]
-----------------------------------------------------------------------------
(* Mutations of the definitions below, each a bug this code could have: no *)
(* EPOLLONESHOT, Close without its test, tick popping another timer than   *)
(* the one it called, init keeping the old buffers, EAGAIN re-arming for   *)
(* input, one accept per edge, no re-arming of a kept-alive connection     *)
(* that has no further request yet.                                        *)

NotOneShot(events) == UNCHANGED interest

CloseUnchecked(t) ==
  /\ At(t, "check")
  /\ Goto(t, "mark")
  /\ UNCHANGED <<conf, kernel, owner, interest, phase, batch, tasks, timers,
                 users, userCount, history>>

PopsFirst(t) ==
  IF phase = "tick" THEN timers \ {CHOOSE f \in timers : \A g \in timers : f <= g}
                    ELSE timers

InitKeepsBuffers(fd) ==
  /\ isClose' = [isClose EXCEPT ![fd] = FALSE]
  /\ UNCHANGED readBuff

AgainForInput == "rearmIn"

AcceptOnce == FALSE

StaysDisarmed(fd, way) == interest' = [interest EXCEPT ![fd] =
                            IF @ = "none" \/ way = "in" THEN @ ELSE way]

-----------------------------------------------------------------------------
(* A thread is back in its loop; which of its calls ended is the action's. *)
Done(t) == thr' = [thr EXCEPT ![t] = Idle]

-----------------------------------------------------------------------------
(* Clients and the kernel. *)

Reachable(c) == c \in backlog \/ \E fd \in Fds : owner[fd] = c

Connect(c) ==
  /\ client[c] = "new"
  /\ client' = [client EXCEPT ![c] = "up"]
  /\ backlog' = backlog \cup {c}
  /\ edge' = TRUE
  /\ UNCHANGED <<conf, inbox, sends, owner, interest, phase, batch, thr,
                 tasks, timers, users, userCount, history>>

Send(c) ==
  /\ client[c] = "up" /\ sends > 0 /\ Reachable(c)
  /\ inbox' = [inbox EXCEPT ![c] = @ + 1]
  /\ sends' = sends - 1
  /\ UNCHANGED <<conf, client, backlog, edge, owner, interest, phase, batch,
                 thr, tasks, timers, users, userCount, history>>

Hangup(c) ==
  /\ client[c] = "up"
  /\ client' = [client EXCEPT ![c] = "gone"]
  /\ UNCHANGED <<conf, inbox, sends, backlog, edge, owner, interest, phase,
                 batch, thr, tasks, timers, users, userCount, history>>

(* The last reference to a descriptor goes, and its registration with it;  *)
(* a client that is cut off sends nothing any more.                        *)
CloseFd(fd) ==
  /\ owner' = [owner EXCEPT ![fd] = NoConn]
  /\ interest' = [interest EXCEPT ![fd] = "none"]
  /\ client' = [c \in Conns |-> IF c = owner[fd] THEN "gone" ELSE client[c]]

-----------------------------------------------------------------------------
(* Main: the timers.  A callback is CloseConn_; the timer goes after it.   *)

(* No code tests this: it is what `preempted' records. *)
Busy(fd) ==
  \/ \E k \in DOMAIN tasks : tasks[k].fd = fd
  \/ \E w \in Workers : thr[w].fd = fd

TimerFires(fd) ==
  /\ phase = "tick" /\ thr[Main] = Idle /\ fd \in timers
  /\ thr' = [thr EXCEPT ![Main] = [pc |-> "del", fd |-> fd]]
  /\ preempted' = preempted \cup {f \in {fd} : Busy(f)}
  /\ UNCHANGED <<conf, kernel, owner, interest, phase, batch, tasks, timers,
                 users, userCount, got, full>>

(* CloseConn_ in any thread: DelFd, the test of isClose_ (UnmapFile, which *)
(* drops the file's mapping before it, is not modelled), the assignment    *)
(* with userCount--, and close(fd_).                                       *)
Popped(t) == IF phase = "tick" THEN timers \ {thr[t].fd} ELSE timers

EndClose(t) ==
  /\ Done(t)
  /\ timers' = IF t = Main THEN Popped(t) ELSE timers

CloseDel(t) ==
  /\ At(t, "del")
  /\ interest' = [interest EXCEPT ![thr[t].fd] = "none"]
  /\ Goto(t, "check")
  /\ UNCHANGED <<conf, kernel, owner, phase, batch, tasks, timers, users,
                 userCount, history>>

CloseCheck(t) ==
  /\ At(t, "check")
  /\ IF isClose[thr[t].fd] THEN EndClose(t)
                           ELSE Goto(t, "mark") /\ UNCHANGED timers
  /\ UNCHANGED <<conf, kernel, owner, interest, phase, batch, tasks, users,
                 userCount, history>>

CloseMark(t) ==
  /\ At(t, "mark")
  /\ isClose' = [isClose EXCEPT ![thr[t].fd] = TRUE]
  /\ userCount' = userCount - 1
  /\ Goto(t, "close")
  /\ UNCHANGED <<conf, kernel, owner, interest, phase, batch, tasks, timers,
                 readBuff, resp, keep, history>>

CloseClose(t) ==
  /\ At(t, "close")
  /\ CloseFd(thr[t].fd)
  /\ EndClose(t)
  /\ UNCHANGED <<conf, inbox, sends, backlog, edge, phase, batch, tasks,
                 users, userCount, history>>

-----------------------------------------------------------------------------
(* Main: epoll_wait and the dispatch of its events. *)

(* What epoll can report of an armed descriptor; the code looks at hang-up *)
(* before input and output.                                                *)
EventsOf(fd) ==
  LET c == owner[fd] IN
  IF interest[fd] \notin {"in", "out"} \/ c = NoConn THEN {}
  ELSE IF client[c] = "gone" THEN {[kind |-> "hup", fd |-> fd]}
  ELSE IF interest[fd] = "out" THEN {[kind |-> "out", fd |-> fd]}
  ELSE {[kind |-> "in", fd |-> f] : f \in {g \in {fd} : inbox[c] > 0}}

ListenReady == IF conf.listenET THEN edge ELSE backlog # {}

Ready == (UNION {EventsOf(fd) : fd \in Fds})
           \cup (IF ListenReady THEN {[kind |-> "listen"]} ELSE {})

Disarm(events) ==
  interest' = [fd \in Fds |-> IF \E e \in events : e.kind # "listen" /\ e.fd = fd
                              THEN "off" ELSE interest[fd]]

Wait ==
  /\ phase = "tick" /\ thr[Main] = Idle
  /\ \E events \in (SUBSET Ready) \ {{}} :
       /\ batch' = events
       /\ Disarm(events)
       /\ edge' = (edge /\ [kind |-> "listen"] \notin events)
  /\ phase' = "events"
  /\ UNCHANGED <<conf, client, inbox, sends, backlog, owner, thr, tasks,
                 timers, users, userCount, history>>

EventsDone ==
  /\ phase = "events" /\ thr[Main] = Idle /\ batch = {}
  /\ phase' = "tick"
  /\ UNCHANGED <<conf, kernel, owner, interest, batch, thr, tasks, timers,
                 users, userCount, history>>

Handling(e) ==
  /\ phase = "events" /\ thr[Main] = Idle /\ e \in batch
  /\ batch' = batch \ {e}

DealHup(e) ==
  /\ Handling(e) /\ e.kind = "hup"
  /\ thr' = [thr EXCEPT ![Main] = [pc |-> "del", fd |-> e.fd]]
  /\ UNCHANGED <<conf, kernel, owner, interest, phase, tasks, timers, users,
                 userCount, history>>

TaskFor(e) == [pc |-> IF e.kind = "in" THEN "read" ELSE "write", fd |-> e.fd]

(* DealRead_ and DealWrite_: ExtentTime_ (see TimerForEveryWatch), AddTask *)
DealReadWrite(e) ==
  /\ Handling(e) /\ e.kind \in {"in", "out"}
  /\ tasks' = Append(tasks, TaskFor(e))
  /\ UNCHANGED <<conf, kernel, owner, interest, phase, thr, timers, users,
                 userCount, history>>

DealListen_ ==
  /\ Handling([kind |-> "listen"])
  /\ phase' = "accept"
  /\ UNCHANGED <<conf, kernel, owner, interest, thr, tasks, timers, users,
                 userCount, history>>

-----------------------------------------------------------------------------
(* Main: one turn of DealListen_'s loop. *)

Free == {fd \in Fds : owner[fd] = NoConn}

(* accept returns an error: nobody is waiting, or no descriptor is left. *)
AcceptFails ==
  /\ phase = "accept" /\ (backlog = {} \/ Free = {})
  /\ phase' = "events"
  /\ full' = (full \/ backlog # {})
  /\ UNCHANGED <<conf, kernel, owner, interest, batch, thr, tasks, timers,
                 users, userCount, got, preempted>>

(* SendError_ and close; the loop is left, whoever else is waiting. *)
Refuse(c) ==
  /\ phase = "accept" /\ c \in backlog /\ Free # {} /\ userCount >= MaxUsers
  /\ backlog' = backlog \ {c}
  /\ client' = [client EXCEPT ![c] = "gone"]
  /\ phase' = "events"
  /\ full' = TRUE
  /\ UNCHANGED <<conf, inbox, sends, edge, owner, interest, batch, thr, tasks,
                 timers, users, userCount, got, preempted>>

AcceptAgain == conf.listenET             \* while (listenEvent_ & EPOLLET)

(* HttpConn::init; it leaves iov_ and request_ as they are.  Emptying      *)
(* writeBuff_ has no counterpart: of a response the state keeps what iov_  *)
(* says, and WriteSome sends what iov_ says.                               *)
InitConn(fd) ==
  /\ readBuff' = [readBuff EXCEPT ![fd] = <<>>]
  /\ isClose' = [isClose EXCEPT ![fd] = FALSE]

(* AddClient_: HttpConn::init, the timer, AddFd.  accept returns the       *)
(* lowest free descriptor.                                                 *)
AddClient_(c, fd) ==
  /\ phase = "accept" /\ c \in backlog /\ userCount < MaxUsers
  /\ fd \in Free /\ \A g \in Free : fd <= g
  /\ backlog' = backlog \ {c}
  /\ owner' = [owner EXCEPT ![fd] = c]
  /\ userCount' = userCount + 1
  /\ InitConn(fd)
  /\ timers' = IF conf.timeout THEN timers \cup {fd} ELSE timers
  /\ interest' = [interest EXCEPT ![fd] = "in"]
  /\ phase' = IF AcceptAgain THEN "accept" ELSE "events"
  /\ UNCHANGED <<conf, client, inbox, sends, edge, batch, thr, tasks, resp,
                 keep, history>>

-----------------------------------------------------------------------------
(* A worker. *)

Take(w) ==
  /\ thr[w] = Idle /\ tasks # <<>>
  /\ thr' = [thr EXCEPT ![w] = Head(tasks)]
  /\ tasks' = Tail(tasks)
  /\ UNCHANGED <<conf, kernel, owner, interest, phase, batch, timers, users,
                 userCount, history>>

(* HttpConn::read: one readv, or, edge-triggered, readv until it fails.    *)
(* Its last result decides: 0 (the client is gone) or an error other than  *)
(* EAGAIN closes the connection.                                           *)
ReadTo(w, n, place) ==
  LET fd == thr[w].fd
      c == owner[fd]
  IN
  /\ readBuff' = [readBuff EXCEPT ![fd] = @ \o [k \in 1..n |-> c]]
  /\ inbox' = [x \in Conns |-> IF x = c THEN inbox[x] - n ELSE inbox[x]]
  /\ Goto(w, place)

Read(w) ==
  /\ At(w, "read")
  /\ LET c == owner[thr[w].fd] IN
     \/ c = NoConn /\ ReadTo(w, 0, "del")                             \* EBADF
     \/ /\ c # NoConn /\ (conf.connET \/ inbox[c] = 0)
        /\ ReadTo(w, inbox[c], IF client[c] = "gone" THEN "del" ELSE "process")
     \/ /\ c # NoConn /\ ~conf.connET
        /\ \E n \in 1..inbox[c] : ReadTo(w, n, "process")
  /\ UNCHANGED <<conf, client, sends, backlog, edge, owner, interest, phase,
                 batch, tasks, timers, isClose, resp, keep, userCount, history>>

(* HttpConn::process with nothing to read *)
ProcessNothing(w) ==
  /\ At(w, "process") /\ readBuff[thr[w].fd] = <<>>
  /\ keep' = [keep EXCEPT ![thr[w].fd] = FALSE]            \* request_.Init()
  /\ Goto(w, "rearmIn")
  /\ UNCHANGED <<conf, kernel, owner, interest, phase, batch, tasks, timers,
                 isClose, readBuff, resp, userCount, history>>

(* parse takes some of the buffer, or rejects the request line, takes      *)
(* nothing and leaves no headers, so no keep-alive.                        *)
Parses(buffered, taken, alive) == taken <= buffered /\ (taken = 0 => ~alive)

(* Either way there is a response; one without a file leaves iov_[1] alone.*)
ProcessRequest(w, taken, alive, file) ==
  LET fd == thr[w].fd IN
  /\ At(w, "process") /\ readBuff[fd] # <<>>
  /\ Parses(Len(readBuff[fd]), taken, alive)
  /\ readBuff' = [readBuff EXCEPT ![fd] = SubSeq(@, taken + 1, Len(@))]
  /\ keep' = [keep EXCEPT ![fd] = alive]
  /\ resp' = [resp EXCEPT ![fd] =
                [src |-> readBuff[fd][1], h |-> 1,
                 f |-> IF file > 0 THEN file ELSE @.f,
                 cnt |-> IF file > 0 THEN 2 ELSE 1]]
  /\ Goto(w, "rearmOut")
  /\ UNCHANGED <<conf, kernel, owner, interest, phase, batch, tasks, timers,
                 isClose, userCount, history>>

(* ModFd fails when the descriptor is not registered (any more). *)
ModFd(fd, way) ==
  interest' = [interest EXCEPT ![fd] = IF @ = "none" THEN @ ELSE way]

Rearm(w) ==
  /\ At(w, "rearmIn") \/ At(w, "rearmOut")
  /\ ModFd(thr[w].fd, IF At(w, "rearmIn") THEN "in" ELSE "out")
  /\ Done(w)
  /\ UNCHANGED <<conf, kernel, owner, phase, batch, tasks, timers, users,
                 userCount, history>>

ToWriteBytes(fd) == resp[fd].h + resp[fd].f
Writable(fd) == resp[fd].h + (IF resp[fd].cnt = 2 THEN resp[fd].f ELSE 0)

(* OnWrite_ once HttpConn::write returned without an error. *)
AfterWrite(w, left) ==
  Goto(w, IF left = 0 /\ keep[thr[w].fd] THEN "process" ELSE "del")

WriteNothing(w) ==
  LET fd == thr[w].fd IN
  /\ At(w, "write") /\ ToWriteBytes(fd) = 0
  /\ AfterWrite(w, 0)
  /\ UNCHANGED <<conf, kernel, owner, interest, phase, batch, tasks, timers,
                 users, userCount, history>>

KeepWriting(left) == conf.connET \/ left > Threshold

(* One successful writev, of n units. *)
WriteSome(w, n) ==
  LET fd == thr[w].fd
      c == owner[fd]
      fromH == IF n < resp[fd].h THEN n ELSE resp[fd].h
      left == ToWriteBytes(fd) - n
  IN
  /\ At(w, "write") /\ c # NoConn /\ ToWriteBytes(fd) > 0
  /\ n <= Writable(fd) /\ (n = 0 => Writable(fd) = 0)
  /\ resp' = [resp EXCEPT ![fd].h = @ - fromH, ![fd].f = @ - (n - fromH)]
  /\ got' = [got EXCEPT ![c] = IF n > 0 THEN @ \cup {resp[fd].src} ELSE @]
  /\ IF n > 0 /\ KeepWriting(left) THEN UNCHANGED thr ELSE AfterWrite(w, left)
  /\ UNCHANGED <<conf, kernel, owner, interest, phase, batch, tasks, timers,
                 isClose, readBuff, keep, userCount, full, preempted>>

(* The socket's send buffer is full: EAGAIN. *)
AfterAgain == "rearmOut"

WriteAgain(w) ==
  LET fd == thr[w].fd IN
  /\ At(w, "write") /\ owner[fd] # NoConn /\ Writable(fd) > 0
  /\ Goto(w, AfterAgain)
  /\ UNCHANGED <<conf, kernel, owner, interest, phase, batch, tasks, timers,
                 users, userCount, history>>

(* Any other error: the descriptor is closed or its client is gone. *)
WriteFails(w) ==
  LET c == owner[thr[w].fd] IN
  /\ At(w, "write") /\ ToWriteBytes(thr[w].fd) > 0
  /\ c # NoConn => client[c] = "gone"
  /\ Goto(w, "del")
  /\ UNCHANGED <<conf, kernel, owner, interest, phase, batch, tasks, timers,
                 users, userCount, history>>

-----------------------------------------------------------------------------
Environment == \E c \in Conns : Connect(c) \/ Send(c) \/ Hangup(c)

CloseConn_(t) == CloseDel(t) \/ CloseCheck(t) \/ CloseMark(t) \/ CloseClose(t)

MainStep ==
  \/ Wait
  \/ EventsDone
  \/ \E e \in batch : DealHup(e) \/ DealReadWrite(e)
  \/ DealListen_
  \/ AcceptFails
  \/ \E c \in Conns : Refuse(c) \/ \E fd \in Fds : AddClient_(c, fd)
  \/ CloseConn_(Main)

WorkerStep(w) ==
  \/ Take(w)
  \/ Read(w)
  \/ ProcessNothing(w)
  \/ \E taken \in 0..MaxPieces, alive \in BOOLEAN, file \in 0..FileUnits :
       ProcessRequest(w, taken, alive, file)
  \/ Rearm(w)
  \/ WriteNothing(w)
  \/ \E n \in 0..(1 + FileUnits) : WriteSome(w, n)
  \/ WriteAgain(w)
  \/ WriteFails(w)
  \/ CloseConn_(w)

Next ==
  \/ Environment
  \/ \E fd \in Fds : TimerFires(fd)
  \/ MainStep
  \/ \E w \in Workers : WorkerStep(w)

Spec == Init /\ [][Next]_vars

(* epoll returns what is ready in turn, so an event that stays ready is    *)
(* delivered; main and the workers run.  Clients and timers owe nothing:   *)
(* nobody need send, hang up or take a response, so a socket that is full  *)
(* may stay full, and no "out" event is promised.                          *)
Delivers(e) == Wait /\ e \in batch'
DeliversInput(fd) ==
  \E kind \in {"in", "hup"} : Delivers([kind |-> kind, fd |-> fd])

Fairness ==
  /\ WF_vars(MainStep)
  /\ \A w \in Workers : WF_vars(WorkerStep(w))
  /\ SF_vars(Delivers([kind |-> "listen"]))
  /\ \A fd \in Fds : SF_vars(DeliversInput(fd))

FairSpec == Spec /\ Fairness

-----------------------------------------------------------------------------
(* A connection is in one pair of hands: armed in epoll, an event main has *)
(* not dealt with, a queued task, or a thread working on it.  None means   *)
(* the server forgot it, two that they race for its buffers.               *)
Queued(fd) == {k \in DOMAIN tasks : tasks[k].fd = fd}
UsedBy(fd) == {t \in Threads : thr[t].fd = fd}
Pending(fd) == {e \in batch : e.kind # "listen" /\ e.fd = fd}
Hands(fd) ==
  Cardinality(Queued(fd)) + Cardinality(UsedBy(fd)) + Cardinality(Pending(fd))
    + (IF interest[fd] \in {"in", "out"} /\ thr[Main].fd # fd THEN 1 ELSE 0)

OneOwner ==
  \A fd \in Fds \ preempted : owner[fd] # NoConn => Hands(fd) = 1

(* userCount counts the connections that are not closed, and a descriptor  *)
(* whose connection is closed is itself closed, or about to be.            *)
Accounted ==
  /\ preempted = {} => userCount = Cardinality({fd \in Fds : ~isClose[fd]})
  /\ \A fd \in Fds \ preempted :
       (owner[fd] # NoConn) <=>
         (~isClose[fd] \/ \E t \in Threads : thr[t] = [pc |-> "close", fd |-> fd])

(* No client receives a response to what another one asked. *)
NoCrosstalk ==
  \A fd \in Fds \ preempted :
    owner[fd] # NoConn => got[owner[fd]] \subseteq {owner[fd]}

(* adjust asserts that the timer exists: with timeouts on, a registered    *)
(* descriptor has one, also after its timer ran and its number was reused. *)
TimerForEveryWatch ==
  conf.timeout =>
    \A fd \in Fds : interest[fd] # "none" \/ Pending(fd) # {} => fd \in timers

(* The edge-triggered listener leaves nobody in the backlog unnoticed,     *)
(* unless it ran into a limit, when DealListen_ leaves early.              *)
NoStrandedBacklog ==
  backlog # {} /\ conf.listenET /\ ~full =>
    edge \/ phase = "accept" \/ [kind |-> "listen"] \in batch

(* A response is prepared only when the connection's last one is sent.     *)
NoOverwrite ==
  \A w \in Workers :
    At(w, "process") /\ thr[w].fd \notin preempted /\ readBuff[thr[w].fd] # <<>> =>
      Writable(thr[w].fd) = 0 \/ resp[thr[w].fd].src # owner[thr[w].fd]

(* What a client sends, also behind a request that is being answered, is   *)
(* read, or its connection is closed: every turn of a kept-alive           *)
(* connection ends re-armed, nobody who hung up is kept, and nobody waits  *)
(* in the backlog unless accept ran into a limit (see NoStrandedBacklog).  *)
(* While a response waits for the client to take it nothing is read.       *)
Answering(c) == \E fd \in Fds : owner[fd] = c /\ interest[fd] = "out"

RequestsAreRead ==
  \A c \in Conns :
    inbox[c] > 0 ~> \/ inbox[c] = 0 \/ ~Reachable(c) \/ Answering(c)
                    \/ c \in backlog /\ full
=============================================================================
