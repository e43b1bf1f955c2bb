---------------------------- MODULE ReactorProofs ----------------------------
(***************************************************************************)
(* Proofs about Reactor, for any number of connections, descriptors and    *)
(* workers, both trigger modes of the listener and the connections, and    *)
(* timers on or off: its safety invariants.                                *)
(***************************************************************************)
EXTENDS Reactor, TLAPS, FiniteSetTheorems

-----------------------------------------------------------------------------
(* The main thread: it deals with the events of one epoll_wait, then goes  *)
(* back to its timers; it accepts with nothing else in hand; and from      *)
(* DelFd on the descriptor it closes is not registered, whatever a worker  *)
(* does.                                                                   *)
MainLoop ==
  /\ thr[Main] = Idle \/ thr[Main].pc \in Closing
  /\ phase = "tick" => batch = {}
  /\ phase = "accept" => thr[Main] = Idle
  /\ thr[Main].pc \in {"check", "mark", "close"} => interest[thr[Main].fd] = "none"

-----------------------------------------------------------------------------
(* Where a descriptor can be.  In each of these places it is in one pair   *)
(* of hands, or in nobody's when it is free; only main's timer may still   *)
(* look at a free one.                                                     *)
Open(fd) == owner[fd] # NoConn /\ ~isClose[fd]

Unused(fd) ==
  /\ owner[fd] = NoConn /\ isClose[fd] /\ interest[fd] = "none"
  /\ Queued(fd) = {} /\ Pending(fd) = {} /\ UsedBy(fd) \subseteq {Main}
  /\ thr[Main].fd = fd => thr[Main].pc \in {"del", "check"}

InEpoll(fd) ==
  /\ Open(fd) /\ interest[fd] \in {"in", "out"}
  /\ Queued(fd) = {} /\ Pending(fd) = {} /\ UsedBy(fd) = {}

InBatch(fd) ==
  /\ Open(fd) /\ interest[fd] = "off"
  /\ Queued(fd) = {} /\ UsedBy(fd) = {}
  /\ \E e \in Events : Pending(fd) = {e}

InQueue(fd) ==
  /\ Open(fd) /\ interest[fd] = "off"
  /\ Pending(fd) = {} /\ UsedBy(fd) = {}
  /\ \E k \in DOMAIN tasks : Queued(fd) = {k}

InThread(fd) ==
  /\ owner[fd] # NoConn /\ Queued(fd) = {} /\ Pending(fd) = {}
  /\ \E t \in Threads :
       /\ UsedBy(fd) = {t}
       /\ isClose[fd] <=> thr[t].pc = "close"
       /\ thr[t].pc \in WorkerPlaces => interest[fd] = "off"
       /\ thr[t].pc = "del" =>
            interest[fd] = "off" \/ (t = Main /\ interest[fd] \in {"in", "out"})
       /\ thr[t].pc \in {"check", "mark", "close"} => interest[fd] = "none"

Placed(fd) == Unused(fd) \/ InEpoll(fd) \/ InBatch(fd) \/ InQueue(fd) \/ InThread(fd)

AllPlaced == \A fd \in Fds \ preempted : Placed(fd)

OpenFds == {fd \in Fds : ~isClose[fd]}
Counted == preempted = {} => userCount = Cardinality(OpenFds)

-----------------------------------------------------------------------------
(* Which side of its connection a descriptor is on: waiting for a request  *)
(* or sending a response.                                                  *)
Reading(fd) ==
  \/ interest[fd] = "in"
  \/ [kind |-> "in", fd |-> fd] \in batch
  \/ \E k \in Queued(fd) : tasks[k].pc = "read"
  \/ \E t \in UsedBy(fd) : thr[t].pc \in {"read", "process", "rearmIn"}

Writing(fd) ==
  \/ interest[fd] = "out"
  \/ [kind |-> "out", fd |-> fd] \in batch
  \/ \E k \in Queued(fd) : tasks[k].pc = "write"
  \/ \E t \in UsedBy(fd) : thr[t].pc \in {"write", "rearmOut"}

(* A connection has one descriptor, and none before it is accepted; until  *)
(* then nothing in the server is about it.                                 *)
Fresh(c) ==
  /\ got[c] = {}
  /\ \A fd \in Fds : /\ owner[fd] # c /\ resp[fd].src # c
                     /\ \A k \in 1..Len(readBuff[fd]) : readBuff[fd][k] # c

Distinct ==
  /\ \A f, g \in Fds : owner[f] = owner[g] /\ owner[f] # NoConn => f = g
  /\ \A c \in Conns : client[c] = "new" \/ c \in backlog => Fresh(c)
  /\ \A c \in backlog : client[c] # "new"

(* What a descriptor's object holds is its connection's: the requests      *)
(* read, the response being sent, which is sent whole before the next      *)
(* request is read.                                                        *)
OwnData(fd) ==
  /\ \A k \in 1..Len(readBuff[fd]) : readBuff[fd][k] = owner[fd]
  /\ Writing(fd) => resp[fd].src = owner[fd]
  /\ Reading(fd) => Writable(fd) = 0 \/ resp[fd].src # owner[fd]
  /\ got[owner[fd]] \subseteq {owner[fd]}

Separate == \A fd \in Fds \ preempted : owner[fd] # NoConn => OwnData(fd)

-----------------------------------------------------------------------------
(* Threads: what Goto and Done make of one, and what an idle one is. *)
Working == [pc : Closing \cup WorkerPlaces, fd : Fds]

LEMMA ThreadFields ==
  ASSUME TypeOK, NEW t \in Threads
  PROVE  /\ thr[t] = Idle \/ thr[t] \in Working
         /\ thr[t].pc = "idle" <=> thr[t] = Idle
         /\ thr[t].fd \in Fds <=> thr[t] \in Working
         /\ thr[t] = [pc |-> thr[t].pc, fd |-> thr[t].fd]
BY NoneIsNone DEF TypeOK, Working, Idle, Closing, WorkerPlaces

LEMMA Goes ==
  ASSUME TypeOK, NEW t \in Threads, NEW place \in Closing \cup WorkerPlaces,
         thr[t].pc # "idle", Goto(t, place)
  PROVE  /\ thr' \in [Threads -> {Idle} \cup Working]
         /\ thr'[t] = [pc |-> place, fd |-> thr[t].fd] /\ thr[t].fd \in Fds
         /\ \A u \in Threads : u # t => thr'[u] = thr[u]
<1>1. thr[t] \in Working
  BY ThreadFields
<1> QED
  BY <1>1 DEF TypeOK, Working, Goto

LEMMA Stops ==
  ASSUME TypeOK, NEW t \in Threads, Done(t)
  PROVE  /\ thr' \in [Threads -> {Idle} \cup Working]
         /\ thr'[t] = Idle
         /\ \A u \in Threads : u # t => thr'[u] = thr[u]
BY DEF TypeOK, Working, Done

-----------------------------------------------------------------------------
LEMMA TypeInit == Init => TypeOK
<1> SUFFICES ASSUME Init PROVE TypeOK
  OBVIOUS
<1>1. resp \in [Fds -> Responses]
  <2>1. PICK garbage \in [Fds -> 0..FileUnits] :
          resp = [fd \in Fds |->
                   [src |-> NoConn, h |-> 0, f |-> garbage[fd], cnt |-> 1]]
    BY DEF Init
  <2>2. ASSUME NEW n \in 0..FileUnits
        PROVE  [src |-> NoConn, h |-> 0, f |-> n, cnt |-> 1] \in Responses
    BY DEF Responses
  <2> QED
    BY <2>1, <2>2
<1>2. thr \in [Threads -> {Idle} \cup Working]
  BY DEF Init
<1>3. /\ inbox \in [Conns -> Nat] /\ sends \in Nat
      /\ readBuff \in [Fds -> Seq(Conns)] /\ tasks \in Seq(Tasks)
  BY BoundsAreNat DEF Init
<1>4. /\ conf \in Configs /\ client \in [Conns -> {"new", "up", "gone"}]
      /\ owner \in [Fds -> Conns \cup {NoConn}]
      /\ interest \in [Fds -> {"none", "off", "in", "out"}]
      /\ isClose \in [Fds -> BOOLEAN] /\ keep \in [Fds -> BOOLEAN]
      /\ got \in [Conns -> SUBSET (Conns \cup {NoConn})]
  BY DEF Init
<1>5. /\ backlog = {} /\ edge = FALSE /\ phase = "tick" /\ batch = {} /\ timers = {}
      /\ userCount = 0 /\ full = FALSE /\ preempted = {}
  BY DEF Init
<1>6. /\ backlog \subseteq Conns /\ edge \in BOOLEAN /\ timers \subseteq Fds
      /\ phase \in {"tick", "events", "accept"} /\ batch \subseteq Events
      /\ full \in BOOLEAN /\ preempted \subseteq Fds
  BY <1>5, Zenon
<1>7. userCount \in Int
  BY <1>5
<1> QED
  BY <1>1, <1>2, <1>3, <1>4, <1>6, <1>7 DEF TypeOK, Working

LEMMA TypeConnect == ASSUME TypeOK, NEW c \in Conns, Connect(c) PROVE TypeOK'
BY DEF TypeOK, Connect, users, history

LEMMA TypeSend == ASSUME TypeOK, NEW c \in Conns, Send(c) PROVE TypeOK'
<1>1. inbox' \in [Conns -> Nat] /\ sends' \in Nat
  BY DEF TypeOK, Send
<1> QED
  BY <1>1 DEF TypeOK, Send, users, history

LEMMA TypeHangup == ASSUME TypeOK, NEW c \in Conns, Hangup(c) PROVE TypeOK'
BY DEF TypeOK, Hangup, users, history

LEMMA TypeTimer == ASSUME TypeOK, NEW fd \in Fds, TimerFires(fd) PROVE TypeOK'
<1>1. thr' \in [Threads -> {Idle} \cup Working]
  BY DEF TypeOK, TimerFires, Working, Closing
<1> QED
  BY <1>1 DEF TypeOK, TimerFires, Working, kernel, users

LEMMA TypeClose ==
  ASSUME TypeOK, NEW t \in Threads, CloseConn_(t)
  PROVE  TypeOK'
<1>1. thr[t].pc # "idle" /\ thr[t].fd \in Fds
  BY ThreadFields DEF CloseConn_, CloseDel, CloseCheck, CloseMark, CloseClose, At
<1>2. CASE CloseDel(t)
  <2>1. thr' \in [Threads -> {Idle} \cup Working]
    BY <1>1, <1>2, Goes DEF CloseDel, Closing
  <2> QED
    BY <2>1, <1>1, <1>2 DEF TypeOK, CloseDel, Working, kernel, users, history
<1>3. CASE CloseCheck(t)
  <2>1. thr' \in [Threads -> {Idle} \cup Working]
    BY <1>1, <1>3, Goes, Stops DEF CloseCheck, EndClose, Closing
  <2>2. timers' \subseteq Fds
    BY <1>3 DEF TypeOK, CloseCheck, EndClose, Popped
  <2> QED
    BY <2>1, <2>2, <1>1, <1>3 DEF TypeOK, CloseCheck, Working, kernel, users, history
<1>4. CASE CloseMark(t)
  <2>1. thr' \in [Threads -> {Idle} \cup Working]
    BY <1>1, <1>4, Goes DEF CloseMark, Closing
  <2> QED
    BY <2>1, <1>1, <1>4 DEF TypeOK, CloseMark, Working, kernel, history
<1>5. CASE CloseClose(t)
  <2>1. thr' \in [Threads -> {Idle} \cup Working] /\ timers' \subseteq Fds
    BY <1>5, Stops DEF CloseClose, EndClose, TypeOK, Popped
  <2>2. /\ owner' \in [Fds -> Conns \cup {NoConn}]
        /\ interest' \in [Fds -> {"none", "off", "in", "out"}]
        /\ client' \in [Conns -> {"new", "up", "gone"}]
    BY <1>5 DEF CloseClose, CloseFd, TypeOK
  <2> QED
    BY <2>1, <2>2, <1>1, <1>5 DEF TypeOK, CloseClose, Working, users, history
<1> QED
  BY <1>2, <1>3, <1>4, <1>5 DEF CloseConn_

LEMMA ReadyEvents == TypeOK => Ready \subseteq Events
<1> SUFFICES ASSUME TypeOK PROVE Ready \subseteq Events
  OBVIOUS
<1>1. ASSUME NEW fd \in Fds PROVE EventsOf(fd) \subseteq Events
  BY DEF EventsOf, Events
<1>2. [kind |-> "listen"] \in Events
  BY DEF Events
<1> QED
  BY <1>1, <1>2 DEF Ready

LEMMA TypeWait == ASSUME TypeOK, Wait PROVE TypeOK'
<1>1. batch' \subseteq Events /\ edge' \in BOOLEAN
  BY ReadyEvents DEF Wait, TypeOK
<1>2. interest' \in [Fds -> {"none", "off", "in", "out"}]
  BY DEF Wait, TypeOK, Disarm
<1> QED
  BY <1>1, <1>2 DEF TypeOK, Wait, users, history

LEMMA TypeDispatch ==
  ASSUME TypeOK, EventsDone \/ DealListen_ \/ \E e \in batch : DealHup(e) \/ DealReadWrite(e)
  PROVE  TypeOK'
<1>1. CASE EventsDone
  BY <1>1 DEF TypeOK, EventsDone, kernel, users, history
<1>2. CASE DealListen_
  BY <1>2 DEF TypeOK, DealListen_, Handling, kernel, users, history
<1>3. ASSUME NEW e \in batch, DealHup(e) PROVE TypeOK'
  <2>1. e.fd \in Fds
    BY <1>3 DEF DealHup, TypeOK, Events
  <2>2. thr' \in [Threads -> {Idle} \cup Working]
    BY <1>3, <2>1 DEF TypeOK, DealHup, Working, Closing
  <2> QED
    BY <1>3, <2>2 DEF TypeOK, DealHup, Handling, Working, kernel, users, history
<1>4. ASSUME NEW e \in batch, DealReadWrite(e) PROVE TypeOK'
  <2>1. e.fd \in Fds
    BY <1>4 DEF DealReadWrite, TypeOK, Events
  <2>2. TaskFor(e) \in Tasks
    BY <2>1 DEF TaskFor, Tasks
  <2>3. tasks' \in Seq(Tasks)
    BY <1>4, <2>2 DEF DealReadWrite, TypeOK
  <2> QED
    BY <1>4, <2>3 DEF TypeOK, DealReadWrite, Handling, kernel, users, history
<1> QED
  BY <1>1, <1>2, <1>3, <1>4

LEMMA TypeAccept ==
  ASSUME TypeOK,
         \/ AcceptFails
         \/ \E c \in Conns : Refuse(c) \/ \E fd \in Fds : AddClient_(c, fd)
  PROVE  TypeOK'
<1>1. CASE AcceptFails
  BY <1>1 DEF TypeOK, AcceptFails, kernel, users
<1>2. ASSUME NEW c \in Conns, Refuse(c) PROVE TypeOK'
  BY <1>2 DEF TypeOK, Refuse, users
<1>3. ASSUME NEW c \in Conns, NEW fd \in Fds, AddClient_(c, fd) PROVE TypeOK'
  <2>1. timers' \subseteq Fds /\ phase' \in {"tick", "events", "accept"}
    BY <1>3 DEF TypeOK, AddClient_
  <2>2. readBuff' \in [Fds -> Seq(Conns)] /\ isClose' \in [Fds -> BOOLEAN]
    BY <1>3 DEF TypeOK, AddClient_, InitConn
  <2>3. /\ owner' \in [Fds -> Conns \cup {NoConn}] /\ userCount' \in Int
        /\ interest' \in [Fds -> {"none", "off", "in", "out"}]
    BY <1>3 DEF TypeOK, AddClient_
  <2> QED
    BY <1>3, <2>1, <2>2, <2>3 DEF TypeOK, AddClient_, history
<1> QED
  BY <1>1, <1>2, <1>3

(* What a worker's step is, in terms of the two ways a thread moves. *)
LEMMA TypeTake == ASSUME TypeOK, NEW w \in Workers, Take(w) PROVE TypeOK'
<1>1. Head(tasks) \in Tasks /\ tasks' \in Seq(Tasks)
  BY DEF TypeOK, Take
<1>2. Head(tasks) \in Working
  BY <1>1 DEF Tasks, Working, WorkerPlaces
<1>3. thr' \in [Threads -> {Idle} \cup Working]
  BY <1>2 DEF TypeOK, Take, Working
<1> QED
  BY <1>1, <1>3 DEF TypeOK, Take, Working, kernel, users, history

LEMMA TypeReadTo ==
  ASSUME TypeOK, NEW w \in Workers, At(w, "read"), NEW n \in Nat,
         NEW place \in {"del", "process"}, ReadTo(w, n, place),
         IF owner[thr[w].fd] = NoConn THEN n = 0 ELSE n <= inbox[owner[thr[w].fd]]
  PROVE  /\ thr' \in [Threads -> {Idle} \cup Working]
         /\ readBuff' \in [Fds -> Seq(Conns)] /\ inbox' \in [Conns -> Nat]
<1> DEFINE fd == thr[w].fd
           c == owner[fd]
           new == [k \in 1..n |-> c]
<1>1. fd \in Fds /\ thr[w].pc # "idle"
  BY ThreadFields DEF At, Threads
<1>2. thr' \in [Threads -> {Idle} \cup Working]
  BY <1>1, Goes DEF ReadTo, Threads, Closing, WorkerPlaces
<1>3. new \in Seq(Conns)
  <2>1. CASE n = 0
    <3>1. new = <<>>
      BY <2>1
    <3> QED
      BY <3>1
  <2>2. CASE n # 0
    BY <2>2, <1>1 DEF TypeOK
  <2> QED
    BY <2>1, <2>2
<1>4. readBuff[fd] \in Seq(Conns)
  BY <1>1 DEF TypeOK
<1>5. readBuff[fd] \o new \in Seq(Conns)
  BY <1>3, <1>4
<1>6. readBuff' \in [Fds -> Seq(Conns)]
  <2> HIDE DEF new
  <2>1. readBuff' = [readBuff EXCEPT ![fd] = readBuff[fd] \o new]
    BY DEF ReadTo, new
  <2> QED
    BY <2>1, <1>5 DEF TypeOK
<1>7. inbox' \in [Conns -> Nat]
  <2>1. inbox' = [x \in Conns |-> IF x = c THEN inbox[x] - n ELSE inbox[x]]
    BY DEF ReadTo
  <2>2. ASSUME NEW x \in Conns PROVE (IF x = c THEN inbox[x] - n ELSE inbox[x]) \in Nat
    BY NoneIsNone DEF TypeOK
  <2> QED
    BY <2>1, <2>2
<1> QED
  BY <1>2, <1>6, <1>7

LEMMA ReadsTo ==
  ASSUME TypeOK, NEW w \in Workers, Read(w)
  PROVE  \E n \in Nat, place \in {"del", "process"} :
           /\ ReadTo(w, n, place)
           /\ IF owner[thr[w].fd] = NoConn THEN n = 0 /\ place = "del"
                                           ELSE n <= inbox[owner[thr[w].fd]]
<1> DEFINE c == owner[thr[w].fd]
<1>1. thr[w].fd \in Fds
  BY ThreadFields DEF Read, At, Threads
<1>2. c = NoConn \/ (c \in Conns /\ inbox[c] \in Nat)
  BY <1>1 DEF TypeOK
<1>3. CASE c = NoConn
  BY <1>3 DEF Read
<1>4. CASE c # NoConn
  <2>1. CASE ReadTo(w, inbox[c], IF client[c] = "gone" THEN "del" ELSE "process")
    BY <1>2, <1>4, <2>1
  <2>2. CASE \E n \in 1..inbox[c] : ReadTo(w, n, "process")
    BY <1>2, <1>4, <2>2
  <2> QED
    BY <1>4, <2>1, <2>2 DEF Read
<1> QED
  BY <1>3, <1>4

LEMMA TypeRead == ASSUME TypeOK, NEW w \in Workers, Read(w) PROVE TypeOK'
<1>1. PICK n \in Nat, place \in {"del", "process"} :
         /\ ReadTo(w, n, place)
         /\ IF owner[thr[w].fd] = NoConn THEN n = 0 /\ place = "del"
                                         ELSE n <= inbox[owner[thr[w].fd]]
  BY ReadsTo
<1>2. /\ thr' \in [Threads -> {Idle} \cup Working]
      /\ readBuff' \in [Fds -> Seq(Conns)] /\ inbox' \in [Conns -> Nat]
  BY <1>1, TypeReadTo DEF Read
<1> QED
  BY <1>2 DEF TypeOK, Read, Working, history

LEMMA TypeProcess ==
  ASSUME TypeOK, NEW w \in Workers,
         \/ ProcessNothing(w)
         \/ \E taken \in 0..MaxPieces, alive \in BOOLEAN, file \in 0..FileUnits :
              ProcessRequest(w, taken, alive, file)
  PROVE  TypeOK'
<1>1. CASE ProcessNothing(w)
  <2>1. thr' \in [Threads -> {Idle} \cup Working]
    BY <1>1, Goes DEF ProcessNothing, At, Threads, WorkerPlaces
  <2> QED
    BY <1>1, <2>1 DEF TypeOK, ProcessNothing, Working, kernel, history
<1>2. ASSUME NEW taken \in 0..MaxPieces, NEW alive \in BOOLEAN, NEW file \in 0..FileUnits,
             ProcessRequest(w, taken, alive, file)
      PROVE  TypeOK'
  <2> DEFINE fd == thr[w].fd
  <2>1. thr' \in [Threads -> {Idle} \cup Working] /\ fd \in Fds
    BY <1>2, Goes DEF ProcessRequest, At, Threads, WorkerPlaces
  <2>2. readBuff[fd] \in Seq(Conns) /\ readBuff[fd] # <<>>
    BY <1>2, <2>1 DEF TypeOK, ProcessRequest
  <2>3. readBuff[fd][1] \in Conns
    BY <2>2
  <2>4. SubSeq(readBuff[fd], taken + 1, Len(readBuff[fd])) \in Seq(Conns)
    BY SMTT(40), <2>2, BoundsAreNat
  <2>5. readBuff' \in [Fds -> Seq(Conns)]
    BY <1>2, <2>1, <2>4 DEF TypeOK, ProcessRequest
  <2>6. resp' \in [Fds -> Responses]
    <3> DEFINE new == [src |-> readBuff[fd][1], h |-> 1,
                       f |-> IF file > 0 THEN file ELSE resp[fd].f,
                       cnt |-> IF file > 0 THEN 2 ELSE 1]
    <3>1. resp[fd].f \in 0..FileUnits
      BY <2>1 DEF TypeOK, Responses
    <3>2. new \in Responses
      BY <2>3, <3>1 DEF Responses
    <3> QED
      BY <1>2, <2>1, <3>2 DEF TypeOK, ProcessRequest
  <2> QED
    BY <1>2, <2>1, <2>5, <2>6 DEF TypeOK, ProcessRequest, Working, kernel, history
<1> QED
  BY <1>1, <1>2

LEMMA TypeRearm == ASSUME TypeOK, NEW w \in Workers, Rearm(w) PROVE TypeOK'
<1>1. thr' \in [Threads -> {Idle} \cup Working]
  BY Stops DEF Rearm, ModFd, Threads
<1>2. interest' \in [Fds -> {"none", "off", "in", "out"}]
  BY DEF Rearm, ModFd, TypeOK
<1> QED
  BY <1>1, <1>2 DEF TypeOK, Rearm, Working, kernel, users, history

LEMMA TypeWrite ==
  ASSUME TypeOK, NEW w \in Workers,
         WriteNothing(w) \/ WriteAgain(w) \/ WriteFails(w)
  PROVE  TypeOK'
<1>1. At(w, "write") /\ \E place \in {"rearmOut", "process", "del"} : Goto(w, place)
  BY DEF WriteNothing, WriteAgain, WriteFails, AfterWrite, AfterAgain
<1>2. thr' \in [Threads -> {Idle} \cup Working]
  BY <1>1, Goes DEF At, Threads, Closing, WorkerPlaces
<1>3. /\ UNCHANGED <<conf, kernel, owner, interest, phase, batch, tasks, timers>>
      /\ UNCHANGED <<users, userCount, history>>
  BY DEF WriteNothing, WriteAgain, WriteFails
<1> QED
  BY <1>2, <1>3 DEF TypeOK, Working, kernel, users, history

(* What one writev leaves of a response. *)
LEMMA WritesSome ==
  ASSUME TypeOK, NEW w \in Workers, NEW n \in 0..(1 + FileUnits), WriteSome(w, n),
         NEW fd \in Fds, thr[w].fd = fd
  PROVE  /\ owner[fd] \in Conns
         /\ resp' \in [Fds -> Responses] /\ resp'[fd].src = resp[fd].src
         /\ \A f \in Fds : f # fd => resp'[f] = resp[f]
         /\ ToWriteBytes(fd) - n = 0 => Writable(fd)' = 0
         /\ thr' = thr \/ AfterWrite(w, ToWriteBytes(fd) - n)
<1> DEFINE r == resp[fd]
           fromH == IF n < r.h THEN n ELSE r.h
           h2 == r.h - fromH
           f2 == r.f - (n - fromH)
<1>2. owner[fd] \in Conns
  BY DEF WriteSome, TypeOK
<1>3. r \in Responses
  BY DEF TypeOK
<1>4. /\ r.h \in 0..1 /\ r.f \in 0..FileUnits /\ r.cnt \in 1..2 /\ n \in Nat
      /\ r.src \in Conns \cup {NoConn} /\ FileUnits \in Nat
  BY <1>3, BoundsAreNat DEF Responses
<1>5. n <= r.h + (IF r.cnt = 2 THEN r.f ELSE 0)
  BY DEF WriteSome, Writable
<1>6. h2 \in 0..1 /\ f2 \in 0..FileUnits
  <2> HIDE DEF r
  <2> QED
    BY <1>4, <1>5
<1>7. [r EXCEPT !.h = h2, !.f = f2] \in Responses
  <2> HIDE DEF h2, f2
  <2> QED
    BY <1>3, <1>6 DEF Responses
<1>8. resp' = [resp EXCEPT ![fd] = [r EXCEPT !.h = h2, !.f = f2]]
  BY DEF WriteSome
<1>9. /\ resp' \in [Fds -> Responses]
      /\ resp'[fd] = [r EXCEPT !.h = h2, !.f = f2]
      /\ \A f \in Fds : f # fd => resp'[f] = resp[f]
  <2> HIDE DEF r, h2, f2
  <2> QED
    BY <1>7, <1>8 DEF TypeOK
<1>10. /\ resp'[fd].h = h2 /\ resp'[fd].f = f2
       /\ resp'[fd].src = r.src /\ resp'[fd].cnt = r.cnt
  <2> HIDE DEF h2, f2, r
  <2> QED
    BY <1>3, <1>9 DEF Responses
<1>11. ASSUME ToWriteBytes(fd) - n = 0 PROVE Writable(fd)' = 0
  <2>1. r.h + r.f = n
    BY <1>4, <1>11 DEF ToWriteBytes
  <2>2. h2 = 0 /\ f2 = 0
    <3> HIDE DEF r
    <3> QED
      BY <1>4, <1>5, <2>1
  <2> QED
    BY <2>2, <1>10 DEF Writable
<1>12. thr' = thr \/ AfterWrite(w, ToWriteBytes(fd) - n)
  BY SMTT(40) DEF WriteSome
<1> QED
  BY <1>2, <1>9, <1>10, <1>11, <1>12

LEMMA TypeWriteSome ==
  ASSUME TypeOK, NEW w \in Workers, NEW n \in 0..(1 + FileUnits), WriteSome(w, n)
  PROVE  TypeOK'
<1>1. thr[w].fd \in Fds /\ thr[w].pc # "idle"
  BY ThreadFields DEF WriteSome, At, Threads
<1>2. /\ owner[thr[w].fd] \in Conns /\ resp' \in [Fds -> Responses]
      /\ thr' = thr \/ AfterWrite(w, ToWriteBytes(thr[w].fd) - n)
  BY <1>1, WritesSome
<1>3. thr' \in [Threads -> {Idle} \cup Working]
  <2>1. CASE thr' = thr
    BY <2>1 DEF TypeOK, Working
  <2>2. CASE AfterWrite(w, ToWriteBytes(thr[w].fd) - n)
    <3>1. PICK place \in {"process", "del"} : Goto(w, place)
      BY <2>2 DEF AfterWrite
    <3> QED
      BY <1>1, <3>1, Goes DEF Threads, Closing, WorkerPlaces
  <2> QED
    BY <1>2, <2>1, <2>2
<1>4. got' \in [Conns -> SUBSET (Conns \cup {NoConn})]
  <2>1. resp[thr[w].fd].src \in Conns \cup {NoConn}
    BY <1>1 DEF TypeOK, Responses
  <2>2. PICK new \in SUBSET (Conns \cup {NoConn}) :
           got' = [got EXCEPT ![owner[thr[w].fd]] = new]
    BY <1>2, <2>1 DEF WriteSome, TypeOK
  <2> QED
    BY <2>2 DEF TypeOK
<1> QED
  BY <1>2, <1>3, <1>4 DEF TypeOK, WriteSome, Working, kernel

LEMMA TypeWorker == ASSUME TypeOK, NEW w \in Workers, WorkerStep(w) PROVE TypeOK'
<1>1. CASE WriteNothing(w) \/ WriteAgain(w) \/ WriteFails(w)
  BY <1>1, TypeWrite
<1>2. CASE CloseConn_(w)
  BY <1>2, TypeClose DEF Threads
<1> QED
  BY <1>1, <1>2, TypeTake, TypeRead, TypeProcess, TypeRearm, TypeWriteSome
  DEF WorkerStep

LEMMA TypeStep == TypeOK /\ [Next]_vars => TypeOK'
<1> SUFFICES ASSUME TypeOK, [Next]_vars PROVE TypeOK'
  OBVIOUS
<1>1. CASE MainStep
  <2>1. CASE CloseConn_(Main)
    BY <2>1, TypeClose DEF Threads
  <2> QED
    BY <1>1, <2>1, TypeWait, TypeDispatch, TypeAccept DEF MainStep
<1>2. CASE UNCHANGED vars
  BY <1>2 DEF vars, kernel, users, history, TypeOK
<1> QED
  BY <1>1, <1>2, TypeConnect, TypeSend, TypeHangup, TypeTimer, TypeWorker
  DEF Next, Environment

(* The server's state keeps its shape: a thread that works has a           *)
(* descriptor, what is queued, buffered or sent is a connection's, and     *)
(* the arithmetic of HttpConn::write stays between 0 and the file's end.   *)
THEOREM TypeCorrect == Spec => []TypeOK
BY TypeInit, TypeStep, PTL DEF Spec
-----------------------------------------------------------------------------
(* What a worker's step leaves alone: the other threads, main's part of    *)
(* the state, and every descriptor but its own.  It registers none.        *)
Same(fd) ==
  /\ owner'[fd] = owner[fd] /\ interest'[fd] = interest[fd]
  /\ isClose'[fd] = isClose[fd]
  /\ readBuff'[fd] = readBuff[fd] /\ resp'[fd] = resp[fd]

LEMMA WorkerMoves ==
  ASSUME TypeOK, NEW w \in Workers, WorkerStep(w)
  PROVE  /\ \A t \in Threads : t # w => thr'[t] = thr[t]
         /\ thr'[w].fd \in {thr[w].fd, NoFd} \/ (Take(w) /\ thr[w].fd = NoFd)
<1> DEFINE Rest == \A t \in Threads : t # w => thr'[t] = thr[t]
<1>1. w \in Threads
  BY DEF Threads
<1>2. ASSUME NEW place \in Closing \cup WorkerPlaces, thr[w].pc # "idle", Goto(w, place)
      PROVE  Rest /\ thr'[w].fd = thr[w].fd
  <2>1. Rest /\ thr'[w] = [pc |-> place, fd |-> thr[w].fd]
    BY <1>1, <1>2, Goes
  <2> QED
    BY <2>1
<1>3. ASSUME Done(w) PROVE Rest /\ thr'[w].fd = NoFd
  BY <1>1, <1>3, Stops DEF Idle
<1>4. CASE Take(w)
  <2>1. thr[w].fd = NoFd
    BY <1>4 DEF Take, Idle
  <2>2. Rest
    BY SMTT(40), <1>1, <1>4 DEF Take, TypeOK
  <2> QED
    BY <1>4, <2>1, <2>2
<1>5. CASE Read(w)
  <2>1. PICK n \in Nat, place \in {"del", "process"} : ReadTo(w, n, place)
    BY <1>5, ReadsTo
  <2> QED
    BY <1>2, <1>5, <2>1 DEF ReadTo, Read, At, Closing, WorkerPlaces
<1>6. CASE ProcessNothing(w)
  BY <1>2, <1>6 DEF ProcessNothing, At, WorkerPlaces
<1>7. ASSUME NEW taken \in 0..MaxPieces, NEW alive \in BOOLEAN, NEW file \in 0..FileUnits,
             ProcessRequest(w, taken, alive, file)
      PROVE  Rest /\ thr'[w].fd = thr[w].fd
  BY <1>2, <1>7 DEF ProcessRequest, At, WorkerPlaces
<1>8. CASE Rearm(w)
  BY <1>3, <1>8 DEF Rearm, ModFd
<1>9. CASE WriteNothing(w) \/ WriteAgain(w) \/ WriteFails(w)
  <2>1. At(w, "write") /\ \E place \in {"rearmOut", "process", "del"} : Goto(w, place)
    BY <1>9 DEF WriteNothing, WriteAgain, WriteFails, AfterWrite, AfterAgain
  <2> QED
    BY <1>2, <2>1 DEF At, Closing, WorkerPlaces
<1>10. ASSUME NEW n \in 0..(1 + FileUnits), WriteSome(w, n)
       PROVE  Rest /\ thr'[w].fd = thr[w].fd
  <2>1. At(w, "write")
    BY <1>10 DEF WriteSome
  <2>2. thr' = thr \/ AfterWrite(w, ToWriteBytes(thr[w].fd) - n)
    BY <1>10 DEF WriteSome
  <2>3. thr' = thr \/ \E place \in {"process", "del"} : Goto(w, place)
    BY <2>2 DEF AfterWrite
  <2> QED
    BY <1>2, <2>1, <2>3 DEF At, Closing, WorkerPlaces
<1>11. CASE CloseConn_(w)
  <2>1. thr[w].pc # "idle"
    BY <1>11 DEF CloseConn_, CloseDel, CloseCheck, CloseMark, CloseClose, At
  <2>2. Done(w) \/ \E place \in Closing : Goto(w, place)
    BY <1>11 DEF CloseConn_, CloseDel, CloseCheck, CloseMark, CloseClose, EndClose, Closing
  <2> QED
    BY <1>2, <1>3, <2>1, <2>2
<1> QED
  BY <1>4, <1>5, <1>6, <1>7, <1>8, <1>9, <1>10, <1>11 DEF WorkerStep

LEMMA WorkerFrame ==
  ASSUME TypeOK, NEW w \in Workers, WorkerStep(w)
  PROVE  /\ UNCHANGED <<conf, phase, batch, backlog, edge, timers, full, preempted>>
         /\ \A fd \in Fds : fd # thr[w].fd => Same(fd)
         /\ \A fd \in Fds : interest[fd] = "none" => interest'[fd] = "none"
<1> USE DEF Same, kernel, users, history
<1>1. CASE Take(w)
  BY SMTT(40), <1>1 DEF Take
<1>2. CASE Read(w)
  <2>1. PICK n \in Nat, place \in {"del", "process"} : ReadTo(w, n, place)
    BY <1>2, ReadsTo
  <2> QED
    BY <1>2, <2>1 DEF ReadTo, Read, TypeOK
<1>3. CASE ProcessNothing(w)
  BY <1>3 DEF ProcessNothing
<1>4. ASSUME NEW taken \in 0..MaxPieces, NEW alive \in BOOLEAN, NEW file \in 0..FileUnits,
             ProcessRequest(w, taken, alive, file)
      PROVE  /\ UNCHANGED <<conf, kernel, owner, interest, phase, batch, timers, isClose>>
             /\ UNCHANGED history
             /\ \A fd \in Fds : fd # thr[w].fd => Same(fd)
  BY <1>4 DEF ProcessRequest, TypeOK
<1>5. CASE Rearm(w)
  BY <1>5 DEF Rearm, ModFd, TypeOK
<1>6. CASE WriteNothing(w) \/ WriteAgain(w) \/ WriteFails(w)
  BY <1>6 DEF WriteNothing, WriteAgain, WriteFails
<1>7. ASSUME NEW n \in 0..(1 + FileUnits), WriteSome(w, n)
      PROVE  /\ UNCHANGED <<conf, kernel, owner, interest, phase, batch, timers, isClose>>
             /\ UNCHANGED <<full, preempted, readBuff>>
             /\ \A fd \in Fds : fd # thr[w].fd => Same(fd)
  <2>1. thr[w].fd \in Fds
    BY <1>7, ThreadFields DEF WriteSome, At, Threads
  <2>2. \A f \in Fds : f # thr[w].fd => resp'[f] = resp[f]
    BY <1>7, <2>1, WritesSome
  <2> QED
    BY <1>7, <2>2 DEF WriteSome
<1>8. CASE CloseConn_(w)
  <2>1. w # Main
    BY MainIsNoWorker
  <2>2. CASE CloseDel(w)
    BY <2>2 DEF CloseDel, TypeOK
  <2>3. CASE CloseCheck(w)
    BY <2>1, <2>3 DEF CloseCheck, EndClose
  <2>4. CASE CloseMark(w)
    BY <2>4 DEF CloseMark, TypeOK
  <2>5. CASE CloseClose(w)
    BY <2>1, <2>5 DEF CloseClose, CloseFd, EndClose, TypeOK
  <2> QED
    BY <1>8, <2>2, <2>3, <2>4, <2>5 DEF CloseConn_
<1> QED
  BY <1>1, <1>2, <1>3, <1>4, <1>5, <1>6, <1>7, <1>8 DEF WorkerStep
-----------------------------------------------------------------------------
LEMMA MainLoopInit == Init => MainLoop
BY MainIsNoWorker DEF Init, MainLoop, Threads, Idle

LEMMA MainLoopStep == TypeOK /\ MainLoop /\ [Next]_vars => MainLoop'
<1> SUFFICES ASSUME TypeOK, MainLoop, [Next]_vars PROVE MainLoop'
  OBVIOUS
<1>m. Main \in Threads /\ \A w \in Workers : w # Main
  BY MainIsNoWorker DEF Threads
<1>i. Idle.pc = "idle" /\ "idle" \notin {"check", "mark", "close"}
  BY DEF Idle
<1>1. CASE Environment
  BY <1>1 DEF Environment, Connect, Send, Hangup, MainLoop
<1>2. ASSUME NEW fd \in Fds, TimerFires(fd) PROVE MainLoop'
  <2>1. thr'[Main].pc = "del"
    BY <1>2, <1>m DEF TimerFires, TypeOK
  <2> QED
    BY <1>2, <2>1 DEF TimerFires, MainLoop, Closing
<1>3. CASE Wait
  BY <1>3, <1>i DEF Wait, MainLoop
<1>4. CASE EventsDone
  BY <1>4 DEF EventsDone, MainLoop
<1>5. ASSUME NEW e \in batch, DealHup(e) PROVE MainLoop'
  <2>1. thr'[Main].pc = "del"
    BY <1>5, <1>m DEF DealHup, TypeOK
  <2> QED
    BY <1>5, <2>1 DEF DealHup, Handling, MainLoop, Closing
<1>6. ASSUME NEW e \in batch, DealReadWrite(e) PROVE MainLoop'
  BY <1>6 DEF DealReadWrite, Handling, MainLoop
<1>7. CASE DealListen_
  BY <1>7, <1>i DEF DealListen_, Handling, MainLoop
<1>8. CASE AcceptFails \/ \E c \in Conns : Refuse(c)
  BY <1>8 DEF AcceptFails, Refuse, MainLoop
<1>9. ASSUME NEW c \in Conns, NEW fd \in Fds, AddClient_(c, fd) PROVE MainLoop'
  BY <1>9, <1>i DEF AddClient_, MainLoop
<1>10. CASE CloseConn_(Main)
  <2>1. thr[Main].pc # "idle" /\ thr[Main].fd \in Fds /\ phase # "accept"
    BY <1>10, <1>m, <1>i, ThreadFields
    DEF CloseConn_, CloseDel, CloseCheck, CloseMark, CloseClose, At, MainLoop
  <2>2. CASE CloseDel(Main)
    <3>1. thr'[Main] = [pc |-> "check", fd |-> thr[Main].fd]
      BY <2>1, <2>2, <1>m, Goes DEF CloseDel, Closing
    <3>2. interest'[thr[Main].fd] = "none"
      BY <2>1, <2>2 DEF CloseDel, TypeOK
    <3> QED
      BY <2>1, <2>2, <3>1, <3>2 DEF CloseDel, MainLoop, Closing
  <2>3. CASE CloseCheck(Main)
    <3>1. thr'[Main] = Idle \/ thr'[Main] = [pc |-> "mark", fd |-> thr[Main].fd]
      BY <2>1, <2>3, <1>m, Goes, Stops DEF CloseCheck, EndClose, Closing
    <3> QED
      BY <2>1, <2>3, <3>1, <1>i DEF CloseCheck, At, MainLoop, Closing
  <2>4. CASE CloseMark(Main)
    <3>1. thr'[Main] = [pc |-> "close", fd |-> thr[Main].fd]
      BY <2>1, <2>4, <1>m, Goes DEF CloseMark, Closing
    <3> QED
      BY <2>1, <2>4, <3>1 DEF CloseMark, At, MainLoop, Closing
  <2>5. CASE CloseClose(Main)
    <3>1. thr'[Main] = Idle
      BY <2>5, <1>m, Stops DEF CloseClose, EndClose
    <3> QED
      BY <2>1, <2>5, <3>1, <1>i DEF CloseClose, MainLoop
  <2> QED
    BY <1>10, <2>2, <2>3, <2>4, <2>5 DEF CloseConn_
<1>11. ASSUME NEW w \in Workers, WorkerStep(w) PROVE MainLoop'
  <2>1. thr'[Main] = thr[Main] /\ UNCHANGED <<phase, batch>>
    BY <1>11, <1>m, WorkerMoves, WorkerFrame
  <2>2. thr[Main].pc \in {"check", "mark", "close"} => thr[Main].fd \in Fds
    BY <1>m, <1>i, ThreadFields
  <2> QED
    BY <1>11, <2>1, <2>2, WorkerFrame DEF MainLoop
<1>12. CASE UNCHANGED vars
  BY <1>12 DEF vars, MainLoop
<1> QED
  BY <1>1, <1>2, <1>3, <1>4, <1>5, <1>6, <1>7, <1>8, <1>9, <1>10, <1>11, <1>12
  DEF Next, MainStep

-----------------------------------------------------------------------------
(* A registered descriptor keeps its timer: what main pops is the timer of *)
(* a descriptor it unregistered, and nobody registers that one meanwhile.  *)
LEMMA TimerInit == Init => TimerForEveryWatch
BY DEF Init, TimerForEveryWatch, Pending

LEMMA TimerStep ==
  TypeOK /\ MainLoop /\ TimerForEveryWatch /\ [Next]_vars => TimerForEveryWatch'
<1> SUFFICES ASSUME TypeOK, MainLoop, TimerForEveryWatch, [Next]_vars,
                    conf'.timeout, NEW fd \in Fds,
                    interest'[fd] # "none" \/ Pending(fd)' # {}
             PROVE  fd \in timers'
  BY DEF TimerForEveryWatch
<1>m. Main \in Threads /\ \A w \in Workers : w # Main
  BY MainIsNoWorker DEF Threads
<1>c. conf' = conf
  <2>1. CASE MainStep
    BY <2>1 DEF MainStep, Wait, EventsDone, DealHup, DealReadWrite, DealListen_, AcceptFails,
                Refuse, AddClient_, CloseConn_, CloseDel, CloseCheck, CloseMark, CloseClose
  <2>2. CASE Environment \/ (\E f \in Fds : TimerFires(f)) \/ UNCHANGED vars
    BY <2>2 DEF Environment, Connect, Send, Hangup, TimerFires, vars
  <2> QED
    BY <2>1, <2>2, WorkerFrame DEF Next
<1>k. ASSUME batch' \subseteq batch, interest'[fd] # "none" => interest[fd] # "none"
      PROVE  fd \in timers
  BY <1>c, <1>k DEF TimerForEveryWatch, Pending
<1>1. CASE Environment
  BY <1>1, <1>k DEF Environment, Connect, Send, Hangup
<1>2. ASSUME NEW f \in Fds, TimerFires(f) PROVE fd \in timers'
  BY <1>2, <1>k DEF TimerFires
<1>3. CASE Wait
  <2>1. interest[fd] = "none" => interest'[fd] = "none" /\ Pending(fd)' = {}
    <3>1. ASSUME NEW e \in Ready, e.kind # "listen", e.fd = fd PROVE interest[fd] # "none"
      BY <3>1 DEF Ready, EventsOf
    <3> QED
      BY <1>3, <3>1 DEF Wait, Disarm, Pending
  <2>2. timers' = timers
    BY <1>3 DEF Wait
  <2> QED
    BY <2>1, <2>2, <1>c DEF TimerForEveryWatch
<1>4. CASE EventsDone
  BY <1>4, <1>k DEF EventsDone
<1>5. ASSUME NEW e \in batch, DealHup(e) \/ DealReadWrite(e) PROVE fd \in timers'
  BY <1>5, <1>k DEF DealHup, DealReadWrite, Handling
<1>6. CASE DealListen_
  BY <1>6, <1>k DEF DealListen_, Handling
<1>7. CASE AcceptFails \/ \E c \in Conns : Refuse(c)
  BY <1>7, <1>k DEF AcceptFails, Refuse
<1>8. ASSUME NEW c \in Conns, NEW f \in Fds, AddClient_(c, f) PROVE fd \in timers'
  <2>1. CASE fd = f
    BY <1>8, <1>c, <2>1 DEF AddClient_
  <2>2. CASE fd # f
    BY <1>8, <1>k, <2>2 DEF AddClient_, TypeOK
  <2> QED
    BY <2>1, <2>2
<1>9. CASE CloseConn_(Main)
  <2>1. batch' = batch /\ (interest'[fd] # "none" => interest[fd] # "none")
    BY <1>9 DEF CloseConn_, CloseDel, CloseCheck, CloseMark, CloseClose, CloseFd, TypeOK
  <2>2. fd \in timers
    BY <2>1, <1>k
  <2>3. CASE CloseDel(Main) \/ CloseMark(Main)
    BY <2>2, <2>3 DEF CloseDel, CloseMark
  <2>4. CASE CloseCheck(Main) \/ CloseClose(Main)
    <3>1. timers' = timers \/ timers' = Popped(Main)
      BY <2>4 DEF CloseCheck, CloseClose, EndClose
    <3>2. CASE phase = "tick" /\ fd = thr[Main].fd
      <4>1. interest[fd] = "none" /\ batch = {}
        BY <2>4, <3>2 DEF MainLoop, CloseCheck, CloseClose, At
      <4> QED
        BY <2>1, <4>1 DEF Pending
    <3>3. CASE ~(phase = "tick" /\ fd = thr[Main].fd)
      BY <2>2, <3>1, <3>3 DEF Popped
    <3> QED
      BY <3>2, <3>3
  <2> QED
    BY <1>9, <2>3, <2>4 DEF CloseConn_
<1>10. ASSUME NEW w \in Workers, WorkerStep(w) PROVE fd \in timers'
  BY <1>10, <1>k, WorkerFrame
<1>11. CASE UNCHANGED vars
  BY <1>11, <1>k DEF vars
<1> QED
  BY <1>1, <1>2, <1>3, <1>4, <1>5, <1>6, <1>7, <1>8, <1>9, <1>10, <1>11
  DEF Next, MainStep

(* adjust finds the timer it asserts, for every descriptor epoll watches   *)
(* or reported, also when a timer closed a connection a worker still used. *)
THEOREM TimersKept == Spec => []TimerForEveryWatch
BY TypeInit, TypeStep, MainLoopInit, MainLoopStep, TimerInit, TimerStep, PTL DEF Spec
-----------------------------------------------------------------------------
(* A client the edge-triggered listener has not been told of: the edge is  *)
(* cleared only as its event is handed over, and DealListen_ ends with an  *)
(* empty backlog or at a limit.                                            *)
LEMMA BacklogInit == Init => NoStrandedBacklog
BY DEF Init, NoStrandedBacklog

LEMMA BacklogStep ==
  TypeOK /\ MainLoop /\ NoStrandedBacklog /\ [Next]_vars => NoStrandedBacklog'
<1> SUFFICES ASSUME TypeOK, MainLoop, NoStrandedBacklog, [Next]_vars,
                    backlog' # {}, conf'.listenET, ~full'
             PROVE  edge' \/ phase' = "accept" \/ [kind |-> "listen"] \in batch'
  BY DEF NoStrandedBacklog
<1> DEFINE Told == edge \/ phase = "accept" \/ [kind |-> "listen"] \in batch
<1>k. ASSUME UNCHANGED <<conf, backlog, full>> PROVE Told
  BY <1>k DEF NoStrandedBacklog
<1>1. ASSUME NEW c \in Conns, Connect(c) PROVE edge'
  BY <1>1 DEF Connect
<1>2. ASSUME NEW c \in Conns, Send(c) \/ Hangup(c) PROVE Told'
  BY <1>2, <1>k DEF Send, Hangup, users, history
<1>3. ASSUME NEW fd \in Fds, TimerFires(fd) PROVE Told'
  BY <1>3, <1>k DEF TimerFires, kernel
<1>4. CASE Wait
  <2>1. edge
    BY <1>4, <1>k DEF Wait, MainLoop, history
  <2> QED
    BY <1>4, <2>1 DEF Wait
<1>5. CASE EventsDone
  BY <1>5, <1>k DEF EventsDone, kernel, history
<1>6. ASSUME NEW e \in batch, DealHup(e) \/ DealReadWrite(e) PROVE Told'
  <2>1. e # [kind |-> "listen"] /\ batch' = batch \ {e} /\ phase # "accept"
    BY <1>6 DEF DealHup, DealReadWrite, Handling
  <2> QED
    BY <1>6, <1>k, <2>1 DEF DealHup, DealReadWrite, kernel, history
<1>7. CASE DealListen_
  BY <1>7 DEF DealListen_
<1>8. CASE AcceptFails
  <2>1. backlog' = backlog /\ (backlog # {} => full')
    BY <1>8 DEF AcceptFails, kernel
  <2> QED
    BY <2>1
<1>9. ASSUME NEW c \in Conns, Refuse(c) PROVE FALSE
  BY <1>9 DEF Refuse
<1>10. ASSUME NEW c \in Conns, NEW fd \in Fds, AddClient_(c, fd) PROVE Told'
  BY <1>10 DEF AddClient_, AcceptAgain
<1>11. CASE CloseConn_(Main)
  BY <1>11, <1>k DEF CloseConn_, CloseDel, CloseCheck, CloseMark, CloseClose, kernel, history
<1>12. ASSUME NEW w \in Workers, WorkerStep(w) PROVE Told'
  BY <1>12, <1>k, WorkerFrame
<1>13. CASE UNCHANGED vars
  BY <1>13, <1>k DEF vars, kernel, history
<1> QED
  BY <1>1, <1>2, <1>3, <1>4, <1>5, <1>6, <1>7, <1>8, <1>9, <1>10, <1>11, <1>12, <1>13
  DEF Next, Environment, MainStep

(* No client waits in the backlog unnoticed, unless the server is at a     *)
(* limit.                                                                  *)
THEOREM BacklogNoticed == Spec => []NoStrandedBacklog
BY TypeInit, TypeStep, MainLoopInit, MainLoopStep, BacklogInit, BacklogStep, PTL DEF Spec

-----------------------------------------------------------------------------
(* A step that leaves a descriptor's connection, its events, its tasks (up *)
(* to their position in the queue) and its threads alone leaves it in its  *)
(* place.                                                                  *)
TasksKept(fd) ==
  /\ Queued(fd) = {} => Queued(fd)' = {}
  /\ \A k \in DOMAIN tasks : Queued(fd) = {k} =>
       \E j \in DOMAIN tasks' : Queued(fd)' = {j} /\ tasks'[j] = tasks[k]

ThreadsKept(fd) == \A t \in Threads : thr[t].fd = fd \/ thr'[t].fd = fd => thr'[t] = thr[t]

Undisturbed(fd) ==
  /\ owner'[fd] = owner[fd] /\ interest'[fd] = interest[fd] /\ isClose'[fd] = isClose[fd]
  /\ Pending(fd)' = Pending(fd) /\ TasksKept(fd) /\ ThreadsKept(fd)

LEMMA StaysPlaced == ASSUME NEW fd \in Fds, Placed(fd), Undisturbed(fd) PROVE Placed(fd)'
<1>1. UsedBy(fd)' = UsedBy(fd)
  BY DEF Undisturbed, ThreadsKept, UsedBy
<1>2. CASE Unused(fd)
  <2>1. thr'[Main].fd = fd => thr'[Main] = thr[Main]
    BY DEF Undisturbed, ThreadsKept, Threads
  <2> QED
    BY <1>1, <1>2, <2>1 DEF Placed, Unused, Undisturbed, TasksKept
<1>3. CASE InEpoll(fd)
  BY <1>1, <1>3 DEF Placed, InEpoll, Open, Undisturbed, TasksKept
<1>4. CASE InBatch(fd)
  BY <1>1, <1>4 DEF Placed, InBatch, Open, Undisturbed, TasksKept
<1>5. CASE InQueue(fd)
  BY <1>1, <1>5 DEF Placed, InQueue, Open, Undisturbed, TasksKept
<1>6. CASE InThread(fd)
  <2>1. PICK t \in Threads :
          /\ UsedBy(fd) = {t}
          /\ isClose[fd] <=> thr[t].pc = "close"
          /\ thr[t].pc \in WorkerPlaces => interest[fd] = "off"
          /\ thr[t].pc = "del" =>
               interest[fd] = "off" \/ (t = Main /\ interest[fd] \in {"in", "out"})
          /\ thr[t].pc \in {"check", "mark", "close"} => interest[fd] = "none"
    BY <1>6 DEF InThread
  <2>2. thr'[t] = thr[t]
    BY <2>1 DEF UsedBy, Undisturbed, ThreadsKept
  <2> QED
    BY <1>1, <1>6, <2>1, <2>2 DEF Placed, InThread, Undisturbed, TasksKept
<1> QED
  BY <1>2, <1>3, <1>4, <1>5, <1>6 DEF Placed

(* An unchanged queue, and one with a task behind it. *)
LEMMA SameTasks == ASSUME NEW fd \in Fds, tasks' = tasks PROVE TasksKept(fd)
BY DEF TasksKept, Queued

LEMMA TaskBehind ==
  ASSUME TypeOK, NEW x \in Tasks, tasks' = Append(tasks, x), NEW fd \in Fds
  PROVE  /\ x.fd # fd => TasksKept(fd)
         /\ x.fd = fd /\ Queued(fd) = {} =>
              \E j \in DOMAIN tasks' : Queued(fd)' = {j} /\ tasks'[j] = x
<1>1. tasks \in Seq(Tasks)
  BY DEF TypeOK
<1>2. /\ DOMAIN tasks = 1..Len(tasks) /\ DOMAIN tasks' = 1..(Len(tasks) + 1)
      /\ Len(tasks) \in Nat
      /\ tasks'[Len(tasks) + 1] = x /\ \A k \in 1..Len(tasks) : tasks'[k] = tasks[k]
  BY <1>1
<1>3. DOMAIN tasks' = DOMAIN tasks \cup {Len(tasks) + 1}
  BY <1>2
<1>4. /\ x.fd # fd => Queued(fd)' = Queued(fd)
      /\ x.fd = fd => Queued(fd)' = Queued(fd) \cup {Len(tasks) + 1}
  BY <1>2, <1>3 DEF Queued
<1> QED
  BY <1>2, <1>3, <1>4 DEF TasksKept, Queued

(* A queue without its first task. *)
LEMMA TaskTaken ==
  ASSUME TypeOK, tasks # <<>>, tasks' = Tail(tasks), NEW fd \in Fds
  PROVE  /\ Head(tasks) \in Tasks
         /\ Head(tasks).fd # fd => TasksKept(fd)
         /\ Head(tasks).fd = fd => 1 \in Queued(fd) /\ Head(tasks) = tasks[1]
         /\ Queued(fd) = {1} => Queued(fd)' = {}
<1>1. tasks \in Seq(Tasks)
  BY DEF TypeOK
<1>2. /\ DOMAIN tasks = 1..Len(tasks) /\ Len(tasks) \in Nat /\ Len(tasks) > 0
      /\ DOMAIN tasks' = 1..(Len(tasks) - 1)
      /\ Head(tasks) = tasks[1] /\ \A j \in 1..(Len(tasks) - 1) : tasks'[j] = tasks[j + 1]
  BY <1>1
<1>3. Head(tasks) \in Tasks
  BY <1>1, <1>2
<1>4. \A j \in DOMAIN tasks' : j + 1 \in DOMAIN tasks /\ tasks'[j] = tasks[j + 1] /\ j + 1 # 1
  BY <1>2
<1>5. ASSUME NEW k \in DOMAIN tasks, k # 1 PROVE k - 1 \in DOMAIN tasks' /\ (k - 1) + 1 = k
  BY <1>2, <1>5
<1>6. Head(tasks).fd = fd => 1 \in Queued(fd)
  BY <1>2 DEF Queued
<1>7. \A j \in Queued(fd)' : j + 1 \in Queued(fd) /\ j + 1 # 1
  BY <1>4 DEF Queued
<1>8. Queued(fd) = {1} => Queued(fd)' = {}
  BY <1>7
<1>9. ASSUME Head(tasks).fd # fd PROVE TasksKept(fd)
  <2>1. Queued(fd) = {} => Queued(fd)' = {}
    BY <1>7
  <2>2. ASSUME NEW k \in DOMAIN tasks, Queued(fd) = {k}
        PROVE  \E j \in DOMAIN tasks' : Queued(fd)' = {j} /\ tasks'[j] = tasks[k]
    <3>1. tasks[k].fd = fd /\ k # 1
      BY <1>2, <1>9, <2>2 DEF Queued
    <3>2. k - 1 \in DOMAIN tasks' /\ tasks'[k - 1] = tasks[k]
      BY <1>4, <1>5, <3>1
    <3>3. k - 1 \in Queued(fd)'
      BY <3>1, <3>2 DEF Queued
    <3>4. \A j \in Queued(fd)' : j \in DOMAIN tasks' /\ j + 1 = k
      BY <1>7, <2>2 DEF Queued
    <3>5. \A j \in Queued(fd)' : j = k - 1
      BY <1>2, <3>4
    <3> QED
      BY <3>2, <3>3, <3>5
  <2> QED
    BY <2>1, <2>2 DEF TasksKept
<1> QED
  BY <1>2, <1>3, <1>6, <1>8, <1>9

LEMMA PlacedInit == Init => AllPlaced /\ Counted
<1> SUFFICES ASSUME Init PROVE AllPlaced /\ Counted
  OBVIOUS
<1>1. ASSUME NEW fd \in Fds PROVE Unused(fd)
  <2>1. /\ owner[fd] = NoConn /\ isClose[fd] /\ interest[fd] = "none"
        /\ \A t \in Threads : thr[t] = Idle
        /\ tasks = <<>> /\ batch = {} /\ Main \in Threads
    BY DEF Init, Threads
  <2>2. fd # NoFd
    BY NoneIsNone
  <2> QED
    BY <2>1, <2>2 DEF Unused, Queued, Pending, UsedBy, Idle
<1>2. OpenFds = {} /\ userCount = 0
  BY DEF Init, OpenFds
<1> QED
  BY <1>1, <1>2, FS_EmptySet DEF AllPlaced, Placed, Counted

(* Nothing but a thread's own descriptor is disturbed by what it does. *)
LEMMA OthersUndisturbed ==
  ASSUME TypeOK, NEW t \in Threads, NEW fd \in Fds, fd # thr[t].fd, fd # thr'[t].fd,
         owner'[fd] = owner[fd], interest'[fd] = interest[fd], isClose'[fd] = isClose[fd],
         batch' = batch, tasks' = tasks,
         \A u \in Threads : u # t => thr'[u] = thr[u]
  PROVE  Undisturbed(fd)
BY SameTasks DEF Undisturbed, Pending, ThreadsKept

(* Of the threads only the one that moves can take up a descriptor or      *)
(* leave it.                                                               *)
LEMMA KeepsItsFd ==
  ASSUME NEW t \in Threads, NEW fd \in Fds, UsedBy(fd) \subseteq {t}, thr'[t].fd = fd,
         \A u \in Threads : u # t => thr'[u] = thr[u]
  PROVE  UsedBy(fd)' = {t}
BY DEF UsedBy

LEMMA LeavesItsFd ==
  ASSUME NEW t \in Threads, NEW fd \in Fds, UsedBy(fd) \subseteq {t}, thr'[t].fd # fd,
         \A u \in Threads : u # t => thr'[u] = thr[u]
  PROVE  UsedBy(fd)' = {}
BY DEF UsedBy

LEMMA PlacedClients ==
  ASSUME TypeOK, AllPlaced, NEW c \in Conns, Connect(c) \/ Send(c) \/ Hangup(c)
  PROVE  AllPlaced'
<1>1. /\ UNCHANGED <<owner, interest, isClose, batch, thr, tasks, preempted>>
  BY DEF Connect, Send, Hangup, users, history
<1>2. \A fd \in Fds : Undisturbed(fd)
  BY <1>1, SameTasks DEF Undisturbed, Pending, ThreadsKept
<1> QED
  BY <1>1, <1>2, StaysPlaced DEF AllPlaced

LEMMA PlacedTimer ==
  ASSUME TypeOK, MainLoop, AllPlaced, NEW fd \in Fds, TimerFires(fd)
  PROVE  AllPlaced'
<1>1. /\ UNCHANGED <<owner, interest, isClose, batch, tasks>>
      /\ preempted' = preempted \cup {f \in {fd} : Busy(f)}
      /\ thr[Main] = Idle /\ thr[Main].fd # fd /\ Main \in Threads
      /\ thr'[Main] = [pc |-> "del", fd |-> fd]
      /\ \A u \in Threads : u # Main => thr'[u] = thr[u]
      /\ batch = {}
  BY NoneIsNone DEF TimerFires, TypeOK, users, MainLoop, Threads, Idle
<1>2. ASSUME NEW f \in Fds \ preempted', f # fd PROVE Placed(f)'
  <2>1. Placed(f) /\ f # thr[Main].fd /\ f # thr'[Main].fd
    BY <1>1, <1>2, NoneIsNone DEF AllPlaced, Idle
  <2>2. Undisturbed(f)
    BY <1>1, <2>1, OthersUndisturbed
  <2> QED
    BY <2>1, <2>2, StaysPlaced
<1>3. ASSUME fd \notin preempted' PROVE Placed(fd)'
  <2>1. Placed(fd) /\ ~Busy(fd)
    BY <1>1, <1>3 DEF AllPlaced
  <2>2. Queued(fd) = {} /\ UsedBy(fd) = {} /\ Pending(fd) = {}
    BY <1>1, <2>1 DEF Busy, Queued, UsedBy, Pending, Threads
  <2>3. Queued(fd)' = {} /\ Pending(fd)' = {} /\ UsedBy(fd)' = {Main}
    BY <1>1, <2>2, KeepsItsFd DEF Queued, Pending
  <2>4. CASE Unused(fd)
    BY <1>1, <2>3, <2>4 DEF Placed, Unused
  <2>5. CASE InEpoll(fd)
    BY <1>1, <2>3, <2>5 DEF Placed, InEpoll, InThread, Open, WorkerPlaces
  <2> QED
    BY <2>1, <2>2, <2>4, <2>5 DEF Placed, InBatch, InQueue, InThread
<1> QED
  BY <1>2, <1>3 DEF AllPlaced

(* A thread that has a descriptor which is in its place has it alone, and  *)
(* the descriptor is either in that thread's hands or free.                *)
LEMMA HeldByThread ==
  ASSUME TypeOK, NEW t \in Threads, NEW fd \in Fds, thr[t].fd = fd, Placed(fd)
  PROVE  /\ Queued(fd) = {} /\ Pending(fd) = {} /\ UsedBy(fd) = {t}
         /\ \/ Unused(fd) /\ t = Main
            \/ /\ owner[fd] # NoConn
               /\ isClose[fd] <=> thr[t].pc = "close"
               /\ thr[t].pc \in WorkerPlaces => interest[fd] = "off"
               /\ thr[t].pc = "del" =>
                    interest[fd] = "off" \/ (t = Main /\ interest[fd] \in {"in", "out"})
               /\ thr[t].pc \in {"check", "mark", "close"} => interest[fd] = "none"
<1>1. t \in UsedBy(fd)
  BY DEF UsedBy
<1>2. CASE Unused(fd)
  BY <1>1, <1>2 DEF Unused
<1>3. CASE InThread(fd)
  BY <1>1, <1>3 DEF InThread
<1> QED
  BY <1>1, <1>2, <1>3 DEF Placed, InEpoll, InBatch, InQueue

(* A step in which a thread that has a descriptor goes on with it, stops,  *)
(* or goes on to close it.                                                 *)
LEMMA GoesOnPlaced ==
  ASSUME TypeOK, AllPlaced, NEW t \in Threads, NEW fd \in Fds, thr[t].fd = fd,
         UNCHANGED <<batch, tasks, preempted>>,
         \A u \in Threads : u # t => thr'[u] = thr[u],
         thr'[t].fd \in {fd, NoFd},
         \A f \in Fds : f # fd => owner'[f] = owner[f] /\ interest'[f] = interest[f]
                                  /\ isClose'[f] = isClose[f],
         fd \notin preempted => Placed(fd)'
  PROVE  AllPlaced'
<1>1. ASSUME NEW f \in Fds \ preempted, f # fd PROVE Placed(f)'
  <2>1. Placed(f) /\ f # thr[t].fd /\ f # thr'[t].fd
    BY <1>1, NoneIsNone DEF AllPlaced
  <2>2. Undisturbed(f)
    BY <1>1, <2>1, OthersUndisturbed
  <2> QED
    BY <2>1, <2>2, StaysPlaced
<1> QED
  BY <1>1 DEF AllPlaced

LEMMA PlacedClose ==
  ASSUME TypeOK, AllPlaced, NEW t \in Threads, CloseConn_(t)
  PROVE  AllPlaced'
<1>0. thr[t].fd \in Fds
  BY ThreadFields DEF CloseConn_, CloseDel, CloseCheck, CloseMark, CloseClose, At, Closing
<1>1. PICK fd \in Fds : thr[t].fd = fd /\ thr[t].pc # "idle" /\ thr[t].pc \in Closing
  BY <1>0, ThreadFields DEF CloseConn_, CloseDel, CloseCheck, CloseMark, CloseClose, At, Closing
<1>2. UNCHANGED <<batch, tasks, preempted>>
  BY DEF CloseConn_, CloseDel, CloseCheck, CloseMark, CloseClose, history
<1>3. ASSUME fd \notin preempted
      PROVE  /\ Placed(fd) /\ Queued(fd)' = {} /\ Pending(fd)' = {} /\ UsedBy(fd) = {t}
  BY <1>1, <1>2, <1>3, HeldByThread DEF AllPlaced, Queued, Pending
<1>4. CASE CloseDel(t)
  <2>1. /\ thr'[t] = [pc |-> "check", fd |-> fd] /\ thr[t].pc = "del"
        /\ \A u \in Threads : u # t => thr'[u] = thr[u]
    BY <1>1, <1>4, Goes DEF CloseDel, Closing, At
  <2>2. /\ owner' = owner /\ isClose' = isClose /\ interest'[fd] = "none"
        /\ \A f \in Fds : f # fd => interest'[f] = interest[f]
    BY <1>1, <1>4 DEF CloseDel, TypeOK, users
  <2>3. ASSUME fd \notin preempted PROVE Placed(fd)'
    <3>1. UsedBy(fd)' = {t}
      BY <1>1, <1>3, <2>1, <2>3, KeepsItsFd
    <3>2. CASE Unused(fd) /\ t = Main
      BY <1>3, <2>1, <2>2, <2>3, <3>1, <3>2 DEF Placed, Unused
    <3>3. CASE owner[fd] # NoConn /\ (isClose[fd] <=> thr[t].pc = "close")
      BY <1>3, <2>1, <2>2, <2>3, <3>1, <3>3 DEF Placed, InThread, WorkerPlaces
    <3> QED
      BY <1>1, <1>3, <2>3, <3>2, <3>3, HeldByThread
  <2> QED
    BY <1>1, <1>2, <2>1, <2>2, <2>3, GoesOnPlaced
<1>5. CASE CloseCheck(t)
  <2>1. /\ IF isClose[fd] THEN thr'[t] = Idle ELSE thr'[t] = [pc |-> "mark", fd |-> fd]
        /\ \A u \in Threads : u # t => thr'[u] = thr[u]
        /\ thr[t].pc = "check"
    BY <1>1, <1>5, Goes, Stops DEF CloseCheck, EndClose, Closing, At
  <2>2. owner' = owner /\ isClose' = isClose /\ interest' = interest
    BY <1>5 DEF CloseCheck, users
  <2>3. ASSUME fd \notin preempted PROVE Placed(fd)'
    <3>1. CASE Unused(fd) /\ t = Main
      <4>1. thr'[t] = Idle /\ fd # NoFd
        BY <1>1, <2>1, <3>1, NoneIsNone DEF Unused
      <4>2. UsedBy(fd)' = {}
        BY <1>1, <1>3, <2>1, <2>3, <4>1, LeavesItsFd DEF Idle
      <4> QED
        BY <1>3, <2>2, <2>3, <3>1, <4>1, <4>2 DEF Placed, Unused, Idle
    <3>2. CASE owner[fd] # NoConn /\ (isClose[fd] <=> thr[t].pc = "close")
               /\ interest[fd] = "none"
      <4>1. thr'[t] = [pc |-> "mark", fd |-> fd]
        BY <2>1, <3>2
      <4>2. UsedBy(fd)' = {t}
        BY <1>1, <1>3, <2>1, <2>3, <4>1, KeepsItsFd
      <4> QED
        BY <1>3, <2>1, <2>2, <2>3, <3>2, <4>1, <4>2 DEF Placed, InThread, WorkerPlaces
    <3> QED
      BY <1>1, <1>3, <2>1, <2>3, <3>1, <3>2, HeldByThread
  <2>4. thr'[t].fd \in {fd, NoFd}
    BY <2>1 DEF Idle
  <2> QED
    BY <1>1, <1>2, <2>1, <2>2, <2>3, <2>4, GoesOnPlaced
<1>6. CASE CloseMark(t)
  <2>1. /\ thr'[t] = [pc |-> "close", fd |-> fd] /\ thr[t].pc = "mark"
        /\ \A u \in Threads : u # t => thr'[u] = thr[u]
    BY <1>1, <1>6, Goes DEF CloseMark, Closing, At
  <2>2. /\ owner' = owner /\ interest' = interest /\ isClose'[fd]
        /\ \A f \in Fds : f # fd => isClose'[f] = isClose[f]
    BY <1>1, <1>6 DEF CloseMark, TypeOK
  <2>3. ASSUME fd \notin preempted PROVE Placed(fd)'
    <3>1. UsedBy(fd)' = {t}
      BY <1>1, <1>3, <2>1, <2>3, KeepsItsFd
    <3>2. owner[fd] # NoConn /\ interest[fd] = "none"
      BY <1>1, <1>3, <2>1, <2>3, HeldByThread DEF Unused
    <3> QED
      BY <1>3, <2>1, <2>2, <2>3, <3>1, <3>2 DEF Placed, InThread, WorkerPlaces
  <2> QED
    BY <1>1, <1>2, <2>1, <2>2, <2>3, GoesOnPlaced
<1>7. CASE CloseClose(t)
  <2>1. /\ thr'[t] = Idle /\ thr[t].pc = "close"
        /\ \A u \in Threads : u # t => thr'[u] = thr[u]
    BY <1>1, <1>7, Stops DEF CloseClose, EndClose, At
  <2>2. /\ isClose' = isClose /\ owner'[fd] = NoConn /\ interest'[fd] = "none"
        /\ \A f \in Fds : f # fd => owner'[f] = owner[f] /\ interest'[f] = interest[f]
    BY <1>1, <1>7 DEF CloseClose, CloseFd, TypeOK, users
  <2>3. ASSUME fd \notin preempted PROVE Placed(fd)'
    <3>1. fd # NoFd
      BY <1>1, NoneIsNone
    <3>2. UsedBy(fd)' = {}
      BY <1>1, <1>3, <2>1, <2>3, <3>1, LeavesItsFd DEF Idle
    <3>3. isClose[fd]
      BY <1>1, <1>3, <2>1, <2>3, HeldByThread DEF Unused
    <3>4. thr'[Main].fd # fd
      BY <3>2 DEF UsedBy, Threads
    <3> QED
      BY <1>3, <2>2, <2>3, <3>2, <3>3, <3>4 DEF Placed, Unused
  <2>4. thr'[t].fd \in {fd, NoFd}
    BY <2>1 DEF Idle
  <2> QED
    BY <1>1, <1>2, <2>1, <2>2, <2>3, <2>4, GoesOnPlaced
<1> QED
  BY <1>4, <1>5, <1>6, <1>7 DEF CloseConn_

(* An armed descriptor's event moves it from epoll to the batch; a         *)
(* descriptor that is anywhere else is not armed and has none.             *)
LEMMA PlacedWait == ASSUME TypeOK, MainLoop, AllPlaced, Wait PROVE AllPlaced'
<1>1. /\ UNCHANGED <<owner, isClose, thr, tasks, preempted>>
      /\ thr[Main] = Idle /\ batch = {} /\ batch' \subseteq Ready /\ Main \in Threads
      /\ interest' = [f \in Fds |-> IF \E e \in batch' : e.kind # "listen" /\ e.fd = f
                                    THEN "off" ELSE interest[f]]
  BY DEF Wait, users, history, MainLoop, Disarm, Threads
<1> SUFFICES ASSUME NEW fd \in Fds \ preempted PROVE Placed(fd)'
  BY <1>1 DEF AllPlaced
<1>2. Placed(fd) /\ Pending(fd) = {} /\ fd # NoFd
  BY <1>1, NoneIsNone DEF AllPlaced, Pending
<1>3. Queued(fd)' = Queued(fd) /\ UsedBy(fd)' = UsedBy(fd)
  BY <1>1 DEF Queued, UsedBy
<1>4. CASE Pending(fd)' = {}
  <2>1. interest'[fd] = interest[fd]
    BY <1>1, <1>4 DEF Pending
  <2>2. Undisturbed(fd)
    BY <1>1, <1>2, <1>4, <2>1, SameTasks DEF Undisturbed, ThreadsKept
  <2> QED
    BY <1>2, <2>2, StaysPlaced
<1>5. CASE Pending(fd)' # {}
  <2>1. \A e \in Pending(fd)' : e \in EventsOf(fd)
    <3>1. ASSUME NEW e \in Ready, e.kind # "listen", e.fd = fd PROVE e \in EventsOf(fd)
      <4>1. PICK f \in Fds : e \in EventsOf(f)
        BY <3>1 DEF Ready
      <4>2. f = fd
        BY <3>1, <4>1 DEF EventsOf
      <4> QED
        BY <4>1, <4>2
    <3> QED
      BY <1>1, <3>1 DEF Pending
  <2>2. interest[fd] \in {"in", "out"} /\ interest'[fd] = "off"
    BY <1>1, <1>5, <2>1 DEF Pending, EventsOf
  <2>3. \E e \in Events : Pending(fd)' = {e}
    <3>1. PICK e : e \in Pending(fd)'
      BY <1>5
    <3>2. e \in Events
      BY <1>1, <3>1, ReadyEvents DEF Pending
    <3>3. \A d \in Pending(fd)' : d = e
      BY <2>1, <3>1 DEF EventsOf
    <3> QED
      BY <3>1, <3>2, <3>3
  <2>4. ASSUME NEW t \in Threads, UsedBy(fd) = {t} PROVE ~InThread(fd)
    <3>1. thr[t].fd = fd
      BY <2>4 DEF UsedBy
    <3>2. t # Main /\ thr[t].pc \in Closing \cup WorkerPlaces
      <4>1. t # Main
        BY <1>1, <1>2, <3>1 DEF Idle
      <4>2. thr[t] \in Working
        BY <3>1, ThreadFields
      <4> QED
        BY <4>1, <4>2 DEF Working
    <3>3. /\ thr[t].pc \in WorkerPlaces => interest[fd] = "off"
          /\ thr[t].pc = "del" => interest[fd] = "off"
          /\ thr[t].pc \in {"check", "mark", "close"} => interest[fd] = "none"
      BY <1>2, <3>1, <3>2, HeldByThread
    <3> QED
      BY <2>2, <3>2, <3>3 DEF Closing
  <2>5. InEpoll(fd)
    BY <1>2, <2>2, <2>4 DEF Placed, Unused, InBatch, InQueue, InThread
  <2> QED
    BY <1>1, <1>3, <2>2, <2>3, <2>5 DEF Placed, InEpoll, InBatch, Open
<1> QED
  BY <1>4, <1>5

(* What main takes out of the batch. *)
LEMMA PlacedDispatch ==
  ASSUME TypeOK, AllPlaced, NEW e \in batch, DealHup(e) \/ DealReadWrite(e)
  PROVE  AllPlaced'
<1>1. /\ UNCHANGED <<owner, interest, isClose, preempted>> /\ batch' = batch \ {e}
      /\ thr[Main] = Idle /\ Main \in Threads /\ e \in Events /\ e.kind # "listen"
  BY DEF DealHup, DealReadWrite, Handling, users, history, TypeOK, Threads
<1>2. PICK fd \in Fds : e.fd = fd
  BY <1>1 DEF Events
<1>3. e \in Pending(fd) /\ thr[Main].fd # fd /\ fd # NoFd
  BY <1>1, <1>2, NoneIsNone DEF Pending, Idle
<1>4. \A f \in Fds : Pending(f)' = Pending(f) \ {e}
  BY <1>1 DEF Pending
<1>5. \A f \in Fds : f # fd => Pending(f)' = Pending(f)
  BY <1>1, <1>2 DEF Pending
<1>6. fd \notin preempted => InBatch(fd) /\ Pending(fd) = {e} /\ Pending(fd)' = {}
  BY <1>3, <1>4 DEF AllPlaced, Placed, Unused, InEpoll, InBatch, InQueue, InThread
<1>7. CASE DealHup(e)
  <2>1. /\ thr'[Main] = [pc |-> "del", fd |-> fd] /\ tasks' = tasks
        /\ \A t \in Threads : t # Main => thr'[t] = thr[t]
    BY <1>1, <1>2, <1>7 DEF DealHup, TypeOK
  <2>2. ASSUME NEW f \in Fds \ preempted, f # fd PROVE Placed(f)'
    <3>1. f # thr[Main].fd /\ f # thr'[Main].fd
      BY <1>1, <2>1, <2>2, NoneIsNone DEF Idle
    <3>2. Undisturbed(f)
      BY <1>1, <1>5, <2>1, <2>2, <3>1, SameTasks DEF Undisturbed, ThreadsKept
    <3> QED
      BY <2>2, <3>2, StaysPlaced DEF AllPlaced
  <2>3. ASSUME fd \notin preempted PROVE Placed(fd)'
    <3>1. UsedBy(fd)' = {Main}
      BY <1>1, <1>6, <2>1, <2>3, KeepsItsFd DEF InBatch
    <3>2. Queued(fd)' = {}
      BY <1>6, <2>1, <2>3 DEF InBatch, Queued
    <3> QED
      BY <1>1, <1>6, <2>1, <2>3, <3>1, <3>2
      DEF Placed, InBatch, InThread, Open, WorkerPlaces
  <2> QED
    BY <1>1, <2>2, <2>3 DEF AllPlaced
<1>8. CASE DealReadWrite(e)
  <2>1. thr' = thr /\ tasks' = Append(tasks, TaskFor(e))
    BY <1>8 DEF DealReadWrite
  <2>2. TaskFor(e) \in Tasks /\ TaskFor(e).fd = fd
    BY <1>2 DEF TaskFor, Tasks
  <2>3. ASSUME NEW f \in Fds \ preempted, f # fd PROVE Placed(f)'
    <3>1. TasksKept(f)
      BY <2>1, <2>2, <2>3, TaskBehind
    <3>2. Undisturbed(f)
      BY <1>1, <1>5, <2>1, <2>3, <3>1 DEF Undisturbed, ThreadsKept
    <3> QED
      BY <2>3, <3>2, StaysPlaced DEF AllPlaced
  <2>4. ASSUME fd \notin preempted PROVE Placed(fd)'
    <3>1. Queued(fd) = {} /\ UsedBy(fd)' = {}
      BY <1>6, <2>1, <2>4 DEF InBatch, UsedBy
    <3>2. \E j \in DOMAIN tasks' : Queued(fd)' = {j}
      BY <2>1, <2>2, <3>1, TaskBehind
    <3> QED
      BY <1>1, <1>6, <2>4, <3>1, <3>2 DEF Placed, InBatch, InQueue, Open
  <2> QED
    BY <1>1, <2>3, <2>4 DEF AllPlaced
<1> QED
  BY <1>7, <1>8

LEMMA PlacedRest ==
  ASSUME TypeOK, AllPlaced,
         EventsDone \/ DealListen_ \/ AcceptFails \/ \E c \in Conns : Refuse(c)
  PROVE  AllPlaced'
<1>1. /\ UNCHANGED <<owner, interest, isClose, thr, tasks, preempted>>
      /\ batch' = batch \/ batch' = batch \ {[kind |-> "listen"]}
  BY DEF EventsDone, DealListen_, AcceptFails, Refuse, Handling, users, history
<1>2. \A fd \in Fds : Pending(fd)' = Pending(fd)
  BY <1>1 DEF Pending
<1>3. \A fd \in Fds : Undisturbed(fd)
  BY <1>1, <1>2, SameTasks DEF Undisturbed, ThreadsKept
<1> QED
  BY <1>1, <1>3, StaysPlaced DEF AllPlaced

LEMMA PlacedAdd ==
  ASSUME TypeOK, MainLoop, AllPlaced, NEW c \in Conns, NEW fd \in Fds, AddClient_(c, fd)
  PROVE  AllPlaced'
<1>1. /\ UNCHANGED <<batch, thr, tasks, preempted>> /\ thr[Main] = Idle
      /\ owner[fd] = NoConn /\ owner'[fd] = c /\ interest'[fd] = "in" /\ ~isClose'[fd]
      /\ \A f \in Fds : f # fd => /\ owner'[f] = owner[f] /\ interest'[f] = interest[f]
                                  /\ isClose'[f] = isClose[f]
      /\ c # NoConn
  BY NoneIsNone DEF AddClient_, Free, InitConn, TypeOK, MainLoop, history
<1>2. ASSUME NEW f \in Fds \ preempted, f # fd PROVE Placed(f)'
  <2>1. Undisturbed(f)
    BY <1>1, <1>2, SameTasks DEF Undisturbed, ThreadsKept, Pending
  <2> QED
    BY <1>2, <2>1, StaysPlaced DEF AllPlaced
<1>3. ASSUME fd \notin preempted PROVE Placed(fd)'
  <2>1. Unused(fd)
    BY <1>1, <1>3 DEF AllPlaced, Placed, InEpoll, InBatch, InQueue, InThread, Open
  <2>2. UsedBy(fd) = {}
    BY <1>1, <2>1, NoneIsNone DEF Unused, UsedBy, Idle
  <2>3. UsedBy(fd)' = {} /\ Queued(fd)' = {} /\ Pending(fd)' = {}
    BY <1>1, <2>1, <2>2 DEF Unused, UsedBy, Queued, Pending
  <2> QED
    BY <1>1, <2>3 DEF Placed, InEpoll, Open
<1> QED
  BY <1>1, <1>2, <1>3 DEF AllPlaced

LEMMA PlacedTake ==
  ASSUME TypeOK, AllPlaced, NEW w \in Workers, Take(w)
  PROVE  AllPlaced'
<1>1. /\ UNCHANGED <<owner, interest, isClose, batch, preempted>>
      /\ tasks # <<>> /\ tasks' = Tail(tasks)
      /\ thr[w] = Idle /\ w \in Threads /\ thr'[w] = Head(tasks)
      /\ \A u \in Threads : u # w => thr'[u] = thr[u]
  BY DEF Take, users, history, TypeOK, Threads
<1>2. Head(tasks) \in Tasks
  BY <1>1 DEF TypeOK
<1>3. PICK fd \in Fds : Head(tasks).fd = fd
  BY <1>2 DEF Tasks
<1>4. ASSUME NEW f \in Fds \ preempted, f # fd PROVE Placed(f)'
  <2>1. TasksKept(f)
    BY <1>1, <1>3, <1>4, TaskTaken
  <2>2. f # thr[w].fd /\ f # thr'[w].fd
    BY <1>1, <1>3, <1>4, NoneIsNone DEF Idle
  <2>3. Undisturbed(f)
    BY <1>1, <2>1, <2>2 DEF Undisturbed, Pending, ThreadsKept
  <2> QED
    BY <1>4, <2>3, StaysPlaced DEF AllPlaced
<1>5. ASSUME fd \notin preempted PROVE Placed(fd)'
  <2>1. 1 \in Queued(fd)
    BY <1>1, <1>3, TaskTaken
  <2>2. InQueue(fd) /\ Queued(fd) = {1}
    BY <1>5, <2>1 DEF AllPlaced, Placed, Unused, InEpoll, InBatch, InQueue, InThread
  <2>3. Queued(fd)' = {} /\ Pending(fd)' = {}
    BY <1>1, <2>2, TaskTaken DEF InQueue, Pending
  <2>4. UsedBy(fd)' = {w}
    BY <1>1, <1>3, <2>2, KeepsItsFd DEF InQueue
  <2>5. thr'[w].pc \in {"read", "write"}
    BY <1>1, <1>2 DEF Tasks
  <2> QED
    BY <1>1, <2>2, <2>3, <2>4, <2>5 DEF Placed, InQueue, InThread, Open, WorkerPlaces
<1> QED
  BY <1>1, <1>4, <1>5 DEF AllPlaced

(* Reading, processing and writing: the worker goes on with its descriptor *)
(* or on to close it, and nobody else's hands change.                      *)
Works(w) ==
  \/ Read(w) \/ ProcessNothing(w)
  \/ \E taken \in 0..MaxPieces, alive \in BOOLEAN, file \in 0..FileUnits :
       ProcessRequest(w, taken, alive, file)
  \/ WriteNothing(w) \/ WriteAgain(w) \/ WriteFails(w)
  \/ \E n \in 0..(1 + FileUnits) : WriteSome(w, n)

LEMMA WorksOn ==
  ASSUME TypeOK, NEW w \in Workers, Works(w)
  PROVE  /\ UNCHANGED <<owner, interest, isClose, batch, tasks, preempted, userCount>>
         /\ thr[w].pc \in {"read", "process", "write"}
         /\ thr' = thr \/ \E place \in WorkerPlaces \cup {"del"} : Goto(w, place)
<1> USE DEF At, kernel, users, history, WorkerPlaces
<1>1. CASE Read(w)
  <2>1. PICK n \in Nat, place \in {"del", "process"} : ReadTo(w, n, place)
    BY <1>1, ReadsTo
  <2> QED
    BY <1>1, <2>1 DEF ReadTo, Read
<1>2. CASE ProcessNothing(w)
  BY <1>2 DEF ProcessNothing
<1>3. ASSUME NEW taken \in 0..MaxPieces, NEW alive \in BOOLEAN, NEW file \in 0..FileUnits,
             ProcessRequest(w, taken, alive, file)
      PROVE  /\ UNCHANGED <<owner, interest, isClose, batch, tasks, preempted, userCount>>
             /\ thr[w].pc = "process" /\ Goto(w, "rearmOut")
  BY <1>3 DEF ProcessRequest
<1>4. CASE WriteNothing(w) \/ WriteAgain(w) \/ WriteFails(w)
  BY <1>4 DEF WriteNothing, WriteAgain, WriteFails, AfterWrite, AfterAgain
<1>5. ASSUME NEW n \in 0..(1 + FileUnits), WriteSome(w, n)
      PROVE  /\ UNCHANGED <<owner, interest, isClose, batch, tasks, preempted, userCount>>
             /\ thr[w].pc = "write"
             /\ thr' = thr \/ \E place \in {"process", "del"} : Goto(w, place)
  BY <1>5 DEF WriteSome, AfterWrite
<1> QED
  BY <1>1, <1>2, <1>3, <1>4, <1>5 DEF Works

LEMMA PlacedWorks ==
  ASSUME TypeOK, AllPlaced, NEW w \in Workers, Works(w)
  PROVE  AllPlaced'
<1>1. /\ UNCHANGED <<owner, interest, isClose, batch, tasks, preempted>>
      /\ thr[w].pc \in {"read", "process", "write"} /\ w \in Threads /\ w # Main
      /\ thr' = thr \/ \E place \in WorkerPlaces \cup {"del"} : Goto(w, place)
  BY WorksOn, MainIsNoWorker DEF Threads
<1>2. PICK fd \in Fds : thr[w].fd = fd
  BY <1>1, ThreadFields
<1>3. /\ thr'[w].fd = fd /\ thr'[w].pc \in WorkerPlaces \cup {"del"}
      /\ \A u \in Threads : u # w => thr'[u] = thr[u]
  <2>1. CASE thr' = thr
    BY <1>1, <1>2, <2>1 DEF WorkerPlaces
  <2>2. ASSUME NEW place \in WorkerPlaces \cup {"del"}, Goto(w, place)
        PROVE  /\ thr'[w].fd = fd /\ thr'[w].pc = place
               /\ \A u \in Threads : u # w => thr'[u] = thr[u]
    <3>1. thr[w].pc # "idle" /\ place \in Closing \cup WorkerPlaces
      BY <1>1 DEF Closing
    <3>2. /\ thr'[w] = [pc |-> place, fd |-> thr[w].fd]
          /\ \A u \in Threads : u # w => thr'[u] = thr[u]
      BY <1>1, <2>2, <3>1, Goes
    <3> QED
      BY <1>2, <3>2
  <2> QED
    BY <1>1, <2>1, <2>2
<1>4. ASSUME fd \notin preempted PROVE Placed(fd)'
  <2>1. /\ Queued(fd) = {} /\ Pending(fd) = {} /\ UsedBy(fd) = {w}
        /\ owner[fd] # NoConn /\ ~isClose[fd] /\ interest[fd] = "off"
    BY <1>1, <1>2, <1>4, HeldByThread DEF AllPlaced, WorkerPlaces, TypeOK
  <2>2. Queued(fd)' = {} /\ Pending(fd)' = {} /\ UsedBy(fd)' = {w}
    BY <1>1, <1>3, <2>1, KeepsItsFd DEF Queued, Pending
  <2> QED
    BY <1>1, <1>3, <2>1, <2>2 DEF Placed, InThread, WorkerPlaces
<1> QED
  BY <1>1, <1>2, <1>3, <1>4, GoesOnPlaced

(* Re-armed, a descriptor is epoll's again. *)
LEMMA PlacedRearm ==
  ASSUME TypeOK, AllPlaced, NEW w \in Workers, Rearm(w)
  PROVE  AllPlaced'
<1>1. PICK fd \in Fds : thr[w].fd = fd
  BY ThreadFields DEF Rearm, ModFd, At, Threads
<1>2. /\ UNCHANGED <<owner, isClose, batch, tasks, preempted>> /\ w \in Threads
      /\ thr[w].pc \in {"rearmIn", "rearmOut"} /\ w # Main /\ thr'[w] = Idle
      /\ \A u \in Threads : u # w => thr'[u] = thr[u]
  BY Stops, MainIsNoWorker DEF Rearm, ModFd, At, users, history, Threads
<1>3. /\ interest[fd] = "off" => interest'[fd] \in {"in", "out"}
      /\ \A f \in Fds : f # fd => interest'[f] = interest[f]
  BY <1>1 DEF Rearm, ModFd, TypeOK
<1>4. ASSUME fd \notin preempted PROVE Placed(fd)'
  <2>1. /\ Queued(fd) = {} /\ Pending(fd) = {} /\ UsedBy(fd) = {w}
        /\ owner[fd] # NoConn /\ ~isClose[fd] /\ interest[fd] = "off"
    BY <1>1, <1>2, <1>4, HeldByThread DEF AllPlaced, WorkerPlaces, TypeOK
  <2>2. thr'[w].fd # fd
    BY <1>2, NoneIsNone DEF Idle
  <2>3. Queued(fd)' = {} /\ Pending(fd)' = {} /\ UsedBy(fd)' = {}
    BY <1>2, <2>1, <2>2, LeavesItsFd DEF Queued, Pending
  <2> QED
    BY <1>2, <1>3, <2>1, <2>3 DEF Placed, InEpoll, Open
<1>5. thr'[w].fd \in {fd, NoFd}
  BY <1>2 DEF Idle
<1> QED
  BY <1>1, <1>2, <1>3, <1>4, <1>5, GoesOnPlaced

LEMMA PlacedStep == TypeOK /\ MainLoop /\ AllPlaced /\ [Next]_vars => AllPlaced'
<1> SUFFICES ASSUME TypeOK, MainLoop, AllPlaced, [Next]_vars PROVE AllPlaced'
  OBVIOUS
<1>1. ASSUME NEW w \in Workers, WorkerStep(w) PROVE AllPlaced'
  <2>1. w \in Threads
    BY DEF Threads
  <2> QED
    BY <1>1, <2>1, PlacedTake, PlacedWorks, PlacedRearm, PlacedClose DEF WorkerStep, Works
<1>2. CASE MainStep
  <2>1. Main \in Threads
    BY DEF Threads
  <2> QED
    BY <1>2, <2>1, PlacedWait, PlacedDispatch, PlacedRest, PlacedAdd, PlacedClose
    DEF MainStep
<1>3. CASE UNCHANGED vars
  <2>1. \A fd \in Fds : Undisturbed(fd)
    BY <1>3, SameTasks DEF vars, users, history, Undisturbed, Pending, ThreadsKept
  <2> QED
    BY <1>3, <2>1, StaysPlaced DEF AllPlaced, vars, history
<1> QED
  BY <1>1, <1>2, <1>3, PlacedClients, PlacedTimer DEF Next, Environment

(* A descriptor in its place is in one pair of hands, or free.             *)
LEMMA PlacedIsOwned == ASSUME TypeOK, MainLoop, AllPlaced PROVE OneOwner
<1> SUFFICES ASSUME NEW fd \in Fds \ preempted, owner[fd] # NoConn PROVE Hands(fd) = 1
  BY DEF OneOwner
<1>1. Placed(fd) /\ ~Unused(fd) /\ Main \in Threads
  BY DEF AllPlaced, Unused, Threads
<1>2. Cardinality({}) = 0 /\ \A x : Cardinality({x}) = 1
  BY FS_EmptySet, FS_Singleton
<1>3. CASE InEpoll(fd)
  <2>1. thr[Main].fd # fd
    BY <1>1, <1>3 DEF InEpoll, UsedBy
  <2> QED
    BY <1>2, <1>3, <2>1 DEF Hands, InEpoll
<1>4. CASE InBatch(fd)
  <2>1. PICK e : Pending(fd) = {e}
    BY <1>4 DEF InBatch
  <2>2. Queued(fd) = {} /\ UsedBy(fd) = {} /\ interest[fd] = "off"
    BY <1>4 DEF InBatch
  <2>3. Cardinality(UsedBy(fd)) = 0 /\ Cardinality(Queued(fd)) = 0
        /\ Cardinality(Pending(fd)) = 1
    BY <1>2, <2>1, <2>2
  <2> QED
    BY <2>2, <2>3 DEF Hands
<1>5. CASE InQueue(fd)
  BY <1>2, <1>5 DEF Hands, InQueue
<1>6. CASE InThread(fd)
  <2>1. PICK t \in Threads : UsedBy(fd) = {t}
    BY <1>6 DEF InThread
  <2>2. thr[t].fd = fd /\ Queued(fd) = {} /\ Pending(fd) = {}
    BY <1>6, <2>1 DEF InThread, UsedBy
  <2>3. interest[fd] \in {"in", "out"} => t = Main
    <3>1. thr[t].pc \in Closing \cup WorkerPlaces
      BY <2>2, ThreadFields DEF Working
    <3>2. \/ t = Main
          \/ /\ thr[t].pc \in WorkerPlaces => interest[fd] = "off"
             /\ thr[t].pc = "del" => interest[fd] = "off"
             /\ thr[t].pc \in {"check", "mark", "close"} => interest[fd] = "none"
      BY <1>1, <2>2, HeldByThread
    <3> QED
      BY <3>1, <3>2 DEF Closing
  <2>4. ~(interest[fd] \in {"in", "out"} /\ thr[Main].fd # fd)
    BY <2>2, <2>3
  <2>5. Cardinality(UsedBy(fd)) = 1 /\ Cardinality(Queued(fd)) = 0
        /\ Cardinality(Pending(fd)) = 0
    BY <1>2, <2>1, <2>2
  <2> QED
    BY <2>4, <2>5 DEF Hands
<1> QED
  BY <1>1, <1>3, <1>4, <1>5, <1>6 DEF Placed

(* A descriptor that no timer took away from its user is in one pair of    *)
(* hands: epoll's, main's, the queue's or a single thread's.  So no two    *)
(* threads work on one HttpConn, and no connection is forgotten.           *)
THEOREM OwnedByOne == Spec => []OneOwner
BY TypeInit, TypeStep, MainLoopInit, MainLoopStep, PlacedInit, PlacedStep, PlacedIsOwned,
   PTL DEF Spec

-----------------------------------------------------------------------------
(* userCount follows isClose: AddClient_ opens a closed descriptor,        *)
(* CloseMark closes an open one.                                           *)
LEMMA CountedAdd ==
  ASSUME TypeOK, AllPlaced, Counted, NEW c \in Conns, NEW fd \in Fds, AddClient_(c, fd)
  PROVE  Counted'
<1> SUFFICES ASSUME preempted = {} PROVE userCount' = Cardinality(OpenFds')
  BY DEF AddClient_, history, Counted
<1>1. fd \notin OpenFds
  <2>1. Placed(fd) /\ owner[fd] = NoConn
    BY DEF AllPlaced, AddClient_, Free
  <2> QED
    BY <2>1 DEF Placed, Unused, InEpoll, InBatch, InQueue, InThread, Open, OpenFds
<1>2. OpenFds' = OpenFds \cup {fd} /\ userCount' = userCount + 1
  BY DEF AddClient_, InitConn, OpenFds, TypeOK
<1>3. IsFiniteSet(OpenFds)
  BY FdsFinite, FS_Subset DEF OpenFds
<1> QED
  BY <1>1, <1>2, <1>3, FS_AddElement DEF Counted

LEMMA CountedMark ==
  ASSUME TypeOK, AllPlaced, Counted, NEW t \in Threads, CloseMark(t)
  PROVE  Counted'
<1> SUFFICES ASSUME preempted = {} PROVE userCount' = Cardinality(OpenFds')
  BY DEF CloseMark, history, Counted
<1>1. PICK fd \in Fds : thr[t].fd = fd
  BY ThreadFields DEF CloseMark, At
<1>2. fd \in OpenFds
  <2>1. Placed(fd) /\ thr[t].pc = "mark"
    BY <1>1 DEF AllPlaced, CloseMark, At
  <2>2. ~Unused(fd)
    BY <1>1, <2>1, HeldByThread DEF Unused
  <2> QED
    BY <1>1, <2>1, <2>2, HeldByThread DEF OpenFds
<1>3. OpenFds' = OpenFds \ {fd} /\ userCount' = userCount - 1
  BY <1>1 DEF CloseMark, OpenFds, TypeOK
<1>4. IsFiniteSet(OpenFds)
  BY FdsFinite, FS_Subset DEF OpenFds
<1>5. Cardinality(OpenFds \ {fd}) = Cardinality(OpenFds) - 1
  BY <1>2, <1>4, FS_RemoveElement
<1> QED
  BY <1>3, <1>5 DEF Counted

LEMMA CountedStep == TypeOK /\ AllPlaced /\ Counted /\ [Next]_vars => Counted'
<1> SUFFICES ASSUME TypeOK, AllPlaced, Counted, [Next]_vars PROVE Counted'
  OBVIOUS
<1> DEFINE Uncounted == UNCHANGED <<isClose, userCount>> /\ preempted \subseteq preempted'
<1> USE DEF users, history
<1>1. Uncounted => Counted'
  BY DEF Counted, OpenFds
<1>2. ASSUME NEW t \in Threads, CloseDel(t) \/ CloseCheck(t) \/ CloseClose(t)
      PROVE  Uncounted
  BY <1>2 DEF CloseDel, CloseCheck, CloseClose
<1>3. ASSUME NEW t \in Threads, CloseConn_(t) PROVE Counted'
  BY <1>1, <1>2, <1>3, CountedMark DEF CloseConn_
<1>4. ASSUME NEW w \in Workers, WorkerStep(w) PROVE Counted'
  <2>1. CASE Works(w)
    BY <1>1, <2>1, WorksOn
  <2>2. CASE Take(w) \/ Rearm(w)
    BY <1>1, <2>2 DEF Take, Rearm
  <2> QED
    BY <1>3, <1>4, <2>1, <2>2 DEF WorkerStep, Works, Threads
<1>5. CASE MainStep
  <2>1. CASE Wait \/ EventsDone \/ DealListen_ \/ AcceptFails
    BY <1>1, <2>1 DEF Wait, EventsDone, DealListen_, AcceptFails
  <2>2. ASSUME NEW e \in batch, DealHup(e) \/ DealReadWrite(e) PROVE Uncounted
    BY <2>2 DEF DealHup, DealReadWrite
  <2>3. ASSUME NEW c \in Conns, Refuse(c) PROVE Uncounted
    BY <2>3 DEF Refuse
  <2> QED
    BY <1>1, <1>3, <1>5, <2>1, <2>2, <2>3, CountedAdd DEF MainStep, Threads
<1>6. ASSUME NEW fd \in Fds, TimerFires(fd) PROVE Uncounted
  BY <1>6 DEF TimerFires
<1>7. ASSUME NEW c \in Conns, Connect(c) \/ Send(c) \/ Hangup(c) PROVE Uncounted
  BY <1>7 DEF Connect, Send, Hangup
<1>8. CASE UNCHANGED vars
  BY <1>1, <1>8 DEF vars
<1> QED
  BY <1>1, <1>4, <1>5, <1>6, <1>7, <1>8 DEF Next, Environment

LEMMA PlacedIsAccounted == ASSUME TypeOK, AllPlaced, Counted PROVE Accounted
<1> SUFFICES ASSUME NEW fd \in Fds \ preempted
             PROVE  (owner[fd] # NoConn) <=>
                      (~isClose[fd] \/ \E t \in Threads : thr[t] = [pc |-> "close", fd |-> fd])
  BY DEF Accounted, Counted, OpenFds
<1>1. Placed(fd)
  BY DEF AllPlaced
<1>2. CASE Unused(fd)
  <2>1. ASSUME NEW t \in Threads, thr[t] = [pc |-> "close", fd |-> fd] PROVE FALSE
    <3>1. thr[t].fd = fd /\ thr[t].pc = "close"
      BY <2>1
    <3> QED
      BY <1>2, <3>1 DEF Unused, UsedBy
  <2> QED
    BY <1>2, <2>1 DEF Unused
<1>3. CASE InEpoll(fd) \/ InBatch(fd) \/ InQueue(fd)
  BY <1>3 DEF InEpoll, InBatch, InQueue, Open
<1>4. CASE InThread(fd)
  <2>1. PICK t \in Threads : UsedBy(fd) = {t} /\ (isClose[fd] <=> thr[t].pc = "close")
    BY <1>4 DEF InThread
  <2>2. thr[t] = [pc |-> thr[t].pc, fd |-> fd]
    BY <2>1, ThreadFields DEF UsedBy
  <2> QED
    BY <1>4, <2>1, <2>2 DEF InThread
<1> QED
  BY <1>1, <1>2, <1>3, <1>4 DEF Placed

(* userCount is the number of open connections, and a descriptor is open   *)
(* exactly as long as its connection is not marked closed, but for the     *)
(* moment between the mark and close(fd_), whatever the order in which     *)
(* workers and timers close connections.                                   *)
THEOREM ConnectionsAccounted == Spec => []Accounted
BY TypeInit, TypeStep, MainLoopInit, MainLoopStep, PlacedInit, PlacedStep, CountedStep,
   PlacedIsAccounted, PTL DEF Spec

-----------------------------------------------------------------------------
(* What reading and processing do to the data: a piece in a buffer was in  *)
(* it before or is the connection's, and the response is about a piece of  *)
(* the buffer.                                                             *)
LEMMA ReadsData ==
  ASSUME TypeOK, NEW w \in Workers, Read(w), NEW fd \in Fds, thr[w].fd = fd
  PROVE  /\ UNCHANGED <<owner, resp, keep, got, client, backlog>>
         /\ \A f \in Fds : f # fd => readBuff'[f] = readBuff[f]
         /\ \A k \in 1..Len(readBuff'[fd]) :
              \/ readBuff'[fd][k] = owner[fd] /\ owner[fd] # NoConn
              \/ k \in 1..Len(readBuff[fd]) /\ readBuff'[fd][k] = readBuff[fd][k]
<1>1. PICK n \in Nat, place \in {"del", "process"} :
         /\ ReadTo(w, n, place)
         /\ IF owner[fd] = NoConn THEN n = 0 /\ place = "del" ELSE n <= inbox[owner[fd]]
  BY ReadsTo
<1> DEFINE c == owner[fd]
           new == [k \in 1..n |-> c]
<1>2. /\ \A f \in Fds : f # fd => readBuff'[f] = readBuff[f]
      /\ readBuff'[fd] = readBuff[fd] \o new
  BY <1>1 DEF ReadTo, TypeOK
<1>3. readBuff[fd] \in Seq(Conns)
  BY DEF TypeOK
<1>4. CASE c = NoConn
  <2>1. new = <<>>
    BY <1>1, <1>4
  <2>2. readBuff'[fd] = readBuff[fd]
    <3> HIDE DEF new
    <3> QED
      BY <1>2, <1>3, <2>1
  <2> QED
    BY <1>2, <2>2 DEF Read, kernel, history
<1>5. CASE c # NoConn
  <2>1. c \in Conns
    BY <1>5 DEF TypeOK
  <2>2. new \in Seq(Conns) /\ Len(new) = n /\ \A k \in 1..n : new[k] = c
    BY <2>1
  <2>3. ASSUME NEW k \in 1..Len(readBuff[fd] \o new)
        PROVE  \/ (readBuff[fd] \o new)[k] = c
               \/ k \in 1..Len(readBuff[fd]) /\ (readBuff[fd] \o new)[k] = readBuff[fd][k]
    <3> HIDE DEF new
    <3>1. CASE k <= Len(readBuff[fd])
      BY <1>3, <2>2, <3>1
    <3>2. CASE k > Len(readBuff[fd])
      <4>1. k - Len(readBuff[fd]) \in 1..n /\ (readBuff[fd] \o new)[k] = new[k - Len(readBuff[fd])]
        BY <1>3, <2>2, <3>2
      <4> QED
        BY <2>2, <4>1
    <3> QED
      BY <1>3, <3>1, <3>2
  <2> QED
    BY <1>2, <1>5, <2>3 DEF Read, kernel, history
<1> QED
  BY <1>4, <1>5

LEMMA ProcessesData ==
  ASSUME TypeOK, NEW w \in Workers, NEW taken \in 0..MaxPieces, NEW alive \in BOOLEAN,
         NEW file \in 0..FileUnits, ProcessRequest(w, taken, alive, file),
         NEW fd \in Fds, thr[w].fd = fd
  PROVE  /\ UNCHANGED <<owner, got, client, backlog>>
         /\ \A f \in Fds : f # fd => readBuff'[f] = readBuff[f] /\ resp'[f] = resp[f]
         /\ 1 \in 1..Len(readBuff[fd]) /\ resp'[fd].src = readBuff[fd][1]
         /\ \A k \in 1..Len(readBuff'[fd]) :
              taken + k \in 1..Len(readBuff[fd]) /\ readBuff'[fd][k] = readBuff[fd][taken + k]
<1>1. readBuff[fd] \in Seq(Conns) /\ readBuff[fd] # <<>> /\ taken \in Nat
  BY BoundsAreNat DEF TypeOK, ProcessRequest
<1>2. readBuff'[fd] = SubSeq(readBuff[fd], taken + 1, Len(readBuff[fd]))
  BY DEF ProcessRequest, TypeOK
<1>3. 1 \in 1..Len(readBuff[fd]) /\ taken <= Len(readBuff[fd])
  BY <1>1 DEF ProcessRequest, Parses
<1>4. ASSUME NEW s \in Seq(Conns), taken <= Len(s),
             NEW k \in 1..Len(SubSeq(s, taken + 1, Len(s)))
      PROVE  taken + k \in 1..Len(s) /\ SubSeq(s, taken + 1, Len(s))[k] = s[taken + k]
  BY <1>1, <1>4
<1>5. \A k \in 1..Len(readBuff'[fd]) :
        taken + k \in 1..Len(readBuff[fd]) /\ readBuff'[fd][k] = readBuff[fd][taken + k]
  BY <1>1, <1>2, <1>3, <1>4
<1>6. resp'[fd].src = readBuff[fd][1]
  BY DEF ProcessRequest, TypeOK
<1>7. \A f \in Fds : f # fd => readBuff'[f] = readBuff[f] /\ resp'[f] = resp[f]
  BY DEF ProcessRequest, TypeOK
<1> QED
  BY <1>3, <1>5, <1>6, <1>7 DEF ProcessRequest, kernel, history

(* A step that passes no data on to a connection it was not about.         *)
Inherits ==
  /\ \A fd \in Fds : owner'[fd] \in {owner[fd], NoConn}
  /\ \A fd \in Fds : \/ resp'[fd].src = resp[fd].src
                     \/ \E j \in 1..Len(readBuff[fd]) : resp'[fd].src = readBuff[fd][j]
  /\ \A fd \in Fds : \A k \in 1..Len(readBuff'[fd]) :
       \/ readBuff'[fd][k] = owner[fd] /\ owner[fd] # NoConn
       \/ \E j \in 1..Len(readBuff[fd]) : readBuff'[fd][k] = readBuff[fd][j]
  /\ \A c \in Conns : got'[c] = got[c] \/ \E fd \in Fds : owner[fd] = c
  /\ backlog' \subseteq backlog
  /\ \A c \in Conns : client'[c] = "new" => client[c] = "new"

LEMMA InheritsDistinct == ASSUME TypeOK, Distinct, Inherits PROVE Distinct'
<1>1. \A f, g \in Fds : owner'[f] = owner'[g] /\ owner'[f] # NoConn => f = g
  BY DEF Distinct, Inherits
<1>2. ASSUME NEW c \in Conns, client'[c] = "new" \/ c \in backlog' PROVE Fresh(c)'
  <2>1. Fresh(c) /\ c # NoConn
    BY <1>2, NoneIsNone DEF Distinct, Inherits
  <2>2. got'[c] = {}
    BY <2>1 DEF Fresh, Inherits
  <2>3. ASSUME NEW fd \in Fds
        PROVE  /\ owner'[fd] # c /\ resp'[fd].src # c
               /\ \A k \in 1..Len(readBuff'[fd]) : readBuff'[fd][k] # c
    BY <2>1 DEF Fresh, Inherits
  <2> QED
    BY <2>2, <2>3 DEF Fresh
<1>3. \A c \in backlog' : client'[c] # "new"
  BY DEF Distinct, Inherits, TypeOK
<1> QED
  BY <1>1, <1>2, <1>3 DEF Distinct

LEMMA InheritsSame ==
  ASSUME UNCHANGED <<owner, resp, readBuff, got, backlog, client>>
  PROVE  Inherits
BY DEF Inherits

LEMMA DistinctInit == Init => Distinct
<1> SUFFICES ASSUME Init PROVE Distinct
  OBVIOUS
<1>1. /\ \A fd \in Fds : owner[fd] = NoConn /\ resp[fd].src = NoConn /\ readBuff[fd] = <<>>
      /\ \A c \in Conns : got[c] = {} /\ c # NoConn
      /\ backlog = {}
  BY NoneIsNone DEF Init
<1> QED
  BY <1>1 DEF Distinct, Fresh

(* Accepting a client gives it a descriptor of its own. *)
LEMMA DistinctAdd ==
  ASSUME TypeOK, Distinct, NEW c \in Conns, NEW fd \in Fds, AddClient_(c, fd)
  PROVE  Distinct'
<1>1. /\ UNCHANGED <<client, got, resp>> /\ backlog' = backlog \ {c} /\ c \in backlog
      /\ owner'[fd] = c /\ readBuff'[fd] = <<>>
      /\ \A f \in Fds : f # fd => owner'[f] = owner[f] /\ readBuff'[f] = readBuff[f]
  BY DEF AddClient_, InitConn, TypeOK, history
<1>2. \A f \in Fds : owner[f] # c
  BY <1>1 DEF Distinct, Fresh
<1>3. \A f, g \in Fds : owner'[f] = owner'[g] /\ owner'[f] # NoConn => f = g
  BY <1>1, <1>2 DEF Distinct
<1>4. ASSUME NEW d \in Conns, client'[d] = "new" \/ d \in backlog' PROVE Fresh(d)'
  <2>1. Fresh(d) /\ d # c
    BY <1>1, <1>4 DEF Distinct
  <2> QED
    BY <1>1, <2>1 DEF Fresh
<1> QED
  BY <1>1, <1>3, <1>4 DEF Distinct

LEMMA DistinctConnect ==
  ASSUME TypeOK, Distinct, NEW c \in Conns, Connect(c)
  PROVE  Distinct'
<1>1. /\ UNCHANGED <<owner, resp, readBuff, got>> /\ backlog' = backlog \cup {c}
      /\ client[c] = "new" /\ client'[c] = "up"
      /\ \A d \in Conns : d # c => client'[d] = client[d]
  BY DEF Connect, TypeOK, users, history
<1>2. \A d \in Conns : Fresh(d)' <=> Fresh(d)
  BY <1>1 DEF Fresh
<1>3. ASSUME NEW d \in Conns, client'[d] = "new" \/ d \in backlog' PROVE Fresh(d)'
  BY <1>1, <1>2, <1>3 DEF Distinct
<1>4. \A d \in backlog' : client'[d] # "new"
  BY <1>1 DEF Distinct, TypeOK
<1>5. \A f, g \in Fds : owner'[f] = owner'[g] /\ owner'[f] # NoConn => f = g
  BY <1>1 DEF Distinct
<1> QED
  BY <1>3, <1>4, <1>5 DEF Distinct

LEMMA WorkerInherits ==
  ASSUME TypeOK, NEW w \in Workers, Works(w)
  PROVE  Inherits
<1>1. PICK fd \in Fds : thr[w].fd = fd
  BY WorksOn, ThreadFields DEF Threads
<1>2. CASE Read(w)
  <2>1. /\ UNCHANGED <<owner, resp, got, client, backlog>>
        /\ \A f \in Fds : f # fd => readBuff'[f] = readBuff[f]
        /\ \A k \in 1..Len(readBuff'[fd]) :
             \/ readBuff'[fd][k] = owner[fd] /\ owner[fd] # NoConn
             \/ k \in 1..Len(readBuff[fd]) /\ readBuff'[fd][k] = readBuff[fd][k]
    BY <1>1, <1>2, ReadsData
  <2> QED
    BY <2>1 DEF Inherits
<1>3. CASE ProcessNothing(w)
  BY <1>3, InheritsSame DEF ProcessNothing, kernel, history
<1>4. ASSUME NEW taken \in 0..MaxPieces, NEW alive \in BOOLEAN, NEW file \in 0..FileUnits,
             ProcessRequest(w, taken, alive, file)
      PROVE  Inherits
  <2>1. /\ UNCHANGED <<owner, got, client, backlog>>
        /\ \A f \in Fds : f # fd => readBuff'[f] = readBuff[f] /\ resp'[f] = resp[f]
        /\ 1 \in 1..Len(readBuff[fd]) /\ resp'[fd].src = readBuff[fd][1]
        /\ \A k \in 1..Len(readBuff'[fd]) :
             taken + k \in 1..Len(readBuff[fd]) /\ readBuff'[fd][k] = readBuff[fd][taken + k]
    BY <1>1, <1>4, ProcessesData
  <2>2. \A f \in Fds : \/ resp'[f].src = resp[f].src
                      \/ \E j \in 1..Len(readBuff[f]) : resp'[f].src = readBuff[f][j]
    BY <2>1
  <2>3. ASSUME NEW f \in Fds, NEW k \in 1..Len(readBuff'[f])
        PROVE  \E j \in 1..Len(readBuff[f]) : readBuff'[f][k] = readBuff[f][j]
    <3>1. CASE f = fd
      <4>1. taken + k \in 1..Len(readBuff[f]) /\ readBuff'[f][k] = readBuff[f][taken + k]
        BY <2>1, <2>3, <3>1
      <4> QED
        BY <4>1
    <3>2. CASE f # fd
      BY <2>1, <2>3, <3>2
    <3> QED
      BY <3>1, <3>2
  <2> QED
    BY <2>1, <2>2, <2>3 DEF Inherits
<1>5. CASE WriteNothing(w) \/ WriteAgain(w) \/ WriteFails(w)
  BY <1>5, InheritsSame
  DEF WriteNothing, WriteAgain, WriteFails, kernel, users, history
<1>6. ASSUME NEW n \in 0..(1 + FileUnits), WriteSome(w, n) PROVE Inherits
  <2>1. /\ \A f \in Fds : resp'[f].src = resp[f].src
    BY <1>1, <1>6, WritesSome
  <2>2. UNCHANGED <<owner, readBuff, client, backlog>>
    BY <1>6 DEF WriteSome, kernel
  <2>3. \A c \in Conns : c # owner[fd] => got'[c] = got[c]
    BY <1>1, <1>6 DEF WriteSome, TypeOK
  <2> QED
    BY <2>1, <2>2, <2>3 DEF Inherits
<1> QED
  BY <1>2, <1>3, <1>4, <1>5, <1>6 DEF Works

LEMMA CloseInherits ==
  ASSUME TypeOK, NEW t \in Threads, CloseConn_(t)
  PROVE  Inherits
<1>1. CASE CloseDel(t) \/ CloseCheck(t) \/ CloseMark(t)
  BY <1>1, InheritsSame DEF CloseDel, CloseCheck, CloseMark, kernel, users, history
<1>2. CASE CloseClose(t)
  <2>1. UNCHANGED <<resp, readBuff, got, backlog>>
    BY <1>2 DEF CloseClose, users, history
  <2>2. \A c \in Conns : client'[c] \in {client[c], "gone"}
    BY <1>2 DEF CloseClose, CloseFd
  <2>3. \A f \in Fds : owner'[f] \in {owner[f], NoConn}
    BY <1>2 DEF CloseClose, CloseFd, TypeOK
  <2> QED
    BY <2>1, <2>2, <2>3 DEF Inherits
<1> QED
  BY <1>1, <1>2 DEF CloseConn_

LEMMA DistinctStep == TypeOK /\ Distinct /\ [Next]_vars => Distinct'
<1> SUFFICES ASSUME TypeOK, Distinct, [Next]_vars PROVE Distinct'
  OBVIOUS
<1> USE DEF kernel, users, history
<1>1. ASSUME NEW c \in Conns, Send(c) PROVE Inherits
  BY <1>1, InheritsSame DEF Send
<1>2. ASSUME NEW c \in Conns, Hangup(c) PROVE Inherits
  BY <1>2 DEF Hangup, Inherits, TypeOK
<1>3. ASSUME NEW fd \in Fds, TimerFires(fd) PROVE Inherits
  BY <1>3, InheritsSame DEF TimerFires
<1>4. ASSUME NEW w \in Workers, WorkerStep(w) PROVE Inherits
  <2>1. CASE Take(w) \/ Rearm(w)
    BY <2>1, InheritsSame DEF Take, Rearm
  <2>2. CASE Works(w)
    BY <2>2, WorkerInherits
  <2> QED
    BY <1>4, <2>1, <2>2, CloseInherits DEF WorkerStep, Works, Threads
<1>5. CASE MainStep
  <2>1. CASE Wait \/ EventsDone \/ DealListen_ \/ AcceptFails
    <3>1. UNCHANGED <<owner, resp, readBuff, got, backlog, client>>
      BY <2>1 DEF Wait, EventsDone, DealListen_, AcceptFails
    <3> QED
      BY <3>1, InheritsSame, InheritsDistinct
  <2>2. ASSUME NEW e \in batch, DealHup(e) \/ DealReadWrite(e) PROVE Inherits
    BY <2>2, InheritsSame DEF DealHup, DealReadWrite
  <2>3. ASSUME NEW c \in Conns, Refuse(c) PROVE Inherits
    BY <2>3 DEF Refuse, Inherits, TypeOK
  <2> QED
    BY <1>5, <2>1, <2>2, <2>3, CloseInherits, DistinctAdd, InheritsDistinct
    DEF MainStep, Threads
<1>6. CASE UNCHANGED vars
  BY <1>6, InheritsSame, InheritsDistinct DEF vars
<1>7. CASE Inherits
  BY <1>7, InheritsDistinct
<1> QED
  BY <1>1, <1>2, <1>3, <1>4, <1>5, <1>6, <1>7, DistinctConnect DEF Next, Environment

-----------------------------------------------------------------------------
(* A descriptor changes sides only where its own worker moves it: a step   *)
(* that adds no event, task or thread to a side leaves it there.           *)
LEMMA SidesKept ==
  ASSUME NEW fd \in Fds, interest'[fd] \in {interest[fd], "none", "off"},
         batch' \subseteq batch, tasks' = tasks,
         \A t \in Threads : thr'[t].fd = fd /\ thr'[t].pc \notin Closing => thr'[t] = thr[t]
  PROVE  (Reading(fd)' => Reading(fd)) /\ (Writing(fd)' => Writing(fd))
<1>1. Queued(fd)' = Queued(fd)
  BY DEF Queued
<1>2. ASSUME NEW t \in UsedBy(fd)', thr'[t].pc \notin Closing
      PROVE  t \in UsedBy(fd) /\ thr'[t] = thr[t]
  BY <1>2 DEF UsedBy
<1>3. ASSUME Reading(fd)' PROVE Reading(fd)
  <2>1. CASE \E t \in UsedBy(fd)' : thr'[t].pc \in {"read", "process", "rearmIn"}
    BY <1>2, <2>1 DEF Reading, Closing
  <2> QED
    BY <1>1, <1>3, <2>1 DEF Reading
<1>4. ASSUME Writing(fd)' PROVE Writing(fd)
  <2>1. CASE \E t \in UsedBy(fd)' : thr'[t].pc \in {"write", "rearmOut"}
    BY <1>2, <2>1 DEF Writing, Closing
  <2> QED
    BY <1>1, <1>4, <2>1 DEF Writing
<1> QED
  BY <1>3, <1>4

(* What a descriptor's data is, and that it stays its connection's. *)
DataKept(fd) ==
  /\ owner'[fd] = owner[fd] /\ readBuff'[fd] = readBuff[fd] /\ resp'[fd] = resp[fd]
  /\ got'[owner[fd]] = got[owner[fd]]

LEMMA StaysOwn ==
  ASSUME NEW fd \in Fds, OwnData(fd), DataKept(fd),
         Reading(fd)' => Reading(fd), Writing(fd)' => Writing(fd)
  PROVE  OwnData(fd)'
BY DEF OwnData, DataKept, Writable

LEMMA SeparateKept ==
  ASSUME Separate, preempted \subseteq preempted',
         \A fd \in Fds \ preempted : owner'[fd] # NoConn =>
           /\ DataKept(fd)
           /\ Reading(fd)' => Reading(fd)
           /\ Writing(fd)' => Writing(fd)
  PROVE  Separate'
<1> SUFFICES ASSUME NEW fd \in Fds \ preempted', owner'[fd] # NoConn PROVE OwnData(fd)'
  BY DEF Separate
<1> QED
  BY StaysOwn DEF Separate, DataKept

LEMMA SeparateInit == Init => Separate
BY DEF Init, Separate

(* Clients, and main's steps that open no connection. *)
LEMMA SeparateClients ==
  ASSUME TypeOK, Separate, NEW c \in Conns, Connect(c) \/ Send(c) \/ Hangup(c)
  PROVE  Separate'
<1>1. UNCHANGED <<owner, readBuff, resp, got, interest, batch, tasks, thr, preempted>>
  BY DEF Connect, Send, Hangup, users, history
<1> QED
  BY <1>1, SidesKept, SeparateKept DEF DataKept

LEMMA SeparateTimer ==
  ASSUME TypeOK, Separate, NEW fd \in Fds, TimerFires(fd)
  PROVE  Separate'
<1>1. /\ UNCHANGED <<owner, readBuff, resp, got, interest, batch, tasks>>
      /\ preempted \subseteq preempted'
      /\ \A t \in Threads : thr'[t] = thr[t] \/ thr'[t].pc = "del"
  BY DEF TimerFires, users, TypeOK
<1>2. \A f \in Fds : (Reading(f)' => Reading(f)) /\ (Writing(f)' => Writing(f))
  BY <1>1, SidesKept DEF Closing
<1> QED
  BY <1>1, <1>2, SeparateKept DEF DataKept

LEMMA SeparateClose ==
  ASSUME TypeOK, Separate, NEW t \in Threads, CloseConn_(t)
  PROVE  Separate'
<1>1. /\ UNCHANGED <<readBuff, resp, got, batch, tasks, preempted>>
      /\ \A f \in Fds : interest'[f] \in {interest[f], "none"}
      /\ \A f \in Fds : owner'[f] \in {owner[f], NoConn}
  <2>1. CASE CloseDel(t)
    BY <2>1 DEF CloseDel, users, history, TypeOK
  <2>2. CASE CloseCheck(t) \/ CloseMark(t)
    BY <2>2 DEF CloseCheck, CloseMark, users, history
  <2>3. CASE CloseClose(t)
    BY <2>3 DEF CloseClose, CloseFd, users, history, TypeOK
  <2> QED
    BY <2>1, <2>2, <2>3 DEF CloseConn_
<1>2. thr[t].pc # "idle" /\ (Done(t) \/ \E place \in Closing : Goto(t, place))
  BY DEF CloseConn_, CloseDel, CloseCheck, CloseMark, CloseClose, EndClose, Closing, At
<1>3. \A u \in Threads : thr'[u] = thr[u] \/ thr'[u].pc \in Closing \/ thr'[u] = Idle
  <2>1. CASE Done(t)
    BY <2>1, Stops
  <2>2. ASSUME NEW place \in Closing, Goto(t, place)
        PROVE  \A u \in Threads : thr'[u] = thr[u] \/ thr'[u].pc \in Closing
    <3>1. /\ thr'[t] = [pc |-> place, fd |-> thr[t].fd]
          /\ \A u \in Threads : u # t => thr'[u] = thr[u]
      BY <1>2, <2>2, Goes
    <3>2. thr'[t].pc \in Closing
      BY <3>1
    <3> QED
      BY <3>1, <3>2
  <2> QED
    BY <1>2, <2>1, <2>2
<1>4. \A f \in Fds : (Reading(f)' => Reading(f)) /\ (Writing(f)' => Writing(f))
  BY <1>1, <1>3, SidesKept, NoneIsNone DEF Idle
<1>5. \A f \in Fds : owner'[f] # NoConn => DataKept(f)
  BY <1>1 DEF DataKept
<1> QED
  BY <1>1, <1>4, <1>5, SeparateKept

LEMMA SeparateWait == ASSUME TypeOK, MainLoop, Separate, Wait PROVE Separate'
<1>1. /\ UNCHANGED <<owner, readBuff, resp, got, tasks, thr, preempted>>
      /\ batch' \subseteq Ready
      /\ \A f \in Fds : interest'[f] \in {interest[f], "off"}
  BY DEF Wait, Disarm, users, history
<1>2. ASSUME NEW fd \in Fds
      PROVE  /\ [kind |-> "in", fd |-> fd] \in batch' => interest[fd] = "in"
             /\ [kind |-> "out", fd |-> fd] \in batch' => interest[fd] = "out"
  <2>1. ASSUME NEW e \in Ready, e.kind # "listen", e.fd = fd PROVE e \in EventsOf(fd)
    <3>1. PICK f \in Fds : e \in EventsOf(f)
      BY <2>1 DEF Ready
    <3>2. f = fd
      BY <2>1, <3>1 DEF EventsOf
    <3> QED
      BY <3>1, <3>2
  <2>2. \A kind \in {"in", "out"} :
          [kind |-> kind, fd |-> fd] \in batch' => [kind |-> kind, fd |-> fd] \in EventsOf(fd)
    BY <1>1, <2>1
  <2>3. \A kind \in {"in", "out"} :
          [kind |-> kind, fd |-> fd] \in EventsOf(fd) => interest[fd] = kind
    BY DEF EventsOf
  <2> QED
    BY <2>2, <2>3
<1>3. \A fd \in Fds : (Reading(fd)' => Reading(fd)) /\ (Writing(fd)' => Writing(fd))
  BY <1>1, <1>2 DEF Reading, Writing, Queued, UsedBy
<1> QED
  BY <1>1, <1>3, SeparateKept DEF DataKept

LEMMA SeparateDispatch ==
  ASSUME TypeOK, Separate, NEW e \in batch, DealHup(e) \/ DealReadWrite(e)
  PROVE  Separate'
<1>1. /\ UNCHANGED <<owner, readBuff, resp, got, interest, preempted>>
      /\ batch' \subseteq batch /\ e \in Events /\ e.kind # "listen"
  BY DEF DealHup, DealReadWrite, Handling, users, history, TypeOK
<1>2. CASE DealHup(e)
  <2>1. tasks' = tasks /\ \A t \in Threads : thr'[t] = thr[t] \/ thr'[t].pc = "del"
    BY <1>2 DEF DealHup, TypeOK
  <2>2. \A f \in Fds : (Reading(f)' => Reading(f)) /\ (Writing(f)' => Writing(f))
    BY <1>1, <2>1, SidesKept DEF Closing
  <2> QED
    BY <1>1, <2>2, SeparateKept DEF DataKept
<1>3. CASE DealReadWrite(e)
  <2>1. thr' = thr /\ tasks' = Append(tasks, TaskFor(e))
    BY <1>3 DEF DealReadWrite
  <2>2. /\ tasks \in Seq(Tasks) /\ TaskFor(e) \in Tasks
        /\ e = [kind |-> IF TaskFor(e).pc = "read" THEN "in" ELSE "out", fd |-> TaskFor(e).fd]
    BY <1>1, <1>3 DEF TypeOK, TaskFor, Tasks, Events, DealReadWrite
  <2>3. \A k \in DOMAIN tasks' :
           tasks'[k] = TaskFor(e) \/ (k \in DOMAIN tasks /\ tasks'[k] = tasks[k])
    BY <2>1, <2>2
  <2>4. ASSUME NEW f \in Fds, NEW k \in Queued(f)'
        PROVE  /\ tasks'[k].pc = "read" => Reading(f)
               /\ tasks'[k].pc = "write" => Writing(f)
    <3>1. k \in DOMAIN tasks' /\ tasks'[k].fd = f
      BY <2>4 DEF Queued
    <3>2. CASE tasks'[k] = TaskFor(e)
      BY <2>2, <3>1, <3>2 DEF Reading, Writing
    <3>3. CASE k \in DOMAIN tasks /\ tasks'[k] = tasks[k]
      BY <3>1, <3>3 DEF Reading, Writing, Queued
    <3> QED
      BY <2>3, <3>1, <3>2, <3>3
  <2>5. ASSUME NEW f \in Fds
        PROVE  (Reading(f)' => Reading(f)) /\ (Writing(f)' => Writing(f))
    <3>1. UsedBy(f)' = UsedBy(f)
      BY <2>1 DEF UsedBy
    <3>2. Reading(f)' => Reading(f)
      BY <1>1, <2>1, <2>4, <3>1 DEF Reading
    <3>3. Writing(f)' => Writing(f)
      BY <1>1, <2>1, <2>4, <3>1 DEF Writing
    <3> QED
      BY <3>2, <3>3
  <2> QED
    BY <1>1, <2>5, SeparateKept DEF DataKept
<1> QED
  BY <1>2, <1>3

LEMMA SeparateRest ==
  ASSUME TypeOK, Separate,
         EventsDone \/ DealListen_ \/ AcceptFails \/ \E c \in Conns : Refuse(c)
  PROVE  Separate'
<1>1. /\ UNCHANGED <<owner, readBuff, resp, got, interest, thr, tasks, preempted>>
      /\ batch' \subseteq batch
  BY DEF EventsDone, DealListen_, AcceptFails, Refuse, Handling, users, history
<1>2. \A f \in Fds : (Reading(f)' => Reading(f)) /\ (Writing(f)' => Writing(f))
  BY <1>1, SidesKept
<1> QED
  BY <1>1, <1>2, SeparateKept DEF DataKept

(* A new connection finds nothing of its own in the object it gets, and    *)
(* init empties the buffer; the response of the last one is not prepared.  *)
LEMMA SeparateAdd ==
  ASSUME TypeOK, MainLoop, AllPlaced, Distinct, Separate,
         NEW c \in Conns, NEW fd \in Fds, AddClient_(c, fd)
  PROVE  Separate'
<1>1. /\ UNCHANGED <<resp, got, batch, thr, tasks, preempted>> /\ c \in backlog
      /\ owner[fd] = NoConn /\ owner'[fd] = c /\ interest'[fd] = "in" /\ readBuff'[fd] = <<>>
      /\ thr[Main] = Idle /\ c # NoConn /\ fd # NoFd
      /\ \A f \in Fds : f # fd => /\ owner'[f] = owner[f] /\ interest'[f] = interest[f]
                                  /\ readBuff'[f] = readBuff[f]
  BY NoneIsNone DEF AddClient_, Free, InitConn, TypeOK, MainLoop, history
<1> SUFFICES ASSUME NEW f \in Fds \ preempted, owner'[f] # NoConn PROVE OwnData(f)'
  BY <1>1 DEF Separate
<1>2. CASE f # fd
  <2>1. OwnData(f) /\ DataKept(f)
    BY <1>1, <1>2 DEF Separate, DataKept
  <2> QED
    BY <1>1, <1>2, <2>1, SidesKept, StaysOwn
<1>3. CASE f = fd
  <2>1. Unused(fd)
    BY <1>1, <1>3 DEF AllPlaced, Placed, InEpoll, InBatch, InQueue, InThread, Open
  <2>2. UsedBy(fd) = {} /\ Queued(fd) = {} /\ Pending(fd) = {}
    BY <1>1, <2>1 DEF Unused, UsedBy, Idle
  <2>3. UsedBy(fd)' = {} /\ Queued(fd)' = {} /\ [kind |-> "out", fd |-> fd] \notin batch'
    BY <1>1, <2>2 DEF UsedBy, Queued, Pending
  <2>4. ~Writing(fd)'
    BY <1>1, <2>3 DEF Writing
  <2>5. resp'[fd].src # c /\ got'[c] = {}
    BY <1>1 DEF Distinct, Fresh
  <2> QED
    BY <1>1, <1>3, <2>4, <2>5 DEF OwnData
<1> QED
  BY <1>2, <1>3

LEMMA SeparateTake ==
  ASSUME TypeOK, Separate, NEW w \in Workers, Take(w)
  PROVE  Separate'
<1>1. /\ UNCHANGED <<owner, readBuff, resp, got, interest, batch, preempted>>
      /\ tasks # <<>> /\ tasks' = Tail(tasks)
      /\ \A t \in Threads : t # w => thr'[t] = thr[t]
      /\ thr'[w] = Head(tasks) /\ thr[w] = Idle /\ w \in Threads
  BY DEF Take, users, history, TypeOK, Threads
<1>2. tasks \in Seq(Tasks)
  BY DEF TypeOK
<1>3. /\ 1 \in DOMAIN tasks /\ Head(tasks) = tasks[1]
      /\ \A k \in DOMAIN tasks' : k + 1 \in DOMAIN tasks /\ tasks'[k] = tasks[k + 1]
  BY <1>1, <1>2
<1>4. \A f \in Fds : \A k \in Queued(f)' : k + 1 \in Queued(f) /\ tasks'[k] = tasks[k + 1]
  BY <1>3 DEF Queued
<1>5. \A f \in Fds : \A t \in UsedBy(f)' :
        \/ t \in UsedBy(f) /\ thr'[t] = thr[t]
        \/ 1 \in Queued(f) /\ thr'[t] = tasks[1] /\ tasks[1] \in Tasks
  BY <1>1, <1>2, <1>3 DEF UsedBy, Queued
<1>6. ASSUME NEW f \in Fds, Reading(f)' PROVE Reading(f)
  <2>1. CASE \E t \in UsedBy(f)' : thr'[t].pc \in {"read", "process", "rearmIn"}
    BY <1>5, <2>1 DEF Reading, Tasks
  <2>2. CASE \E k \in Queued(f)' : tasks'[k].pc = "read"
    BY <1>4, <2>2 DEF Reading
  <2> QED
    BY <1>1, <1>6, <2>1, <2>2 DEF Reading
<1>7. ASSUME NEW f \in Fds, Writing(f)' PROVE Writing(f)
  <2>1. CASE \E t \in UsedBy(f)' : thr'[t].pc \in {"write", "rearmOut"}
    BY <1>5, <2>1 DEF Writing, Tasks
  <2>2. CASE \E k \in Queued(f)' : tasks'[k].pc = "write"
    BY <1>4, <2>2 DEF Writing
  <2> QED
    BY <1>1, <1>7, <2>1, <2>2 DEF Writing
<1> QED
  BY <1>1, <1>6, <1>7, SeparateKept DEF DataKept

(* Re-armed, a descriptor waits on the side its worker left it on. *)
LEMMA SeparateRearm ==
  ASSUME TypeOK, Separate, NEW w \in Workers, Rearm(w)
  PROVE  Separate'
<1>1. /\ UNCHANGED <<owner, readBuff, resp, got, batch, tasks, preempted>>
      /\ w \in Threads /\ thr'[w] = Idle /\ thr[w].fd \in Fds
      /\ \A t \in Threads : t # w => thr'[t] = thr[t]
      /\ \A f \in Fds : f # thr[w].fd => interest'[f] = interest[f]
  BY Stops, ThreadFields DEF Rearm, ModFd, At, users, history, TypeOK, Threads
<1>2. \A f \in Fds : interest'[f] # interest[f] => w \in UsedBy(f) /\
        \/ thr[w].pc = "rearmIn" /\ interest'[f] = "in"
        \/ thr[w].pc = "rearmOut" /\ interest'[f] = "out"
  BY <1>1 DEF Rearm, ModFd, At, TypeOK, UsedBy
<1>3. \A f \in Fds : \A t \in UsedBy(f)' : t \in UsedBy(f) /\ thr'[t] = thr[t]
  BY <1>1, NoneIsNone DEF UsedBy, Idle
<1>4. \A f \in Fds : Queued(f)' = Queued(f)
  BY <1>1 DEF Queued
<1>5. ASSUME NEW f \in Fds PROVE Reading(f)' => Reading(f)
  BY <1>1, <1>2, <1>3, <1>4 DEF Reading
<1>6. ASSUME NEW f \in Fds PROVE Writing(f)' => Writing(f)
  BY <1>1, <1>2, <1>3, <1>4 DEF Writing
<1> QED
  BY <1>1, <1>5, <1>6, SeparateKept DEF DataKept

(* What a working worker leaves alone: every other descriptor, and what    *)
(* its client was sent.  Its own descriptor is in its hands alone.         *)
LEMMA WorksAlone ==
  ASSUME TypeOK, AllPlaced, Distinct, NEW w \in Workers, Works(w),
         NEW fd \in Fds, thr[w].fd = fd, fd \notin preempted
  PROVE  /\ owner[fd] \in Conns /\ owner'[fd] = owner[fd]
         /\ interest[fd] = "off" /\ interest'[fd] = "off"
         /\ Queued(fd)' = {} /\ Pending(fd)' = {} /\ UsedBy(fd)' = {w}
         /\ thr'[w].pc \in {"read", "process", "rearmIn"} => Reading(fd)'
         /\ Reading(fd)' => thr'[w].pc \in {"read", "process", "rearmIn"}
         /\ Writing(fd)' => thr'[w].pc \in {"write", "rearmOut"}
<1>1. /\ UNCHANGED <<owner, interest, isClose, batch, tasks, preempted>>
      /\ thr[w].pc \in {"read", "process", "write"} /\ w \in Threads /\ w # Main
      /\ thr' = thr \/ \E place \in WorkerPlaces \cup {"del"} : Goto(w, place)
  BY WorksOn, MainIsNoWorker DEF Threads
<1>2. /\ Queued(fd) = {} /\ Pending(fd) = {} /\ UsedBy(fd) = {w}
      /\ owner[fd] # NoConn /\ interest[fd] = "off"
  BY <1>1, HeldByThread DEF AllPlaced, WorkerPlaces
<1>3. thr'[w].fd = fd /\ \A u \in Threads : u # w => thr'[u] = thr[u]
  <2>1. ASSUME NEW place \in WorkerPlaces \cup {"del"}, Goto(w, place)
        PROVE  thr'[w].fd = fd /\ \A u \in Threads : u # w => thr'[u] = thr[u]
    <3>1. thr[w].pc # "idle" /\ place \in Closing \cup WorkerPlaces
      BY <1>1 DEF Closing
    <3>2. /\ thr'[w] = [pc |-> place, fd |-> thr[w].fd]
          /\ \A u \in Threads : u # w => thr'[u] = thr[u]
      BY <1>1, <2>1, <3>1, Goes
    <3> QED
      BY <3>2
  <2> QED
    BY <1>1, <2>1
<1>4. Queued(fd)' = {} /\ Pending(fd)' = {} /\ UsedBy(fd)' = {w}
  BY <1>1, <1>2, <1>3, KeepsItsFd DEF Queued, Pending
<1>5. \A kind \in {"in", "out"} : [kind |-> kind, fd |-> fd] \notin batch'
  BY <1>4 DEF Pending
<1> QED
  BY <1>1, <1>2, <1>4, <1>5 DEF Reading, Writing, TypeOK

LEMMA OthersKept ==
  ASSUME TypeOK, Distinct, NEW w \in Workers, Works(w),
         NEW fd \in Fds, thr[w].fd = fd,
         NEW f \in Fds \ {fd}, owner[f] # NoConn
  PROVE  DataKept(f) /\ (Reading(f)' => Reading(f)) /\ (Writing(f)' => Writing(f))
<1>1. /\ UNCHANGED <<owner, interest, isClose, batch, tasks>>
      /\ thr[w].pc \in {"read", "process", "write"} /\ w \in Threads
  BY WorksOn DEF Threads
<1>2. readBuff'[f] = readBuff[f] /\ resp'[f] = resp[f]
  BY WorkerFrame DEF Same, Works, WorkerStep
<1>3. got'[owner[f]] = got[owner[f]]
  <2>1. owner[f] # owner[fd] /\ owner[f] \in Conns
    BY DEF Distinct, TypeOK
  <2>2. CASE \E n \in 0..(1 + FileUnits) : WriteSome(w, n)
    BY <2>1, <2>2 DEF WriteSome, TypeOK
  <2>3. CASE ~\E n \in 0..(1 + FileUnits) : WriteSome(w, n)
    BY <2>3 DEF Works, Read, ProcessNothing, ProcessRequest, WriteNothing, WriteAgain,
                WriteFails, history
  <2> QED
    BY <2>2, <2>3
<1>4. \A t \in Threads : thr'[t].fd = f => thr'[t] = thr[t]
  <2>1. /\ \A t \in Threads : t # w => thr'[t] = thr[t]
        /\ thr'[w].fd \in {thr[w].fd, NoFd} \/ (Take(w) /\ thr[w].fd = NoFd)
    BY WorkerMoves DEF Works, WorkerStep
  <2>2. thr'[w].fd # f
    BY <2>1, NoneIsNone
  <2> QED
    BY <2>1, <2>2
<1> QED
  BY <1>1, <1>2, <1>3, <1>4, SidesKept DEF DataKept

(* Reading and processing: the buffer takes in the connection's own pieces *)
(* and the response is about the first of them.                            *)
LEMMA OwnReads ==
  ASSUME TypeOK, AllPlaced, Distinct, NEW w \in Workers, Read(w) \/ ProcessNothing(w),
         NEW fd \in Fds, thr[w].fd = fd, fd \notin preempted, OwnData(fd)
  PROVE  OwnData(fd)'
<1>1. /\ Works(w) /\ thr[w].pc \in {"read", "process"}
      /\ UNCHANGED <<resp, got>>
  BY DEF Works, Read, ProcessNothing, At, history
<1>2. Reading(fd)
  BY <1>1 DEF Reading, UsedBy, Threads
<1>3. ~Writing(fd)'
  <2>1. thr'[w].pc \in {"process", "del", "rearmIn"}
    <3>1. \E place \in {"process", "del", "rearmIn"} : Goto(w, place)
      BY ReadsTo DEF ReadTo, ProcessNothing
    <3>2. PICK place \in {"process", "del", "rearmIn"} : Goto(w, place)
      BY <3>1
    <3>3. thr[w].pc # "idle" /\ w \in Threads /\ place \in Closing \cup WorkerPlaces
      BY <1>1 DEF Threads, Closing, WorkerPlaces
    <3>4. thr'[w] = [pc |-> place, fd |-> thr[w].fd]
      BY <3>2, <3>3, Goes
    <3> QED
      BY <3>4
  <2> QED
    BY <1>1, <2>1, WorksAlone
<1>4. owner'[fd] = owner[fd] /\ owner[fd] \in Conns
  BY <1>1, WorksAlone
<1>5. \A k \in 1..Len(readBuff'[fd]) : readBuff'[fd][k] = owner[fd]
  <2>1. CASE Read(w)
    BY <2>1, ReadsData DEF OwnData
  <2>2. CASE ProcessNothing(w)
    BY <2>2 DEF ProcessNothing, OwnData
  <2> QED
    BY <2>1, <2>2
<1> QED
  BY <1>1, <1>2, <1>3, <1>4, <1>5 DEF OwnData, Writable

LEMMA OwnProcesses ==
  ASSUME TypeOK, AllPlaced, Distinct, NEW w \in Workers, NEW taken \in 0..MaxPieces,
         NEW alive \in BOOLEAN, NEW file \in 0..FileUnits,
         ProcessRequest(w, taken, alive, file),
         NEW fd \in Fds, thr[w].fd = fd, fd \notin preempted, OwnData(fd)
  PROVE  OwnData(fd)'
<1>1. Works(w) /\ thr[w].pc # "idle" /\ w \in Threads /\ Goto(w, "rearmOut")
  BY DEF Works, ProcessRequest, At, Threads
<1>2. thr'[w] = [pc |-> "rearmOut", fd |-> fd]
  BY <1>1, Goes DEF WorkerPlaces
<1>3. ~Reading(fd)' /\ owner'[fd] = owner[fd]
  BY <1>1, <1>2, WorksAlone
<1>4. /\ UNCHANGED <<owner, got, client, backlog>>
      /\ \A f \in Fds : f # fd => readBuff'[f] = readBuff[f] /\ resp'[f] = resp[f]
      /\ 1 \in 1..Len(readBuff[fd]) /\ resp'[fd].src = readBuff[fd][1]
      /\ \A k \in 1..Len(readBuff'[fd]) :
           taken + k \in 1..Len(readBuff[fd]) /\ readBuff'[fd][k] = readBuff[fd][taken + k]
  BY ProcessesData
<1>5. resp'[fd].src = owner[fd] /\ \A k \in 1..Len(readBuff'[fd]) : readBuff'[fd][k] = owner[fd]
  BY <1>4 DEF OwnData
<1>6. got'[owner[fd]] \subseteq {owner[fd]}
  BY <1>4 DEF OwnData
<1> QED
  BY <1>3, <1>5, <1>6 DEF OwnData

(* Writing: what is sent is the connection's response, and the worker      *)
(* returns to reading only when nothing of it is left.                     *)
LEMMA OwnWrites ==
  ASSUME TypeOK, AllPlaced, Distinct, NEW w \in Workers,
         WriteNothing(w) \/ WriteAgain(w) \/ WriteFails(w),
         NEW fd \in Fds, thr[w].fd = fd, fd \notin preempted, OwnData(fd)
  PROVE  OwnData(fd)'
<1>1. /\ Works(w) /\ thr[w].pc = "write" /\ w \in Threads
      /\ UNCHANGED <<owner, resp, readBuff, got>>
  BY DEF Works, WriteNothing, WriteAgain, WriteFails, At, Threads, users, history
<1>2. Writing(fd)
  BY <1>1 DEF Writing, UsedBy
<1>3. ASSUME Reading(fd)' PROVE Writable(fd) = 0
  <2>1. thr'[w].pc \in {"read", "process", "rearmIn"}
    BY <1>1, <1>3, WorksAlone
  <2>2. \A place \in {"rearmOut", "del"} : ~Goto(w, place)
    <3>1. ASSUME NEW place \in {"rearmOut", "del"}, Goto(w, place) PROVE FALSE
      <4>1. thr[w].pc # "idle" /\ place \in Closing \cup WorkerPlaces
        BY <1>1 DEF Closing, WorkerPlaces
      <4>2. thr'[w] = [pc |-> place, fd |-> thr[w].fd]
        BY <1>1, <3>1, <4>1, Goes
      <4> QED
        BY <2>1, <4>2
    <3> QED
      BY <3>1
  <2>3. WriteNothing(w)
    BY <2>2 DEF WriteAgain, WriteFails, AfterAgain
  <2>4. resp[fd].h \in Nat /\ resp[fd].f \in Nat
    BY BoundsAreNat DEF TypeOK, Responses
  <2> QED
    BY <2>3, <2>4 DEF WriteNothing, ToWriteBytes, Writable
<1> QED
  BY <1>1, <1>2, <1>3 DEF OwnData, Writable

LEMMA OwnWritesSome ==
  ASSUME TypeOK, AllPlaced, Distinct, NEW w \in Workers, NEW n \in 0..(1 + FileUnits),
         WriteSome(w, n),
         NEW fd \in Fds, thr[w].fd = fd, fd \notin preempted, OwnData(fd)
  PROVE  OwnData(fd)'
<1>1. /\ Works(w) /\ thr[w].pc = "write" /\ w \in Threads
      /\ UNCHANGED <<owner, readBuff>>
  BY DEF Works, WriteSome, At, Threads
<1>2. Writing(fd)
  BY <1>1 DEF Writing, UsedBy
<1>3. /\ owner[fd] \in Conns /\ resp'[fd].src = resp[fd].src
      /\ ToWriteBytes(fd) - n = 0 => Writable(fd)' = 0
      /\ thr' = thr \/ AfterWrite(w, ToWriteBytes(fd) - n)
  BY WritesSome
<1>4. got'[owner[fd]] \subseteq {owner[fd]}
  BY <1>2, <1>3 DEF WriteSome, TypeOK, OwnData
<1>5. ASSUME Reading(fd)' PROVE Writable(fd)' = 0
  <2>1. thr'[w].pc \in {"read", "process", "rearmIn"}
    BY <1>1, <1>5, WorksAlone
  <2>2. ~Goto(w, "del")
    <3>1. ASSUME Goto(w, "del") PROVE FALSE
      <4>1. thr'[w] = [pc |-> "del", fd |-> thr[w].fd]
        BY <1>1, <3>1, Goes DEF Closing
      <4> QED
        BY <2>1, <4>1
    <3> QED
      BY <3>1
  <2>3. ToWriteBytes(fd) - n = 0
    BY <1>1, <1>3, <2>1, <2>2 DEF AfterWrite
  <2> QED
    BY <1>3, <2>3
<1> QED
  BY <1>1, <1>2, <1>3, <1>4, <1>5 DEF OwnData

LEMMA SeparateWorks ==
  ASSUME TypeOK, AllPlaced, Distinct, Separate, NEW w \in Workers, Works(w)
  PROVE  Separate'
<1>1. PICK fd \in Fds : thr[w].fd = fd
  BY WorksOn, ThreadFields DEF Threads
<1>2. UNCHANGED <<owner, preempted>>
  BY WorksOn
<1> SUFFICES ASSUME NEW f \in Fds \ preempted, owner[f] # NoConn, OwnData(f)
             PROVE  OwnData(f)'
  BY <1>2 DEF Separate
<1>3. CASE f # fd
  BY <1>1, <1>3, OthersKept, StaysOwn
<1>4. CASE f = fd
  BY <1>1, <1>4, OwnReads, OwnProcesses, OwnWrites, OwnWritesSome DEF Works
<1> QED
  BY <1>3, <1>4

LEMMA SeparateStep ==
  TypeOK /\ MainLoop /\ AllPlaced /\ Distinct /\ Separate /\ [Next]_vars => Separate'
<1> SUFFICES ASSUME TypeOK, MainLoop, AllPlaced, Distinct, Separate, [Next]_vars
             PROVE  Separate'
  OBVIOUS
<1>1. ASSUME NEW w \in Workers, WorkerStep(w) PROVE Separate'
  <2>1. w \in Threads
    BY DEF Threads
  <2> QED
    BY <1>1, <2>1, SeparateTake, SeparateWorks, SeparateRearm, SeparateClose
    DEF WorkerStep, Works
<1>2. CASE MainStep
  <2>1. Main \in Threads
    BY DEF Threads
  <2> QED
    BY <1>2, <2>1, SeparateWait, SeparateDispatch, SeparateRest, SeparateAdd, SeparateClose
    DEF MainStep
<1>3. CASE UNCHANGED vars
  <2>1. UNCHANGED <<owner, readBuff, resp, got, interest, batch, tasks, thr, preempted>>
    BY <1>3 DEF vars, users, history
  <2> QED
    BY <2>1, SidesKept, SeparateKept DEF DataKept
<1> QED
  BY <1>1, <1>2, <1>3, SeparateClients, SeparateTimer DEF Next, Environment

LEMMA SeparateIsSafe ==
  ASSUME TypeOK, AllPlaced, Separate
  PROVE  NoCrosstalk /\ NoOverwrite
<1>1. NoCrosstalk
  BY DEF Separate, OwnData, NoCrosstalk
<1>2. NoOverwrite
  <2> SUFFICES ASSUME NEW w \in Workers, At(w, "process"), thr[w].fd \notin preempted
               PROVE  Writable(thr[w].fd) = 0 \/ resp[thr[w].fd].src # owner[thr[w].fd]
    BY DEF NoOverwrite
  <2>1. PICK fd \in Fds : thr[w].fd = fd
    BY ThreadFields DEF At, Threads
  <2>2. w \in Threads /\ w # Main /\ thr[w].pc = "process"
    BY MainIsNoWorker DEF At, Threads
  <2>3. owner[fd] # NoConn
    BY <2>1, <2>2, HeldByThread DEF AllPlaced
  <2>4. Reading(fd)
    BY <2>1, <2>2 DEF Reading, UsedBy
  <2> QED
    BY <2>1, <2>3, <2>4 DEF Separate, OwnData
<1> QED
  BY <1>1, <1>2

(* No client receives a response to what another one asked, though         *)
(* descriptors and the objects behind them are reused.                     *)
THEOREM ResponsesReachTheirClient == Spec => []NoCrosstalk
BY TypeInit, TypeStep, MainLoopInit, MainLoopStep, PlacedInit, PlacedStep,
   DistinctInit, DistinctStep, SeparateInit, SeparateStep, SeparateIsSafe, PTL DEF Spec

(* A response is prepared only when the connection's last one is sent.     *)
THEOREM ResponsesSentWhole == Spec => []NoOverwrite
BY TypeInit, TypeStep, MainLoopInit, MainLoopStep, PlacedInit, PlacedStep,
   DistinctInit, DistinctStep, SeparateInit, SeparateStep, SeparateIsSafe, PTL DEF Spec
=============================================================================
