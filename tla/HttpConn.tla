-------------------------------- MODULE HttpConn --------------------------------
(***************************************************************************)
(* webserver_tac, http/http_connect.cpp with the handlers of               *)
(* server/webserver.cpp that drive it: one HttpConn object, as the thread  *)
(* that has it sees it, through the visits of one client after the other.  *)
(*                                                                         *)
(* Reactor.tla has who calls this object and when; here is what the calls  *)
(* do with the bytes: the read buffer, the parser, the response, the write *)
(* buffer and the mapped file, and iov_ between them.                      *)
(***************************************************************************)
EXTENDS HttpRequest, HttpResponse

CONSTANTS
  Streams,       \* for each client that uses the object in turn, what it may
                 \* send: a set of sequences of requests
  MaxArrivals,   \* bound on the pieces in which a client's words arrive
  ReadSize,      \* initBuffSize of the buffers, 1024
  WriteSize,
  Threshold,     \* the 10240 bytes of HttpConn::write
  Modes,         \* subset of BOOLEAN: the settings of isET
  Garbage        \* what iov_[1].iov_len may hold before it is set

VARIABLES
  isET,
  pc,            \* where the thread is, see Places
  stream,        \* the words this client sends
  arrived,       \* how many of them the kernel has received,
  taken,         \*   and given to the server
  arrivals,      \* how many pieces that were
  gone,          \* the client has left
  visits,
  readBuff, writeBuff, request, response,
  iov,           \* iov_: where each part begins and how much of it is left
  iovCnt,
  mappedUnits,   \* what the kernel has mapped for this object,
  leaked,        \*   and, in this visit, what more at addresses nobody keeps
  before,        \* history: the read buffer when process was called
  due            \* history: what is still to be sent of the response

client == <<stream, arrived, taken, arrivals, gone, visits>>
buffers == <<readBuff, writeBuff>>
output == <<response, iov, iovCnt, mappedUnits, leaked, due>>
vars == <<isET, pc, client, buffers, request, output, before>>

(* "in", "out": armed in epoll; "wrote", "again": back from write, in the  *)
(* latter case with EAGAIN; "dead": so is the process; "raced": a timer    *)
(* has closed what a worker still uses.                                    *)
Places == {"closed", "in", "read", "process", "parse", "respond", "out",
           "write", "wrote", "again", "dead", "raced"}

(* With a worker inside a handler. *)
AtWork == {"read", "process", "parse", "respond", "write", "wrote", "again"}

(* A request as a client writes it. *)
Encode(q) ==
  <<q.method, q.path, "1.1", "CR", "LF">>
    \o (IF q.keep THEN <<"Connection", ":", "keep-alive", "CR", "LF">> ELSE <<>>)
    \o (IF q.body # <<>> THEN <<"Content-Type", ":", "urlencoded", "CR", "LF">> ELSE <<>>)
    \o <<"CR", "LF">> \o q.body

Requests == UNION {{s[i] : i \in DOMAIN s} : s \in UNION {Streams[v] : v \in DOMAIN Streams}}
Encoded(s) == LET from[i \in 1..(Len(s) + 1)] ==
                    IF i > Len(s) THEN <<>> ELSE Encode(s[i]) \o from[i + 1]
              IN  from[1]

(* What a cell of the buffers may hold. *)
Sent == UNION {{Encoded(s) : s \in Streams[v]} : v \in 1..Len(Streams)}
Words == {Nul} \cup UNION {{t[i] : i \in DOMAIN t} : t \in Sent}

ASSUME StreamsAreWords == \A t \in Sent : t \in Seq(Words)

(* Clients are browsers with the pages of resources: what they POST is a   *)
(* form, and what they GET has no body.                                    *)
ASSUME RequestsAreOfPages ==
  \A q \in Requests : /\ q.method \in Methods /\ q.keep \in BOOLEAN
                      /\ q.body \in Seq(Words \ {"CR"})
                      /\ q.body # <<>> <=> q.method = "POST"

ASSUME SizesAreNat == ReadSize \in Nat /\ WriteSize \in Nat /\ Garbage \subseteq Nat

(* iov_ when only the length of its second part matters. *)
Unset(len) == <<[base |-> 0, len |-> 0], [base |-> 0, len |-> len]>>

(* The object is created by users_[fd]; its iov_ is not initialized. *)
Init ==
  /\ isET \in Modes
  /\ pc = "closed"
  /\ stream = <<>> /\ arrived = 0 /\ taken = 0 /\ arrivals = 0 /\ gone = TRUE
  /\ visits = 0
  /\ readBuff = New(ReadSize) /\ writeBuff = New(WriteSize)
  /\ request = NewRequest /\ response = NewResponse
  /\ \E g \in Garbage : iov = Unset(g)
  /\ iovCnt = 1 /\ mappedUnits = 0 /\ leaked = 0
  /\ before = <<>> /\ due = <<>>

(* A sum of two size_t, returned as an int: files are shorter than 2 GiB.  *)
ToWriteBytes == iov[1].len + iov[2].len
-----------------------------------------------------------------------------
(* The client, and the kernel's side of its connection. *)

(* What comes before the next read is one arrival, and a client that       *)
(* leaves is noticed by the next read or write, whenever it did.           *)
Arrive ==
  /\ pc \in {"in", "read"} /\ ~gone /\ arrived = taken /\ arrivals < MaxArrivals
  /\ \E n \in (arrived + 1)..Len(stream) : arrived' = n
  /\ arrivals' = arrivals + 1
  /\ UNCHANGED <<isET, pc, stream, taken, gone, visits, buffers, request, output, before>>

Leave ==
  /\ pc \in {"read", "write"} /\ ~gone
  /\ gone' = TRUE
  /\ UNCHANGED <<isET, pc, stream, arrived, taken, arrivals, visits, buffers, request, output, before>>
-----------------------------------------------------------------------------
(* init and Close *)

init ==
  /\ pc = "closed" /\ visits < Len(Streams)
  /\ pc' = "in"
  /\ visits' = visits + 1
  /\ \E s \in Streams[visits'] : stream' = Encoded(s)
  /\ arrived' = 0 /\ taken' = 0 /\ arrivals' = 0 /\ gone' = FALSE
  /\ writeBuff' = RetrieveAll(writeBuff) /\ readBuff' = RetrieveAll(readBuff)
  /\ UNCHANGED <<isET, request, output, before>>

(* UnmapFile takes the size from mmFileStat_. *)
UnmapFile == IF response.mapped THEN mappedUnits - response.size ELSE mappedUnits

(* What of the object the next client's visit sets before it looks at it   *)
(* is forgotten: all but the buffers, whose cells init clears, and the     *)
(* length in iov_[1].                                                      *)
Forget ==
  /\ request' = NewRequest /\ response' = NewResponse
  /\ iov' = Unset(iov[2].len) /\ iovCnt' = 1
  /\ stream' = <<>> /\ arrived' = 0 /\ taken' = 0 /\ arrivals' = 0 /\ gone' = TRUE
  /\ due' = <<>> /\ before' = <<>> /\ leaked' = 0
  /\ UNCHANGED <<isET, visits, buffers>>

Close == mappedUnits' = UnmapFile /\ pc' = "closed" /\ Forget

(* The process dies of a signal. *)
Dies == mappedUnits' = 0 /\ pc' = "dead" /\ Forget

-----------------------------------------------------------------------------
(* Mutations of the definitions below, each a bug this code could have: a  *)
(* line retrieved without its LF, iov_[1] moved by all that writev took,   *)
(* EAGAIN taken for an error.                                              *)

KeepsLF(b, end) == RetrieveUntil(b, IF end = b.writePos THEN end ELSE end + 1)

AdvanceByAll(n) ==
  IF n > iov[1].len
  THEN <<[base |-> iov[1].base, len |-> 0],
         [base |-> iov[2].base + n, len |-> iov[2].len - (n - iov[1].len)]>>
  ELSE <<[base |-> iov[1].base + n, len |-> iov[1].len - n], iov[2]>>

ClosesOnAgain ==
  /\ pc \in {"wrote", "again"}
  /\ ToWriteBytes = 0 => ~IsKeepAlive(request)
  /\ Close
-----------------------------------------------------------------------------
(* The main thread closes for EPOLLRDHUP or the timer, nobody else being   *)
(* at the object.                                                          *)
MainCloses == pc \in {"in", "out"} /\ Close

(* The timer does not ask whether a worker is: the file is unmapped and    *)
(* the descriptor closed under it, and the next client's visit runs next   *)
(* to the rest of this one.  The two threads race for every member, and    *)
(* what becomes of the object is not followed; Reactor.tla has who may     *)
(* then call it (preempted).                                               *)
TimerCloses ==
  /\ pc \in AtWork
  /\ mappedUnits' = UnmapFile /\ pc' = "raced" /\ Forget
-----------------------------------------------------------------------------
(* OnRead_ and HttpConn::read *)

DealRead ==
  /\ pc = "in" /\ taken < arrived
  /\ pc' = "read"
  /\ UNCHANGED <<isET, client, buffers, request, output, before>>

Read ==
  LET n == ReadAtMost(readBuff, arrived - taken)
  IN  /\ pc = "read" /\ taken < arrived
      /\ readBuff' = ReadFd(readBuff, SubSeq(stream, taken + 1, taken + n))
      /\ taken' = taken + n
      /\ pc' = IF isET THEN "read" ELSE "process"
      /\ UNCHANGED <<isET, stream, arrived, arrivals, gone, visits, writeBuff, request, output, before>>

ReadAgain ==
  /\ pc = "read" /\ taken = arrived /\ ~gone
  /\ pc' = "process"
  /\ UNCHANGED <<isET, client, buffers, request, output, before>>

(* read returns 0 or fails for good. *)
ReadEnds == pc = "read" /\ taken = arrived /\ gone /\ Close
-----------------------------------------------------------------------------
(* OnProcess and HttpConn::process *)

Process ==
  /\ pc = "process"
  /\ request' = NewRequest
  /\ pc' = IF ReadableBytes(readBuff) = 0 THEN "in" ELSE "parse"
  /\ before' = Content(readBuff)
  /\ UNCHANGED <<isET, client, buffers, output>>

(* search: the index of the first CRLF, or of the end of the buffer. *)
LineEnds(b) == {i \in b.readPos..(b.writePos - 2) : b.cells[i] = "CR" /\ b.cells[i + 1] = "LF"}
LineEnd(b) ==
  IF LineEnds(b) = {} THEN b.writePos
                      ELSE CHOOSE i \in LineEnds(b) : \A j \in LineEnds(b) : i <= j

(* RetrieveUntil behind a line and its CRLF, or to the end. *)
AfterLine(b, end) == RetrieveUntil(b, IF end = b.writePos THEN end ELSE end + 2)

(* A turn of parse's loop. *)
Parse ==
  LET end == LineEnd(readBuff)
      line == Bytes(readBuff, readBuff.readPos, end)
      rest == AfterLine(readBuff, end)
  IN  /\ pc = "parse"
      /\ \E verified \in BOOLEAN : request' = ParseLine(request, line, verified)
      /\ IF request'.state = "REQUEST_LINE"
         THEN pc' = "respond" /\ UNCHANGED readBuff
         ELSE /\ readBuff' = rest
              /\ pc' = IF ReadableBytes(rest) = 0 \/ request'.state = "FINISH"
                       THEN "respond" ELSE "parse"
      /\ UNCHANGED <<isET, client, writeBuff, output, before>>

Parsed == request.state # "REQUEST_LINE"

(* iov_: a response without a file leaves iov_[1] as it was. *)
IovFor(b, r) ==
  <<[base |-> b.readPos, len |-> ReadableBytes(b)],
    IF r.mapped /\ r.size > 0 THEN [base |-> 0, len |-> r.size] ELSE iov[2]>>

(* What the client should receive. *)
FileData(from, n) == [i \in 1..n |-> <<"file", from + i>>]
Wanted(r) ==
  <<<<"status", r.code>>, <<"keep-alive", r.keep>>,
    <<"length", IF r.mapped THEN r.size ELSE 1>>>>
    \o (IF r.mapped THEN FileData(0, r.size) ELSE <<<<"page", 1>>>>)

(* The response's Init and MakeResponse, for what stat, open and mmap find. *)
Respond ==
  /\ pc = "respond"
  /\ \E first \in IF Parsed THEN Stats ELSE {Directory},
        second \in FileStats \cup {Missing}, outcome \in Outcomes :
       LET code == CodeFor(IF Parsed THEN 200 ELSE 400, first)
           size == ErrorHtml_(code, first, second)
           mapped == outcome = "mapped"
           r == Response(code, Parsed /\ IsKeepAlive(request), size, mapped)
       IN  /\ MayBe(outcome, size)
           /\ \/ outcome = "faults" /\ Dies
              \/ /\ outcome # "faults"
                 /\ response' = r
                 /\ writeBuff' = MakeResponse(writeBuff, r)
                 /\ mappedUnits' = UnmapFile + (IF mapped THEN size ELSE 0)
                 /\ leaked' = leaked + (IF outcome = "ones" THEN size ELSE 0)
                 /\ iov' = IovFor(writeBuff', r)
                 /\ iovCnt' = IF r.mapped /\ r.size > 0 THEN 2 ELSE 1
                 /\ due' = due \o Wanted(r)
                 /\ pc' = "out"
                 /\ before' = <<>>
                 /\ UNCHANGED <<isET, client, readBuff, request>>
-----------------------------------------------------------------------------
(* OnWrite_ and HttpConn::write *)

DealWrite ==
  /\ pc = "out"
  /\ pc' = "write"
  /\ UNCHANGED <<isET, client, buffers, request, output, before>>

Offered == iov[1].len + (IF iovCnt = 2 THEN iov[2].len ELSE 0)

(* iov_ after writev took n bytes, and writeBuff_. *)
Advance(n) ==
  IF n > iov[1].len
  THEN <<[base |-> iov[1].base, len |-> 0],
         [base |-> iov[2].base + (n - iov[1].len), len |-> iov[2].len - (n - iov[1].len)]>>
  ELSE <<[base |-> iov[1].base + n, len |-> iov[1].len - n], iov[2]>>

WriteBuffAfter(n) ==
  IF n <= iov[1].len THEN Retrieve(writeBuff, n)
  ELSE IF iov[1].len > 0 THEN RetrieveAll(writeBuff)
  ELSE writeBuff

(* A turn of write's loop in which writev takes something. *)
Write ==
  /\ pc = "write" /\ ToWriteBytes # 0 /\ ~gone
  /\ \E n \in 1..Offered :
       /\ iov' = Advance(n)
       /\ writeBuff' = WriteBuffAfter(n)
       /\ due' = SubSeq(due, n + 1, Len(due))
  /\ pc' = IF isET \/ iov'[1].len + iov'[2].len > Threshold THEN "write" ELSE "wrote"
  /\ UNCHANGED <<isET, client, readBuff, request, response, iovCnt, mappedUnits, leaked,
                 before>>

(* Nothing left, or writev offered nothing to take, for which it returns 0. *)
WriteEnds ==
  /\ pc = "write" /\ (ToWriteBytes = 0 \/ Offered = 0)
  /\ pc' = "wrote"
  /\ UNCHANGED <<isET, client, buffers, request, output, before>>

(* The socket's buffer is full. *)
WriteAgain ==
  /\ pc = "write" /\ Offered # 0 /\ ~gone
  /\ pc' = "again"
  /\ UNCHANGED <<isET, client, buffers, request, output, before>>

(* The client reset the connection: an error, or SIGPIPE. *)
WriteFails ==
  /\ pc = "write" /\ Offered # 0 /\ gone
  /\ \/ pc' = "wrote" /\ UNCHANGED <<isET, client, buffers, request, output, before>>
     \/ Dies

(* OnWrite_ after the call. *)
WriteOn ==
  /\ pc \in {"wrote", "again"}
  /\ \/ ToWriteBytes = 0 /\ IsKeepAlive(request) /\ pc' = "process"
     \/ ToWriteBytes # 0 /\ pc = "again" /\ pc' = "out"
  /\ UNCHANGED <<isET, client, buffers, request, output, before>>

WriteCloses ==
  /\ pc \in {"wrote", "again"}
  /\ IF ToWriteBytes = 0 THEN ~IsKeepAlive(request) ELSE pc = "wrote"
  /\ Close
-----------------------------------------------------------------------------
Next ==
  \/ Arrive \/ Leave \/ init \/ MainCloses \/ TimerCloses
  \/ DealRead \/ Read \/ ReadAgain \/ ReadEnds
  \/ Process \/ Parse \/ Respond
  \/ DealWrite \/ Write \/ WriteEnds \/ WriteAgain \/ WriteFails
  \/ WriteOn \/ WriteCloses

Spec == Init /\ [][Next]_vars
-----------------------------------------------------------------------------
(* No byte of a client is lost, repeated or moved on its way to the        *)
(* parser, however its arrivals fall on the buffer's ends.                 *)
InOrder ==
  /\ readBuff.readPos <= readBuff.writePos
  /\ pc \notin {"closed", "dead", "raced"} =>
       Content(readBuff) = SubSeq(stream, taken - ReadableBytes(readBuff) + 1, taken)

(* A request that is in the buffer as a whole when process is called is    *)
(* understood, and exactly it is taken from the buffer; a POST, whose      *)
(* length the parser does not look at, only if nothing is behind it.       *)
Understood(q) ==
  /\ request.state = "FINISH" /\ request.method = q.method
  /\ \/ request.path = ParsePath_(q.path)
     \/ q.body # <<>> /\ request.path \in {"/welcome.html", "/error.html"}
  /\ IsKeepAlive(request) = q.keep
  /\ Content(readBuff) = SubSeq(before, Len(Encode(q)) + 1, Len(before))

WholeRequestUnderstood ==
  pc = "respond" =>
    \A q \in Requests :
      \/ q.path \notin Paths
      \/ Len(before) < Len(Encode(q)) \/ SubSeq(before, 1, Len(Encode(q))) # Encode(q)
      \/ q.body # <<>> /\ Len(before) > Len(Encode(q))
      \/ Understood(q)

(* What iov_ and iovCnt_ point at is what the client has not received of   *)
(* its response, with the file mapped as long as it is needed; what is not *)
(* needed is unmapped, but for the files leaked that begin with four bytes *)
(* 0xFF.  Nothing is said of a client whose timer fires during a handler.  *)
Outgoing ==
  Bytes(writeBuff, iov[1].base, iov[1].base + iov[1].len)
    \o (IF iovCnt = 2 THEN FileData(iov[2].base, iov[2].len) ELSE <<>>)

ResponseIntact ==
  /\ mappedUnits = (IF response.mapped THEN response.size ELSE 0)
  /\ pc \in {"out", "write", "wrote", "again"} =>
       Outgoing = due /\ (iovCnt = 2 => iov[2].base + iov[2].len <= mappedUnits)

(* The server does not wait for input while it has some: a request that    *)
(* came with the one before it is processed after that one's response.     *)
NoRequestLeftBehind == pc = "in" => ReadableBytes(readBuff) = 0

(* With edge-triggered connections, OnWrite_ closes a client that is there *)
(* only when it has all of the response, and a keep-alive one only when a  *)
(* response without a file finds iov_[1] as an aborted one left it.        *)
ClosesInTime ==
  [][isET /\ ~gone /\ pc \in {"wrote", "again"} /\ pc' = "closed" =>
       due = <<>> /\ (IsKeepAlive(request) => iovCnt = 1 /\ iov[2].len > 0)]_vars
=============================================================================
