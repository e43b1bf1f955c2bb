------------------------------ MODULE LogQueue -------------------------------
(***************************************************************************)
(* webserver_tac/code/log: Log and its BlockDeque between the threads that *)
(* call LOG_BASE and the thread that writes the file (AsyncWrite_).        *)
(*                                                                         *)
(* There are two mutexes.  Log::mtx_ is held from one state to the next    *)
(* where write calls the deque under it ("count", "push", "pushwait");     *)
(* each method of BlockDeque is one action, up to its wait, under the      *)
(* deque's own.  The date and the line count are looked at and reset       *)
(* without either.  A line is its number in the order of write's critical  *)
(* section; a file is known by its day.                                    *)
(***************************************************************************)
EXTENDS Naturals, Sequences, FiniteSets

CONSTANTS
  Writers,       \* threads that log
  Capacity,      \* BlockDeque's capacity_
  MAX_LINES,     \* lines after which write starts another file
  MaxLines,      \* bound: lines ever logged
  MaxDay         \* bound: the last day of the clock

ASSUME WritersFinite == IsFiniteSet(Writers)
ASSUME SizesArePositive ==
  /\ Capacity \in Nat \ {0} /\ MAX_LINES \in Nat \ {0}
  /\ MaxLines \in Nat /\ MaxDay \in Nat \ {0}

VARIABLES
  day,           \* the system's date
  toDay_, lineCount_, isAsync_,
  fp_,           \* the day of the open file
  deq_, isClose_,
  wpc,           \* each writer's place in LOG_BASE: see WriterStates
  now,           \* each writer's local t: the date it read
  name,          \* each writer's local newFile
  count,         \* each writer's register between the halves of lineCount_++
  cpc, str,      \* AsyncWrite_: its place, and the line it popped
  dpc,           \* ~Log: see DestructorStates
  lines,         \* history: lines written so far
  out,           \* history: the lines given to fputs, in order
  direct,        \* history: those that did not go through the deque
  stale,         \* history: a rotation for a day that had passed
  late           \* history: the consumer fell asleep after Close

clock == <<toDay_, lineCount_>>
writer == <<wpc, now, name, count>>
consumer == <<cpc, str>>
history == <<lines, out, direct, stale, late>>
vars == <<day, clock, isAsync_, fp_, deq_, isClose_, writer, consumer, dpc, history>>

Days == 1..MaxDay
Lines == 1..MaxLines

(* "check": at the first test of write; "name": chooses a file; "reset":    *)
(* about to reset the count; "reopen": about to lock mtx_ and change fp_;   *)
(* "append": about to lock mtx_ for the line; "count", "push", "pushwait":  *)
(* holding mtx_; "flush": after write.                                      *)
WriterStates == {"idle", "check", "name", "reset", "reopen", "append", "count",
                 "push", "pushwait", "flush"}
BeforeTheLine == {"check", "name", "reset", "reopen", "append", "count"}
DestructorStates == {"alive", "drain", "close", "notify", "join", "fclose", "gone"}

Held == \E w \in Writers : wpc[w] \in {"count", "push", "pushwait"}

(* The shape of the state; the deque stays within its capacity. *)
TypeOK ==
  /\ day \in Days /\ toDay_ \in Days /\ fp_ \in Days
  /\ lineCount_ \in 0..MaxLines /\ isAsync_ \in BOOLEAN
  /\ deq_ \in Seq(Lines) /\ Len(deq_) <= Capacity /\ isClose_ \in BOOLEAN
  /\ wpc \in [Writers -> WriterStates]
  /\ now \in [Writers -> Days] /\ name \in [Writers -> Days]
  /\ count \in [Writers -> 0..MaxLines]
  /\ cpc \in {"pop", "wait", "woken", "put", "done"} /\ str \in 0..MaxLines
  /\ dpc \in DestructorStates
  /\ lines \in 0..MaxLines /\ out \in Seq(Lines) /\ direct \subseteq Lines
  /\ stale \in BOOLEAN /\ late \in BOOLEAN

(* Log::init has returned; a positive maxQueueSize made it asynchronous and *)
(* started the writing thread.                                              *)
Init ==
  /\ day = 1 /\ toDay_ = 1 /\ lineCount_ = 0 /\ fp_ = 1
  /\ isAsync_ \in BOOLEAN
  /\ deq_ = <<>> /\ isClose_ = FALSE
  /\ wpc = [w \in Writers |-> "idle"]
  /\ now = [w \in Writers |-> 1] /\ name = [w \in Writers |-> 1]
  /\ count = [w \in Writers |-> 0]
  /\ cpc = IF isAsync_ THEN "pop" ELSE "done"
  /\ str = 0 /\ dpc = "alive"
  /\ lines = 0 /\ out = <<>> /\ direct = {} /\ stale = FALSE /\ late = FALSE

-----------------------------------------------------------------------------
(* Mutations of the definitions below, each a bug this code could have:     *)
(* full() off by one, no notification for a queued or a closed deque, a     *)
(* line pushed at the wrong end or copied instead of popped, a date that is *)
(* not remembered, a destructor that does not drain.                        *)

FullTooLate == Len(deq_) > Capacity

NotifiesNobody == UNCHANGED cpc

PushedInFront == <<lines>> \o deq_

Copied == deq_

KeepsDate(w) == UNCHANGED toDay_

ClosesAtOnce ==
  /\ dpc = "drain"
  /\ dpc' = "close"
  /\ UNCHANGED <<day, clock, isAsync_, fp_, deq_, isClose_, writer, consumer, history>>

-----------------------------------------------------------------------------
(* condConsumer_.notify_one and notify_all: there is one consumer. *)
WakeConsumer == cpc' = IF cpc = "wait" THEN "woken" ELSE cpc

(* condProducer_.notify_one *)
WakeProducer ==
  IF \A w \in Writers : wpc[w] # "pushwait"
  THEN UNCHANGED wpc
  ELSE \E w \in Writers : wpc[w] = "pushwait" /\ wpc' = [wpc EXCEPT ![w] = "push"]

-----------------------------------------------------------------------------
(* LOG_BASE: Log::write and then Log::flush.  No thread logs once the       *)
(* destructor runs: Log is a static object.                                 *)

Call(w) ==
  /\ wpc[w] = "idle" /\ dpc = "alive" /\ ~Held                \* GetLevel locks mtx_
  /\ lines + Cardinality({v \in Writers : wpc[v] \in BeforeTheLine}) < MaxLines
  /\ now' = [now EXCEPT ![w] = day]
  /\ wpc' = [wpc EXCEPT ![w] = "check"]
  /\ UNCHANGED <<day, clock, isAsync_, fp_, deq_, isClose_, name, count, consumer,
                 dpc, history>>

(* Without a lock; a rotation then locks mtx_ and unlocks it at once.       *)
MustRotate(w) ==
  toDay_ # now[w] \/ (lineCount_ # 0 /\ lineCount_ % MAX_LINES = 0)

Check(w) ==
  /\ wpc[w] = "check"
  /\ IF MustRotate(w)
     THEN ~Held /\ wpc' = [wpc EXCEPT ![w] = "name"]
     ELSE wpc' = [wpc EXCEPT ![w] = "append"]
  /\ UNCHANGED <<day, clock, isAsync_, fp_, deq_, isClose_, now, name, count,
                 consumer, dpc, history>>

NewDay(w) == toDay_' = now[w]

ChooseFile(w) ==
  /\ wpc[w] = "name"
  /\ name' = [name EXCEPT ![w] = now[w]]
  /\ IF toDay_ # now[w]
     THEN NewDay(w) /\ wpc' = [wpc EXCEPT ![w] = "reset"]
     ELSE UNCHANGED toDay_ /\ wpc' = [wpc EXCEPT ![w] = "reopen"]
  /\ stale' = (stale \/ now[w] < toDay_)
  /\ UNCHANGED <<day, lineCount_, isAsync_, fp_, deq_, isClose_, now, count,
                 consumer, dpc, lines, out, direct, late>>

ResetCount(w) ==
  /\ wpc[w] = "reset"
  /\ lineCount_' = 0
  /\ wpc' = [wpc EXCEPT ![w] = "reopen"]
  /\ UNCHANGED <<day, toDay_, isAsync_, fp_, deq_, isClose_, now, name, count,
                 consumer, dpc, history>>

Reopen(w) ==
  /\ wpc[w] = "reopen" /\ ~Held
  /\ fp_' = name[w]
  /\ stale' = (stale \/ name[w] < toDay_)
  /\ wpc' = [wpc EXCEPT ![w] = "append"]
  /\ IF isAsync_ THEN WakeConsumer ELSE UNCHANGED cpc            \* flush()
  /\ UNCHANGED <<day, clock, isAsync_, deq_, isClose_, now, name, count, str, dpc,
                 lines, out, direct, late>>

(* Locks mtx_.  lineCount_++ is a read and a write; a rotation may reset    *)
(* the count in between.                                                    *)
Lock(w) ==
  /\ wpc[w] = "append" /\ ~Held
  /\ count' = [count EXCEPT ![w] = lineCount_]
  /\ wpc' = [wpc EXCEPT ![w] = "count"]
  /\ UNCHANGED <<day, clock, isAsync_, fp_, deq_, isClose_, now, name, consumer,
                 dpc, history>>

full == Len(deq_) >= Capacity

(* The line is formatted; full() decides which way it goes.                 *)
Count(w) ==
  /\ wpc[w] = "count"
  /\ lineCount_' = count[w] + 1
  /\ lines' = lines + 1
  /\ IF isAsync_ /\ ~full
     THEN wpc' = [wpc EXCEPT ![w] = "push"] /\ UNCHANGED <<out, direct>>
     ELSE /\ out' = Append(out, lines + 1)
          /\ direct' = direct \cup {lines + 1}
          /\ wpc' = [wpc EXCEPT ![w] = "flush"]
  /\ UNCHANGED <<day, toDay_, isAsync_, fp_, deq_, isClose_, now, name, count,
                 consumer, dpc, stale, late>>

Notify == WakeConsumer

Pushed == Append(deq_, lines)

(* push_back, with mtx_ still held.  The line is the last one counted.      *)
Push(w) ==
  /\ wpc[w] = "push"
  /\ IF Len(deq_) >= Capacity
     THEN wpc' = [wpc EXCEPT ![w] = "pushwait"] /\ UNCHANGED <<deq_, cpc>>
     ELSE /\ deq_' = Pushed
          /\ Notify
          /\ wpc' = [wpc EXCEPT ![w] = "flush"]
  /\ UNCHANGED <<day, clock, isAsync_, fp_, isClose_, now, name, count, str, dpc,
                 history>>

(* The locals of write go out of scope.                                     *)
Flush(w) ==
  /\ wpc[w] = "flush"
  /\ IF isAsync_ THEN WakeConsumer ELSE UNCHANGED cpc
  /\ wpc' = [wpc EXCEPT ![w] = "idle"]
  /\ now' = [now EXCEPT ![w] = 1] /\ name' = [name EXCEPT ![w] = 1]
  /\ count' = [count EXCEPT ![w] = 0]
  /\ UNCHANGED <<day, clock, isAsync_, fp_, deq_, isClose_, str, dpc, history>>

-----------------------------------------------------------------------------
(* AsyncWrite_: pop, then fputs under mtx_.                                 *)

(* pop's test of the empty deque, when it comes and after each wakeup;      *)
(* isClose_ is looked at after a wakeup only.                               *)
FindsClosed ==
  /\ cpc = "woken" /\ isClose_
  /\ cpc' = "done"
  /\ UNCHANGED <<day, clock, isAsync_, fp_, deq_, isClose_, writer, str, dpc, history>>

Testing == cpc = "pop" \/ (cpc = "woken" /\ ~isClose_)

FindsEmpty ==
  /\ Testing /\ deq_ = <<>>
  /\ cpc' = "wait"
  /\ late' = (dpc = "join")
  /\ UNCHANGED <<day, clock, isAsync_, fp_, deq_, isClose_, writer, str, dpc,
                 lines, out, direct, stale>>

Remaining == Tail(deq_)

Pop ==
  /\ Testing /\ deq_ # <<>>
  /\ str' = Head(deq_)
  /\ deq_' = Remaining
  /\ WakeProducer
  /\ cpc' = "put"
  /\ UNCHANGED <<day, clock, isAsync_, fp_, isClose_, now, name, count, dpc, history>>

Put ==
  /\ cpc = "put" /\ ~Held
  /\ out' = Append(out, str)
  /\ str' = 0
  /\ cpc' = "pop"
  /\ UNCHANGED <<day, clock, isAsync_, fp_, deq_, isClose_, writer, dpc, lines,
                 direct, stale, late>>

-----------------------------------------------------------------------------
(* ~Log, with the members it destroys.                                      *)

Destroy ==
  /\ dpc = "alive" /\ \A w \in Writers : wpc[w] = "idle"
  /\ dpc' = IF isAsync_ THEN "drain" ELSE "fclose"
  /\ UNCHANGED <<day, clock, isAsync_, fp_, deq_, isClose_, writer, consumer, history>>

Drain ==
  /\ dpc = "drain"
  /\ IF deq_ = <<>> THEN dpc' = "close" /\ UNCHANGED cpc
                    ELSE WakeConsumer /\ UNCHANGED dpc
  /\ UNCHANGED <<day, clock, isAsync_, fp_, deq_, isClose_, writer, str, history>>

(* BlockDeque::Close notifies once it has let go of its mutex.              *)
Close ==
  /\ dpc = "close"
  /\ deq_' = <<>>
  /\ isClose_' = TRUE
  /\ dpc' = "notify"
  /\ UNCHANGED <<day, clock, isAsync_, fp_, writer, consumer, history>>

CloseNotifies == WakeConsumer

NotifyClosed ==
  /\ dpc = "notify"
  /\ CloseNotifies
  /\ dpc' = "join"
  /\ UNCHANGED <<day, clock, isAsync_, fp_, deq_, isClose_, writer, str, history>>

Join ==
  /\ dpc = "join" /\ cpc = "done"
  /\ dpc' = "fclose"
  /\ UNCHANGED <<day, clock, isAsync_, fp_, deq_, isClose_, writer, consumer, history>>

Fclose ==
  /\ dpc = "fclose" /\ ~Held
  /\ dpc' = "gone"
  /\ UNCHANGED <<day, clock, isAsync_, fp_, deq_, isClose_, writer, consumer, history>>

-----------------------------------------------------------------------------
SpuriousWakeup ==
  /\ \/ cpc = "wait" /\ cpc' = "woken" /\ UNCHANGED wpc
     \/ \E w \in Writers : /\ wpc[w] = "pushwait"
                           /\ wpc' = [wpc EXCEPT ![w] = "push"] /\ UNCHANGED cpc
  /\ UNCHANGED <<day, clock, isAsync_, fp_, deq_, isClose_, now, name, count, str,
                 dpc, history>>

Midnight ==
  /\ day < MaxDay
  /\ day' = day + 1
  /\ UNCHANGED <<clock, isAsync_, fp_, deq_, isClose_, writer, consumer, dpc, history>>

WriterStep(w) ==
  \/ Check(w) \/ ChooseFile(w) \/ ResetCount(w) \/ Reopen(w)
  \/ Lock(w) \/ Count(w) \/ Push(w) \/ Flush(w)
AsyncWrite_ == FindsClosed \/ FindsEmpty \/ Pop \/ Put
Destructor == Drain \/ Close \/ NotifyClosed \/ Join \/ Fclose

Next ==
  \/ \E w \in Writers : Call(w) \/ WriterStep(w)
  \/ AsyncWrite_
  \/ Destroy
  \/ Destructor
  \/ SpuriousWakeup
  \/ Midnight

(* Threads that can run do, and get a mutex in the end; nobody has to log,  *)
(* to end the program, or to wake up for nothing.                           *)
Fairness ==
  /\ \A w \in Writers : WF_vars(WriterStep(w))
  /\ WF_vars(AsyncWrite_) /\ WF_vars(Destructor)

Spec == Init /\ [][Next]_vars /\ Fairness

-----------------------------------------------------------------------------
InHand == IF cpc = "put" THEN <<str>> ELSE <<>>
Pushing == IF \E w \in Writers : wpc[w] \in {"push", "pushwait"} THEN <<lines>> ELSE <<>>

(* Every line of write is in exactly one place, the file, the consumer's    *)
(* hands, the deque or those of the thread that is pushing it: neither the  *)
(* full deque nor the shutdown loses or repeats one.                        *)
WrittenOnce ==
  LET all == out \o InHand \o deq_ \o Pushing
  IN  /\ Len(all) = lines
      /\ {all[k] : k \in 1..Len(all)} = 1..lines

(* The only disorder is a line written directly because the deque was full, *)
(* ahead of lines still in it; nothing overtakes a direct line, and the     *)
(* lines of the deque stay in order.                                        *)
OnlyDirectOvertakes ==
  \A j \in 1..Len(out) : \A k \in 1..(j - 1) :
    out[k] > out[j] => out[k] \in direct /\ out[j] \notin direct

(* push_back is called with mtx_ held, which the consumer needs before it   *)
(* makes room a second time: it must never wait.                            *)
PushNeverWaits == \A w \in Writers : wpc[w] # "pushwait"

(* Once no thread is on its way through a rotation, the open file is the    *)
(* one of the remembered date, unless a thread with a date from before      *)
(* midnight took part in a rotation.                                        *)
FileOfToday ==
  ~stale /\ (\A w \in Writers : wpc[w] \notin {"reset", "reopen"}) => fp_ = toDay_

(* Every line reaches the file, whether or not anyone logs after it.        *)
EveryLineWritten ==
  \A l \in Lines : (l <= lines) ~> (\E k \in 1..Len(out) : out[k] = l)

(* The destructor returns, unless the consumer came back to an empty deque  *)
(* after Close and its notification, and sleeps without having looked at    *)
(* isClose_.                                                                *)
DestructorReturns == dpc = "drain" ~> (dpc = "gone" \/ (late /\ cpc = "wait"))
=============================================================================
