---------------------------- MODULE LogQueueProofs ----------------------------
(***************************************************************************)
(* Proofs about LogQueue, for any number of writers and lines, any         *)
(* capacity of the deque and any length of a file: its safety invariants.  *)
(***************************************************************************)
EXTENDS LogQueue, SequenceTheorems, FiniteSetTheorems, TLAPS

-----------------------------------------------------------------------------
(* A line that is in the deque or in somebody's hands has a number, and    *)
(* the bound on lines leaves room for every writer that is on its way to   *)
(* one.                                                                    *)
Before == {v \in Writers : wpc[v] \in BeforeTheLine}
Pushes(w) == wpc[w] \in {"push", "pushwait"}

TypeInv ==
  /\ TypeOK
  /\ lines + Cardinality(Before) <= MaxLines
  /\ lineCount_ <= lines /\ \A w \in Writers : count[w] <= lines
  /\ \A w \in Writers : Pushes(w) => lines > 0
  /\ cpc = "put" => str > 0

(* Log::mtx_ is held by one writer at a time. *)
Holds(w) == wpc[w] \in {"count", "push", "pushwait"}
OneHolder == \A v, w \in Writers : Holds(v) /\ Holds(w) => v = w

(* Who was told that the deque is not full finds it so: nobody else pushes *)
(* while mtx_ is held.                                                     *)
Room ==
  /\ \A w \in Writers : wpc[w] = "push" => Len(deq_) < Capacity
  /\ PushNeverWaits

(* No thread logs once the destructor runs, and it drains the deque.       *)
Ended ==
  /\ dpc # "alive" => \A w \in Writers : wpc[w] = "idle"
  /\ dpc = "close" => deq_ = <<>>

(* While no rotation was late, a file about to be opened is not one of a   *)
(* day to come, and one of them is today's if the open one is not.         *)
Reopens(w) == wpc[w] \in {"reset", "reopen"}
Dated ==
  ~stale => /\ \A w \in Writers : Reopens(w) => name[w] <= toDay_
            /\ fp_ = toDay_ \/ \E w \in Writers : Reopens(w) /\ name[w] = toDay_

(* What has been logged and is not in the file yet, in its order. *)
OnTheWay == InHand \o deq_ \o Pushing

-----------------------------------------------------------------------------
(* What the two notifications change. *)
LEMMA Wakes ==
  ASSUME TypeOK, WakeConsumer
  PROVE  /\ cpc' \in {"pop", "wait", "woken", "put", "done"}
         /\ cpc' = "put" <=> cpc = "put"
BY DEF TypeOK, WakeConsumer

LEMMA WakesWriter ==
  ASSUME TypeOK, WakeProducer
  PROVE  /\ wpc' \in [Writers -> WriterStates]
         /\ \A w \in Writers : wpc'[w] = wpc[w] \/ (wpc[w] = "pushwait" /\ wpc'[w] = "push")
<1>1. wpc \in [Writers -> WriterStates]
  BY DEF TypeOK
<1>2. CASE \A w \in Writers : wpc[w] # "pushwait"
  BY <1>1, <1>2 DEF WakeProducer
<1>3. CASE \E w \in Writers : wpc[w] = "pushwait"
  <2>1. PICK w \in Writers : wpc[w] = "pushwait" /\ wpc' = [wpc EXCEPT ![w] = "push"]
    BY <1>3 DEF WakeProducer
  <2> QED
    BY <1>1, <2>1 DEF WriterStates
<1> QED
  BY <1>2, <1>3

(* A writer that moves on. *)
LEMMA Moves ==
  ASSUME TypeOK, NEW w \in Writers, NEW s \in WriterStates, wpc' = [wpc EXCEPT ![w] = s]
  PROVE  /\ wpc' \in [Writers -> WriterStates]
         /\ wpc'[w] = s /\ \A v \in Writers : v # w => wpc'[v] = wpc[v]
BY DEF TypeOK

LEMMA BeforeFinite ==
  /\ IsFiniteSet(Before) /\ Cardinality(Before) \in Nat
  /\ IsFiniteSet(Before') /\ Cardinality(Before') \in Nat
BY WritersFinite, FS_Subset, FS_CardinalityType DEF Before

LEMMA BeforeSame ==
  ASSUME \A v \in Writers : wpc'[v] \in BeforeTheLine <=> wpc[v] \in BeforeTheLine
  PROVE  Before' = Before
BY DEF Before

-----------------------------------------------------------------------------
LEMMA TypeInit == Init => TypeInv
<1> SUFFICES ASSUME Init PROVE TypeInv
  OBVIOUS
<1>1. MaxLines \in Nat /\ MaxDay \in Nat \ {0} /\ Capacity \in Nat
  BY SizesArePositive
<1>2. Before = {}
  BY DEF Init, Before, BeforeTheLine
<1>3. Cardinality(Before) = 0
  BY <1>2, FS_EmptySet
<1>4. TypeOK
  <2>1. 1 \in Days /\ 0 \in 0..MaxLines
    BY <1>1 DEF Days
  <2>2. <<>> \in Seq(Lines) /\ Len(<<>>) = 0
    OBVIOUS
  <2>3. /\ wpc \in [Writers -> WriterStates] /\ now \in [Writers -> Days]
        /\ name \in [Writers -> Days] /\ count \in [Writers -> 0..MaxLines]
    BY <2>1 DEF Init, WriterStates
  <2>4. Len(deq_) <= Capacity /\ deq_ \in Seq(Lines) /\ out \in Seq(Lines)
    BY <1>1, <2>2 DEF Init
  <2> QED
    BY <2>1, <2>3, <2>4 DEF Init, TypeOK, DestructorStates
<1>5. \A w \in Writers : ~Pushes(w) /\ count[w] <= lines
  BY DEF Init, Pushes
<1>6. lineCount_ <= lines /\ cpc # "put" /\ lines = 0
  BY DEF Init
<1> QED
  BY <1>1, <1>3, <1>4, <1>5, <1>6 DEF TypeInv

LEMMA TypeStep == TypeInv /\ [Next]_vars => TypeInv'
<1> SUFFICES ASSUME TypeInv, [Next]_vars PROVE TypeInv'
  OBVIOUS
<1>t. TypeOK
  BY DEF TypeInv
<1>s. /\ MaxLines \in Nat /\ MaxDay \in Nat \ {0} /\ Capacity \in Nat \ {0}
      /\ lines \in Nat /\ Cardinality(Before) \in Nat
  BY SizesArePositive, BeforeFinite DEF TypeInv, TypeOK
<1>f. /\ wpc \in [Writers -> WriterStates] /\ count \in [Writers -> 0..MaxLines]
      /\ now \in [Writers -> Days] /\ name \in [Writers -> Days]
  BY <1>t DEF TypeOK
<1>still. ASSUME UNCHANGED <<lines, lineCount_, count>>, TypeOK', Before' = Before,
                 \A w \in Writers : Pushes(w)' => Pushes(w),
                 cpc' = "put" => str' > 0
          PROVE  TypeInv'
  BY <1>still DEF TypeInv
<1>1. ASSUME NEW w \in Writers, Call(w) PROVE TypeInv'
  <2>1. wpc[w] = "idle" /\ wpc' = [wpc EXCEPT ![w] = "check"] /\ "check" \in WriterStates
    BY <1>1 DEF Call, WriterStates
  <2>2. /\ wpc' \in [Writers -> WriterStates]
        /\ wpc'[w] = "check" /\ \A v \in Writers : v # w => wpc'[v] = wpc[v]
    BY <1>t, <2>1, Moves
  <2>3. Before' = Before \cup {w} /\ w \notin Before
    BY <2>1, <2>2 DEF Before, BeforeTheLine
  <2>4. Cardinality(Before \cup {w}) = Cardinality(Before) + 1
    BY <2>3, BeforeFinite, FS_AddElement
  <2>5. lines + Cardinality(Before) < MaxLines
    BY <1>1 DEF Call, Before
  <2>6. now' \in [Writers -> Days]
    BY <1>1, <1>t, <1>f DEF Call, TypeOK
  <2>7. UNCHANGED <<day, clock, isAsync_, fp_, deq_, isClose_, name, count, consumer,
                    dpc, history>>
    BY <1>1 DEF Call
  <2>8. TypeOK'
    BY <1>t, <2>2, <2>6, <2>7 DEF TypeOK, clock, consumer, history
  <2>9. \A v \in Writers : Pushes(v)' => Pushes(v)
    BY <2>1, <2>2 DEF Pushes
  <2> QED
    BY <1>s, <2>3, <2>4, <2>5, <2>7, <2>8, <2>9 DEF TypeInv, clock, consumer, history
<1>2. ASSUME NEW w \in Writers, Check(w) PROVE TypeInv'
  <2>1. PICK s \in {"name", "append"} : wpc' = [wpc EXCEPT ![w] = s]
    BY <1>2 DEF Check
  <2>2. /\ wpc' \in [Writers -> WriterStates] /\ wpc[w] = "check"
        /\ wpc'[w] = s /\ \A v \in Writers : v # w => wpc'[v] = wpc[v]
    BY <1>2, <1>t, <2>1, Moves DEF Check, WriterStates
  <2>3. Before' = Before
    BY <2>1, <2>2, BeforeSame DEF BeforeTheLine
  <2>4. UNCHANGED <<day, clock, isAsync_, fp_, deq_, isClose_, now, name, count,
                    consumer, dpc, history>>
    BY <1>2 DEF Check
  <2>5. TypeOK'
    BY <1>t, <2>2, <2>4 DEF TypeOK, clock, consumer, history
  <2>6. \A v \in Writers : Pushes(v)' => Pushes(v)
    BY <2>1, <2>2 DEF Pushes
  <2> QED
    BY <1>still, <2>3, <2>4, <2>5, <2>6 DEF TypeInv, clock, consumer, history
<1>3. ASSUME NEW w \in Writers, ChooseFile(w) PROVE TypeInv'
  <2>1. PICK s \in {"reset", "reopen"} : wpc' = [wpc EXCEPT ![w] = s]
    BY <1>3 DEF ChooseFile
  <2>2. /\ wpc' \in [Writers -> WriterStates] /\ wpc[w] = "name"
        /\ wpc'[w] = s /\ \A v \in Writers : v # w => wpc'[v] = wpc[v]
    BY <1>3, <1>t, <2>1, Moves DEF ChooseFile, WriterStates
  <2>3. Before' = Before
    BY <2>1, <2>2, BeforeSame DEF BeforeTheLine
  <2>4. /\ UNCHANGED <<day, lineCount_, isAsync_, fp_, deq_, isClose_, now, count,
                       consumer, dpc, lines, out, direct, late>>
        /\ toDay_' = now[w] /\ name' = [name EXCEPT ![w] = now[w]]
    BY <1>3 DEF ChooseFile, NewDay
  <2>5. name' \in [Writers -> Days] /\ now[w] \in Days
    BY <1>f, <2>4
  <2>6. stale' \in BOOLEAN
    BY <1>3 DEF ChooseFile
  <2>7. TypeOK'
    BY <1>t, <2>2, <2>4, <2>5, <2>6 DEF TypeOK, consumer
  <2>8. \A v \in Writers : Pushes(v)' => Pushes(v)
    BY <2>1, <2>2 DEF Pushes
  <2> QED
    BY <1>still, <2>3, <2>4, <2>7, <2>8 DEF TypeInv, consumer
<1>3a. ASSUME NEW w \in Writers, ResetCount(w) PROVE TypeInv'
  <2>1. wpc[w] = "reset" /\ wpc' = [wpc EXCEPT ![w] = "reopen"] /\ "reopen" \in WriterStates
    BY <1>3a DEF ResetCount, WriterStates
  <2>2. /\ wpc' \in [Writers -> WriterStates]
        /\ wpc'[w] = "reopen" /\ \A v \in Writers : v # w => wpc'[v] = wpc[v]
    BY <1>t, <2>1, Moves
  <2>3. Before' = Before
    BY <2>1, <2>2, BeforeSame DEF BeforeTheLine
  <2>4. /\ UNCHANGED <<day, toDay_, isAsync_, fp_, deq_, isClose_, now, name, count,
                       consumer, dpc, history>>
        /\ lineCount_' = 0
    BY <1>3a DEF ResetCount
  <2>5. TypeOK'
    BY <1>t, <1>s, <2>2, <2>4 DEF TypeOK, consumer, history
  <2>6. \A v \in Writers : Pushes(v)' => Pushes(v)
    BY <2>1, <2>2 DEF Pushes
  <2> QED
    BY <1>s, <2>3, <2>4, <2>5, <2>6 DEF TypeInv, consumer, history
<1>4. ASSUME NEW w \in Writers, Reopen(w) PROVE TypeInv'
  <2>1. wpc[w] = "reopen" /\ wpc' = [wpc EXCEPT ![w] = "append"] /\ "append" \in WriterStates
    BY <1>4 DEF Reopen, WriterStates
  <2>2. /\ wpc' \in [Writers -> WriterStates]
        /\ wpc'[w] = "append" /\ \A v \in Writers : v # w => wpc'[v] = wpc[v]
    BY <1>t, <2>1, Moves
  <2>3. Before' = Before
    BY <2>1, <2>2, BeforeSame DEF BeforeTheLine
  <2>4. UNCHANGED <<day, clock, isAsync_, deq_, isClose_, now, name, count, str, dpc,
                    lines, out, direct, late>>
    BY <1>4 DEF Reopen
  <2>5. fp_' \in Days /\ stale' \in BOOLEAN
    BY <1>4, <1>f DEF Reopen
  <2>6. cpc' \in {"pop", "wait", "woken", "put", "done"} /\ (cpc' = "put" <=> cpc = "put")
    BY <1>4, <1>t, Wakes DEF Reopen, TypeOK
  <2>7. TypeOK'
    BY <1>t, <2>2, <2>4, <2>5, <2>6 DEF TypeOK, clock
  <2>8. \A v \in Writers : Pushes(v)' => Pushes(v)
    BY <2>1, <2>2 DEF Pushes
  <2> QED
    BY <1>still, <2>3, <2>4, <2>6, <2>7, <2>8 DEF TypeInv, clock
<1>5. ASSUME NEW w \in Writers, Lock(w) PROVE TypeInv'
  <2>1. wpc[w] = "append" /\ wpc' = [wpc EXCEPT ![w] = "count"] /\ "count" \in WriterStates
    BY <1>5 DEF Lock, WriterStates
  <2>2. /\ wpc' \in [Writers -> WriterStates]
        /\ wpc'[w] = "count" /\ \A v \in Writers : v # w => wpc'[v] = wpc[v]
    BY <1>t, <2>1, Moves
  <2>3. Before' = Before
    BY <2>1, <2>2, BeforeSame DEF BeforeTheLine
  <2>4. /\ UNCHANGED <<day, clock, isAsync_, fp_, deq_, isClose_, now, name, consumer,
                       dpc, history>>
        /\ count' = [count EXCEPT ![w] = lineCount_]
    BY <1>5 DEF Lock
  <2>5. count' \in [Writers -> 0..MaxLines] /\ \A v \in Writers : count'[v] <= lines
    BY <1>t, <1>f, <2>4 DEF TypeInv, TypeOK
  <2>6. TypeOK'
    BY <1>t, <2>2, <2>4, <2>5 DEF TypeOK, clock, consumer, history
  <2>7. \A v \in Writers : Pushes(v)' => Pushes(v)
    BY <2>1, <2>2 DEF Pushes
  <2> QED
    BY <2>3, <2>4, <2>5, <2>6, <2>7 DEF TypeInv, clock, consumer, history
<1>6. ASSUME NEW w \in Writers, Count(w) PROVE TypeInv'
  <2>1. PICK s \in {"push", "flush"} : wpc' = [wpc EXCEPT ![w] = s]
    BY <1>6 DEF Count
  <2>2. /\ wpc' \in [Writers -> WriterStates] /\ wpc[w] = "count"
        /\ wpc'[w] = s /\ \A v \in Writers : v # w => wpc'[v] = wpc[v]
    BY <1>6, <1>t, <2>1, Moves DEF Count, WriterStates
  <2>3. Before' = Before \ {w} /\ w \in Before
    BY <2>1, <2>2 DEF Before, BeforeTheLine
  <2>4. Cardinality(Before \ {w}) = Cardinality(Before) - 1
    BY <2>3, BeforeFinite, FS_RemoveElement
  <2>5. Cardinality(Before) # 0
    BY <2>3, BeforeFinite, FS_EmptySet
  <2>6. lines + Cardinality(Before) <= MaxLines /\ count[w] \in 0..lines
    BY <1>f DEF TypeInv
  <2>7. /\ UNCHANGED <<day, toDay_, isAsync_, fp_, deq_, isClose_, now, name, count,
                       consumer, dpc, stale, late>>
        /\ lineCount_' = count[w] + 1 /\ lines' = lines + 1
        /\ \/ UNCHANGED <<out, direct>>
           \/ out' = Append(out, lines + 1) /\ direct' = direct \cup {lines + 1}
    BY <1>6 DEF Count
  <2>8. /\ lines + 1 \in Lines /\ lines' \in 0..MaxLines
        /\ lineCount_' \in 0..MaxLines /\ lineCount_' <= lines'
        /\ lines' + Cardinality(Before') <= MaxLines
    BY <1>s, <2>3, <2>4, <2>5, <2>6, <2>7 DEF Lines
  <2>9. out' \in Seq(Lines) /\ direct' \subseteq Lines
    <3>1. out \in Seq(Lines) /\ direct \subseteq Lines
      BY <1>t DEF TypeOK
    <3>2. Append(out, lines + 1) \in Seq(Lines) /\ direct \cup {lines + 1} \subseteq Lines
      BY <2>8, <3>1
    <3> QED
      BY <2>7, <3>1, <3>2
  <2>10. TypeOK'
    BY <1>t, <2>2, <2>7, <2>8, <2>9 DEF TypeOK, consumer
  <2>11. lines' > 0 /\ \A v \in Writers : count'[v] <= lines'
    <3>1. \A v \in Writers : count[v] \in Nat /\ count[v] <= lines
      BY <1>s, <1>f DEF TypeInv
    <3>2. count' = count /\ lines' = lines + 1
      BY <2>7
    <3> QED
      BY <1>s, <3>1, <3>2
  <2>12. cpc' = "put" => str' > 0
    BY <2>7 DEF TypeInv, consumer
  <2> QED
    BY <2>8, <2>10, <2>11, <2>12 DEF TypeInv
<1>7. ASSUME NEW w \in Writers, Push(w) PROVE TypeInv'
  <2>1. PICK s \in {"pushwait", "flush"} : wpc' = [wpc EXCEPT ![w] = s]
    BY <1>7 DEF Push
  <2>2. /\ wpc' \in [Writers -> WriterStates] /\ wpc[w] = "push"
        /\ wpc'[w] = s /\ \A v \in Writers : v # w => wpc'[v] = wpc[v]
    BY <1>7, <1>t, <2>1, Moves DEF Push, WriterStates
  <2>3. Before' = Before
    BY <2>1, <2>2, BeforeSame DEF BeforeTheLine
  <2>4. UNCHANGED <<day, clock, isAsync_, fp_, isClose_, now, name, count, str, dpc,
                    history>>
    BY <1>7 DEF Push
  <2>5. lines \in Lines
    BY <1>t, <1>s, <2>2 DEF TypeInv, TypeOK, Pushes, Lines
  <2>6. deq_' \in Seq(Lines) /\ Len(deq_') <= Capacity
    <3>1. deq_ \in Seq(Lines) /\ Len(deq_) \in Nat /\ Len(deq_) <= Capacity
      BY <1>t DEF TypeOK
    <3>2. Append(deq_, lines) \in Seq(Lines) /\ Len(Append(deq_, lines)) = Len(deq_) + 1
      BY <2>5, <3>1
    <3>3. deq_' = deq_ \/ (deq_' = Append(deq_, lines) /\ ~(Len(deq_) >= Capacity))
      BY <1>7 DEF Push, Pushed
    <3> QED
      BY <1>s, <3>1, <3>2, <3>3
  <2>7. cpc' \in {"pop", "wait", "woken", "put", "done"} /\ (cpc' = "put" <=> cpc = "put")
    BY <1>7, <1>t, Wakes DEF Push, Notify, TypeOK
  <2>8. TypeOK'
    BY <1>t, <2>2, <2>4, <2>6, <2>7 DEF TypeOK, clock, history
  <2>9. \A v \in Writers : Pushes(v)' => Pushes(v)
    BY <2>1, <2>2 DEF Pushes
  <2> QED
    BY <1>still, <2>3, <2>4, <2>7, <2>8, <2>9 DEF TypeInv, clock, history
<1>8. ASSUME NEW w \in Writers, Flush(w) PROVE TypeInv'
  <2>1. wpc[w] = "flush" /\ wpc' = [wpc EXCEPT ![w] = "idle"] /\ "idle" \in WriterStates
    BY <1>8 DEF Flush, WriterStates
  <2>2. /\ wpc' \in [Writers -> WriterStates]
        /\ wpc'[w] = "idle" /\ \A v \in Writers : v # w => wpc'[v] = wpc[v]
    BY <1>t, <2>1, Moves
  <2>3. Before' = Before
    BY <2>1, <2>2, BeforeSame DEF BeforeTheLine
  <2>4. /\ UNCHANGED <<day, clock, isAsync_, fp_, deq_, isClose_, str, dpc, history>>
        /\ now' = [now EXCEPT ![w] = 1] /\ name' = [name EXCEPT ![w] = 1]
        /\ count' = [count EXCEPT ![w] = 0]
    BY <1>8 DEF Flush
  <2>5. /\ now' \in [Writers -> Days] /\ name' \in [Writers -> Days]
        /\ count' \in [Writers -> 0..MaxLines] /\ \A v \in Writers : count'[v] <= lines
    <3>1. 1 \in Days /\ 0 \in 0..MaxLines
      BY <1>s DEF Days
    <3> QED
      BY <1>f, <1>s, <2>4, <3>1 DEF TypeInv
  <2>6. cpc' \in {"pop", "wait", "woken", "put", "done"} /\ (cpc' = "put" <=> cpc = "put")
    BY <1>8, <1>t, Wakes DEF Flush, TypeOK
  <2>7. TypeOK'
    BY <1>t, <2>2, <2>4, <2>5, <2>6 DEF TypeOK, clock, history
  <2>8. \A v \in Writers : Pushes(v)' => Pushes(v)
    BY <2>1, <2>2 DEF Pushes
  <2> QED
    BY <2>3, <2>4, <2>5, <2>6, <2>7, <2>8 DEF TypeInv, clock, history
<1>9. CASE FindsClosed \/ FindsEmpty
  <2>1. /\ UNCHANGED <<day, clock, isAsync_, fp_, deq_, isClose_, writer, str, dpc,
                       lines, out, direct, stale>>
        /\ late' \in BOOLEAN /\ cpc' \in {"wait", "done"}
    BY <1>9, <1>t DEF FindsClosed, FindsEmpty, history, TypeOK
  <2>2. TypeOK' /\ Before' = Before
    BY <1>t, <2>1 DEF TypeOK, clock, writer, Before
  <2> QED
    BY <1>still, <2>1, <2>2 DEF clock, writer, Pushes
<1>10. CASE Pop
  <2>1. /\ wpc' \in [Writers -> WriterStates]
        /\ \A w \in Writers : wpc'[w] = wpc[w] \/ (wpc[w] = "pushwait" /\ wpc'[w] = "push")
    BY <1>10, <1>t, WakesWriter DEF Pop
  <2>2. Before' = Before /\ \A w \in Writers : Pushes(w)' => Pushes(w)
    BY <2>1, BeforeSame DEF BeforeTheLine, Pushes
  <2>3. /\ UNCHANGED <<day, clock, isAsync_, fp_, isClose_, now, name, count, dpc, history>>
        /\ str' = Head(deq_) /\ deq_' = Tail(deq_) /\ deq_ # <<>> /\ cpc' = "put"
    BY <1>10 DEF Pop, Remaining
  <2>4. str' \in Lines /\ deq_' \in Seq(Lines) /\ Len(deq_') <= Capacity
    <3>1. deq_ \in Seq(Lines) /\ Len(deq_) <= Capacity
      BY <1>t DEF TypeOK
    <3>2. /\ Head(deq_) \in Lines /\ Tail(deq_) \in Seq(Lines)
          /\ Len(Tail(deq_)) = Len(deq_) - 1 /\ Len(deq_) \in Nat
      BY <2>3, <3>1, HeadTailProperties
    <3> QED
      BY <1>s, <2>3, <3>1, <3>2
  <2>5. str' \in 0..MaxLines /\ str' > 0
    BY <1>s, <2>4 DEF Lines
  <2>6. TypeOK'
    BY <1>t, <2>1, <2>3, <2>4, <2>5 DEF TypeOK, clock, history
  <2> QED
    BY <1>still, <2>2, <2>3, <2>5, <2>6 DEF clock, history
<1>11. CASE Put
  <2>1. /\ UNCHANGED <<day, clock, isAsync_, fp_, deq_, isClose_, writer, dpc, lines,
                       direct, stale, late>>
        /\ cpc = "put" /\ cpc' = "pop" /\ out' = Append(out, str) /\ str' = 0
    BY <1>11 DEF Put
  <2>2. str \in Lines /\ str' \in 0..MaxLines
    BY <1>t, <1>s, <2>1 DEF TypeInv, TypeOK, Lines
  <2>3. out' \in Seq(Lines)
    BY <1>t, <2>1, <2>2 DEF TypeOK
  <2>4. TypeOK' /\ Before' = Before
    BY <1>t, <2>1, <2>2, <2>3 DEF TypeOK, clock, writer, Before
  <2> QED
    BY <1>still, <2>1, <2>4 DEF clock, writer, Pushes
<1>12. CASE Destroy \/ Join \/ Fclose
  <2>1. /\ UNCHANGED <<day, clock, isAsync_, fp_, deq_, isClose_, writer, consumer, history>>
        /\ dpc' \in {"drain", "fclose", "gone"}
    BY <1>12 DEF Destroy, Join, Fclose
  <2>2. TypeOK' /\ Before' = Before
    BY <1>t, <2>1 DEF TypeOK, DestructorStates, clock, writer, consumer, history, Before
  <2> QED
    BY <1>still, <2>1, <2>2 DEF TypeInv, clock, writer, consumer, history, Pushes
<1>13. CASE Drain \/ Close \/ NotifyClosed
  <2>1. /\ UNCHANGED <<day, clock, isAsync_, fp_, writer, str, history>>
        /\ isClose_' \in BOOLEAN /\ dpc' \in {"drain", "close", "notify", "join"}
        /\ deq_' = deq_ \/ deq_' = <<>>
    BY <1>13, <1>t DEF Drain, Close, NotifyClosed, consumer, TypeOK
  <2>2. cpc' \in {"pop", "wait", "woken", "put", "done"} /\ (cpc' = "put" <=> cpc = "put")
    BY <1>13, <1>t, Wakes DEF Drain, Close, NotifyClosed, CloseNotifies, consumer, TypeOK
  <2>3. deq_' \in Seq(Lines) /\ Len(deq_') <= Capacity
    <3>1. <<>> \in Seq(Lines) /\ Len(<<>>) = 0
      OBVIOUS
    <3>2. deq_ \in Seq(Lines) /\ Len(deq_) <= Capacity /\ 0 <= Capacity
      BY <1>t, <1>s DEF TypeOK
    <3> QED
      BY <2>1, <3>1, <3>2
  <2>4. TypeOK' /\ Before' = Before
    BY <1>t, <2>1, <2>2, <2>3 DEF TypeOK, DestructorStates, clock, writer, history, Before
  <2> QED
    BY <1>still, <2>1, <2>2, <2>4 DEF TypeInv, clock, writer, history, Pushes
<1>14. CASE SpuriousWakeup
  <2>1. UNCHANGED <<day, clock, isAsync_, fp_, deq_, isClose_, now, name, count, str,
                    dpc, history>>
    BY <1>14 DEF SpuriousWakeup
  <2>2. /\ wpc' \in [Writers -> WriterStates]
        /\ \A w \in Writers : wpc'[w] = wpc[w] \/ (wpc[w] = "pushwait" /\ wpc'[w] = "push")
        /\ cpc' = cpc \/ cpc' = "woken"
    BY <1>14, <1>f DEF SpuriousWakeup, WriterStates
  <2>3. TypeOK'
    BY <1>t, <2>1, <2>2 DEF TypeOK, clock, history
  <2>4. Before' = Before /\ \A w \in Writers : Pushes(w)' => Pushes(w)
    BY <2>2, BeforeSame DEF BeforeTheLine, Pushes
  <2> QED
    BY <1>still, <2>1, <2>2, <2>3, <2>4 DEF TypeInv, clock, history
<1>15. CASE Midnight
  <2>1. /\ UNCHANGED <<clock, isAsync_, fp_, deq_, isClose_, writer, consumer, dpc, history>>
        /\ day' \in Days
    BY <1>15, <1>t, <1>s DEF Midnight, TypeOK, Days
  <2>2. TypeOK' /\ Before' = Before
    BY <1>t, <2>1 DEF TypeOK, clock, writer, consumer, history, Before
  <2> QED
    BY <1>still, <2>1, <2>2 DEF TypeInv, clock, writer, consumer, history, Pushes
<1>16. CASE UNCHANGED vars
  <2>1. TypeOK' /\ Before' = Before
    BY <1>t, <1>16 DEF vars, TypeOK, clock, writer, consumer, history, Before
  <2> QED
    BY <1>still, <1>16, <2>1 DEF vars, TypeInv, clock, writer, consumer, history, Pushes
<1> QED
  BY <1>1, <1>2, <1>3, <1>4, <1>5, <1>6, <1>7, <1>8, <1>9, <1>10, <1>11, <1>12, <1>13,
     <1>14, <1>15, <1>16, <1>3a DEF Next, WriterStep, AsyncWrite_, Destructor

(* The log keeps its shape: the deque stays within its capacity, and what  *)
(* is pushed, popped or written is a line that was logged.                 *)
THEOREM TypeCorrect == Spec => []TypeOK
<1>1. TypeInv => TypeOK
  BY DEF TypeInv
<1> QED
  BY <1>1, TypeInit, TypeStep, PTL DEF Spec

-----------------------------------------------------------------------------
(* Who holds Log::mtx_, and what the holder found in the deque.            *)
Mutex == OneHolder /\ Room

LEMMA MutexInit == Init => Mutex
BY DEF Init, Mutex, OneHolder, Holds, Room, PushNeverWaits

(* With nobody waiting for room there is no producer to wake.              *)
LEMMA NobodyWoken ==
  ASSUME TypeInv, Mutex, Pop \/ SpuriousWakeup
  PROVE  wpc' = wpc
BY DEF Mutex, Room, PushNeverWaits, Pop, WakeProducer, SpuriousWakeup

(* A step of a writer that neither takes the mutex nor asks the deque.     *)
LEMMA Elsewhere ==
  ASSUME TypeInv, Mutex, NEW w \in Writers, UNCHANGED deq_,
         wpc'[w] \notin {"count", "push", "pushwait"},
         \A v \in Writers : v # w => wpc'[v] = wpc[v]
  PROVE  Mutex'
BY DEF Mutex, OneHolder, Holds, Room, PushNeverWaits

LEMMA MutexStep == TypeInv /\ Mutex /\ [Next]_vars => Mutex'
<1> SUFFICES ASSUME TypeInv, Mutex, [Next]_vars PROVE Mutex'
  OBVIOUS
<1>t. TypeOK
  BY DEF TypeInv
<1>s. Capacity \in Nat \ {0} /\ deq_ \in Seq(Lines) /\ Len(deq_) \in Nat
  BY <1>t, SizesArePositive DEF TypeOK
<1>1. ASSUME NEW w \in Writers, \/ Call(w) \/ Check(w) \/ ChooseFile(w)
                                \/ ResetCount(w) \/ Reopen(w) \/ Flush(w)
      PROVE  Mutex'
  <2>1. PICK s \in {"check", "name", "append", "reset", "reopen", "idle"} : wpc' = [wpc EXCEPT ![w] = s]
    BY <1>1 DEF Call, Check, ChooseFile, ResetCount, Reopen, Flush
  <2>2. wpc'[w] = s /\ \A v \in Writers : v # w => wpc'[v] = wpc[v]
    BY <1>t, <2>1, Moves DEF WriterStates
  <2>3. UNCHANGED deq_
    BY <1>1 DEF Call, Check, ChooseFile, ResetCount, Reopen, Flush
  <2>4. wpc'[w] \notin {"count", "push", "pushwait"}
    BY <2>2
  <2> QED
    BY <2>2, <2>3, <2>4, Elsewhere
<1>2. ASSUME NEW w \in Writers, Lock(w) PROVE Mutex'
  <2>1. wpc' = [wpc EXCEPT ![w] = "count"] /\ ~Held /\ UNCHANGED deq_
    BY <1>2 DEF Lock
  <2>2. wpc'[w] = "count" /\ \A v \in Writers : v # w => wpc'[v] = wpc[v]
    BY <1>t, <2>1, Moves DEF WriterStates
  <2>3. \A v \in Writers : Holds(v)' => v = w
    BY <2>1, <2>2 DEF Held, Holds
  <2> QED
    BY <2>1, <2>2, <2>3 DEF Mutex, OneHolder, Holds, Room, PushNeverWaits
<1>3. ASSUME NEW w \in Writers, Count(w) PROVE Mutex'
  <2>1. /\ wpc[w] = "count" /\ UNCHANGED deq_
        /\ \/ wpc' = [wpc EXCEPT ![w] = "push"] /\ ~full
           \/ wpc' = [wpc EXCEPT ![w] = "flush"]
    BY <1>3 DEF Count
  <2>2. /\ (wpc'[w] = "push" /\ ~full) \/ wpc'[w] = "flush"
        /\ \A v \in Writers : v # w => wpc'[v] = wpc[v]
    BY <1>t, <2>1, Moves DEF WriterStates
  <2>3. \A v \in Writers : v # w => ~Holds(v)' /\ ~Holds(v)
    BY <2>1, <2>2 DEF Mutex, OneHolder, Holds
  <2>4. OneHolder'
    BY <2>3 DEF OneHolder
  <2>5. Room'
    BY <1>s, <2>1, <2>2, <2>3 DEF Room, PushNeverWaits, full, Holds
  <2> QED
    BY <2>4, <2>5 DEF Mutex
<1>4. ASSUME NEW w \in Writers, Push(w) PROVE Mutex'
  <2>1. wpc[w] = "push" /\ Len(deq_) < Capacity
    BY <1>4 DEF Push, Mutex, Room
  <2>2. wpc' = [wpc EXCEPT ![w] = "flush"]
    BY <1>4, <1>s, <2>1 DEF Push
  <2>3. wpc'[w] = "flush" /\ \A v \in Writers : v # w => wpc'[v] = wpc[v]
    BY <1>t, <2>2, Moves DEF WriterStates
  <2>4. \A v \in Writers : ~Holds(v)'
    BY <2>1, <2>3 DEF Mutex, OneHolder, Holds
  <2> QED
    BY <2>4 DEF Mutex, OneHolder, Holds, Room, PushNeverWaits
<1>5. CASE Pop
  <2>1. wpc' = wpc
    BY <1>5, NobodyWoken
  <2>2. deq_' = Tail(deq_) /\ deq_ # <<>>
    BY <1>5 DEF Pop, Remaining
  <2>3. Len(deq_') < Len(deq_) /\ Len(deq_') \in Nat
    BY <1>s, <2>2, HeadTailProperties
  <2> QED
    BY <1>s, <2>1, <2>3 DEF Mutex, OneHolder, Holds, Room, PushNeverWaits
<1>6. CASE FindsClosed \/ FindsEmpty \/ Put \/ Destroy \/ Drain \/ NotifyClosed \/ Join
           \/ Fclose \/ SpuriousWakeup \/ Midnight \/ UNCHANGED vars
  <2>1. wpc' = wpc /\ deq_' = deq_
    BY <1>6, NobodyWoken DEF FindsClosed, FindsEmpty, Put, Destroy, Drain, NotifyClosed, Join,
       Fclose, SpuriousWakeup, Midnight, vars, writer
  <2> QED
    BY <2>1 DEF Mutex, OneHolder, Holds, Room, PushNeverWaits
<1>7. CASE Close
  <2>1. wpc' = wpc /\ deq_' = <<>> /\ Len(<<>>) = 0
    BY <1>7 DEF Close, writer
  <2> QED
    BY <1>s, <2>1 DEF Mutex, OneHolder, Holds, Room, PushNeverWaits
<1> QED
  BY <1>1, <1>2, <1>3, <1>4, <1>5, <1>6, <1>7 DEF Next, WriterStep, AsyncWrite_, Destructor

(* push_back is called with mtx_ held and never has to wait: full() was    *)
(* asked under the same mutex, and only its holder adds to the deque.      *)
THEOREM PushAtOnce == Spec => []PushNeverWaits
<1>1. Mutex => PushNeverWaits
  BY DEF Mutex, Room
<1> QED
  BY <1>1, TypeInit, TypeStep, MutexInit, MutexStep, PTL DEF Spec

-----------------------------------------------------------------------------
(* The destructor finds no thread that logs, and closes an empty deque.    *)
LEMMA EndedStep == TypeInv /\ Ended /\ [Next]_vars => Ended'
<1> SUFFICES ASSUME TypeInv, Ended, [Next]_vars PROVE Ended'
  OBVIOUS
<1>1. ASSUME NEW w \in Writers, Call(w) \/ WriterStep(w) PROVE Ended'
  <2>1. wpc[w] # "idle" \/ dpc = "alive"
    BY <1>1 DEF Call, WriterStep, Check, ChooseFile, ResetCount, Reopen, Lock, Count, Push,
       Flush
  <2>2. dpc' = dpc
    BY <1>1 DEF Call, WriterStep, Check, ChooseFile, ResetCount, Reopen, Lock, Count, Push,
       Flush
  <2> QED
    BY <2>1, <2>2 DEF Ended
<1>2. CASE Pop
  <2>1. deq_ # <<>> /\ UNCHANGED dpc
    BY <1>2 DEF Pop
  <2>2. dpc # "alive" => \A w \in Writers : wpc'[w] = "idle"
    BY <1>2 DEF Pop, WakeProducer, Ended
  <2> QED
    BY <2>1, <2>2 DEF Ended
<1>3. CASE FindsClosed \/ FindsEmpty \/ Put \/ Midnight \/ UNCHANGED vars
  BY <1>3 DEF FindsClosed, FindsEmpty, Put, Midnight, vars, writer, Ended
<1>4. CASE SpuriousWakeup
  BY <1>4 DEF SpuriousWakeup, Ended
<1>5. CASE Destroy
  BY <1>5 DEF Destroy, writer, Ended
<1>6. CASE Drain
  BY <1>6 DEF Drain, writer, Ended
<1>7. CASE Close
  BY <1>7 DEF Close, writer, Ended
<1>8. CASE NotifyClosed \/ Join \/ Fclose
  BY <1>8 DEF NotifyClosed, Join, Fclose, writer, Ended
<1> QED
  BY <1>1, <1>2, <1>3, <1>4, <1>5, <1>6, <1>7, <1>8 DEF Next, AsyncWrite_, Destructor

-----------------------------------------------------------------------------
(* The file that is open, and those about to be.                           *)
LEMMA DatedStep == TypeInv /\ Mutex /\ Dated /\ [Next]_vars => Dated'
<1> SUFFICES ASSUME TypeInv, Mutex, Dated, [Next]_vars PROVE Dated'
  OBVIOUS
<1>t. TypeOK
  BY DEF TypeInv
<1>s. toDay_ \in Nat /\ \A w \in Writers : name[w] \in Nat /\ now[w] \in Nat
  BY <1>t, SizesArePositive DEF TypeOK, Days
<1>same. ASSUME UNCHANGED <<toDay_, fp_, stale>>,
                \A w \in Writers : Reopens(w)' <=> Reopens(w),
                \A w \in Writers : Reopens(w) => name'[w] = name[w]
         PROVE  Dated'
  BY <1>same DEF Dated
<1>1. ASSUME NEW w \in Writers,
             Call(w) \/ Check(w) \/ Lock(w) \/ Count(w) \/ Push(w) \/ Flush(w)
      PROVE  Dated'
  <2>1. /\ wpc[w] \notin {"reset", "reopen"}
        /\ \E s \in WriterStates \ {"reset", "reopen"} : wpc' = [wpc EXCEPT ![w] = s]
    BY <1>1 DEF Call, Check, Lock, Count, Push, Flush, WriterStates
  <2>2. \A v \in Writers : Reopens(v)' <=> Reopens(v)
    BY <1>t, <2>1, Moves DEF Reopens
  <2>3. UNCHANGED <<toDay_, fp_, stale>>
    BY <1>1 DEF Call, Check, Lock, Count, Push, Flush, clock, history
  <2>4. name' = name \/ name' = [name EXCEPT ![w] = 1]
    BY <1>1 DEF Call, Check, Lock, Count, Push, Flush
  <2>5. \A v \in Writers : Reopens(v) => name'[v] = name[v]
    BY <1>t, <2>1, <2>4 DEF Reopens, TypeOK
  <2> QED
    BY <1>same, <2>2, <2>3, <2>5
<1>2. ASSUME NEW w \in Writers, ChooseFile(w) PROVE Dated'
  <2>1. PICK s \in {"reset", "reopen"} : wpc' = [wpc EXCEPT ![w] = s]
    BY <1>2 DEF ChooseFile
  <2>2. wpc'[w] = s /\ \A v \in Writers : v # w => wpc'[v] = wpc[v]
    BY <1>t, <2>1, Moves DEF WriterStates
  <2>3. name'[w] = now[w] /\ \A v \in Writers : v # w => name'[v] = name[v]
    BY <1>2, <1>t DEF ChooseFile, TypeOK
  <2>4. toDay_' = now[w] /\ stale' = (stale \/ now[w] < toDay_)
    BY <1>2 DEF ChooseFile, NewDay
  <2>5. SUFFICES ASSUME ~stale' PROVE Dated'
    BY DEF Dated
  <2>6. ~stale /\ toDay_ <= toDay_'
    <3>1. ~stale /\ ~(now[w] < toDay_)
      BY <2>4, <2>5
    <3> QED
      BY <1>s, <2>4, <3>1
  <2>7. ASSUME NEW v \in Writers, Reopens(v)' PROVE name'[v] <= toDay_'
    <3>1. CASE v = w
      BY <1>s, <2>3, <2>4, <3>1
    <3>2. CASE v # w
      <4>1. Reopens(v) /\ name'[v] = name[v]
        BY <2>2, <2>3, <2>7, <3>2 DEF Reopens
      <4>2. name[v] <= toDay_
        BY <2>6, <4>1 DEF Dated
      <4> QED
        BY <1>s, <2>4, <2>6, <4>1, <4>2
    <3> QED
      BY <3>1, <3>2
  <2>8. Reopens(w)' /\ name'[w] = toDay_'
    BY <2>2, <2>3, <2>4 DEF Reopens
  <2> QED
    BY <2>7, <2>8 DEF Dated
<1>2a. ASSUME NEW w \in Writers, ResetCount(w) PROVE Dated'
  <2>1. /\ wpc[w] = "reset" /\ wpc' = [wpc EXCEPT ![w] = "reopen"]
        /\ UNCHANGED <<toDay_, fp_, stale, name>>
    BY <1>2a DEF ResetCount, history
  <2>2. wpc'[w] = "reopen" /\ \A v \in Writers : v # w => wpc'[v] = wpc[v]
    BY <1>t, <2>1, Moves DEF WriterStates
  <2> QED
    BY <1>same, <2>1, <2>2 DEF Reopens
<1>3. ASSUME NEW w \in Writers, Reopen(w) PROVE Dated'
  <2>1. /\ wpc[w] = "reopen" /\ wpc' = [wpc EXCEPT ![w] = "append"]
        /\ fp_' = name[w] /\ stale' = (stale \/ name[w] < toDay_)
        /\ UNCHANGED <<toDay_, name>>
    BY <1>3 DEF Reopen, clock
  <2>2. wpc'[w] = "append" /\ \A v \in Writers : v # w => wpc'[v] = wpc[v]
    BY <1>t, <2>1, Moves DEF WriterStates
  <2>3. SUFFICES ASSUME ~stale' PROVE Dated'
    BY DEF Dated
  <2>4. fp_' = toDay_'
    <3>1. name[w] <= toDay_ /\ ~(name[w] < toDay_)
      BY <2>1, <2>3 DEF Dated, Reopens
    <3> QED
      BY <1>s, <2>1, <3>1
  <2>5. \A v \in Writers : Reopens(v)' => Reopens(v)
    BY <2>2 DEF Reopens
  <2> QED
    BY <2>1, <2>3, <2>4, <2>5 DEF Dated
<1>4. CASE Pop \/ SpuriousWakeup
  <2>1. wpc' = wpc /\ UNCHANGED <<toDay_, fp_, stale, name>>
    BY <1>4, NobodyWoken DEF Pop, SpuriousWakeup, clock, history
  <2> QED
    BY <1>same, <2>1 DEF Reopens
<1>5. CASE FindsClosed \/ FindsEmpty \/ Put \/ Destroy \/ Destructor \/ Midnight \/ UNCHANGED vars
  <2>1. UNCHANGED <<wpc, toDay_, fp_, stale, name>>
    BY <1>5 DEF FindsClosed, FindsEmpty, Put, Destroy, Destructor, Drain, Close,
       NotifyClosed, Join, Fclose, Midnight, vars, clock, writer, consumer, history
  <2> QED
    BY <1>same, <2>1 DEF Reopens
<1> QED
  BY <1>1, <1>2, <1>3, <1>4, <1>5, <1>2a DEF Next, WriterStep, AsyncWrite_

(* Whatever the writers' rotations overlap with, the open file is the one  *)
(* of the remembered date once they are over, as long as no thread took    *)
(* part in one with a date from before midnight.                           *)
THEOREM TodaysFile == Spec => []FileOfToday
<1>1. Init => Dated
  BY DEF Init, Dated, Reopens
<1>2. Dated => FileOfToday
  BY DEF Dated, Reopens, FileOfToday
<1> QED
  BY <1>1, <1>2, TypeInit, TypeStep, MutexInit, MutexStep, DatedStep, PTL DEF Spec

-----------------------------------------------------------------------------
(* A first element put in front of a sequence and taken off it.            *)
LEMMA FrontAndRest ==
  ASSUME NEW S, NEW s \in Seq(S), NEW x \in S
  PROVE  Head(<<x>> \o s) = x /\ Tail(<<x>> \o s) = s /\ <<x>> \o s # <<>>
<1> DEFINE t == <<x>> \o s
<1>1. <<x>> \in Seq(S) /\ Len(<<x>>) = 1 /\ <<x>>[1] = x /\ Len(s) \in Nat
  OBVIOUS
<1>2. /\ t \in Seq(S) /\ Len(t) = 1 + Len(s) /\ t[1] = x
      /\ \A i \in 1..Len(s) : t[i + 1] = s[i]
  BY <1>1, ConcatProperties
<1> HIDE DEF t
<1>3. t # <<>>
  BY <1>1, <1>2
<1>4. /\ Head(t) = x /\ Tail(t) \in Seq(S) /\ Len(Tail(t)) = Len(s)
      /\ \A i \in 1..Len(s) : Tail(t)[i] = t[i + 1]
  BY <1>1, <1>2, <1>3, HeadTailProperties
<1>5. Tail(t) = s
  BY <1>2, <1>4, SeqEqual
<1> QED
  BY <1>3, <1>4, <1>5 DEF t

LEMMA HeadThenTail ==
  ASSUME NEW S, NEW s \in Seq(S), s # <<>>
  PROVE  <<Head(s)>> \o Tail(s) = s
<1> DEFINE t == <<Head(s)>> \o Tail(s)
<1>1. /\ Head(s) \in S /\ Tail(s) \in Seq(S) /\ Len(Tail(s)) = Len(s) - 1
      /\ \A i \in 1..Len(Tail(s)) : Tail(s)[i] = s[i + 1]
  BY HeadTailProperties
<1>2. <<Head(s)>> \in Seq(S) /\ Len(<<Head(s)>>) = 1 /\ <<Head(s)>>[1] = s[1] /\ Len(s) \in Nat
  BY <1>1
<1>3. /\ t \in Seq(S) /\ Len(t) = Len(s)
      /\ \A i \in 1..Len(s) : t[i] = IF i <= 1 THEN s[1] ELSE Tail(s)[i - 1]
  BY <1>1, <1>2, ConcatProperties
<1> HIDE DEF t
<1>4. \A i \in 1..Len(s) : t[i] = s[i]
  BY <1>1, <1>2, <1>3
<1>5. t = s
  BY <1>3, <1>4, SeqEqual
<1> QED
  BY <1>5 DEF t

-----------------------------------------------------------------------------
(* The way of a line: nothing happens to the lines, or one goes straight   *)
(* to the file, or one joins those on their way, or the first of these is  *)
(* written.                                                                *)
StillWay == UNCHANGED <<OnTheWay, out, direct, lines>>
GoesDirect ==
  /\ lines' = lines + 1 /\ out' = Append(out, lines + 1)
  /\ direct' = direct \cup {lines + 1} /\ OnTheWay' = OnTheWay
Joins ==
  /\ lines' = lines + 1 /\ OnTheWay' = Append(OnTheWay, lines + 1)
  /\ UNCHANGED <<out, direct>>
FirstWritten ==
  /\ OnTheWay # <<>> /\ out' = Append(out, Head(OnTheWay)) /\ OnTheWay' = Tail(OnTheWay)
  /\ UNCHANGED <<direct, lines>>

LEMMA WayType ==
  ASSUME TypeInv
  PROVE  /\ InHand \in Seq(Lines) /\ deq_ \in Seq(Lines) /\ Pushing \in Seq(Lines)
         /\ InHand \o deq_ \in Seq(Lines) /\ OnTheWay \in Seq(Lines)
<1>t. TypeOK /\ MaxLines \in Nat
  BY SizesArePositive DEF TypeInv
<1>1. InHand \in Seq(Lines)
  <2>1. cpc = "put" => str \in Lines
    BY <1>t DEF TypeInv, TypeOK, Lines
  <2> QED
    BY <2>1 DEF InHand
<1>2. Pushing \in Seq(Lines)
  <2>1. (\E w \in Writers : wpc[w] \in {"push", "pushwait"}) => lines \in Lines
    BY <1>t DEF TypeInv, TypeOK, Pushes, Lines
  <2> QED
    BY <2>1 DEF Pushing
<1>3. deq_ \in Seq(Lines)
  BY <1>t DEF TypeOK
<1>4. InHand \o deq_ \in Seq(Lines)
  BY <1>1, <1>3, ConcatProperties
<1> QED
  BY <1>1, <1>2, <1>3, <1>4, ConcatProperties DEF OnTheWay

(* What leaves the three places alone leaves their lines.                  *)
LEMMA SamePlaces ==
  ASSUME UNCHANGED <<str, deq_, lines>>, cpc' = "put" <=> cpc = "put",
         \A v \in Writers : Pushes(v)' <=> Pushes(v)
  PROVE  OnTheWay' = OnTheWay
<1>1. InHand' = InHand
  BY DEF InHand
<1>2. Pushing' = Pushing
  <2>1. (\E w \in Writers : wpc[w] \in {"push", "pushwait"})'
        <=> (\E w \in Writers : wpc[w] \in {"push", "pushwait"})
    BY DEF Pushes
  <2> QED
    BY <2>1 DEF Pushing
<1> QED
  BY <1>1, <1>2 DEF OnTheWay

LEMMA WayStep ==
  ASSUME TypeInv, Mutex, Ended, [Next]_vars
  PROVE  StillWay \/ GoesDirect \/ Joins \/ FirstWritten
<1>t. TypeOK
  BY DEF TypeInv
<1>w. /\ InHand \in Seq(Lines) /\ deq_ \in Seq(Lines) /\ Pushing \in Seq(Lines)
      /\ InHand \o deq_ \in Seq(Lines)
  BY WayType
<1>e. (InHand \o deq_) \o <<>> = InHand \o deq_
  BY <1>w, ConcatEmptySeq
<1>1. ASSUME NEW w \in Writers, \/ Call(w) \/ Check(w) \/ ChooseFile(w)
                                \/ ResetCount(w) \/ Reopen(w) \/ Lock(w) \/ Flush(w)
      PROVE  StillWay
  <2>1. /\ ~Pushes(w)
        /\ \E s \in WriterStates \ {"push", "pushwait"} : wpc' = [wpc EXCEPT ![w] = s]
    BY <1>1 DEF Call, Check, ChooseFile, ResetCount, Reopen, Lock, Flush, WriterStates, Pushes
  <2>2. \A v \in Writers : Pushes(v)' <=> Pushes(v)
    BY <1>t, <2>1, Moves DEF Pushes
  <2>3. UNCHANGED <<deq_, str, out, direct, lines>>
    BY <1>1 DEF Call, Check, ChooseFile, ResetCount, Reopen, Lock, Flush, consumer, history
  <2>4. cpc' = "put" <=> cpc = "put"
    BY <1>1, <1>t, Wakes DEF Call, Check, ChooseFile, ResetCount, Reopen, Lock, Flush, consumer
  <2> QED
    BY <2>2, <2>3, <2>4, SamePlaces DEF StillWay
<1>2. ASSUME NEW w \in Writers, Count(w) PROVE GoesDirect \/ Joins
  <2>1. /\ wpc[w] = "count" /\ lines' = lines + 1 /\ UNCHANGED <<deq_, cpc, str>>
        /\ \/ wpc' = [wpc EXCEPT ![w] = "push"] /\ UNCHANGED <<out, direct>>
           \/ /\ wpc' = [wpc EXCEPT ![w] = "flush"]
              /\ out' = Append(out, lines + 1) /\ direct' = direct \cup {lines + 1}
    BY <1>2 DEF Count, consumer
  <2>2. \A v \in Writers : v # w => ~Pushes(v) /\ wpc'[v] = wpc[v]
    <3>1. \A v \in Writers : v # w => ~Pushes(v)
      BY <2>1 DEF Mutex, OneHolder, Holds, Pushes
    <3> QED
      BY <1>t, <2>1, <3>1, Moves DEF WriterStates
  <2>3. Pushing = <<>> /\ InHand' = InHand
    BY <2>1, <2>2 DEF Pushing, Pushes, InHand
  <2>4. OnTheWay = InHand \o deq_
    BY <1>e, <2>3 DEF OnTheWay
  <2>5. CASE wpc' = [wpc EXCEPT ![w] = "push"] /\ UNCHANGED <<out, direct>>
    <3>1. wpc'[w] = "push"
      BY <1>t, <2>5, Moves DEF WriterStates
    <3>2. Pushing' = <<lines + 1>>
      BY <2>1, <3>1 DEF Pushing
    <3>3. lines + 1 \in Lines
      <4>1. w \in Before /\ lines \in Nat /\ MaxLines \in Nat
        BY <1>t, <2>1, SizesArePositive DEF Before, BeforeTheLine, TypeOK
      <4>2. Cardinality(Before) # 0 /\ Cardinality(Before) \in Nat
        BY <4>1, BeforeFinite, FS_EmptySet
      <4> QED
        BY <4>1, <4>2 DEF TypeInv, Lines
    <3>4. OnTheWay' = (InHand \o deq_) \o <<lines + 1>>
      BY <2>1, <2>3, <3>2 DEF OnTheWay
    <3>5. OnTheWay' = Append(OnTheWay, lines + 1)
      BY <1>w, <2>4, <3>3, <3>4, AppendIsConcat
    <3> QED
      BY <2>1, <2>5, <3>5 DEF Joins
  <2>6. CASE /\ wpc' = [wpc EXCEPT ![w] = "flush"]
             /\ out' = Append(out, lines + 1) /\ direct' = direct \cup {lines + 1}
    <3>1. wpc'[w] = "flush"
      BY <1>t, <2>6, Moves DEF WriterStates
    <3>2. \A v \in Writers : ~Pushes(v)'
      BY <2>2, <3>1 DEF Pushes
    <3>3. Pushing' = <<>>
      BY <3>2 DEF Pushing, Pushes
    <3>4. OnTheWay' = OnTheWay
      BY <1>e, <2>1, <2>3, <2>4, <3>3 DEF OnTheWay
    <3> QED
      BY <2>1, <2>6, <3>4 DEF GoesDirect
  <2> QED
    BY <2>1, <2>5, <2>6
<1>3. ASSUME NEW w \in Writers, Push(w) PROVE StillWay
  <2>1. /\ wpc[w] = "push" /\ deq_' = Append(deq_, lines) /\ WakeConsumer
        /\ wpc' = [wpc EXCEPT ![w] = "flush"] /\ UNCHANGED <<str, out, direct, lines>>
    <3>1. wpc[w] = "push" /\ Len(deq_) < Capacity /\ Len(deq_) \in Nat /\ Capacity \in Nat
      BY <1>3, <1>w, SizesArePositive DEF Push, Mutex, Room
    <3>2. ~(Len(deq_) >= Capacity)
      BY <3>1
    <3> QED
      BY <1>3, <3>1, <3>2 DEF Push, Pushed, Notify, history
  <2>2. Pushing = <<lines>> /\ lines \in Lines
    BY <1>t, <2>1, SizesArePositive DEF Pushing, TypeInv, TypeOK, Pushes, Lines
  <2>3. Pushing' = <<>>
    <3>1. wpc'[w] = "flush" /\ \A v \in Writers : v # w => wpc'[v] = wpc[v]
      BY <1>t, <2>1, Moves DEF WriterStates
    <3>2. \A v \in Writers : ~Pushes(v)'
      BY <2>1, <3>1 DEF Mutex, OneHolder, Holds, Pushes
    <3> QED
      BY <3>2 DEF Pushing, Pushes
  <2>4. InHand' = InHand
    BY <1>t, <2>1, Wakes DEF InHand
  <2>5. deq_' = deq_ \o <<lines>> /\ <<lines>> \in Seq(Lines)
    BY <1>w, <2>1, <2>2, AppendIsConcat
  <2>6. InHand \o (deq_ \o <<lines>>) = (InHand \o deq_) \o <<lines>>
    BY <1>w, <2>5, ConcatAssociative
  <2>7. (InHand \o deq_) \o <<lines>> \in Seq(Lines)
    BY <1>w, <2>5, ConcatProperties
  <2>8. OnTheWay' = ((InHand \o deq_) \o <<lines>>) \o <<>>
    BY <2>3, <2>4, <2>5, <2>6 DEF OnTheWay
  <2>9. OnTheWay' = OnTheWay
    BY <2>2, <2>7, <2>8, ConcatEmptySeq DEF OnTheWay
  <2> QED
    BY <2>1, <2>9 DEF StillWay
<1>4. CASE Pop
  <2>1. /\ cpc # "put" /\ deq_ # <<>> /\ str' = Head(deq_) /\ deq_' = Tail(deq_)
        /\ cpc' = "put" /\ UNCHANGED <<out, direct, lines>>
    BY <1>4 DEF Pop, Testing, Remaining, history
  <2>2. InHand = <<>> /\ InHand' = <<Head(deq_)>>
    BY <2>1 DEF InHand
  <2>3. InHand' \o deq_' = InHand \o deq_
    BY <1>w, <2>1, <2>2, HeadThenTail, ConcatEmptySeq
  <2>4. Pushing' = Pushing
    BY <1>4, <2>1, NobodyWoken DEF Pushing
  <2> QED
    BY <2>1, <2>3, <2>4 DEF OnTheWay, StillWay
<1>5. CASE Put
  <2>1. /\ cpc = "put" /\ cpc' = "pop" /\ ~Held /\ out' = Append(out, str)
        /\ UNCHANGED <<deq_, wpc, lines, direct>>
    BY <1>5 DEF Put, writer
  <2>2. InHand = <<str>> /\ InHand' = <<>> /\ str \in Lines
    BY <1>t, <2>1, SizesArePositive DEF InHand, TypeInv, TypeOK, Lines
  <2>3. Pushing = <<>> /\ Pushing' = <<>>
    BY <2>1 DEF Pushing, Held
  <2>4. OnTheWay = <<str>> \o deq_
    BY <1>e, <2>2, <2>3 DEF OnTheWay
  <2>5. OnTheWay' = deq_
    BY <1>w, <2>1, <2>2, <2>3, ConcatEmptySeq DEF OnTheWay
  <2>6. Head(OnTheWay) = str /\ Tail(OnTheWay) = deq_ /\ OnTheWay # <<>>
    BY <1>w, <2>2, <2>4, FrontAndRest
  <2> QED
    BY <2>1, <2>5, <2>6 DEF FirstWritten
<1>6. CASE FindsClosed \/ FindsEmpty \/ Destroy \/ Drain \/ NotifyClosed \/ Join \/ Fclose
           \/ SpuriousWakeup \/ Midnight \/ UNCHANGED vars
  <2>1. UNCHANGED <<deq_, str, out, direct, lines, wpc>>
    BY <1>6, NobodyWoken DEF FindsClosed, FindsEmpty, Destroy, Drain, NotifyClosed,
       Join, Fclose, SpuriousWakeup, Midnight, vars, writer, consumer, history
  <2>2. cpc' = "put" <=> cpc = "put"
    BY <1>6, <1>t, Wakes DEF FindsClosed, FindsEmpty, Testing, Destroy, Drain,
       NotifyClosed, CloseNotifies, Join, Fclose, SpuriousWakeup, Midnight, vars, consumer
  <2> QED
    BY <2>1, <2>2, SamePlaces DEF StillWay, Pushes
<1>7. CASE Close
  <2>1. UNCHANGED <<deq_, str, out, direct, lines, wpc>>
    BY <1>7 DEF Close, Ended, writer, consumer, history
  <2>2. cpc' = "put" <=> cpc = "put"
    BY <1>7 DEF Close, consumer
  <2> QED
    BY <2>1, <2>2, SamePlaces DEF StillWay, Pushes
<1> QED
  BY <1>1, <1>2, <1>3, <1>4, <1>5, <1>6, <1>7 DEF Next, WriterStep, AsyncWrite_, Destructor

-----------------------------------------------------------------------------
(* What a sequence holds, and what its pieces do.                          *)
Within(s) == {s[k] : k \in 1..Len(s)}

LEMMA WithinConcat ==
  ASSUME NEW S, NEW s \in Seq(S), NEW t \in Seq(S)
  PROVE  Within(s \o t) = Within(s) \cup Within(t)
<1> DEFINE u == s \o t
<1>1. Len(s) \in Nat /\ Len(t) \in Nat
  OBVIOUS
<1>2. /\ Len(u) = Len(s) + Len(t)
      /\ \A i \in 1..Len(s) + Len(t) : u[i] = IF i <= Len(s) THEN s[i] ELSE t[i - Len(s)]
  BY ConcatProperties
<1> HIDE DEF u
<1>3. ASSUME NEW x \in Within(u) PROVE x \in Within(s) \cup Within(t)
  <2>1. PICK i \in 1..Len(u) : x = u[i]
    BY <1>3 DEF Within
  <2>2. CASE i <= Len(s)
    BY <1>1, <1>2, <2>1, <2>2 DEF Within
  <2>3. CASE ~(i <= Len(s))
    <3>1. i - Len(s) \in 1..Len(t) /\ x = t[i - Len(s)]
      BY <1>1, <1>2, <2>1, <2>3
    <3> QED
      BY <3>1 DEF Within
  <2> QED
    BY <2>2, <2>3
<1>4. ASSUME NEW x \in Within(s) PROVE x \in Within(u)
  <2>1. PICK i \in 1..Len(s) : x = s[i]
    BY <1>4 DEF Within
  <2>2. i \in 1..Len(u) /\ u[i] = x
    BY <1>1, <1>2, <2>1
  <2> QED
    BY <2>2 DEF Within
<1>5. ASSUME NEW x \in Within(t) PROVE x \in Within(u)
  <2>1. PICK i \in 1..Len(t) : x = t[i]
    BY <1>5 DEF Within
  <2>2. i + Len(s) \in 1..Len(u) /\ u[i + Len(s)] = t[(i + Len(s)) - Len(s)]
    BY <1>1, <1>2, <2>1
  <2>3. (i + Len(s)) - Len(s) = i
    BY <1>1, <2>1
  <2> QED
    BY <2>1, <2>2, <2>3 DEF Within
<1>6. Within(u) = Within(s) \cup Within(t)
  BY <1>3, <1>4, <1>5
<1> QED
  BY <1>6 DEF u

LEMMA WithinOne ==
  ASSUME NEW x
  PROVE  Within(<<x>>) = {x}
<1>1. Len(<<x>>) = 1 /\ <<x>>[1] = x /\ 1..1 = {1}
  OBVIOUS
<1> QED
  BY <1>1 DEF Within

LEMMA WithinAppend ==
  ASSUME NEW S, NEW s \in Seq(S), NEW x \in S
  PROVE  Within(Append(s, x)) = Within(s) \cup {x} /\ Len(Append(s, x)) = Len(s) + 1
<1>1. Append(s, x) = s \o <<x>> /\ <<x>> \in Seq(S)
  BY AppendIsConcat
<1>2. Within(s \o <<x>>) = Within(s) \cup Within(<<x>>)
  BY ZenonT(40), <1>1, WithinConcat
<1>3. Within(<<x>>) = {x}
  BY WithinOne
<1> QED
  BY <1>1, <1>2, <1>3

LEMMA WithinTail ==
  ASSUME NEW S, NEW s \in Seq(S), s # <<>>
  PROVE  Within(s) = {Head(s)} \cup Within(Tail(s)) /\ Len(s) = Len(Tail(s)) + 1
<1>1. /\ Head(s) \in S /\ Tail(s) \in Seq(S) /\ Len(Tail(s)) = Len(s) - 1 /\ Len(s) \in Nat
  BY HeadTailProperties
<1>2. s = <<Head(s)>> \o Tail(s) /\ <<Head(s)>> \in Seq(S)
  BY <1>1, HeadThenTail
<1>3. Within(<<Head(s)>> \o Tail(s)) = Within(<<Head(s)>>) \cup Within(Tail(s))
  BY ZenonT(40), <1>1, <1>2, WithinConcat
<1>4. Within(<<Head(s)>>) = {Head(s)}
  BY WithinOne
<1>5. Within(s) = {Head(s)} \cup Within(Tail(s))
  BY <1>2, <1>3, <1>4, Zenon
<1> QED
  BY <1>1, <1>5

-----------------------------------------------------------------------------
(* Every line is in the file or on its way to it, and only once.           *)
Once ==
  /\ Len(out) + Len(OnTheWay) = lines
  /\ Within(out) \cup Within(OnTheWay) = 1..lines

Line == TypeInv /\ Mutex /\ Ended

LEMMA OnceInit == Init => Once
<1> SUFFICES ASSUME Init PROVE Once
  OBVIOUS
<1>1. InHand = <<>> /\ Pushing = <<>> /\ deq_ = <<>> /\ out = <<>> /\ lines = 0
  BY DEF Init, InHand, Pushing
<1>2. <<>> \o <<>> = <<>>
  BY ConcatEmptySeq, EmptySeq
<1>3. OnTheWay = <<>>
  BY <1>1, <1>2 DEF OnTheWay
<1>4. Within(<<>>) = {} /\ 1..0 = {} /\ Len(<<>>) = 0
  <2>1. Len(<<>>) = 0 /\ 1..0 = {}
    OBVIOUS
  <2> QED
    BY <2>1 DEF Within
<1> QED
  BY <1>1, <1>3, <1>4 DEF Once

LEMMA OnceStep ==
  ASSUME Line, Line', Once, [Next]_vars
  PROVE  Once'
<1>1. /\ out \in Seq(Lines) /\ OnTheWay \in Seq(Lines) /\ lines \in Nat /\ lines' \in 0..MaxLines
      /\ MaxLines \in Nat /\ Len(out) \in Nat /\ Len(OnTheWay) \in Nat
  BY SMTT(40), WayType, SizesArePositive DEF Line, TypeInv, TypeOK
<1>2. CASE StillWay
  BY <1>2 DEF StillWay, Once
<1>3. CASE GoesDirect \/ Joins
  <2>1. lines' = lines + 1
    BY <1>3 DEF GoesDirect, Joins
  <2>2. lines + 1 \in Lines /\ 1..(lines + 1) = (1..lines) \cup {lines + 1}
    BY <1>1, <2>1 DEF Lines
  <2>3. CASE GoesDirect
    <3>1. Within(out') = Within(out) \cup {lines + 1} /\ Len(out') = Len(out) + 1
      BY <1>1, <2>2, <2>3, WithinAppend DEF GoesDirect
    <3>2. OnTheWay' = OnTheWay
      BY <2>3 DEF GoesDirect
    <3>3. Len(out') + Len(OnTheWay') = lines'
      BY <1>1, <2>1, <3>1, <3>2 DEF Once
    <3>4. Within(out') \cup Within(OnTheWay') = 1..lines'
      BY <2>1, <2>2, <3>1, <3>2 DEF Once
    <3> QED
      BY <3>3, <3>4 DEF Once, Within
  <2>4. CASE Joins
    <3>1. /\ Within(OnTheWay') = Within(OnTheWay) \cup {lines + 1}
          /\ Len(OnTheWay') = Len(OnTheWay) + 1
      BY <1>1, <2>2, <2>4, WithinAppend DEF Joins
    <3>2. out' = out
      BY <2>4 DEF Joins
    <3>3. Len(out') + Len(OnTheWay') = lines'
      <4>1. Len(out) + Len(OnTheWay) = lines
        BY DEF Once
      <4>2. Len(out) + (Len(OnTheWay) + 1) = lines + 1
        BY <1>1, <4>1
      <4> QED
        BY <2>1, <3>1, <3>2, <4>2
    <3>4. Within(out') \cup Within(OnTheWay') = 1..lines'
      BY <2>1, <2>2, <3>1, <3>2 DEF Once
    <3> QED
      BY <3>3, <3>4 DEF Once, Within
  <2> QED
    BY <1>3, <2>3, <2>4
<1>4. CASE FirstWritten
  <2>1. /\ OnTheWay # <<>> /\ out' = Append(out, Head(OnTheWay))
        /\ OnTheWay' = Tail(OnTheWay) /\ lines' = lines
    BY <1>4 DEF FirstWritten
  <2>2. /\ Within(OnTheWay) = {Head(OnTheWay)} \cup Within(OnTheWay')
        /\ Len(OnTheWay) = Len(OnTheWay') + 1
    BY <1>1, <2>1, WithinTail
  <2>3. Head(OnTheWay) \in Lines /\ Len(OnTheWay') \in Nat
    BY <1>1, <2>1, HeadTailProperties
  <2>4. Within(out') = Within(out) \cup {Head(OnTheWay)} /\ Len(out') = Len(out) + 1
    BY <1>1, <2>1, <2>3, WithinAppend
  <2>5. Len(out') + Len(OnTheWay') = lines'
    <3>1. Len(out) + (Len(OnTheWay') + 1) = lines
      BY <2>2 DEF Once
    <3>2. (Len(out) + 1) + Len(OnTheWay') = lines
      BY <1>1, <2>3, <3>1
    <3> QED
      BY <2>1, <2>4, <3>2
  <2>6. Within(out') \cup Within(OnTheWay') = 1..lines'
    BY <2>1, <2>2, <2>4 DEF Once
  <2> QED
    BY <2>5, <2>6 DEF Once, Within
<1> QED
  BY <1>2, <1>3, <1>4, WayStep DEF Line

LEMMA LineInit == Init => Line
BY TypeInit, MutexInit DEF Line, Init, Ended

LEMMA LineStep == Line /\ [Next]_vars => Line'
BY TypeStep, MutexStep, EndedStep DEF Line

LEMMA OncePlaced ==
  ASSUME TypeInv, Once
  PROVE  WrittenOnce
<1>1. out \in Seq(Lines) /\ OnTheWay \in Seq(Lines)
  BY WayType DEF TypeInv, TypeOK
<1>2. out \o InHand \o deq_ \o Pushing = out \o OnTheWay
  <2>1. out \in Seq(Lines)
    BY <1>1
  <2>2. InHand \in Seq(Lines) /\ deq_ \in Seq(Lines)
    BY WayType
  <2>3. Pushing \in Seq(Lines)
    BY WayType
  <2>4. (out \o InHand) \o deq_ = out \o (InHand \o deq_)
    BY SMTT(40), <2>1, <2>2, ConcatAssociative
  <2> DEFINE queued == InHand \o deq_
  <2>5. queued \in Seq(Lines)
    BY WayType
  <2> HIDE DEF queued
  <2>6. (out \o queued) \o Pushing = out \o (queued \o Pushing)
    BY SMTT(40), <2>1, <2>3, <2>5, ConcatAssociative
  <2> QED
    BY <2>4, <2>6 DEF OnTheWay, queued
<1> DEFINE all == out \o InHand \o deq_ \o Pushing
<1>3. all = out \o OnTheWay
  BY <1>2
<1>4. Len(out \o OnTheWay) = lines
  BY <1>1, ConcatProperties DEF Once
<1>5. Within(out \o OnTheWay) = 1..lines
  <2>1. Within(out \o OnTheWay) = Within(out) \cup Within(OnTheWay)
    BY <1>1, WithinConcat
  <2> QED
    BY <2>1 DEF Once
<1> HIDE DEF all
<1>6. Len(all) = lines /\ {all[k] : k \in 1..Len(all)} = 1..lines
  <2>1. Len(all) = lines /\ Within(all) = 1..lines
    BY <1>3, <1>4, <1>5
  <2> QED
    BY <2>1 DEF Within
<1> QED
  BY <1>6 DEF WrittenOnce, all

(* Neither a full deque, nor the swap of a direct line with the consumer's *)
(* work, nor the shutdown loses a line or writes one twice.                *)
THEOREM NoLineLost == Spec => []WrittenOnce
<1>1. Line /\ Once => WrittenOnce
  BY OncePlaced DEF Line
<1> QED
  BY <1>1, LineInit, LineStep, OnceInit, OnceStep, PTL DEF Spec

-----------------------------------------------------------------------------
(* The order of the lines.  Those on their way are in it and none of them  *)
(* went directly; what they are later than went directly.                  *)
Sorted ==
  /\ \A j, k \in 1..Len(OnTheWay) : j < k => OnTheWay[j] < OnTheWay[k]
  /\ \A k \in 1..Len(OnTheWay) : OnTheWay[k] \notin direct
  /\ \A j \in 1..Len(out), k \in 1..Len(OnTheWay) : out[j] > OnTheWay[k] => out[j] \in direct
  /\ direct \subseteq 1..lines
  /\ OnlyDirectOvertakes

LEMMA SortedInit == Init => Sorted
<1> SUFFICES ASSUME Init PROVE Sorted
  OBVIOUS
<1>1. Len(out) + Len(OnTheWay) = 0 /\ lines = 0 /\ direct = {}
  BY OnceInit DEF Once, Init
<1>2. Len(out) \in Nat /\ Len(OnTheWay) \in Nat
  BY TypeInit, WayType DEF TypeInv, TypeOK
<1>3. 1..Len(out) = {} /\ 1..Len(OnTheWay) = {}
  BY <1>1, <1>2
<1> QED
  BY <1>1, <1>3 DEF Sorted, OnlyDirectOvertakes

(* Lines that were logged have a number, which the next one is above.      *)
LEMMA Numbered ==
  ASSUME TypeInv, Once
  PROVE  /\ \A j \in 1..Len(out) : out[j] \in 1..lines
         /\ \A k \in 1..Len(OnTheWay) : OnTheWay[k] \in 1..lines
BY DEF Once, Within

LEMMA SortedStep ==
  ASSUME Line, Line', Once, Sorted, [Next]_vars
  PROVE  Sorted'
<1>1. /\ out \in Seq(Lines) /\ OnTheWay \in Seq(Lines) /\ lines \in Nat /\ lines' \in 0..MaxLines
      /\ MaxLines \in Nat /\ Len(out) \in Nat /\ Len(OnTheWay) \in Nat
  BY SMTT(40), WayType, SizesArePositive DEF Line, TypeInv, TypeOK
<1>2. /\ \A j \in 1..Len(out) : out[j] \in 1..lines
      /\ \A k \in 1..Len(OnTheWay) : OnTheWay[k] \in 1..lines
  BY Numbered DEF Line
<1>3. CASE StillWay
  BY <1>3 DEF StillWay, Sorted, OnlyDirectOvertakes
<1>4. CASE GoesDirect
  <2>1. /\ lines' = lines + 1 /\ OnTheWay' = OnTheWay /\ direct' = direct \cup {lines + 1}
        /\ out' = Append(out, lines + 1)
    BY <1>4 DEF GoesDirect
  <2>2. lines + 1 \in Lines
    BY <1>1, <2>1 DEF Lines
  <2>3. /\ Len(out') = Len(out) + 1 /\ out'[Len(out) + 1] = lines + 1
        /\ \A j \in 1..Len(out) : out'[j] = out[j]
    BY <1>1, <2>1, <2>2, AppendProperties
  <2>4. \A j, k \in 1..Len(OnTheWay') : j < k => OnTheWay'[j] < OnTheWay'[k]
    BY <2>1 DEF Sorted
  <2>5. \A k \in 1..Len(OnTheWay') : OnTheWay'[k] \notin direct'
    BY <1>1, <1>2, <2>1 DEF Sorted
  <2>6. ASSUME NEW j \in 1..Len(out'), NEW k \in 1..Len(OnTheWay'), out'[j] > OnTheWay'[k]
        PROVE  out'[j] \in direct'
    <3>1. CASE j = Len(out) + 1
      BY <2>1, <2>3, <3>1
    <3>2. CASE j \in 1..Len(out)
      BY <2>1, <2>3, <2>6, <3>2 DEF Sorted
    <3> QED
      BY <1>1, <2>3, <3>1, <3>2
  <2>7. direct' \subseteq 1..lines'
    BY <1>1, <2>1 DEF Sorted
  <2>8. ASSUME NEW j \in 1..Len(out'), NEW k \in 1..(j - 1), out'[k] > out'[j]
        PROVE  out'[k] \in direct' /\ out'[j] \notin direct'
    <3>1. k \in 1..Len(out) /\ out'[k] = out[k] /\ out[k] \in 1..lines
      BY <1>1, <1>2, <2>3
    <3>2. CASE j = Len(out) + 1
      BY <1>1, <2>3, <2>8, <3>1, <3>2
    <3>3. CASE j \in 1..Len(out)
      <4>1. out'[j] = out[j] /\ out[j] \in 1..lines
        BY <1>2, <2>3, <3>3
      <4>2. out[k] \in direct /\ out[j] \notin direct
        BY <2>8, <3>1, <3>3, <4>1 DEF Sorted, OnlyDirectOvertakes
      <4> QED
        BY <1>1, <2>1, <3>1, <4>1, <4>2
    <3> QED
      BY <1>1, <2>3, <3>2, <3>3
  <2>9. OnlyDirectOvertakes'
    BY <2>8 DEF OnlyDirectOvertakes
  <2> QED
    BY <2>4, <2>5, <2>6, <2>7, <2>9 DEF Sorted
<1>5. CASE Joins
  <2>1. /\ lines' = lines + 1 /\ OnTheWay' = Append(OnTheWay, lines + 1)
        /\ out' = out /\ direct' = direct
    BY <1>5 DEF Joins
  <2>2. lines + 1 \in Lines
    BY <1>1, <2>1 DEF Lines
  <2>3. /\ Len(OnTheWay') = Len(OnTheWay) + 1 /\ OnTheWay'[Len(OnTheWay) + 1] = lines + 1
        /\ \A k \in 1..Len(OnTheWay) : OnTheWay'[k] = OnTheWay[k]
    BY <1>1, <2>1, <2>2, AppendProperties
  <2>4. ASSUME NEW j \in 1..Len(OnTheWay'), NEW k \in 1..Len(OnTheWay'), j < k
        PROVE  OnTheWay'[j] < OnTheWay'[k]
    <3>1. j \in 1..Len(OnTheWay) /\ OnTheWay'[j] = OnTheWay[j] /\ OnTheWay[j] \in 1..lines
      BY <1>1, <1>2, <2>3, <2>4
    <3>2. CASE k = Len(OnTheWay) + 1
      BY <1>1, <2>3, <3>1, <3>2
    <3>3. CASE k \in 1..Len(OnTheWay)
      BY <2>3, <2>4, <3>1, <3>3 DEF Sorted
    <3> QED
      BY <1>1, <2>3, <3>2, <3>3
  <2>5. ASSUME NEW k \in 1..Len(OnTheWay') PROVE OnTheWay'[k] \notin direct'
    <3>1. CASE k = Len(OnTheWay) + 1
      BY <1>1, <2>1, <2>3, <3>1 DEF Sorted
    <3>2. CASE k \in 1..Len(OnTheWay)
      BY <2>1, <2>3, <3>2 DEF Sorted
    <3> QED
      BY <1>1, <2>3, <3>1, <3>2
  <2>6. ASSUME NEW j \in 1..Len(out'), NEW k \in 1..Len(OnTheWay'), out'[j] > OnTheWay'[k]
        PROVE  out'[j] \in direct'
    <3>1. out[j] \in 1..lines /\ out'[j] = out[j] /\ j \in 1..Len(out)
      BY <1>2, <2>1
    <3>2. CASE k = Len(OnTheWay) + 1
      BY <1>1, <2>3, <2>6, <3>1, <3>2
    <3>3. CASE k \in 1..Len(OnTheWay)
      BY <2>1, <2>3, <2>6, <3>1, <3>3 DEF Sorted
    <3> QED
      BY <1>1, <2>3, <3>2, <3>3
  <2>7. direct' \subseteq 1..lines'
    BY <1>1, <2>1 DEF Sorted
  <2>8. OnlyDirectOvertakes'
    BY <2>1 DEF Sorted, OnlyDirectOvertakes
  <2> QED
    BY <2>4, <2>5, <2>6, <2>7, <2>8 DEF Sorted
<1>6. CASE FirstWritten
  <2> DEFINE h == Head(OnTheWay)
             n == Len(OnTheWay')
  <2>1. /\ OnTheWay # <<>> /\ out' = Append(out, h)
        /\ OnTheWay' = Tail(OnTheWay) /\ lines' = lines /\ direct' = direct
    BY <1>6 DEF FirstWritten
  <2>2. /\ h \in Lines /\ n \in Nat /\ Len(OnTheWay) = n + 1 /\ h = OnTheWay[1]
        /\ \A k \in 1..n : OnTheWay'[k] = OnTheWay[k + 1]
    BY <1>1, <2>1, HeadTailProperties
  <2>3. /\ Len(out') = Len(out) + 1 /\ out'[Len(out) + 1] = h
        /\ \A j \in 1..Len(out) : out'[j] = out[j]
    BY <1>1, <2>1, <2>2, AppendProperties
  <2>4. /\ 1 \in 1..Len(OnTheWay) /\ \A k \in 1..n : k + 1 \in 1..Len(OnTheWay) /\ 1 < k + 1
    BY <2>2
  <2>h. h \notin direct /\ h \in Nat
    BY <1>2, <2>2, <2>4 DEF Sorted
  <2> HIDE DEF h, n
  <2>5. ASSUME NEW j \in 1..n, NEW k \in 1..n, j < k PROVE OnTheWay'[j] < OnTheWay'[k]
    <3>1. j + 1 < k + 1
      BY <2>2, <2>5
    <3> QED
      BY <2>2, <2>4, <3>1 DEF Sorted
  <2>6. ASSUME NEW k \in 1..n PROVE OnTheWay'[k] \notin direct' /\ h < OnTheWay'[k]
    BY <2>1, <2>2, <2>4 DEF Sorted
  <2>7. ASSUME NEW j \in 1..Len(out'), NEW k \in 1..n, out'[j] > OnTheWay'[k]
        PROVE  out'[j] \in direct'
    <3>1. CASE j = Len(out) + 1
      <4>1. OnTheWay'[k] \in Nat /\ h < OnTheWay'[k] /\ h > OnTheWay'[k]
        BY <1>2, <2>2, <2>3, <2>4, <2>6, <2>7, <3>1
      <4> QED
        BY <2>h, <4>1
    <3>2. CASE j \in 1..Len(out)
      BY <2>1, <2>2, <2>3, <2>4, <2>7, <3>2 DEF Sorted
    <3> QED
      BY <1>1, <2>3, <3>1, <3>2
  <2>8. ASSUME NEW j \in 1..Len(out'), NEW k \in 1..(j - 1), out'[k] > out'[j]
        PROVE  out'[k] \in direct' /\ out'[j] \notin direct'
    <3>1. k \in 1..Len(out) /\ out'[k] = out[k]
      BY <1>1, <2>3
    <3>2. CASE j = Len(out) + 1
      BY <2>1, <2>2, <2>3, <2>4, <2>8, <2>h, <3>1, <3>2 DEF Sorted
    <3>3. CASE j \in 1..Len(out)
      BY <2>1, <2>3, <2>8, <3>1, <3>3 DEF Sorted, OnlyDirectOvertakes
    <3> QED
      BY <1>1, <2>3, <3>2, <3>3
  <2>9. OnlyDirectOvertakes'
    BY <2>8 DEF OnlyDirectOvertakes
  <2>10. direct' \subseteq 1..lines'
    BY <2>1 DEF Sorted
  <2> QED
    BY <2>5, <2>6, <2>7, <2>9, <2>10 DEF Sorted, n
<1> QED
  BY <1>3, <1>4, <1>5, <1>6, WayStep DEF Line

(* Lines reach the file in the order they were logged in, except that one  *)
(* written directly may be ahead of lines still in the deque.              *)
THEOREM OrderKept == Spec => []OnlyDirectOvertakes
<1>1. Sorted => OnlyDirectOvertakes
  BY DEF Sorted
<1> QED
  BY <1>1, LineInit, LineStep, OnceInit, OnceStep, SortedInit, SortedStep, PTL DEF Spec
=============================================================================
