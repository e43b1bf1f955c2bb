--------------------------- MODULE HeapTimerProofs ---------------------------
(***************************************************************************)
(* Proofs about HeapTimer, for any ids, callbacks, timeouts, clock and     *)
(* heap size: ref_ and heap_ always agree, and every step of the timer is  *)
(* a step of TimerMap.                                                     *)
(***************************************************************************)
EXTENDS HeapTimer, TLAPS

(* Where the cursors of the loops may be.  During a deletion they stay     *)
(* below the last node, the one that is about to be removed.               *)
LoopInv ==
  /\ pc = "siftup" => op \in {"add", "clock", "request"} /\ i < size
  /\ pc = "siftdown" =>
       /\ op \in {"readd", "adjust", "clock", "request"}
       /\ start <= i /\ i < lim /\ lim <= size
  /\ Deleting =>
       /\ pc \in {"siftup", "siftdown", "erase"}
       /\ pc = "siftup" => i < size - 1
       /\ pc = "siftdown" => lim = size - 1
  /\ pc = "erase" => Deleting /\ size > 0
  /\ pc = "setcb" => op = "readd"
  /\ op = "readd" => arg \in [id : Ids, cb : Callbacks] /\ Present(arg.id)
  /\ pc \in {"handle", "tick", "next", "wait"} => op = "none"

IInv == TypeOK /\ RefConsistent /\ LoopInv

-----------------------------------------------------------------------------
(* Lemmas about the parts the actions are made of. *)

LEMMA ParentInRange == \A k \in Nat : k > 0 => Parent(k) \in Nat /\ Parent(k) < k
BY DEF Parent

LEMMA MsIsInt == \A d \in Int : Ms(d) \in Int
BY ClockResolution DEF Ms

LEMMA PlaceInRange ==
  ASSUME TypeOK, RefConsistent, NEW id \in Ids, Present(id)
  PROVE  ref[id] \in 0..(size - 1) /\ heap[ref[id]] \in Nodes
BY DEF TypeOK, RefConsistent, Present, Absent

LEMMA SameIdsKeepRef ==
  ASSUME TypeOK, RefConsistent, size' = size, ref' = ref,
         \A k \in 0..(size - 1) : heap'[k].id = heap[k].id
  PROVE  RefConsistent'
<1>1. \A k \in 0..(size' - 1) : ref'[heap'[k].id] = k
  BY DEF RefConsistent
<1>2. ASSUME NEW id \in Ids, Present(id)'
      PROVE  ref'[id] < size' /\ heap'[ref'[id]].id = id
  BY <1>2, PlaceInRange DEF RefConsistent, Present
<1> QED
  BY <1>1, <1>2 DEF RefConsistent

(* SwapNode_ keeps heap_ and ref_ in step, and moves no data. *)
LEMMA SwapKeepsRef ==
  ASSUME TypeOK, RefConsistent, NEW a \in 0..(size - 1), NEW b \in 0..(size - 1),
         SwapNode_(a, b)
  PROVE  /\ heap' \in [0..(size - 1) -> Nodes] /\ size' = size
         /\ ref' \in [Ids -> Nat \cup {Absent}]
         /\ RefConsistent'
         /\ \A id \in Ids : Present(id)' <=> Present(id)
         /\ \A id \in Ids : Present(id) => heap'[ref'[id]] = heap[ref[id]]
         /\ \A id \in Ids : ref'[id] = IF ref[id] = a THEN b
                                       ELSE IF ref[id] = b THEN a ELSE ref[id]
<1>1. /\ heap \in [0..(size - 1) -> Nodes] /\ size \in Nat
      /\ ref \in [Ids -> Nat \cup {Absent}]
      /\ \A k \in 0..(size - 1) : heap[k].id \in Ids
  BY DEF TypeOK, Nodes
<1>2. /\ heap' \in [0..(size - 1) -> Nodes] /\ size' = size
      /\ \A k \in 0..(size - 1) :
           heap'[k] = IF k = b THEN heap[a] ELSE IF k = a THEN heap[b] ELSE heap[k]
  BY <1>1 DEF SwapNode_
<1>3. ref[heap[a].id] = a /\ ref[heap[b].id] = b
  BY DEF RefConsistent
<1>4. \A id \in Ids : ref'[id] = IF id = heap[a].id THEN b
                                 ELSE IF id = heap[b].id THEN a ELSE ref[id]
  BY <1>1 DEF SwapNode_
<1>5. \A id \in Ids : /\ ref[id] = a <=> id = heap[a].id
                      /\ ref[id] = b <=> id = heap[b].id
  <2> SUFFICES ASSUME NEW id \in Ids
               PROVE  (ref[id] = a <=> id = heap[a].id) /\ (ref[id] = b <=> id = heap[b].id)
    OBVIOUS
  <2>1. a # Absent /\ b # Absent
    BY <1>1 DEF Absent
  <2>2. Present(id) => heap[ref[id]].id = id
    BY DEF RefConsistent
  <2> QED
    BY <1>3, <2>1, <2>2 DEF Present
<1>6. \A id \in Ids : ref'[id] = IF ref[id] = a THEN b
                                 ELSE IF ref[id] = b THEN a ELSE ref[id]
  BY <1>3, <1>4, <1>5
<1>7. ref' \in [Ids -> Nat \cup {Absent}]
  BY <1>1 DEF SwapNode_
<1>8. \A id \in Ids : Present(id)' <=> Present(id)
  BY <1>1, <1>6 DEF Present, Absent
<1>9. \A id \in Ids : Present(id) => heap'[ref'[id]] = heap[ref[id]]
  BY <1>1, <1>2, <1>6 DEF RefConsistent, Present, Absent
<1>10. RefConsistent'
  <2>1. \A k \in 0..(size - 1) : ref'[heap'[k].id] = k
    BY <1>1, <1>2, <1>3, <1>4 DEF RefConsistent
  <2>2. \A id \in Ids : Present(id) => ref'[id] < size /\ heap'[ref'[id]].id = id
    BY <1>1, <1>6, <1>9 DEF RefConsistent, Present, Absent
  <2> QED
    BY <1>2, <1>8, <2>1, <2>2 DEF RefConsistent, Present
<1> QED
  BY <1>2, <1>6, <1>7, <1>8, <1>9, <1>10

(* The first line of adjust changes no id, so it cannot disturb ref_. *)
LEMMA SetDeadlineKeeps ==
  ASSUME IInv, pc = "handle", NEW id \in Ids, NEW ms \in Timeouts,
         SetDeadline(id, ms), UNCHANGED <<now, loop>>,
         \/ op' = "adjust" /\ arg' = arg
         \/ op' = "readd" /\ \E cb \in Callbacks : arg' = [id |-> id, cb |-> cb]
  PROVE  IInv'
<1>1. /\ heap \in [0..(size - 1) -> Nodes] /\ size \in Nat
      /\ ref \in [Ids -> Nat \cup {Absent}] /\ now \in 0..Horizon
      /\ ref[id] \in 0..(size - 1) /\ Present(id)
  BY DEF IInv, TypeOK, RefConsistent, SetDeadline, Present
<1>2. Deadline(ms) \in Int
  BY <1>1, TimeoutsArePositive, ClockResolution, HorizonIsTime DEF Deadline
<1>3. /\ heap' \in [0..(size - 1) -> Nodes] /\ size' = size /\ ref' = ref
      /\ \A k \in 0..(size - 1) : heap'[k].id = heap[k].id
  BY <1>1, <1>2 DEF SetDeadline, Nodes
<1>4. RefConsistent'
  BY <1>3, SameIdsKeepRef DEF IInv
<1>5. TypeOK'
  BY <1>1, <1>3 DEF IInv, TypeOK, SetDeadline, Enter, loop, Places, Operations
<1>6. LoopInv'
  BY <1>1, <1>3 DEF SetDeadline, Enter, LoopInv, Deleting, Present
<1> QED
  BY <1>4, <1>5, <1>6 DEF IInv

(* del_ of the node at k, up to the removal of the last node. *)
LEMMA StartDeleteKeeps ==
  ASSUME IInv, pc \in {"handle", "tick"}, NEW k \in 0..(size - 1),
         StartDelete(k), op' \in {"clock", "request"}, UNCHANGED <<now, arg, loop>>
  PROVE  IInv'
<1>1. size \in Nat /\ size > 0 /\ op = "none" /\ TypeOK /\ RefConsistent
  BY DEF IInv, TypeOK, LoopInv
<1>2. CASE k < size - 1
  <2>1. SwapNode_(k, size - 1) /\ Enter("siftdown", k, size - 1)
    BY <1>2 DEF StartDelete
  <2>2. size - 1 \in 0..(size - 1)
    BY <1>1
  <2>3. /\ heap' \in [0..(size - 1) -> Nodes] /\ size' = size
        /\ ref' \in [Ids -> Nat \cup {Absent}] /\ RefConsistent'
    BY <1>1, <2>1, <2>2, SwapKeepsRef
  <2>4. TypeOK'
    BY <1>1, <2>1, <2>3 DEF TypeOK, Enter, loop, Places, Operations
  <2>5. LoopInv'
    BY <1>1, <1>2, <2>1, <2>3 DEF Enter, LoopInv, Deleting
  <2> QED
    BY <2>3, <2>4, <2>5 DEF IInv
<1>3. CASE ~(k < size - 1)
  <2>1. pc' = "erase" /\ UNCHANGED <<timer, cursor>>
    BY <1>3 DEF StartDelete
  <2>2. TypeOK'
    BY <1>1, <2>1 DEF TypeOK, timer, cursor, loop, Places, Operations
  <2>3. LoopInv'
    BY <1>1, <2>1 DEF LoopInv, Deleting, timer, cursor
  <2> QED
    BY <1>1, <2>1, <2>2, <2>3 DEF IInv, RefConsistent, Present, timer
<1> QED
  BY <1>2, <1>3

-----------------------------------------------------------------------------
(* The invariant is inductive: one step per action. *)

LEMMA InitInv == Init => IInv
<1> SUFFICES ASSUME Init PROVE IInv
  OBVIOUS
<1>1. TypeOK
  BY HorizonIsTime DEF Init, TypeOK, Places, Operations
<1>2. RefConsistent
  BY DEF Init, RefConsistent, Present
<1>3. LoopInv
  BY DEF Init, LoopInv, Deleting
<1> QED
  BY <1>1, <1>2, <1>3 DEF IInv

LEMMA SiftKeeps == IInv /\ Sift => IInv'
<1> SUFFICES ASSUME IInv, Sift PROVE IInv'
  OBVIOUS
<1> USE DEF IInv
<1>1. CASE SiftUpSwap
  <2>1. /\ i \in 0..(size - 1) /\ Parent(i) \in 0..(size - 1) /\ Parent(i) < i
        /\ SwapNode_(i, Parent(i)) /\ size \in Nat
    BY <1>1, ParentInRange DEF SiftUpSwap, SiftUpContinues, TypeOK, LoopInv
  <2>2. /\ heap' \in [0..(size - 1) -> Nodes] /\ size' = size
        /\ ref' \in [Ids -> Nat \cup {Absent}] /\ RefConsistent'
        /\ \A id \in Ids : Present(id)' <=> Present(id)
    BY <2>1, SwapKeepsRef
  <2>3. TypeOK'
    BY <1>1, <2>1, <2>2 DEF SiftUpSwap, TypeOK, loop
  <2>4. LoopInv'
    BY <1>1, <2>1, <2>2 DEF SiftUpSwap, LoopInv, Deleting
  <2> QED
    BY <2>2, <2>3, <2>4
<1>2. CASE SiftUpDone
  <2>1. TypeOK' /\ RefConsistent'
    BY <1>2 DEF SiftUpDone, Leave, TypeOK, RefConsistent, Present, timer, loop,
                Places, Operations, Deleting
  <2>2. LoopInv'
    BY <1>2 DEF SiftUpDone, Leave, TypeOK, LoopInv, Deleting, Present, timer
  <2> QED
    BY <2>1, <2>2
<1>3. CASE SiftDownSwap
  <2>1. /\ i \in 0..(size - 1) /\ Child \in 0..(size - 1) /\ i < Child /\ Child < lim
        /\ SwapNode_(i, Child) /\ size \in Nat
    BY <1>3 DEF SiftDownSwap, SiftDownStep, SiftDownContinues, Child, TypeOK, LoopInv
  <2>2. /\ heap' \in [0..(size - 1) -> Nodes] /\ size' = size
        /\ ref' \in [Ids -> Nat \cup {Absent}] /\ RefConsistent'
        /\ \A id \in Ids : Present(id)' <=> Present(id)
    BY <2>1, SwapKeepsRef
  <2>3. TypeOK'
    BY <1>3, <2>1, <2>2 DEF SiftDownSwap, SiftDownStep, TypeOK, loop
  <2>4. LoopInv'
    <3>1. i' = Child /\ UNCHANGED <<pc, op, start, lim, arg>> /\ pc = "siftdown"
      BY <1>3 DEF SiftDownSwap, SiftDownStep
    <3>2. start \in Nat /\ i \in Nat /\ lim \in Nat /\ Child \in Nat
      BY <2>1 DEF TypeOK
    <3>3. op = "readd" => arg \in [id : Ids, cb : Callbacks] /\ Present(arg.id)'
      BY <2>2, <3>1 DEF LoopInv, Present
    <3> QED
      BY <2>1, <2>2, <3>1, <3>2, <3>3 DEF LoopInv, Deleting
  <2> QED
    BY <2>2, <2>3, <2>4
<1>4. CASE SiftDownDone
  <2>1. TypeOK' /\ RefConsistent'
    BY <1>4 DEF SiftDownDone, Enter, Leave, TypeOK, RefConsistent, Present, timer,
                loop, Places, Operations
  <2>2. LoopInv'
    BY <1>4 DEF SiftDownDone, Enter, Leave, TypeOK, LoopInv, Deleting, Present, timer
  <2> QED
    BY <2>1, <2>2
<1> QED
  BY <1>1, <1>2, <1>3, <1>4 DEF Sift

LEMMA SetCbKeeps == IInv /\ SetCb => IInv'
<1> SUFFICES ASSUME IInv, SetCb PROVE IInv'
  OBVIOUS
<1> USE DEF IInv
<1>1. arg \in [id : Ids, cb : Callbacks] /\ Present(arg.id)
  BY DEF SetCb, LoopInv
<1>2. ref[arg.id] \in 0..(size - 1) /\ heap[ref[arg.id]] \in Nodes
  BY <1>1, PlaceInRange
<1>3. /\ heap' \in [0..(size - 1) -> Nodes]
      /\ \A k \in 0..(size - 1) : heap'[k].id = heap[k].id
  BY <1>1, <1>2 DEF SetCb, TypeOK, Nodes
<1>4. RefConsistent'
  BY <1>3, SameIdsKeepRef DEF SetCb
<1>5. TypeOK'
  BY <1>3 DEF SetCb, TypeOK, cursor, loop, Places, Operations
<1>6. LoopInv'
  BY DEF SetCb, LoopInv, Deleting, cursor
<1> QED
  BY <1>4, <1>5, <1>6

(* del_ erases the id of the last node, then the node. *)
LEMMA EraseKeeps == IInv /\ Erase => IInv'
<1> SUFFICES ASSUME IInv, Erase PROVE IInv'
  OBVIOUS
<1> USE DEF IInv
<1> DEFINE gone == heap[size - 1].id
<1>1. /\ size \in Nat /\ size - 1 \in 0..(size - 1) /\ size' = size - 1
      /\ heap \in [0..(size - 1) -> Nodes] /\ ref \in [Ids -> Nat \cup {Absent}]
      /\ gone \in Ids
  BY DEF Erase, LoopInv, TypeOK, Nodes
<1>2. /\ heap' \in [0..(size - 2) -> Nodes]
      /\ \A k \in 0..(size - 2) : heap'[k] = heap[k]
  BY <1>1 DEF Erase
<1>3. /\ ref' \in [Ids -> Nat \cup {Absent}]
      /\ \A id \in Ids : ref'[id] = IF id = gone THEN Absent ELSE ref[id]
  BY <1>1 DEF Erase
<1>4. ref[gone] = size - 1
  BY <1>1 DEF RefConsistent
<1>5. \A k \in 0..(size - 2) : heap[k].id \in Ids /\ heap[k].id # gone
  BY <1>1, <1>4 DEF RefConsistent, Nodes
<1>6. \A k \in 0..(size' - 1) : ref'[heap'[k].id] = k
  BY <1>1, <1>2, <1>3, <1>5 DEF RefConsistent
<1>7. ASSUME NEW id \in Ids, Present(id)'
      PROVE  ref'[id] < size' /\ heap'[ref'[id]].id = id
  <2>1. id # gone /\ ref'[id] = ref[id] /\ Present(id)
    BY <1>3, <1>7 DEF Present
  <2>2. ref[id] \in 0..(size - 1) /\ heap[ref[id]].id = id
    BY <2>1, PlaceInRange DEF RefConsistent
  <2>3. ref[id] \in 0..(size - 2)
    BY <1>1, <2>1, <2>2
  <2> QED
    BY <1>1, <1>2, <2>1, <2>2, <2>3
<1>8. RefConsistent'
  BY <1>6, <1>7 DEF RefConsistent
<1>9. TypeOK'
  BY <1>1, <1>2, <1>3 DEF Erase, TypeOK, cursor, loop, Places, Operations
<1>10. LoopInv'
  BY DEF Erase, LoopInv, Deleting, cursor
<1> QED
  BY <1>8, <1>9, <1>10

(* add pushes at the end the node of an id that was absent. *)
LEMMA AddNewKeeps ==
  ASSUME IInv, NEW id \in Ids, NEW ms \in Timeouts, NEW cb \in Callbacks,
         AddNew(id, ms, cb)
  PROVE  IInv'
<1> USE DEF IInv
<1> DEFINE node == [id |-> id, expires |-> Deadline(ms), cb |-> cb]
<1>1. /\ size \in Nat /\ size' = size + 1 /\ size \in 0..size
      /\ heap \in [0..(size - 1) -> Nodes] /\ ref \in [Ids -> Nat \cup {Absent}]
      /\ now \in 0..Horizon /\ ref[id] = Absent
  BY DEF AddNew, TypeOK, Present
<1>2. Deadline(ms) \in Int
  BY <1>1, TimeoutsArePositive, ClockResolution, HorizonIsTime DEF Deadline
<1>3. /\ heap' \in [0..size -> Nodes]
      /\ heap'[size] = node
      /\ \A k \in 0..(size - 1) : heap'[k] = heap[k]
  BY <1>1, <1>2 DEF AddNew, Nodes
<1>4. /\ ref' \in [Ids -> Nat \cup {Absent}]
      /\ \A x \in Ids : ref'[x] = IF x = id THEN size ELSE ref[x]
  BY <1>1 DEF AddNew
<1>5. \A k \in 0..(size - 1) : heap[k].id \in Ids /\ heap[k].id # id
  BY <1>1 DEF RefConsistent, Nodes, Absent
<1>6. \A k \in 0..(size' - 1) : ref'[heap'[k].id] = k
  BY <1>1, <1>3, <1>4, <1>5 DEF RefConsistent
<1>7. ASSUME NEW x \in Ids, Present(x)'
      PROVE  ref'[x] < size' /\ heap'[ref'[x]].id = x
  <2>1. CASE x = id
    BY <1>1, <1>3, <1>4, <2>1
  <2>2. CASE x # id
    <3>1. Present(x) /\ ref'[x] = ref[x]
      BY <1>4, <1>7, <2>2 DEF Present
    <3>2. ref[x] \in 0..(size - 1) /\ heap[ref[x]].id = x
      BY <3>1, PlaceInRange DEF RefConsistent
    <3> QED
      BY <1>1, <1>3, <3>1, <3>2
  <2> QED
    BY <2>1, <2>2
<1>8. RefConsistent'
  BY <1>6, <1>7 DEF RefConsistent
<1>9. TypeOK'
  BY <1>1, <1>3, <1>4 DEF AddNew, Enter, TypeOK, loop, Places, Operations
<1>10. LoopInv'
  BY <1>1 DEF AddNew, Enter, LoopInv, Deleting
<1> QED
  BY <1>8, <1>9, <1>10

LEMMA NextInv == IInv /\ [Next]_vars => IInv'
<1> SUFFICES ASSUME IInv, [Next]_vars PROVE IInv'
  OBVIOUS
<1>1. ASSUME NEW id \in Ids, NEW ms \in Timeouts, NEW cb \in Callbacks,
             AddPresent(id, ms, cb)
      PROVE  IInv'
  BY <1>1, SetDeadlineKeeps DEF AddPresent
<1>2. ASSUME NEW id \in Ids, NEW ms \in Timeouts, Adjust(id, ms)
      PROVE  IInv'
  BY <1>2, SetDeadlineKeeps DEF Adjust
<1>3. ASSUME NEW id \in Ids, DoWork(id) PROVE IInv'
  <2>1. ref[id] \in 0..(size - 1)
    BY <1>3, PlaceInRange DEF DoWork, IInv
  <2> QED
    BY <1>3, <2>1, StartDeleteKeeps DEF DoWork
<1>4. ASSUME TickPop PROVE IInv'
  <2>1. 0 \in 0..(size - 1)
    BY <1>4 DEF TickPop, IInv, TypeOK
  <2> QED
    BY <1>4, <2>1, StartDeleteKeeps DEF TickPop
<1>5. ASSUME Clear PROVE IInv'
  BY <1>5 DEF Clear, IInv, TypeOK, RefConsistent, LoopInv, Present, Deleting,
              cursor, loop
<1>6. ASSUME GetNextTick \/ TickEnds PROVE IInv'
  BY <1>6 DEF GetNextTick, TickEnds, IInv, TypeOK, RefConsistent, LoopInv, Present,
              Deleting, timer, cursor, loop, Places
<1>7. ASSUME Wait PROVE IInv'
  <2>1. NextTick \in Int
    <3>1. size > 0 => heap[0].expires - now \in Int
      BY DEF IInv, TypeOK, Nodes
    <3> QED
      BY <3>1, MsIsInt DEF NextTick
  <2>2. timeMS' \in Int /\ wake' \in Int
    BY <1>7, <2>1, ClockResolution DEF Wait, IInv, TypeOK
  <2> QED
    BY <1>7, <2>2 DEF Wait, IInv, TypeOK, RefConsistent, LoopInv, Present, Deleting,
                      timer, cursor, Places
<1>8. ASSUME WaitReturns PROVE IInv'
  BY <1>8 DEF WaitReturns, IInv, TypeOK, RefConsistent, LoopInv, Present, Deleting,
              timer, cursor, Places
<1>9. ASSUME Advance PROVE IInv'
  BY <1>9, HorizonIsTime DEF Advance, IInv, TypeOK, RefConsistent, LoopInv, Present,
              Deleting, timer, cursor, loop
<1>10. ASSUME UNCHANGED vars PROVE IInv'
  BY <1>10 DEF vars, IInv, TypeOK, RefConsistent, LoopInv, Present, Deleting,
              timer, cursor, loop
<1>11. ASSUME Run PROVE IInv'
  BY <1>4, <1>6, <1>7, <1>11, SiftKeeps, SetCbKeeps, EraseKeeps DEF Run
<1>12. ASSUME Handle PROVE IInv'
  BY <1>1, <1>2, <1>3, <1>12, AddNewKeeps DEF Handle
<1> QED
  BY <1>5, <1>8, <1>9, <1>10, <1>11, <1>12 DEF Next

-----------------------------------------------------------------------------
(* heap_ and ref_ always have their shape: the places stay in the heap and *)
(* the nodes in the set of nodes, whatever loop runs.                      *)
THEOREM TypeCorrect == SafeSpec => []TypeOK
<1>1. IInv => TypeOK
  BY DEF IInv
<1> QED
  BY InitInv, NextInv, <1>1, PTL DEF SafeSpec

(* ref_ and heap_ agree in every state, in the middle of a sifting loop    *)
(* too: no sequence of add, adjust, doWork, tick and clear separates them. *)
THEOREM RefAlwaysConsistent == SafeSpec => []RefConsistent
<1>1. IInv => RefConsistent
  BY DEF IInv
<1> QED
  BY InitInv, NextInv, <1>1, PTL DEF SafeSpec

-----------------------------------------------------------------------------
(* The refinement: every step of the heap is a step of TimerMap. *)

LEMMA ArmedIds ==
  IInv => /\ Armed = {id \in Ids : Present(id) /\ ref[id] \in Live}
          /\ Live \subseteq 0..(size - 1)
<1> SUFFICES ASSUME IInv
             PROVE  /\ Armed = {id \in Ids : Present(id) /\ ref[id] \in Live}
                    /\ Live \subseteq 0..(size - 1)
  OBVIOUS
<1>1. /\ size \in Nat /\ heap \in [0..(size - 1) -> Nodes]
      /\ \A k \in 0..(size - 1) : heap[k].id \in Ids
  BY DEF IInv, TypeOK, Nodes
<1>2. Live \subseteq 0..(size - 1)
  BY <1>1 DEF Live
<1>3. ASSUME NEW k \in Live
      PROVE  heap[k].id \in Ids /\ Present(heap[k].id) /\ ref[heap[k].id] = k
  BY <1>1, <1>2 DEF IInv, RefConsistent, Present, Absent
<1>4. ASSUME NEW id \in Ids, Present(id), ref[id] \in Live PROVE id \in Armed
  BY <1>4 DEF IInv, RefConsistent, Armed
<1> QED
  BY <1>2, <1>3, <1>4 DEF Armed

LEMMA ArmedIdsNext ==
  IInv' => (/\ Armed = {id \in Ids : Present(id) /\ ref[id] \in Live}
            /\ Live \subseteq 0..(size - 1))'
BY ArmedIds, PTL

LEMMA SameTimers ==
  ASSUME Armed' = Armed, \A id \in Armed : TimerOf(id)' = TimerOf(id)
  PROVE  ArmedTimers' = ArmedTimers
BY DEF ArmedTimers

(* A swap of two live nodes moves them and arms or disarms nobody. *)
LEMMA SwapKeepsTimers ==
  ASSUME IInv, IInv', NEW a \in Live, NEW b \in Live, SwapNode_(a, b),
         UNCHANGED <<op, arg>>
  PROVE  ArmedTimers' = ArmedTimers
<1>1. a \in 0..(size - 1) /\ b \in 0..(size - 1)
  BY ArmedIds
<1>2. /\ size' = size
      /\ \A id \in Ids : Present(id)' <=> Present(id)
      /\ \A id \in Ids : Present(id) => heap'[ref'[id]] = heap[ref[id]]
      /\ \A id \in Ids : ref'[id] = IF ref[id] = a THEN b
                                    ELSE IF ref[id] = b THEN a ELSE ref[id]
  BY <1>1, SwapKeepsRef DEF IInv
<1>3. Live' = Live
  BY <1>2 DEF Live, Deleting
<1>4. \A id \in Ids : ref'[id] \in Live <=> ref[id] \in Live
  BY <1>2
<1>5. Armed' = Armed
  <2>1. Armed' = {id \in Ids : Present(id)' /\ ref'[id] \in Live'}
    BY ArmedIdsNext
  <2>2. Armed = {id \in Ids : Present(id) /\ ref[id] \in Live}
    BY ArmedIds
  <2> QED
    BY <1>2, <1>3, <1>4, <2>1, <2>2
<1>6. \A id \in Armed : TimerOf(id)' = TimerOf(id)
  BY <1>2, ArmedIds DEF TimerOf
<1> QED
  BY <1>5, <1>6, SameTimers

LEMMA SiftStutters == IInv /\ IInv' /\ Sift => UNCHANGED <<ArmedTimers, now, called>>
<1> SUFFICES ASSUME IInv, IInv', Sift PROVE UNCHANGED <<ArmedTimers, now, called>>
  OBVIOUS
<1>1. CASE SiftUpSwap
  <2>1. i \in Live /\ Parent(i) \in Live
    BY <1>1, ParentInRange DEF SiftUpSwap, SiftUpContinues, Live, IInv, TypeOK, LoopInv
  <2> QED
    BY <1>1, <2>1, SwapKeepsTimers DEF SiftUpSwap
<1>2. CASE SiftDownSwap
  <2>1. i \in Live /\ Child \in Live
    BY <1>2 DEF SiftDownSwap, SiftDownStep, SiftDownContinues, Child, Live, IInv,
                TypeOK, LoopInv
  <2> QED
    BY <1>2, <2>1, SwapKeepsTimers DEF SiftDownSwap, SiftDownStep
<1>3. CASE SiftUpDone \/ SiftDownDone
  <2>1. UNCHANGED <<timer, arg, now, called>> /\ Deleting' = Deleting
    BY <1>3 DEF SiftUpDone, SiftDownDone, Deleting, Leave, Enter
  <2>2. op' = "readd" <=> op = "readd"
    BY <1>3 DEF SiftUpDone, SiftDownDone, IInv, LoopInv
  <2>3. Armed' = Armed
    BY <2>1 DEF Armed, Live, timer
  <2>4. \A id \in Armed : TimerOf(id)' = TimerOf(id)
    BY <2>1, <2>2 DEF TimerOf, timer
  <2> QED
    BY <2>1, <2>3, <2>4, SameTimers
<1> QED
  BY <1>1, <1>2, <1>3 DEF Sift

LEMMA SetCbStutters ==
  IInv /\ SetCb => UNCHANGED <<ArmedTimers, now, called>>
<1> SUFFICES ASSUME IInv, SetCb PROVE UNCHANGED <<ArmedTimers, now, called>>
  OBVIOUS
<1>1. /\ op = "readd" /\ arg \in [id : Ids, cb : Callbacks] /\ Present(arg.id)
      /\ op' = "none" /\ size' = size /\ ref' = ref /\ ~Deleting /\ ~Deleting'
  BY DEF SetCb, IInv, LoopInv, Deleting
<1>2. ref[arg.id] \in 0..(size - 1) /\ heap[ref[arg.id]].id = arg.id
  BY <1>1, PlaceInRange DEF IInv, RefConsistent
<1>3. /\ \A k \in 0..(size - 1) :
           heap'[k] = IF k = ref[arg.id] THEN [heap[k] EXCEPT !.cb = arg.cb] ELSE heap[k]
      /\ \A k \in 0..(size - 1) : heap[k] \in Nodes
  BY <1>2 DEF SetCb, IInv, TypeOK
<1>4. \A k \in 0..(size - 1) :
        /\ heap'[k].id = heap[k].id /\ heap'[k].expires = heap[k].expires
        /\ heap'[k].cb = IF k = ref[arg.id] THEN arg.cb ELSE heap[k].cb
  BY <1>3 DEF Nodes
<1>5. Live' = Live /\ Live = 0..(size - 1)
  BY <1>1 DEF Live
<1>6. Armed' = Armed
  BY <1>4, <1>5 DEF Armed
<1>7. ASSUME NEW id \in Armed PROVE TimerOf(id)' = TimerOf(id)
  <2>1. id \in Ids /\ ref[id] \in 0..(size - 1) /\ heap[ref[id]].id = id
    BY <1>5, <1>7, ArmedIds DEF IInv, RefConsistent
  <2>2. ref[id] = ref[arg.id] <=> id = arg.id
    BY <1>2, <2>1
  <2> QED
    BY <1>1, <1>4, <2>1, <2>2 DEF TimerOf
<1> QED
  BY <1>6, <1>7, SameTimers DEF SetCb

LEMMA EraseStutters ==
  IInv /\ IInv' /\ Erase => UNCHANGED <<ArmedTimers, now, called>>
<1> SUFFICES ASSUME IInv, IInv', Erase PROVE UNCHANGED <<ArmedTimers, now, called>>
  OBVIOUS
<1>1. /\ Deleting /\ ~Deleting' /\ size \in Nat \ {0} /\ size' = size - 1
      /\ \A k \in 0..(size - 2) : heap'[k] = heap[k]
      /\ ref \in [Ids -> Nat \cup {Absent}]
      /\ heap[size - 1].id \in Ids /\ ref[heap[size - 1].id] = size - 1
  BY DEF Erase, IInv, LoopInv, Deleting, TypeOK, Nodes, RefConsistent
<1>2. Live = 0..(size - 2) /\ Live' = 0..(size - 2)
  BY <1>1 DEF Live
<1>3. Armed' = Armed
  BY <1>1, <1>2 DEF Armed
<1>4. ASSUME NEW id \in Armed PROVE TimerOf(id)' = TimerOf(id)
  <2>1. id \in Ids /\ ref[id] \in 0..(size - 2)
    BY <1>2, <1>4, ArmedIds
  <2>2. id # heap[size - 1].id
    BY <1>1, <2>1
  <2>3. ref'[id] = ref[id]
    BY <1>1, <2>1, <2>2 DEF Erase
  <2> QED
    BY <1>1, <2>1, <2>3 DEF TimerOf, Erase, Deleting
<1> QED
  BY <1>3, <1>4, SameTimers DEF Erase

(* The call of del_ is what removes a timer: its node is out of reach.     *)
LEMMA DeleteDisarms ==
  ASSUME IInv, IInv', op = "none", NEW k \in 0..(size - 1), StartDelete(k),
         op' \in {"clock", "request"}, UNCHANGED arg
  PROVE  /\ heap[k].id \in Armed
         /\ TimerOf(heap[k].id) = [expires |-> heap[k].expires, cb |-> heap[k].cb]
         /\ ArmedTimers' = [x \in Armed \ {heap[k].id} |-> TimerOf(x)]
<1> DEFINE gone == heap[k].id
<1>1. /\ size \in Nat \ {0} /\ ref[gone] = k /\ gone \in Ids /\ Present(gone)
      /\ size - 1 \in 0..(size - 1) /\ heap[k] \in Nodes
      /\ \A x \in Ids : Present(x) => ref[x] \in 0..(size - 1) /\ heap[ref[x]].id = x
  <2>1. /\ size \in Nat \ {0} /\ gone \in Ids /\ ref[gone] = k /\ k # Absent
        /\ size - 1 \in 0..(size - 1) /\ heap[k] \in Nodes
    <3>1. size \in Nat /\ heap \in [0..(size - 1) -> Nodes]
      BY DEF IInv, TypeOK
    <3>2. size \in Nat \ {0} /\ size - 1 \in 0..(size - 1) /\ k # Absent
      BY <3>1 DEF Absent
    <3>3. heap[k] \in Nodes /\ ref[heap[k].id] = k
      BY <3>1 DEF IInv, RefConsistent
    <3>4. gone \in Ids
      BY <3>3 DEF Nodes
    <3> QED
      BY <3>2, <3>3, <3>4
  <2>2. ASSUME NEW x \in Ids, Present(x)
        PROVE  ref[x] \in 0..(size - 1) /\ heap[ref[x]].id = x
    BY <2>2, PlaceInRange DEF IInv, RefConsistent
  <2> QED
    BY <2>1, <2>2 DEF Present
<1>2. Live = 0..(size - 1) /\ Live' = 0..(size' - 2)
  BY DEF Live, Deleting
<1>3. Armed = {x \in Ids : Present(x)}
  BY <1>1, <1>2, ArmedIds
<1>4. Armed' = {x \in Ids : Present(x)' /\ ref'[x] \in Live'}
  BY ArmedIdsNext
<1>5. /\ size' = size
      /\ \A x \in Ids : Present(x)' <=> Present(x)
      /\ \A x \in Ids : Present(x) => heap'[ref'[x]] = heap[ref[x]]
      /\ \A x \in Ids : Present(x) => (ref'[x] \in 0..(size - 2) <=> x # gone)
  <2>1. CASE k < size - 1
    <3>1. SwapNode_(k, size - 1)
      BY <2>1 DEF StartDelete
    <3>2. /\ size' = size
          /\ \A x \in Ids : Present(x)' <=> Present(x)
          /\ \A x \in Ids : Present(x) => heap'[ref'[x]] = heap[ref[x]]
          /\ \A x \in Ids : ref'[x] = IF ref[x] = k THEN size - 1
                                      ELSE IF ref[x] = size - 1 THEN k ELSE ref[x]
      BY <1>1, <3>1, SwapKeepsRef DEF IInv
    <3>3. \A x \in Ids : Present(x) => (ref[x] = k <=> x = gone)
      BY <1>1
    <3>4. \A x \in Ids : Present(x) => (ref'[x] \in 0..(size - 2) <=> x # gone)
      BY <1>1, <2>1, <3>2, <3>3
    <3> QED
      BY <3>2, <3>4
  <2>2. CASE ~(k < size - 1)
    <3>1. UNCHANGED timer /\ k = size - 1
      BY <1>1, <2>2 DEF StartDelete
    <3> QED
      BY <1>1, <3>1 DEF timer, Present
  <2> QED
    BY <2>1, <2>2
<1>6. Armed' = Armed \ {gone}
  BY <1>2, <1>3, <1>4, <1>5
<1>7. \A x \in Armed : TimerOf(x)' = TimerOf(x)
  BY <1>3, <1>5 DEF TimerOf
<1>8. TimerOf(gone) = [expires |-> heap[k].expires, cb |-> heap[k].cb]
  BY <1>1 DEF TimerOf
<1> QED
  BY <1>1, <1>3, <1>6, <1>7, <1>8 DEF ArmedTimers

LEMMA DueByMs == \A d \in Int : Ms(d) <= 0 => d < TicksPerMs
BY ClockResolution DEF Ms

LEMMA CallStep ==
  ASSUME IInv, IInv', op = "none", NEW k \in 0..(size - 1), StartDelete(k),
         NEW by \in {"clock", "request"}, op' = by, UNCHANGED <<now, arg>>,
         CallBack(heap[k], by),
         by = "clock" => heap[k].expires - now < TicksPerMs
  PROVE  Abstract!Next
<1>1. /\ heap[k].id \in Armed
      /\ TimerOf(heap[k].id) = [expires |-> heap[k].expires, cb |-> heap[k].cb]
      /\ ArmedTimers' = [x \in Armed \ {heap[k].id} |-> TimerOf(x)]
  BY DeleteDisarms
<1>2. DOMAIN ArmedTimers = Armed /\ \A x \in Armed : ArmedTimers[x] = TimerOf(x)
  BY DEF ArmedTimers
<1>3. heap[k].id \in Ids
  BY DEF IInv, TypeOK, Nodes
<1>4. Abstract!Call(heap[k].id, by)
  BY <1>1, <1>2 DEF Abstract!Call, Abstract!Due, CallBack
<1> QED
  BY <1>3, <1>4 DEF Abstract!Next

LEMMA InitRefines == Init => Abstract!Init
<1> SUFFICES ASSUME Init PROVE Abstract!Init
  OBVIOUS
<1>1. Live = {} /\ Armed = {}
  BY DEF Init, Live, Armed, Deleting
<1>2. ArmedTimers = [x \in {} |-> 0]
  BY <1>1 DEF ArmedTimers
<1> QED
  BY <1>2 DEF Init, Abstract!Init, NothingCalled, Abstract!NothingCalled

(* add of an absent id is Arm: the new node is the last live one. *)
LEMMA AddNewArms ==
  ASSUME IInv, IInv', NEW id \in Ids, NEW ms \in Timeouts, NEW cb \in Callbacks,
         AddNew(id, ms, cb)
  PROVE  Abstract!Arm(id, ms, cb)
<1> DEFINE node == [id |-> id, expires |-> Deadline(ms), cb |-> cb]
<1>1. /\ size \in Nat /\ size' = size + 1 /\ op = "none" /\ op' = "add"
      /\ ref \in [Ids -> Nat \cup {Absent}] /\ ~Present(id)
      /\ \A k \in 0..(size - 1) : heap'[k] = heap[k]
      /\ heap'[size] = node
      /\ \A x \in Ids : ref'[x] = IF x = id THEN size ELSE ref[x]
  BY DEF AddNew, IInv, TypeOK, LoopInv
<1>2. Live = 0..(size - 1) /\ Live' = 0..size
  BY <1>1 DEF Live, Deleting
<1>3. /\ Armed = {x \in Ids : Present(x) /\ ref[x] \in 0..(size - 1)}
      /\ Armed' = {x \in Ids : Present(x)' /\ ref'[x] \in 0..size}
  BY <1>2, ArmedIds, ArmedIdsNext
<1>4. \A x \in Ids : Present(x) => ref[x] \in 0..(size - 1)
  BY PlaceInRange DEF IInv
<1>5. Armed' = Armed \cup {id}
  BY <1>1, <1>3, <1>4 DEF Present, Absent
<1>6. \A x \in Armed : x # id /\ TimerOf(x)' = TimerOf(x)
  BY <1>1, <1>3 DEF TimerOf
<1>7. TimerOf(id)' = [expires |-> Deadline(ms), cb |-> cb]
  BY <1>1 DEF TimerOf
<1> QED
  BY <1>5, <1>6, <1>7
  DEF AddNew, Abstract!Arm, Abstract!Put, ArmedTimers, Deadline, NothingCalled,
      Abstract!NothingCalled

(* adjust's first line moves one deadline and nothing else. *)
LEMMA SetDeadlineMoves ==
  ASSUME IInv, IInv', pc = "handle", NEW id \in Ids, NEW ms \in Timeouts,
         SetDeadline(id, ms), op' \in {"adjust", "readd"}
  PROVE  /\ id \in Armed /\ Armed' = Armed
         /\ \A x \in Armed : heap'[ref'[x]].expires
                             = IF x = id THEN Deadline(ms) ELSE heap[ref[x]].expires
         /\ \A x \in Armed : heap'[ref'[x]].cb = heap[ref[x]].cb
<1>1. /\ size' = size /\ ref' = ref /\ Present(id) /\ op = "none"
      /\ ref[id] \in 0..(size - 1) /\ heap[ref[id]].id = id
  BY PlaceInRange DEF SetDeadline, IInv, RefConsistent, LoopInv
<1>2. /\ \A k \in 0..(size - 1) : heap[k] \in Nodes
      /\ \A k \in 0..(size - 1) :
           heap'[k] = IF k = ref[id] THEN [heap[k] EXCEPT !.expires = Deadline(ms)]
                                     ELSE heap[k]
  BY <1>1 DEF SetDeadline, IInv, TypeOK
<1>3. \A k \in 0..(size - 1) :
        /\ heap'[k].id = heap[k].id /\ heap'[k].cb = heap[k].cb
        /\ heap'[k].expires = IF k = ref[id] THEN Deadline(ms) ELSE heap[k].expires
  BY <1>2 DEF Nodes
<1>4. Live = 0..(size - 1) /\ Live' = 0..(size - 1)
  BY <1>1 DEF Live, Deleting
<1>5. id \in Armed /\ Armed' = Armed
  BY <1>1, <1>3, <1>4 DEF Armed
<1>6. ASSUME NEW x \in Armed
      PROVE  ref[x] \in 0..(size - 1) /\ (ref[x] = ref[id] <=> x = id)
  BY <1>1, <1>4, ArmedIds DEF IInv, RefConsistent
<1> QED
  BY <1>1, <1>3, <1>5, <1>6

LEMMA AddPresentArms ==
  ASSUME IInv, IInv', NEW id \in Ids, NEW ms \in Timeouts, NEW cb \in Callbacks,
         AddPresent(id, ms, cb)
  PROVE  Abstract!Arm(id, ms, cb)
<1>1. /\ id \in Armed /\ Armed' = Armed /\ op = "none" /\ op' = "readd"
      /\ \A x \in Armed : heap'[ref'[x]].expires
                          = IF x = id THEN Deadline(ms) ELSE heap[ref[x]].expires
      /\ \A x \in Armed : heap'[ref'[x]].cb = heap[ref[x]].cb
  BY SetDeadlineMoves DEF AddPresent, IInv, LoopInv
<1>2. arg' = [id |-> id, cb |-> cb]
  BY DEF AddPresent
<1>3. \A x \in Armed : TimerOf(x)' = IF x = id THEN [expires |-> Deadline(ms), cb |-> cb]
                                               ELSE TimerOf(x)
  BY <1>1, <1>2 DEF TimerOf
<1> QED
  BY <1>1, <1>3
  DEF AddPresent, Abstract!Arm, Abstract!Put, ArmedTimers, Deadline, NothingCalled,
      Abstract!NothingCalled

LEMMA AdjustExtends ==
  ASSUME IInv, IInv', NEW id \in Ids, NEW ms \in Timeouts, Adjust(id, ms)
  PROVE  Abstract!Extend(id, ms)
<1>1. /\ id \in Armed /\ Armed' = Armed /\ op = "none" /\ op' = "adjust"
      /\ \A x \in Armed : heap'[ref'[x]].expires
                          = IF x = id THEN Deadline(ms) ELSE heap[ref[x]].expires
      /\ \A x \in Armed : heap'[ref'[x]].cb = heap[ref[x]].cb
  BY SetDeadlineMoves DEF Adjust, IInv, LoopInv
<1>2. \A x \in Armed : TimerOf(x)' = [expires |-> IF x = id THEN Deadline(ms)
                                                            ELSE TimerOf(x).expires,
                                      cb |-> TimerOf(x).cb]
  BY <1>1 DEF TimerOf
<1>3. /\ ArmedTimers' = [x \in Armed |-> TimerOf(x)']
      /\ ArmedTimers = [x \in Armed |-> TimerOf(x)]
  BY <1>1 DEF ArmedTimers
<1>4. TimerOf(id) = [expires |-> TimerOf(id).expires, cb |-> TimerOf(id).cb]
  BY DEF TimerOf
<1>5. ASSUME NEW x \in Armed, x # id PROVE TimerOf(x)' = TimerOf(x)
  BY <1>1, <1>5 DEF TimerOf
<1>6. TimerOf(id)' = [TimerOf(id) EXCEPT !.expires = Deadline(ms)]
  BY <1>1, <1>2, <1>4 DEF TimerOf
<1>7. ArmedTimers' = [ArmedTimers EXCEPT ![id].expires = Deadline(ms)]
  BY <1>1, <1>3, <1>5, <1>6
<1> QED
  BY <1>1, <1>3, <1>7
  DEF Adjust, Abstract!Extend, Deadline, NothingCalled, Abstract!NothingCalled

LEMMA NextRefines ==
  IInv /\ IInv' /\ [Next]_vars => [Abstract!Next]_(Abstract!vars)
<1> SUFFICES ASSUME IInv, IInv', [Next]_vars
             PROVE  Abstract!Next \/ UNCHANGED Abstract!vars
  OBVIOUS
<1> USE DEF Abstract!vars
<1>1. CASE Sift \/ SetCb \/ Erase
  BY <1>1, SiftStutters, SetCbStutters, EraseStutters
<1>2. CASE TickPop
  <2>1. 0 \in 0..(size - 1) /\ op = "none" /\ heap[0].expires - now \in Int
    BY <1>2 DEF TickPop, IInv, TypeOK, LoopInv, Nodes
  <2>2. heap[0].expires - now < TicksPerMs
    BY <1>2, <2>1, DueByMs DEF TickPop, RootIsDue
  <2> QED
    BY <1>2, <2>1, <2>2, CallStep DEF TickPop
<1>3. CASE GetNextTick \/ TickEnds \/ Wait \/ WaitReturns \/ UNCHANGED vars
  <2>1. UNCHANGED <<timer, op, arg, now, called>>
    BY <1>3 DEF GetNextTick, TickEnds, Wait, WaitReturns, vars
  <2>2. Armed' = Armed
    BY <2>1 DEF Armed, Live, Deleting, timer
  <2>3. \A id \in Armed : TimerOf(id)' = TimerOf(id)
    BY <2>1 DEF TimerOf, timer
  <2> QED
    BY <2>1, <2>2, <2>3, SameTimers
<1>4. CASE Handle
  <2>1. ASSUME NEW id \in Ids, DoWork(id) PROVE Abstract!Next
    <3>1. ref[id] \in 0..(size - 1) /\ op = "none"
      BY <2>1, PlaceInRange DEF DoWork, IInv, LoopInv
    <3> QED
      BY <2>1, <3>1, CallStep DEF DoWork
  <2> QED
    BY <1>4, <2>1, AddNewArms, AddPresentArms, AdjustExtends
    DEF Handle, Abstract!Next
<1>5. CASE Clear
  <2>1. size' = 0 /\ UNCHANGED op /\ op = "none"
    BY <1>5 DEF Clear, IInv, LoopInv
  <2>2. Armed' = {}
    BY <2>1 DEF Armed, Live, Deleting
  <2>3. ArmedTimers' = [x \in {} |-> 0]
    BY <2>2 DEF ArmedTimers
  <2> QED
    BY <1>5, <2>3
    DEF Clear, Abstract!Next, Abstract!ClearAll, NothingCalled, Abstract!NothingCalled
<1>6. CASE Advance
  <2>1. UNCHANGED <<timer, op, arg>>
    BY <1>6 DEF Advance
  <2>2. Armed' = Armed
    BY <2>1 DEF Armed, Live, Deleting, timer
  <2>3. \A id \in Armed : TimerOf(id)' = TimerOf(id)
    BY <2>1 DEF TimerOf, timer
  <2>4. ArmedTimers' = ArmedTimers
    BY <2>2, <2>3, SameTimers
  <2> QED
    BY <1>6, <2>4
    DEF Advance, Abstract!Next, Abstract!Advance, NothingCalled, Abstract!NothingCalled
<1> QED
  BY <1>1, <1>2, <1>3, <1>4, <1>5, <1>6 DEF Next, Run

(* The heap keeps what TimerMap promises: whatever it does with its nodes, *)
(* no timer is lost, doubled or altered, none is called by the clock while *)
(* a millisecond of its time is left, and each is called with the callback *)
(* it was last armed with.                                                 *)
THEOREM Refinement == SafeSpec => ImplementsTimerMap
<1>1. IInv /\ [Next]_vars => IInv'
  BY NextInv
<1> QED
  BY InitInv, InitRefines, <1>1, NextRefines, PTL
  DEF SafeSpec, ImplementsTimerMap, Abstract!Spec
=============================================================================
