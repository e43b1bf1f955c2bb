-------------------------- MODULE SqlConnPoolProofs ---------------------------
(***************************************************************************)
(* Proofs about SqlConnPool, for any number of workers and connections:    *)
(* connections are conserved, the semaphore agrees with the queue, and     *)
(* when as many connections as workers are enough, whichever end of the    *)
(* deque empty() loads first.                                              *)
(***************************************************************************)
EXTENDS SqlConnPool, SequenceTheorems, FiniteSetTheorems, TLAPS

Holding == {w \in Workers : sql[w] # 0}
Positions == 1..Len(connQue_)
Suffices == Cardinality(Workers) <= MAX_CONN_

(* ConnsConserved counts; this says the same of positions and holders.     *)
Partition ==
  /\ \A j, k \in Positions : connQue_[j] = connQue_[k] => j = k
  /\ \A k \in Positions, w \in Workers : connQue_[k] # sql[w]
  /\ \A v, w \in Workers : sql[v] = sql[w] /\ v # w => sql[v] = 0
  /\ \A c \in 1..MAX_CONN_ :
       (\E k \in Positions : connQue_[k] = c) \/ (\E w \in Workers : sql[w] = c)

(* A worker that is between the loads of empty() has loaded a front that   *)
(* the end has passed, which no push or pop can undo, or an end that the   *)
(* front has not reached, which only a pop can undo.                       *)
LoadedBehind ==
  Suffices => \A w \in Workers : pc[w] = "look2" =>
                IF startFirst THEN seen[w] < Last ELSE w \in torn \/ first < seen[w]

(* Why the process ended, if an assert(sql) ended it.                      *)
Explained ==
  Suffices /\ aborted \in {"busy", "null"} =>
    failed # {} \/ \E w \in torn : SeemsEmpty(w)

IInv ==
  /\ TypeOK
  /\ \A w \in Workers : sql[w] # 0 <=> pc[w] \in {"query", "insert", "free"}
  /\ \A w \in Workers : pc[w] = "insert" => req[w] # Login
  /\ Partition
  /\ Len(connQue_) + Cardinality(Holding) = MAX_CONN_
  /\ SemCountsFree
  /\ LoadedBehind
  /\ Explained

-----------------------------------------------------------------------------
(* Cardinalities that move with one worker. *)
LEMMA SetsFinite ==
  /\ Cardinality(Workers) \in Nat
  /\ \A S \in SUBSET Workers :
       IsFiniteSet(S) /\ Cardinality(S) \in Nat /\ Cardinality(S) <= Cardinality(Workers)
BY FiniteWorkers, FS_Subset, FS_CardinalityType

LEMMA OneMore ==
  ASSUME NEW S, S \subseteq Workers, NEW w \in Workers, w \notin S
  PROVE  Cardinality(S \cup {w}) = Cardinality(S) + 1
<1>1. IsFiniteSet(S)
  BY SetsFinite
<1> QED
  BY <1>1, FS_AddElement

LEMMA OneLess ==
  ASSUME NEW S, S \subseteq Workers, NEW w \in S
  PROVE  Cardinality(S \ {w}) = Cardinality(S) - 1
<1>1. IsFiniteSet(S)
  BY SetsFinite
<1> QED
  BY <1>1, FS_RemoveElement

(* While a worker is on its way to a connection, the others cannot have    *)
(* them all.                                                               *)
LEMMA RoomForOne ==
  ASSUME IInv, Suffices, NEW w \in Workers, pc[w] \in {"look", "look2", "sem"}
  PROVE  semId_ > 0 /\ Len(connQue_) > 0
<1>1. Holding \cap At("pop") = {}
  BY DEF IInv, Holding, At
<1>2. Holding \subseteq Workers /\ At("pop") \subseteq Workers
  BY DEF Holding, At
<1>3. w \notin Holding \cup At("pop")
  BY DEF IInv, Holding, At
<1>4. IsFiniteSet(Holding) /\ IsFiniteSet(At("pop"))
  BY <1>2, SetsFinite
<1>5. Cardinality(Holding \cup At("pop"))
        = Cardinality(Holding) + Cardinality(At("pop")) - Cardinality(Holding \cap At("pop"))
  BY <1>4, FS_Union
<1>6. Cardinality(Holding \cap At("pop")) = 0
  BY <1>1, FS_EmptySet
<1>7. Cardinality((Holding \cup At("pop")) \cup {w}) = Cardinality(Holding \cup At("pop")) + 1
  BY <1>2, <1>3, OneMore
<1>8. Cardinality((Holding \cup At("pop")) \cup {w}) <= Cardinality(Workers)
  BY <1>2, SetsFinite
<1>9. /\ Cardinality(Holding) \in Nat /\ Cardinality(At("pop")) \in Nat
      /\ Cardinality(Workers) \in Nat
      /\ Len(connQue_) \in Nat /\ semId_ \in Nat /\ MAX_CONN_ \in Nat
  BY <1>2, SetsFinite DEF IInv, TypeOK
<1> QED
  BY <1>5, <1>6, <1>7, <1>8, <1>9 DEF IInv, SemCountsFree, Suffices

-----------------------------------------------------------------------------
LEMMA InvInit == Init => IInv
<1> SUFFICES ASSUME Init PROVE IInv
  OBVIOUS
<1>0. MAX_CONN_ \in Nat \ {0} /\ MAX_CONN_ \in 1..MaxConns
  BY SizesArePositive DEF Init
<1>1. connQue_ \in Seq(1..MAX_CONN_) /\ Len(connQue_) = MAX_CONN_
  BY <1>0 DEF Init
<1>2. TypeOK
  <2>1. Login \in Requests
    BY DEF Requests
  <2>2. 0 \in 0..MaxCalls /\ 0 \in 0..MAX_CONN_ /\ MAX_CONN_ \in 0..MAX_CONN_
    BY <1>0, SizesArePositive
  <2> QED
    BY <1>0, <1>1, <2>1, <2>2 DEF Init, TypeOK, Places
<1>3. \A w \in Workers : /\ sql[w] # 0 <=> pc[w] \in {"query", "insert", "free"}
                         /\ pc[w] = "insert" => req[w] # Login
  BY DEF Init
<1>4. Partition
  BY <1>0, <1>1 DEF Init, Partition, Positions
<1>5. Holding = {} /\ At("pop") = {}
  BY DEF Init, Holding, At
<1>6. Len(connQue_) + Cardinality(Holding) = MAX_CONN_ /\ SemCountsFree
  <2>1. Cardinality(Holding) = 0 /\ Cardinality(At("pop")) = 0
    BY <1>5, FS_EmptySet
  <2>2. semId_ = MAX_CONN_
    BY DEF Init
  <2> QED
    BY <1>0, <1>1, <2>1, <2>2 DEF SemCountsFree
<1>7. LoadedBehind /\ Explained
  BY DEF Init, LoadedBehind, Explained
<1> QED
  BY <1>2, <1>3, <1>4, <1>6, <1>7 DEF IInv

(* A step that touches neither the queue nor the holders, only one         *)
(* worker's place, away from "pop".                                        *)
LEMMA Untouched ==
  ASSUME IInv, NEW w \in Workers, TypeOK', Explained', UNCHANGED pool, UNCHANGED sql,
         NEW to \in Places, pc' = [pc EXCEPT ![w] = to],
         \A v \in Workers : pc'[v] = "insert" => req'[v] # Login,
         pc[w] # "pop", to # "pop",
         pc[w] \in {"query", "insert", "free"} <=> to \in {"query", "insert", "free"},
         LoadedBehind'
  PROVE  IInv'
<1>1. \A v \in Workers : (sql[v] # 0)' <=> pc'[v] \in {"query", "insert", "free"}
  BY DEF IInv, TypeOK
<1>2. Partition'
  BY DEF IInv, Partition, Positions, pool
<1>3. Holding' = Holding /\ At("pop")' = At("pop")
  BY DEF Holding, At, IInv, TypeOK
<1>4. (Len(connQue_) + Cardinality(Holding) = MAX_CONN_)' /\ SemCountsFree'
  BY <1>3 DEF IInv, SemCountsFree, pool
<1> QED
  BY <1>1, <1>2, <1>4 DEF IInv

(* A step that only ends the process.                                      *)
LEMMA Ending ==
  ASSUME IInv, TypeOK', Explained', NEW w \in Workers, Busy(w) \/ StoreFails(w)
  PROVE  IInv'
<1>1. UNCHANGED <<pool, pc, sql, seen, req, torn>>
  BY DEF Busy, StoreFails
<1>2. UNCHANGED <<Partition, Holding, At("pop"), LoadedBehind>>
  BY <1>1 DEF Partition, Positions, Holding, At, LoadedBehind, Suffices, Last, pool
<1> QED
  BY <1>1, <1>2 DEF IInv, SemCountsFree, pool

(* The same, when the step keeps the places and loads of those at "look2". *)
LEMMA StillBehind ==
  ASSUME IInv, TypeOK', UNCHANGED <<MAX_CONN_, startFirst>>,
         Last' >= Last,
         \A v \in Workers : pc'[v] = "look2" =>
           /\ pc[v] = "look2" /\ seen'[v] = seen[v]
           /\ v \in torn => v \in torn'
           /\ UNCHANGED first \/ v \in torn'
  PROVE  LoadedBehind'
<1>1. Last \in Nat /\ first \in Nat /\ \A v \in Workers : seen[v] \in Nat
  BY DEF IInv, TypeOK, Last
<1>2. Last' \in Nat
  BY DEF TypeOK, Last
<1> QED
  BY <1>1, <1>2 DEF IInv, LoadedBehind, Suffices

-----------------------------------------------------------------------------
LEMMA Counts ==
  ASSUME TypeOK
  PROVE  /\ Len(connQue_) \in Nat /\ Cardinality(Holding) \in Nat
         /\ Cardinality(At("pop")) \in Nat /\ semId_ \in Nat /\ MAX_CONN_ \in Nat
<1>1. Holding \subseteq Workers /\ At("pop") \subseteq Workers
  BY DEF Holding, At
<1>2. Cardinality(Holding) \in Nat /\ Cardinality(At("pop")) \in Nat
  BY <1>1, SetsFinite
<1>3. Len(connQue_) \in Nat /\ semId_ \in Nat /\ MAX_CONN_ \in Nat
  BY DEF TypeOK
<1> QED
  BY <1>2, <1>3

LEMMA TypeStep == IInv /\ [Next]_vars => TypeOK'
<1> SUFFICES ASSUME IInv, [Next]_vars PROVE TypeOK'
  OBVIOUS
<1>t. TypeOK
  BY DEF IInv
<1> USE DEF Places
<1>0. Login \in Requests
  BY DEF Requests
<1>c. /\ Len(connQue_) \in Nat /\ Cardinality(Holding) \in Nat
      /\ Cardinality(At("pop")) \in Nat /\ semId_ \in Nat /\ MAX_CONN_ \in Nat
  BY <1>t, Counts
<1>1. ASSUME NEW w \in Workers, Call(w) PROVE TypeOK'
  BY <1>1, <1>t, SizesArePositive DEF Call, TypeOK, pool
<1>2. ASSUME NEW w \in Workers, Load(w) PROVE TypeOK'
  BY <1>2, <1>t DEF Load, TypeOK, pool, history, Last
<1>3. ASSUME NEW w \in Workers, Busy(w) \/ Compare(w) \/ StoreFails(w) PROVE TypeOK'
  <2>1. CASE Compare(w)
    BY <2>1, <1>t DEF Compare, TypeOK, pool, history
  <2>2. CASE Busy(w)
    BY <2>2, <1>t DEF Busy, Ends, TypeOK, pool, history
  <2>3. CASE StoreFails(w)
    BY <2>3, <1>t DEF StoreFails, Ends, TypeOK, pool, history
  <2> QED
    BY <1>3, <2>1, <2>2, <2>3
<1>4. ASSUME NEW w \in Workers, SemWait(w) PROVE TypeOK'
  BY <1>4, <1>t DEF SemWait, TypeOK, history
<1>5. ASSUME NEW w \in Workers, PopConn(w) PROVE TypeOK'
  <2>1. w \in At("pop")
    BY <1>5 DEF PopConn, At
  <2>2. Cardinality(At("pop")) # 0
    BY <2>1, SetsFinite, FS_EmptySet DEF At
  <2>3. connQue_ # <<>>
    BY <2>2, <1>c, <1>t DEF IInv, SemCountsFree, TypeOK
  <2>4. Head(connQue_) \in 1..MAX_CONN_ /\ Tail(connQue_) \in Seq(1..MAX_CONN_)
    BY <2>3, <1>t DEF TypeOK
  <2> QED
    BY <1>5, <1>t, <2>4 DEF PopConn, Remaining, At, Ends, TypeOK, history
<1>6. ASSUME NEW w \in Workers, QueryFails(w) PROVE TypeOK'
  BY <1>6, <1>t DEF QueryFails, TypeOK, pool, history
<1>7. ASSUME NEW w \in Workers, Select(w) PROVE TypeOK'
  BY <1>7, <1>t DEF Select, AfterSelect, TypeOK, pool, history
<1>8. ASSUME NEW w \in Workers, Insert(w) PROVE TypeOK'
  <2>1. req[w] \in Names \X Passwords
    BY <1>8, <1>t DEF Insert, IInv, TypeOK, Requests
  <2> QED
    BY <1>8, <1>t, <2>1 DEF Insert, TypeOK, pool
<1>9. ASSUME NEW w \in Workers, FreeConn(w) PROVE TypeOK'
  <2>1. w \in Holding /\ sql[w] \in 1..MAX_CONN_
    BY <1>9, <1>t DEF FreeConn, Holding, IInv, TypeOK
  <2>2. Cardinality(Holding) # 0
    BY <2>1, SetsFinite, FS_EmptySet DEF Holding
  <2>3. semId_ + 1 \in 0..MAX_CONN_
    BY <2>2, <1>c DEF IInv, SemCountsFree
  <2> QED
    BY <1>9, <1>t, <1>0, <2>1, <2>3 DEF FreeConn, Posted, TypeOK, history
<1>10. CASE UNCHANGED vars
  BY <1>10, <1>t DEF vars, pool, history, TypeOK
<1> QED
  BY <1>1, <1>2, <1>3, <1>4, <1>5, <1>6, <1>7, <1>8, <1>9, <1>10 DEF Next, UserVerify

-----------------------------------------------------------------------------
(* One step of each action, for what IInv says besides TypeOK.             *)
LEMMA PopStep ==
  ASSUME IInv, TypeOK', Explained', NEW w \in Workers, PopConn(w) PROVE IInv'
<1>t. TypeOK
  BY DEF IInv
<1>1. w \in At("pop") /\ At("pop") \subseteq Workers
  BY DEF PopConn, At
<1>2. Cardinality(At("pop")) # 0
  BY <1>1, SetsFinite, FS_EmptySet
<1>c. /\ Len(connQue_) \in Nat /\ Cardinality(Holding) \in Nat
      /\ Cardinality(At("pop")) \in Nat /\ semId_ \in Nat /\ MAX_CONN_ \in Nat
  BY <1>t, Counts
<1>3. connQue_ # <<>>
  BY SMTT(40), <1>2, <1>c, <1>t DEF IInv, SemCountsFree, TypeOK
<1>4. /\ Len(connQue_') = Len(connQue_) - 1
      /\ \A k \in 1..Len(connQue_') : connQue_'[k] = connQue_[k + 1]
      /\ Head(connQue_) = connQue_[1] /\ connQue_[1] \in 1..MAX_CONN_
      /\ Len(connQue_) >= 1
  BY <1>3, <1>t DEF PopConn, Remaining, TypeOK
<1>5. /\ sql[w] = 0 /\ sql' = [sql EXCEPT ![w] = connQue_[1]]
      /\ sql \in [Workers -> 0..MAX_CONN_]
  BY <1>4, <1>t DEF PopConn, IInv, TypeOK
<1>6. \A v \in Workers : /\ sql'[v] # 0 <=> pc'[v] \in {"query", "insert", "free"}
                         /\ pc'[v] = "insert" => req'[v] # Login
  BY <1>4, <1>5, <1>t DEF PopConn, IInv, TypeOK
<1>7. Partition'
  <2>1. \A j, k \in 1..Len(connQue_') : connQue_'[j] = connQue_'[k] => j = k
    <3> SUFFICES ASSUME NEW j \in 1..Len(connQue_'), NEW k \in 1..Len(connQue_'),
                        connQue_'[j] = connQue_'[k]
                 PROVE  j = k
      OBVIOUS
    <3>1. j + 1 \in Positions /\ k + 1 \in Positions
      BY <1>4, <1>c DEF Positions
    <3>2. connQue_[j + 1] = connQue_[k + 1]
      BY <1>4
    <3>3. j + 1 = k + 1
      BY <3>1, <3>2 DEF IInv, Partition
    <3> QED
      BY <3>3
  <2>2. \A k \in 1..Len(connQue_'), v \in Workers : connQue_'[k] # sql'[v]
    <3> SUFFICES ASSUME NEW k \in 1..Len(connQue_'), NEW v \in Workers
                 PROVE  connQue_'[k] # sql'[v]
      OBVIOUS
    <3>1. k + 1 \in Positions /\ 1 \in Positions /\ k + 1 # 1
      BY <1>4, <1>c DEF Positions
    <3>2. connQue_'[k] = connQue_[k + 1]
      BY <1>4
    <3>3. connQue_[k + 1] # connQue_[1]
      BY <3>1 DEF IInv, Partition
    <3>4. connQue_[k + 1] # sql[v]
      BY <3>1 DEF IInv, Partition
    <3> QED
      BY <1>5, <3>2, <3>3, <3>4
  <2>3. \A u, v \in Workers : sql'[u] = sql'[v] /\ u # v => sql'[u] = 0
    <3>1. \A v \in Workers : connQue_[1] # sql[v]
      BY <1>4, <1>c DEF IInv, Partition, Positions
    <3> QED
      BY <1>5, <3>1 DEF IInv, Partition
  <2>4. ASSUME NEW c \in 1..MAX_CONN_
        PROVE  \/ \E k \in 1..Len(connQue_') : connQue_'[k] = c
               \/ \E v \in Workers : sql'[v] = c
    <3>1. CASE \E v \in Workers : sql[v] = c
      BY <3>1, <1>5
    <3>2. CASE c = connQue_[1]
      BY <3>2, <1>5
    <3>3. ASSUME NEW k \in Positions, connQue_[k] = c, k # 1
          PROVE  \E j \in 1..Len(connQue_') : connQue_'[j] = c
      <4>1. k - 1 \in 1..Len(connQue_') /\ (k - 1) + 1 = k
        BY <3>3, <1>4, <1>c DEF Positions
      <4>2. connQue_'[k - 1] = connQue_[(k - 1) + 1]
        BY <4>1, <1>4
      <4> QED
        BY <4>1, <4>2, <3>3
    <3> QED
      BY <3>1, <3>2, <3>3 DEF IInv, Partition
  <2>5. MAX_CONN_' = MAX_CONN_
    BY DEF PopConn
  <2> QED
    BY <2>1, <2>2, <2>3, <2>4, <2>5 DEF Partition, Positions
<1>8. Cardinality(Holding') = Cardinality(Holding) + 1
  <2>1. Holding' = Holding \cup {w} /\ w \notin Holding /\ Holding \subseteq Workers
    BY <1>4, <1>5 DEF Holding
  <2> QED
    BY <2>1, OneMore
<1>9. Cardinality(At("pop")') = Cardinality(At("pop")) - 1
  <2>1. At("pop")' = At("pop") \ {w}
    BY <1>t DEF PopConn, At, TypeOK
  <2> QED
    BY <2>1, <1>1, OneLess
<1>10. (Len(connQue_) + Cardinality(Holding) = MAX_CONN_)' /\ SemCountsFree'
  <2>1. semId_' = semId_ /\ MAX_CONN_' = MAX_CONN_
    BY DEF PopConn
  <2>2. /\ Len(connQue_) + Cardinality(Holding) = MAX_CONN_
        /\ semId_ + Cardinality(At("pop")) = Len(connQue_)
    BY DEF IInv, SemCountsFree
  <2>3. semId_' + Cardinality(At("pop")') = Len(connQue_')
    BY <2>1, <2>2, <1>4, <1>9, <1>c
  <2>4. Len(connQue_') + Cardinality(Holding') = MAX_CONN_'
    BY <2>1, <2>2, <1>4, <1>8, <1>c
  <2> QED
    BY <2>3, <2>4 DEF SemCountsFree
<1>11. LoadedBehind'
  <2>1. Last' = Last
    BY <1>4, <1>c, <1>t DEF PopConn, Last, TypeOK
  <2>2. UNCHANGED <<MAX_CONN_, startFirst, seen>>
    BY DEF PopConn
  <2>3. \A v \in Workers : pc'[v] = "look2" => pc[v] = "look2" /\ v \in torn'
    BY <1>t DEF PopConn, At, TypeOK
  <2>4. Last \in Nat
    BY <1>t DEF Last, TypeOK
  <2> QED
    BY <2>1, <2>2, <2>3, <2>4, StillBehind
<1> QED
  BY <1>6, <1>7, <1>10, <1>11 DEF IInv

LEMMA FreeStep ==
  ASSUME IInv, TypeOK', Explained', NEW w \in Workers, FreeConn(w) PROVE IInv'
<1>t. TypeOK
  BY DEF IInv
<1>c. /\ Len(connQue_) \in Nat /\ Cardinality(Holding) \in Nat
      /\ Cardinality(At("pop")) \in Nat /\ semId_ \in Nat /\ MAX_CONN_ \in Nat
  BY <1>t, Counts
<1>1. sql \in [Workers -> 0..MAX_CONN_] /\ sql[w] \in 1..MAX_CONN_
  BY <1>t DEF FreeConn, IInv, TypeOK
<1>2. /\ Len(connQue_') = Len(connQue_) + 1
      /\ connQue_'[Len(connQue_) + 1] = sql[w]
      /\ \A k \in Positions : connQue_'[k] = connQue_[k]
  BY <1>1, <1>t DEF FreeConn, TypeOK, Positions
<1>3. \A k \in 1..Len(connQue_') : k \in Positions \/ k = Len(connQue_) + 1
  BY <1>2, <1>c DEF Positions
<1>4. sql' = [sql EXCEPT ![w] = 0] /\ MAX_CONN_' = MAX_CONN_
  BY DEF FreeConn
<1>6. \A v \in Workers : /\ sql'[v] # 0 <=> pc'[v] \in {"query", "insert", "free"}
                         /\ pc'[v] = "insert" => req'[v] # Login
  BY <1>1, <1>t DEF FreeConn, IInv, TypeOK
<1>7. Partition'
  <2>1. \A j, k \in 1..Len(connQue_') : connQue_'[j] = connQue_'[k] => j = k
    BY <1>2, <1>3 DEF IInv, Partition
  <2>2. \A k \in 1..Len(connQue_'), v \in Workers : connQue_'[k] # sql'[v]
    <3> SUFFICES ASSUME NEW k \in 1..Len(connQue_'), NEW v \in Workers
                 PROVE  connQue_'[k] # sql'[v]
      OBVIOUS
    <3>1. connQue_'[k] \in 1..MAX_CONN_
      <4>1. \A j \in Positions : connQue_[j] \in 1..MAX_CONN_
        <5>1. connQue_ \in Seq(1..MAX_CONN_)
          BY <1>t DEF TypeOK
        <5> QED
          BY <5>1, ElementOfSeq DEF Positions
      <4> QED
        BY <4>1, <1>1, <1>2, <1>3
    <3>2. CASE v = w
      BY <3>1, <3>2, <1>1, <1>4
    <3>3. CASE v # w
      <4>1. sql'[v] = sql[v]
        BY <3>3, <1>1, <1>4
      <4>2. sql[v] # sql[w]
        BY <3>3, <1>1 DEF IInv, Partition
      <4> QED
        BY <4>1, <4>2, <1>2, <1>3 DEF IInv, Partition
    <3> QED
      BY <3>2, <3>3
  <2>3. \A u, v \in Workers : sql'[u] = sql'[v] /\ u # v => sql'[u] = 0
    BY <1>1, <1>4 DEF IInv, Partition
  <2>4. ASSUME NEW c \in 1..MAX_CONN_
        PROVE  \/ \E k \in 1..Len(connQue_') : connQue_'[k] = c
               \/ \E v \in Workers : sql'[v] = c
    <3>0. Len(connQue_) + 1 \in 1..Len(connQue_') /\ Positions \subseteq 1..Len(connQue_')
      BY <1>2, <1>c DEF Positions
    <3>1. CASE c = sql[w]
      BY <3>0, <3>1, <1>2
    <3>2. ASSUME NEW v \in Workers, sql[v] = c, c # sql[w]
          PROVE  \E u \in Workers : sql'[u] = c
      BY <3>2, <1>1, <1>4
    <3>3. ASSUME NEW k \in Positions, connQue_[k] = c
          PROVE  \E j \in 1..Len(connQue_') : connQue_'[j] = c
      BY <3>0, <3>3, <1>2
    <3> QED
      BY <3>1, <3>2, <3>3 DEF IInv, Partition
  <2> QED
    BY <2>1, <2>2, <2>3, <2>4, <1>4 DEF Partition, Positions
<1>8. Cardinality(Holding') = Cardinality(Holding) - 1
  <2>1. Holding' = Holding \ {w} /\ w \in Holding /\ Holding \subseteq Workers
    BY <1>1, <1>4 DEF Holding
  <2> QED
    BY <2>1, OneLess
<1>9. At("pop")' = At("pop")
  BY <1>t DEF FreeConn, At, TypeOK
<1>10. (Len(connQue_) + Cardinality(Holding) = MAX_CONN_)' /\ SemCountsFree'
  <2>1. semId_' = semId_ + 1
    BY DEF FreeConn, Posted
  <2>2. /\ Len(connQue_) + Cardinality(Holding) = MAX_CONN_
        /\ semId_ + Cardinality(At("pop")) = Len(connQue_)
    BY DEF IInv, SemCountsFree
  <2>3. semId_' + Cardinality(At("pop")') = Len(connQue_')
    BY <2>1, <2>2, <1>2, <1>9, <1>c
  <2>4. Len(connQue_') + Cardinality(Holding') = MAX_CONN_'
    BY <2>2, <1>2, <1>4, <1>8, <1>c
  <2> QED
    BY <2>3, <2>4 DEF SemCountsFree
<1>11. LoadedBehind'
  <2>1. Last' >= Last
    BY <1>2, <1>c, <1>t DEF FreeConn, Last, TypeOK
  <2>2. UNCHANGED <<MAX_CONN_, startFirst, first, seen, torn>>
    BY DEF FreeConn
  <2>3. \A v \in Workers : pc'[v] = "look2" => pc[v] = "look2"
    BY <1>t DEF FreeConn, TypeOK
  <2> QED
    BY <2>1, <2>2, <2>3, StillBehind
<1> QED
  BY <1>6, <1>7, <1>10, <1>11 DEF IInv

LEMMA SemWaitStep ==
  ASSUME IInv, TypeOK', Explained', NEW w \in Workers, SemWait(w) PROVE IInv'
<1>t. TypeOK
  BY DEF IInv
<1>1. UNCHANGED <<MAX_CONN_, connQue_, first, startFirst, sql, seen, torn, req>>
  BY DEF SemWait
<1>2. \A v \in Workers : /\ sql'[v] # 0 <=> pc'[v] \in {"query", "insert", "free"}
                         /\ pc'[v] = "insert" => req'[v] # Login
  BY <1>t DEF SemWait, IInv, TypeOK
<1>3. Partition' /\ Holding' = Holding
  BY <1>1 DEF IInv, Partition, Positions, Holding
<1>4. At("pop")' = At("pop") \cup {w} /\ w \notin At("pop") /\ At("pop") \subseteq Workers
  BY <1>t DEF SemWait, At, TypeOK
<1>5. Cardinality(At("pop")') = Cardinality(At("pop")) + 1
  BY <1>4, OneMore
<1>6. semId_' = semId_ - 1 /\ semId_ \in Nat /\ Cardinality(At("pop")) \in Nat
  BY <1>t, <1>4, SetsFinite DEF SemWait, TypeOK
<1>7. SemCountsFree'
  BY <1>1, <1>5, <1>6 DEF IInv, SemCountsFree
<1>8. LoadedBehind'
  <2>1. Last' = Last /\ Last \in Nat
    BY <1>1, <1>t DEF Last, TypeOK
  <2>2. \A v \in Workers : pc'[v] = "look2" => pc[v] = "look2"
    BY <1>t DEF SemWait, TypeOK
  <2> QED
    BY <1>1, <2>1, <2>2, StillBehind
<1> QED
  BY <1>1, <1>2, <1>3, <1>7, <1>8 DEF IInv

(* A queue that is not empty when one end is loaded seems empty only when  *)
(* the end was loaded and somebody popped since.                           *)
LEMMA LookSteps ==
  ASSUME IInv, TypeOK', Explained', NEW w \in Workers, Load(w) \/ Busy(w) \/ Compare(w)
  PROVE  IInv'
<1>t. TypeOK
  BY DEF IInv
<1>1. UNCHANGED pool /\ UNCHANGED sql /\ UNCHANGED req
  BY DEF Load, Busy, Compare
<1>l. Last' = Last /\ Last \in Nat /\ first \in Nat /\ Len(connQue_) \in Nat
  BY <1>1, <1>t DEF Last, pool, TypeOK
<1>2. CASE Load(w)
  <2>1. LoadedBehind'
    <3> SUFFICES ASSUME Suffices' PROVE LoadedBehind'
      BY DEF LoadedBehind
    <3>1. Suffices
      BY <1>1 DEF Suffices, pool
    <3>2. Len(connQue_) > 0
      BY <1>2, <3>1, RoomForOne DEF Load
    <3>3. first < Last /\ UNCHANGED <<first, startFirst>>
      BY <3>2, <1>1, <1>l DEF Last, pool
    <3>4. /\ seen' = [seen EXCEPT ![w] = IF startFirst THEN first ELSE Last]
          /\ torn' = torn \ {w} /\ pc' = [pc EXCEPT ![w] = "look2"]
      BY <1>2 DEF Load
    <3>5. ASSUME NEW v \in Workers, pc'[v] = "look2"
          PROVE  IF startFirst THEN seen'[v] < Last ELSE v \in torn' \/ first < seen'[v]
      <4>1. CASE v = w
        BY <4>1, <1>t, <3>3, <3>4 DEF TypeOK
      <4>2. CASE v # w
        BY <4>2, <1>t, <3>1, <3>4, <3>5 DEF IInv, LoadedBehind, TypeOK
      <4> QED
        BY <4>1, <4>2
    <3> QED
      BY <3>3, <3>5, <1>l DEF LoadedBehind
  <2>2. \A v \in Workers : pc'[v] = "insert" => req'[v] # Login
    BY <1>2, <1>t, <1>1 DEF Load, IInv, TypeOK
  <2> QED
    BY <1>2, <1>1, <2>1, <2>2, Untouched DEF Load, Places
<1>3. CASE Compare(w)
  <2>1. \A v \in Workers : pc'[v] = "look2" =>
          pc[v] = "look2" /\ seen'[v] = seen[v] /\ (v \in torn => v \in torn')
    BY <1>3, <1>t DEF Compare, TypeOK
  <2>2. UNCHANGED <<MAX_CONN_, startFirst, first>>
    BY <1>1 DEF pool
  <2>3. LoadedBehind'
    BY <1>l, <2>1, <2>2, StillBehind
  <2>4. \A v \in Workers : pc'[v] = "insert" => req'[v] # Login
    BY <1>3, <1>t, <1>1 DEF Compare, IInv, TypeOK
  <2> QED
    BY <1>3, <1>1, <2>3, <2>4, Untouched DEF Compare, Places
<1>4. CASE Busy(w)
  BY <1>4, Ending
<1> QED
  BY <1>2, <1>3, <1>4

(* A call, the statements, and what follows them. *)
LEMMA OtherSteps ==
  ASSUME IInv, TypeOK', Explained', NEW w \in Workers,
         Call(w) \/ QueryFails(w) \/ Select(w) \/ Insert(w)
  PROVE  IInv'
<1>t. TypeOK
  BY DEF IInv
<1>1. UNCHANGED <<pool, sql, seen, torn>>
  BY DEF Call, QueryFails, Select, Insert
<1>l. Last' = Last /\ Last \in Nat
  BY <1>1, <1>t DEF Last, pool, TypeOK
<1>2. PICK to \in {"look", "insert", "free"} : pc' = [pc EXCEPT ![w] = to]
  BY DEF Call, QueryFails, Select, AfterSelect, Insert
<1>3. /\ pc[w] # "pop"
      /\ pc[w] \in {"query", "insert", "free"} <=> to \in {"query", "insert", "free"}
  BY <1>2, <1>t DEF Call, QueryFails, Select, AfterSelect, Insert, TypeOK
<1>4. \A v \in Workers : pc'[v] = "insert" => req'[v] # Login
  <2>1. CASE Call(w)
    BY <2>1, <1>t DEF Call, IInv, TypeOK
  <2>2. CASE QueryFails(w)
    BY <2>2, <1>t DEF QueryFails, IInv, TypeOK
  <2>3. CASE Select(w)
    BY <2>3, <1>t DEF Select, AfterSelect, IInv, TypeOK
  <2>4. CASE Insert(w)
    BY <2>4, <1>t DEF Insert, IInv, TypeOK
  <2> QED
    BY <2>1, <2>2, <2>3, <2>4
<1>5. LoadedBehind'
  <2>1. \A v \in Workers : pc'[v] = "look2" => pc[v] = "look2"
    BY <1>2, <1>t DEF TypeOK
  <2>2. UNCHANGED <<MAX_CONN_, startFirst, first>>
    BY <1>1 DEF pool
  <2> QED
    BY <1>1, <1>l, <2>1, <2>2, StillBehind
<1> QED
  BY <1>1, <1>2, <1>3, <1>4, <1>5, Untouched DEF Places

(* A process that ended does not go on, and whoever ends it with a busy    *)
(* pool or a nullptr knows why.                                            *)
LEMMA ExplainedStep == IInv /\ [Next]_vars => Explained'
<1> SUFFICES ASSUME IInv, [Next]_vars PROVE Explained'
  OBVIOUS
<1>t. TypeOK
  BY DEF IInv
<1>1. ASSUME NEW w \in Workers, Busy(w) PROVE Explained'
  <2>1. UNCHANGED <<pool, pc, seen, torn>> /\ SeemsEmpty(w)
    BY <1>1 DEF Busy
  <2>2. ASSUME Suffices PROVE w \in torn
    <3>1. /\ pc[w] = "look2" /\ seen[w] = Other
          /\ first \in Nat /\ Last \in Nat /\ seen[w] \in Nat
      BY <2>1, <1>t DEF SeemsEmpty, Last, TypeOK
    <3> QED
      BY <2>2, <3>1 DEF IInv, LoadedBehind, Other
  <2> QED
    BY <2>1, <2>2 DEF Explained, Suffices, SeemsEmpty, Other, Last, pool
<1>2. ASSUME NEW w \in Workers, PopConn(w), aborted = "no" PROVE Explained'
  BY <1>2 DEF PopConn, Explained
<1>3. ASSUME aborted' \notin {"busy", "null"} PROVE Explained'
  BY <1>3 DEF Explained
<1>4. CASE UNCHANGED vars
  BY <1>4 DEF vars, pool, IInv, Explained, Suffices, SeemsEmpty, Other, Last
<1>5. ASSUME aborted = "no", NEW w \in Workers,
             \/ Call(w) \/ Load(w) \/ Compare(w) \/ SemWait(w) \/ QueryFails(w)
             \/ StoreFails(w) \/ Select(w) \/ Insert(w) \/ FreeConn(w)
      PROVE  Explained'
  <2>1. aborted' = aborted \/ aborted' = "result"
    BY <1>5 DEF Call, Load, Compare, SemWait, QueryFails, StoreFails, Select, Insert, FreeConn
  <2> QED
    BY <1>5, <2>1, <1>3
<1> QED
  BY <1>1, <1>2, <1>4, <1>5 DEF Next, UserVerify

LEMMA InvStep == IInv /\ [Next]_vars => IInv'
<1> SUFFICES ASSUME IInv, [Next]_vars PROVE IInv'
  OBVIOUS
<1>1. TypeOK'
  BY TypeStep
<1>4. Explained'
  BY ExplainedStep
<1>2. CASE UNCHANGED vars
  <2>1. UNCHANGED <<MAX_CONN_, connQue_, first, semId_, startFirst, pc, sql, seen, req, torn>>
    BY <1>2 DEF vars, pool
  <2>2. UNCHANGED <<Partition, Holding, At("pop"), LoadedBehind>>
    BY <2>1 DEF Partition, Positions, Holding, At, LoadedBehind, Suffices, Last
  <2> QED
    BY <1>1, <1>4, <2>1, <2>2 DEF IInv, SemCountsFree
<1>3. ASSUME NEW w \in Workers, Call(w) \/ UserVerify(w) PROVE IInv'
  BY <1>1, <1>3, <1>4, PopStep, FreeStep, SemWaitStep, LookSteps, Ending, OtherSteps
     DEF UserVerify
<1> QED
  BY <1>2, <1>3 DEF Next

LEMMA Invariance == Spec => []IInv
BY InvInit, InvStep, PTL DEF Spec

-----------------------------------------------------------------------------
(* The state keeps its shape: the semaphore never exceeds the number of    *)
(* connections, and only registrations reach INSERT.                       *)
THEOREM TypeCorrect == Spec => []TypeOK
<1>1. IInv => TypeOK
  BY DEF IInv
<1> QED
  BY <1>1, Invariance, PTL

(* A worker that sem_wait let through finds a connection in connQue_.      *)
THEOREM SemaphoreAgrees == Spec => []SemCountsFree
<1>1. IInv => SemCountsFree
  BY DEF IInv
<1> QED
  BY <1>1, Invariance, PTL

(* Every connection is free or held by one worker, once, on every path     *)
(* through UserVerify.                                                     *)
THEOREM ConnectionsConserved == Spec => []ConnsConserved
<1>1. ASSUME IInv, NEW c \in 1..MAX_CONN_
      PROVE  Cardinality({k \in 1..Len(connQue_) : connQue_[k] = c})
               + Cardinality(Held(c)) = 1
  <2>1. ASSUME NEW k \in Positions, connQue_[k] = c
        PROVE  {j \in 1..Len(connQue_) : connQue_[j] = c} = {k} /\ Held(c) = {}
    BY <1>1, <2>1 DEF IInv, Partition, Positions, Held
  <2>2. ASSUME NEW w \in Workers, sql[w] = c
        PROVE  {j \in 1..Len(connQue_) : connQue_[j] = c} = {} /\ Held(c) = {w}
    BY <1>1, <2>2 DEF IInv, Partition, Positions, Held
  <2>3. Cardinality({}) = 0 /\ \A x : Cardinality({x}) = 1
    BY FS_EmptySet, FS_Singleton
  <2>4. CASE \E k \in Positions : connQue_[k] = c
    <3>1. PICK k \in Positions : connQue_[k] = c
      BY <2>4
    <3>2. {j \in 1..Len(connQue_) : connQue_[j] = c} = {k} /\ Held(c) = {}
      BY <3>1, <2>1
    <3>3. Cardinality({j \in 1..Len(connQue_) : connQue_[j] = c}) = 1
      BY <3>2, <2>3, Zenon
    <3>4. Cardinality(Held(c)) = 0
      BY <3>2, <2>3
    <3> QED
      BY <3>3, <3>4
  <2>5. CASE \E w \in Workers : sql[w] = c
    <3>1. PICK w \in Workers : sql[w] = c
      BY <2>5
    <3>2. {j \in 1..Len(connQue_) : connQue_[j] = c} = {} /\ Held(c) = {w}
      BY <3>1, <2>2
    <3>3. Cardinality({j \in 1..Len(connQue_) : connQue_[j] = c}) = 0
      BY <3>2, <2>3, Zenon
    <3>4. Cardinality(Held(c)) = 1
      BY <3>2, <2>3
    <3> QED
      BY <3>3, <3>4
  <2> QED
    BY <1>1, <2>4, <2>5 DEF IInv, Partition
<1>2. IInv => ConnsConserved
  BY <1>1 DEF ConnsConserved
<1> QED
  BY <1>2, Invariance, PTL

(* With as many connections as workers nobody blocks in sem_wait, and      *)
(* assert(sql) fails only after a failed connect, or when empty() loads    *)
(* the end first and another worker popped before it loaded the front.     *)
THEOREM EnoughConnections == Spec => []EnoughForAll
<1>1. ASSUME IInv, Suffices PROVE EnoughForAll
  <2>1. ASSUME NEW w \in At("sem") PROVE semId_ > 0
    BY <1>1, <2>1, RoomForOne DEF At
  <2>2. ASSUME NEW w \in Workers, SeemsEmpty(w) PROVE ~startFirst /\ w \in torn
    <3>1. /\ pc[w] = "look2" /\ seen[w] = Other
          /\ first \in Nat /\ Last \in Nat /\ seen[w] \in Nat
      BY <1>1, <2>2 DEF SeemsEmpty, IInv, TypeOK, Last
    <3> QED
      BY <1>1, <3>1 DEF IInv, LoadedBehind, Other
  <2> QED
    BY <1>1, <2>1, <2>2 DEF EnoughForAll, IInv, Explained
<1>2. IInv => EnoughForAll
  BY <1>1 DEF EnoughForAll, Suffices
<1> QED
  BY <1>2, Invariance, PTL

-----------------------------------------------------------------------------
(* RegistrationKept says nothing of a name nobody has been told of yet.    *)
(* Unless a name is contested it has one row, everybody told of it has     *)
(* that row, and whoever is about to insert it finds none: an insertion    *)
(* next to another one of the same name is contested by the first of them. *)
Registered ==
  /\ \A r, s \in table : r[1] = s[1] /\ r[1] \notin contested => r = s
  /\ \A row \in told : row[1] \notin contested => row \in table
  /\ \A w \in At("insert"), r \in table : r[1] = req[w][1] => r[1] \in contested

LEMMA RegisteredInit == Init => Registered
BY DEF Init, Registered

LEMMA RegisteredStep == IInv /\ Registered /\ [Next]_vars => Registered'
<1> SUFFICES ASSUME IInv, Registered, [Next]_vars PROVE Registered'
  OBVIOUS
<1>t. pc \in [Workers -> Places] /\ req \in [Workers -> Requests]
  BY DEF IInv, TypeOK
<1>same. ASSUME UNCHANGED <<table, told, contested>>,
                \A v \in At("insert")' : v \in At("insert") /\ req'[v] = req[v]
         PROVE  Registered'
  BY <1>same DEF Registered
<1>1. ASSUME NEW w \in Workers, Call(w) PROVE Registered'
  <2>1. \A v \in At("insert")' : v \in At("insert") /\ req'[v] = req[v]
    BY <1>1, <1>t DEF Call, At
  <2> QED
    BY <1>1, <1>same, <2>1 DEF Call
<1>2. ASSUME NEW w \in Workers,
             \/ Load(w) \/ Busy(w) \/ Compare(w) \/ SemWait(w) \/ PopConn(w)
             \/ QueryFails(w) \/ StoreFails(w)
      PROVE  Registered'
  <2>1. \A v \in At("insert")' : v \in At("insert") /\ req'[v] = req[v]
    BY <1>2, <1>t DEF Load, Busy, Compare, SemWait, PopConn, QueryFails, StoreFails, At
  <2>2. UNCHANGED <<table, told, contested>>
    BY <1>2 DEF Load, Busy, Compare, SemWait, PopConn, QueryFails, StoreFails, history
  <2> QED
    BY <1>same, <2>1, <2>2
<1>3. ASSUME NEW w \in Workers, Select(w) PROVE Registered'
  <2>1. /\ UNCHANGED <<table, told, contested, req>>
        /\ pc' = [pc EXCEPT ![w] = AfterSelect(w)]
    BY <1>3 DEF Select, history
  <2>2. ASSUME NEW v \in At("insert")'
        PROVE  v \in At("insert") \/ (v = w /\ ~Found(w))
    BY <1>t, <2>1, <2>2 DEF AfterSelect, At
  <2>3. \A v \in At("insert")', r \in table : r[1] = req[v][1] => r[1] \in contested
    BY <2>2 DEF Registered, Found
  <2> QED
    BY <2>1, <2>3 DEF Registered
<1>4. ASSUME NEW w \in Workers, Insert(w) PROVE Registered'
  <2> DEFINE row == req[w]
             rival == \E v \in At("insert") \ {w} : req[v][1] = row[1]
  <2>1. w \in At("insert")
    BY <1>4 DEF Insert, At
  <2>2. /\ told' = told \cup {row} /\ UNCHANGED req
        /\ \/ /\ table' = table \cup {row}
              /\ contested' = IF rival THEN contested \cup {row[1]} ELSE contested
           \/ table' = table /\ contested' = contested \cup {row[1]}
    BY <1>4 DEF Insert
  <2>3. At("insert")' = At("insert") \ {w}
    BY <1>4, <1>t DEF Insert, At
  <2>4. contested \subseteq contested'
    BY <2>2
  <2>5. CASE table' = table
    BY <2>2, <2>3, <2>4, <2>5 DEF Registered
  <2>6. CASE /\ table' = table \cup {row}
             /\ contested' = IF rival THEN contested \cup {row[1]} ELSE contested
    <3>1. ASSUME row[1] \notin contested', NEW r \in table PROVE r[1] # row[1]
      BY <2>1, <2>4, <3>1 DEF Registered
    <3>2. ASSUME NEW v \in At("insert")', req[v][1] = row[1] PROVE row[1] \in contested'
      BY <2>3, <2>6, <3>2
    <3>3. \A r, s \in table' : r[1] = s[1] /\ r[1] \notin contested' => r = s
      BY <2>4, <2>6, <3>1 DEF Registered
    <3>4. \A x \in told' : x[1] \notin contested' => x \in table'
      BY <2>2, <2>4, <2>6 DEF Registered
    <3>5. \A v \in At("insert")', r \in table' : r[1] = req'[v][1] => r[1] \in contested'
      BY <2>2, <2>3, <2>4, <2>6, <3>2 DEF Registered
    <3> QED
      BY <3>3, <3>4, <3>5 DEF Registered
  <2> QED
    BY <2>2, <2>5, <2>6
<1>5. ASSUME NEW w \in Workers, FreeConn(w) PROVE Registered'
  <2>1. \A v \in At("insert")' : v \in At("insert") /\ req'[v] = req[v]
    BY <1>5, <1>t DEF FreeConn, At
  <2> QED
    BY <1>5, <1>same, <2>1 DEF FreeConn, history
<1>6. CASE UNCHANGED vars
  BY <1>6, <1>same DEF vars, history, At
<1> QED
  BY <1>1, <1>2, <1>3, <1>4, <1>5, <1>6 DEF Next, UserVerify

(* Who was told that he is registered is the one row of his name, although *)
(* UserVerify looks and inserts in two statements and takes a failed one   *)
(* for a success: the only exceptions are the names contested stands for.  *)
THEOREM RegistrationsKept == Spec => []RegistrationKept
<1>1. Registered => RegistrationKept
  BY DEF Registered, RegistrationKept
<1> QED
  BY <1>1, InvInit, InvStep, RegisteredInit, RegisteredStep, PTL DEF Spec
=============================================================================
