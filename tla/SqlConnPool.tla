---------------------------- MODULE SqlConnPool ------------------------------
(***************************************************************************)
(* webserver_tac/code/pool/sqlconnpool.cpp and its only user, UserVerify   *)
(* of code/http/http_request.cpp, which holds a connection through a       *)
(* SqlConnRAII from its beginning to whichever of its returns.             *)
(*                                                                         *)
(* GetConn asks connQue_.empty() without the mutex.  That compares the two *)
(* ends of a std::deque: two loads, between which other threads push and   *)
(* pop.  Unoptimized code loads the end first, optimized code the front    *)
(* (startFirst); CMakeLists.txt sets no build type, so it builds the       *)
(* former.  The rest of GetConn and FreeConn is one action for sem_wait    *)
(* and one for each critical section.                                      *)
(*                                                                         *)
(* The database is outside: any connect and any statement may fail, and it *)
(* may or may not refuse a name it has.                                    *)
(***************************************************************************)
EXTENDS Naturals, Sequences, FiniteSets

CONSTANTS
  Workers,       \* the pool threads that run requests
  MaxConns,      \* bound: the largest connSize
  Names, Passwords,
  MaxCalls       \* bound: calls of UserVerify

ASSUME SizesArePositive == MaxConns \in Nat \ {0} /\ MaxCalls \in Nat
ASSUME FiniteWorkers == IsFiniteSet(Workers)

VARIABLES
  MAX_CONN_,     \* connSize
  failed,        \* the connects of Init that failed
  connQue_,      \* the free connections, by their connect: nullptr for failed
  first,         \* position of the front of connQue_, that is, pops so far
  semId_,        \* the semaphore's count
  startFirst,    \* the build: which end empty() loads first
  pc,            \* each worker's place in UserVerify: see Places
  sql,           \* its connection, 0 for none
  seen,          \* the end of the deque it has loaded
  req,           \* its arguments: a registration's name and pwd, or Login
  table,         \* the rows of the table user
  aborted,       \* what ended the process: see Ends
  calls,         \* history: calls so far
  told,          \* history: the registrations answered with yes
  contested,     \* history: names registered twice at once, or with an error
  torn           \* history: who has loaded one end and then somebody popped

pool == <<MAX_CONN_, failed, connQue_, first, semId_, startFirst>>
history == <<calls, told, contested>>
vars == <<pool, pc, sql, seen, req, table, aborted, history, torn>>

(* "look", "look2": the two loads of empty(); "sem": in sem_wait; "pop":   *)
(* about to lock mtx_; "query", "insert": at a statement; "free": in the   *)
(* destructor of the SqlConnRAII.                                          *)
Places == {"idle", "look", "look2", "sem", "pop", "query", "insert", "free"}

(* assert(sql) fails because GetConn called the pool busy, or because a    *)
(* failed connect left it a nullptr; or mysql_store_result returned NULL,  *)
(* which UserVerify hands on to mysql_num_fields.                          *)
Ends == {"busy", "null", "result"}

(* A login reads only: which name and password it has makes no difference.  *)
Login == <<>>
Requests == (Names \X Passwords) \cup {Login}

At(p) == {w \in Workers : pc[w] = p}
Last == first + Len(connQue_)

(* The shape of the state; the semaphore never counts too many.            *)
TypeOK ==
  /\ MAX_CONN_ \in 1..MaxConns /\ failed \subseteq 1..MAX_CONN_
  /\ connQue_ \in Seq(1..MAX_CONN_)
  /\ first \in Nat /\ semId_ \in 0..MAX_CONN_ /\ startFirst \in BOOLEAN
  /\ pc \in [Workers -> Places]
  /\ sql \in [Workers -> 0..MAX_CONN_] /\ seen \in [Workers -> Nat]
  /\ req \in [Workers -> Requests]
  /\ table \subseteq Names \X Passwords
  /\ aborted \in Ends \cup {"no"} /\ calls \in 0..MaxCalls
  /\ told \subseteq Names \X Passwords /\ contested \subseteq Names
  /\ torn \subseteq Workers

(* SqlConnPool::Init has run: a connect that failed is logged, its nullptr *)
(* is queued all the same, and the semaphore counts it.                    *)
Init ==
  /\ MAX_CONN_ \in 1..MaxConns
  /\ failed \in SUBSET (1..MAX_CONN_)
  /\ connQue_ = [k \in 1..MAX_CONN_ |-> k]
  /\ first = 0 /\ semId_ = MAX_CONN_ /\ startFirst \in BOOLEAN
  /\ pc = [w \in Workers |-> "idle"] /\ sql = [w \in Workers |-> 0]
  /\ seen = [w \in Workers |-> 0] /\ req = [w \in Workers |-> Login]
  /\ table = {} /\ aborted = "no"
  /\ calls = 0 /\ told = {} /\ contested = {} /\ torn = {}

-----------------------------------------------------------------------------
(* Mutations of the definitions below, each a bug this code could have: a  *)
(* semaphore that is not posted, a connection copied and not popped, one   *)
(* not given back after an error, a used name not refused.                 *)

NotPosted == semId_

Copied == connQue_

LeaksOnError(w) ==
  /\ pc[w] = "query"
  /\ pc' = [pc EXCEPT ![w] = "idle"]
  /\ sql' = [sql EXCEPT ![w] = 0]
  /\ UNCHANGED <<pool, seen, req, table, aborted, history, torn>>

NameUnchecked(w) == IF req[w] = Login THEN "free" ELSE "insert"

-----------------------------------------------------------------------------
(* UserVerify(name, pwd, isLogin) is called, with name and pwd not empty.  *)
Call(w) ==
  /\ pc[w] = "idle" /\ calls < MaxCalls
  /\ \E r \in Requests : req' = [req EXCEPT ![w] = r]
  /\ pc' = [pc EXCEPT ![w] = "look"]
  /\ calls' = calls + 1
  /\ UNCHANGED <<pool, sql, seen, table, aborted, told, contested, torn>>

Load(w) ==
  /\ pc[w] = "look"
  /\ seen' = [seen EXCEPT ![w] = IF startFirst THEN first ELSE Last]
  /\ pc' = [pc EXCEPT ![w] = "look2"]
  /\ torn' = torn \ {w}
  /\ UNCHANGED <<pool, sql, req, table, aborted, history>>

Other == IF startFirst THEN Last ELSE first

SeemsEmpty(w) == pc[w] = "look2" /\ seen[w] = Other

(* GetConn returns nullptr, and UserVerify asserts that it did not.        *)
Busy(w) ==
  /\ SeemsEmpty(w)
  /\ aborted' = "busy"
  /\ UNCHANGED <<pool, pc, sql, seen, req, table, history, torn>>

Compare(w) ==
  /\ pc[w] = "look2" /\ ~SeemsEmpty(w)
  /\ seen' = [seen EXCEPT ![w] = 0]
  /\ torn' = torn \ {w}
  /\ pc' = [pc EXCEPT ![w] = "sem"]
  /\ UNCHANGED <<pool, sql, req, table, aborted, history>>

SemWait(w) ==
  /\ pc[w] = "sem" /\ semId_ > 0
  /\ semId_' = semId_ - 1
  /\ pc' = [pc EXCEPT ![w] = "pop"]
  /\ UNCHANGED <<MAX_CONN_, failed, connQue_, first, startFirst, sql, seen, req,
                 table, aborted, history, torn>>

Remaining == Tail(connQue_)

(* The nullptr of a failed connect is a connection like any other to       *)
(* GetConn; UserVerify asserts.                                            *)
PopConn(w) ==
  /\ pc[w] = "pop"
  /\ sql' = [sql EXCEPT ![w] = Head(connQue_)]
  /\ connQue_' = Remaining
  /\ first' = first + 1
  /\ aborted' = IF Head(connQue_) \in failed THEN "null" ELSE aborted
  /\ torn' = torn \cup At("look2")
  /\ pc' = [pc EXCEPT ![w] = "query"]
  /\ UNCHANGED <<MAX_CONN_, failed, semId_, startFirst, seen, req, table, history>>

QueryFails(w) ==
  /\ pc[w] = "query"
  /\ pc' = [pc EXCEPT ![w] = "free"]
  /\ UNCHANGED <<pool, sql, seen, req, table, aborted, history, torn>>

(* The query succeeded and its result cannot be had: mysql_num_fields is   *)
(* called with NULL.                                                       *)
StoreFails(w) ==
  /\ pc[w] = "query"
  /\ aborted' = "result"
  /\ UNCHANGED <<pool, pc, sql, seen, req, table, history, torn>>

(* A registration goes on to INSERT when SELECT finds no row.              *)
Found(w) == \E row \in table : row[1] = req[w][1]
AfterSelect(w) == IF req[w] = Login \/ Found(w) THEN "free" ELSE "insert"

Select(w) ==
  /\ pc[w] = "query"
  /\ pc' = [pc EXCEPT ![w] = AfterSelect(w)]
  /\ UNCHANGED <<pool, sql, seen, req, table, aborted, history, torn>>

(* flag is TRUE in the end whether or not INSERT succeeded.                *)
Insert(w) ==
  /\ pc[w] = "insert"
  /\ LET row == req[w]
         rival == \E v \in At("insert") \ {w} : req[v][1] = row[1]
     IN  /\ told' = told \cup {row}
         /\ \/ /\ table' = table \cup {row}
               /\ contested' = IF rival THEN contested \cup {row[1]} ELSE contested
            \/ /\ contested' = contested \cup {row[1]}
               /\ UNCHANGED table
  /\ pc' = [pc EXCEPT ![w] = "free"]
  /\ UNCHANGED <<pool, sql, seen, req, aborted, calls, torn>>

Posted == semId_ + 1

FreeConn(w) ==
  /\ pc[w] = "free"
  /\ connQue_' = Append(connQue_, sql[w])
  /\ semId_' = Posted
  /\ sql' = [sql EXCEPT ![w] = 0]
  /\ req' = [req EXCEPT ![w] = Login]
  /\ pc' = [pc EXCEPT ![w] = "idle"]
  /\ UNCHANGED <<MAX_CONN_, failed, first, startFirst, seen, table, aborted,
                 history, torn>>

-----------------------------------------------------------------------------
UserVerify(w) ==
  \/ Load(w) \/ Busy(w) \/ Compare(w) \/ SemWait(w) \/ PopConn(w)
  \/ QueryFails(w) \/ StoreFails(w) \/ Select(w) \/ Insert(w) \/ FreeConn(w)

(* A failed assertion or a NULL result ends the process.                   *)
Next == aborted = "no" /\ \E w \in Workers : Call(w) \/ UserVerify(w)

Spec == Init /\ [][Next]_vars

-----------------------------------------------------------------------------
Held(c) == {w \in Workers : sql[w] = c}

(* Each connection is free once or held by one worker: no return of        *)
(* UserVerify leaks one, no two workers share one.                         *)
ConnsConserved ==
  \A c \in 1..MAX_CONN_ :
    Cardinality({k \in 1..Len(connQue_) : connQue_[k] = c}) + Cardinality(Held(c)) = 1

(* The semaphore and the queue are changed apart but agree: a worker that  *)
(* sem_wait let through finds a connection at the front.                   *)
SemCountsFree == semId_ + Cardinality(At("pop")) = Len(connQue_)

(* When there are as many connections as workers (main.cpp has 16 of each) *)
(* nobody blocks in sem_wait, and the pool seems empty only to a worker of *)
(* the build that loads the end first, and only when another one has taken *)
(* a connection between its two loads.  Only then, or after a connect      *)
(* failed, does assert(sql) fail.                                          *)
EnoughForAll ==
  Cardinality(Workers) <= MAX_CONN_ =>
    /\ At("sem") # {} => semId_ > 0
    /\ \A w \in Workers : SeemsEmpty(w) => ~startFirst /\ w \in torn
    /\ aborted \in {"busy", "null"} => failed # {} \/ \E w \in torn : SeemsEmpty(w)

(* A user who was told he is registered is the one row of that name,       *)
(* unless two registrations of it overlapped or the database failed.       *)
RegistrationKept ==
  \A row \in told :
    row[1] \notin contested => {r \in table : r[1] = row[1]} = {row}
=============================================================================
