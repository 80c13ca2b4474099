------------------------------ MODULE SqlConnPool ------------------------------
(***************************************************************************)
(* SqlConnPool (src/sql/sqlconnpool.cc) with clients that hold the         *)
(* connection in an SqlConnRAII object for as long as they use it          *)
(* (src/sql/sqlconnRAII.h).  A counting semaphore guards a queue of        *)
(* handles, the queue has a mutex of its own, and the test for an empty    *)
(* queue that opens GetConn takes neither.                                 *)
(***************************************************************************)
EXTENDS Naturals, Sequences, FiniteSets

CONSTANTS Users,     \* the threads that use the pool
          MAX_CONN_  \* conn_size of init()

ASSUME UsersAssumption == IsFiniteSet(Users)
ASSUME MaxConnAssumption == MAX_CONN_ \in Nat \ {0}

Conns == 1..MAX_CONN_  \* the handles mysql_real_connect returned, in order
NULL == 0              \* what it returns on failure, pushed all the same

VARIABLES conn_que_,
          sem_id_,  \* value of the semaphore
          upc,      \* per user: where it is in GetConn, use, FreeConn
          sql_,     \* per user: the handle in its SqlConnRAII
          opened,   \* the handles init() opened
          alive,    \* the pool has not been destroyed
          closed    \* the handles mysql_close was called on

vars == <<conn_que_, sem_id_, upc, sql_, opened, alive, closed>>

(* "idle"; "wait" past the test for an empty queue; "pop" with the semaphore
   taken; "hold" with a handle; "post" inside FreeConn, mutex held. *)
UserStates == {"idle", "wait", "pop", "hold", "post"}

TypeOK ==
  /\ conn_que_ \in Seq(Conns \cup {NULL})
  /\ sem_id_ \in Nat
  /\ upc \in [Users -> UserStates]
  /\ sql_ \in [Users -> Conns \cup {NULL}]
  /\ opened \in SUBSET Conns
  /\ alive \in BOOLEAN
  /\ closed \in SUBSET Conns

(* After init(): a connection that failed to open leaves NULL in its place. *)
Init ==
  /\ opened \in SUBSET Conns
  /\ conn_que_ = [i \in Conns |-> IF i \in opened THEN i ELSE NULL]
  /\ sem_id_ = MAX_CONN_
  /\ upc = [u \in Users |-> "idle"]
  /\ sql_ = [u \in Users |-> NULL]
  /\ alive = TRUE
  /\ closed = {}

Queued(c) == \E i \in 1..Len(conn_que_) : conn_que_[i] = c

MutexFree == \A u \in Users : upc[u] # "post"

(* The unlocked conn_que_.empty() compares two indices that another thread may
   be moving: while one is about to push or pop, either answer is possible. *)
EmptyAnswers(u) ==
  IF \E v \in Users \ {u} : upc[v] \in {"pop", "hold", "post"}
    THEN BOOLEAN
    ELSE {conn_que_ = <<>>}

(* GetConn: return nullptr when the queue looks empty. *)
GetConnEmpty(u) ==
  /\ upc[u] = "idle" /\ alive
  /\ TRUE \in EmptyAnswers(u)
  /\ sql_' = [sql_ EXCEPT ![u] = NULL]
  /\ UNCHANGED <<conn_que_, sem_id_, upc, opened, alive, closed>>

GetConnBegin(u) ==
  /\ upc[u] = "idle" /\ alive
  /\ FALSE \in EmptyAnswers(u)
  /\ upc' = [upc EXCEPT ![u] = "wait"]
  /\ UNCHANGED <<conn_que_, sem_id_, sql_, opened, alive, closed>>

(* Fault: the semaphore is not there, as the comment in init() wonders. *)
SemWait_Absent(u) ==
  /\ upc[u] = "wait"
  /\ upc' = [upc EXCEPT ![u] = "pop"]
  /\ UNCHANGED <<conn_que_, sem_id_, sql_, opened, alive, closed>>

(* GetConn: sem_wait. *)
SemWait(u) ==
  /\ upc[u] = "wait"
  /\ sem_id_ > 0
  /\ sem_id_' = sem_id_ - 1
  /\ upc' = [upc EXCEPT ![u] = "pop"]
  /\ UNCHANGED <<conn_que_, sql_, opened, alive, closed>>

(* Fault: the handle is read but stays in the queue. *)
Pop_Peek(u) ==
  /\ upc[u] = "pop"
  /\ MutexFree
  /\ conn_que_ # <<>>
  /\ sql_' = [sql_ EXCEPT ![u] = Head(conn_que_)]
  /\ upc' = [upc EXCEPT ![u] = IF Head(conn_que_) = NULL THEN "idle" ELSE "hold"]
  /\ UNCHANGED <<conn_que_, sem_id_, opened, alive, closed>>

(* GetConn: front() and pop() under the mutex.  A null handle is returned like
   any other, and ~SqlConnRAII does not give it back. *)
Pop(u) ==
  /\ upc[u] = "pop"
  /\ MutexFree
  /\ conn_que_ # <<>>
  /\ sql_' = [sql_ EXCEPT ![u] = Head(conn_que_)]
  /\ conn_que_' = Tail(conn_que_)
  /\ upc' = [upc EXCEPT ![u] = IF Head(conn_que_) = NULL THEN "idle" ELSE "hold"]
  /\ UNCHANGED <<sem_id_, opened, alive, closed>>

(* Fault: the destructor posts the semaphore without returning the handle. *)
FreePush_Drop(u) ==
  /\ upc[u] = "hold"
  /\ MutexFree
  /\ sql_' = [sql_ EXCEPT ![u] = NULL]
  /\ upc' = [upc EXCEPT ![u] = "post"]
  /\ UNCHANGED <<conn_que_, sem_id_, opened, alive, closed>>

(* ~SqlConnRAII, FreeConn: push under the mutex ... *)
FreePush(u) ==
  /\ upc[u] = "hold"
  /\ MutexFree
  /\ conn_que_' = Append(conn_que_, sql_[u])
  /\ sql_' = [sql_ EXCEPT ![u] = NULL]
  /\ upc' = [upc EXCEPT ![u] = "post"]
  /\ UNCHANGED <<sem_id_, opened, alive, closed>>

(* ... and sem_post before the mutex is released. *)
FreePost(u) ==
  /\ upc[u] = "post"
  /\ sem_id_' = sem_id_ + 1
  /\ upc' = [upc EXCEPT ![u] = "idle"]
  /\ UNCHANGED <<conn_que_, sql_, opened, alive, closed>>

(* ClosePool, from ~SqlConnPool: a static object, destroyed when the threads
   that use it are gone. *)
ClosePool ==
  /\ \A u \in Users : upc[u] = "idle"
  /\ alive
  /\ alive' = FALSE
  /\ closed' = {c \in Conns : Queued(c)}
  /\ conn_que_' = <<>>
  /\ UNCHANGED <<sem_id_, upc, sql_, opened>>

Next ==
  \/ \E u \in Users : \/ GetConnEmpty(u) \/ GetConnBegin(u) \/ SemWait(u)
                      \/ Pop(u) \/ FreePush(u) \/ FreePost(u)
  \/ ClosePool

Spec == Init /\ [][Next]_vars

-------------------------------------------------------------------------------
(* Properties.                                                               *)

At(state) == {u \in Users : upc[u] = state}

(* The semaphore never promises a handle that is not there: permits left,
   permits taken but not used yet and permits about to be posted add up to the
   length of the queue (GetConn and FreeConn, sqlconnpool.cc:38-61). *)
PermitsMatchQueue ==
  alive => Len(conn_que_) = sem_id_ + Cardinality(At("pop")) + Cardinality(At("post"))

(* front() and pop() are never called on an empty queue, although the test for
   an empty queue is made without the lock (sqlconnpool.cc:41-51). *)
PopFindsHandle == \A u \in Users : upc[u] = "pop" => conn_que_ # <<>>

(* A handle is used by one thread at a time: it is held once, or queued once,
   never both. *)
ExclusiveHandles ==
  /\ \A u, v \in At("hold") : sql_[u] = sql_[v] => u = v
  /\ \A u \in At("hold") : sql_[u] # NULL /\ ~Queued(sql_[u])
  /\ \A i, j \in 1..Len(conn_que_) :
       conn_que_[i] = conn_que_[j] /\ conn_que_[i] # NULL => i = j
===============================================================================
