------------------------------ MODULE PoolProofs -------------------------------
(***************************************************************************)
(* The two pools of the program.  ThreadPool: no task is lost, run twice   *)
(* or left behind by the destructor, for every set of workers, clients and *)
(* tasks.  SqlConnPool: the semaphore, the queue of handles and the users' *)
(* handles agree, for every finite set of users and every number of        *)
(* connections.                                                            *)
(***************************************************************************)
EXTENDS ThreadPool, SqlConnPool, FiniteSetTheorems, SequenceTheorems, TLAPS

-------------------------------------------------------------------------------
(* ThreadPool.                                                               *)

(* The destructor and its workers: stop is set by the destructor only, a worker
   returns only from an empty queue that enqueue no longer fills, nobody sleeps
   after notify_all, and the last join comes after the last return. *)
DestructorInv ==
  /\ stop <=> dpc # "no"
  /\ \A w \in Workers : wpc[w] = "exit" => stop /\ tasks = <<>>
  /\ dpc \in {"join", "done"} => \A w \in Workers : wpc[w] # "wait"
  /\ dpc = "done" => \A w \in Workers : wpc[w] = "exit"

(* A queued task is never left to sleeping workers: one of them is awake, or a
   client is about to call notify_one (enqueue notifies after it has released
   queue_mutex). *)
NoTaskStranded ==
  tasks # <<>> => \/ \E w \in Workers : wpc[w] \in {"lock", "run"}
                  \/ \E c \in Clients : cpc[c] = "notify"
                  \/ Workers = {}

(* A task that enqueue threw for is not offered again; without it the step of
   Enqueue would not keep accepted and rejected tasks apart. *)
OfferedOnce == fresh \cap rejected = {}

(* The inductive invariant. *)
TaskInv ==
  /\ PoolTypeOK
  /\ TasksConserved
  /\ OfferedOnce
  /\ DestructorInv
  /\ NoTaskStranded

USE NoTaskAssumption

-------------------------------------------------------------------------------
(* The conjuncts of the invariant, one at a time.                            *)

(* A new pool has no task and no worker inside one. *)
LEMMA InitTaskInv == PoolInit => TaskInv
<1> SUFFICES ASSUME PoolInit PROVE TaskInv
  OBVIOUS
<1>1. PoolTypeOK
  <2>1. tasks \in Seq(Tasks) /\ fresh \in SUBSET Tasks
    BY DEF PoolInit
  <2>2. accepted \in SUBSET Tasks /\ rejected \in SUBSET Tasks /\ executed \in SUBSET Tasks
    BY DEF PoolInit
  <2> QED
    BY <2>1, <2>2 DEF PoolInit, PoolTypeOK, WorkerStates
<1>2. TasksConserved
  BY DEF PoolInit, TasksConserved, InQueue, Held
<1>3. OfferedOnce /\ DestructorInv /\ NoTaskStranded
  BY DEF PoolInit, OfferedOnce, DestructorInv, NoTaskStranded
<1> QED
  BY <1>1, <1>2, <1>3 DEF TaskInv

(* Every step keeps the types. *)
LEMMA NextPoolTypeOK ==
  ASSUME PoolTypeOK, TasksConserved, PoolNext
  PROVE  PoolTypeOK'
<1>1. ASSUME NEW w \in Workers, WorkerWaits(w) \/ WorkerExits(w) \/ SpuriousWake(w)
      PROVE  PoolTypeOK'
  BY <1>1 DEF PoolTypeOK, WorkerWaits, WorkerExits, SpuriousWake, WorkerStates
<1>2. ASSUME NEW w \in Workers, WorkerTakes(w)
      PROVE  PoolTypeOK'
  BY <1>2 DEF PoolTypeOK, WorkerTakes, WorkerStates
<1>3. ASSUME NEW w \in Workers, WorkerRuns(w)
      PROVE  PoolTypeOK'
  <2>1. wtask[w] \in Tasks
    BY <1>3 DEF WorkerRuns, PoolTypeOK, TasksConserved
  <2> QED
    BY <1>3, <2>1 DEF PoolTypeOK, WorkerRuns, WorkerStates
<1>4. ASSUME NEW c \in Clients, NotifyOne(c)
      PROVE  PoolTypeOK'
  <2>1. wpc' \in [Workers -> WorkerStates]
    BY <1>4 DEF PoolTypeOK, NotifyOne, WorkerStates
  <2> QED
    BY <1>4, <2>1 DEF PoolTypeOK, NotifyOne
<1>5. ASSUME NEW c \in Clients, NEW t \in Tasks, Enqueue(c, t)
      PROVE  PoolTypeOK'
  <2>1. tasks' \in Seq(Tasks)
    BY <1>5 DEF PoolTypeOK, Enqueue
  <2> QED
    BY <1>5, <2>1 DEF PoolTypeOK, Enqueue
<1>6. ASSUME NEW c \in Clients, NEW t \in Tasks, EnqueueThrows(c, t)
      PROVE  PoolTypeOK'
  BY <1>6 DEF PoolTypeOK, EnqueueThrows
<1>7. CASE DestructorStops
  BY <1>7 DEF PoolTypeOK, DestructorStops
<1>8. CASE DestructorNotifies
  BY <1>8 DEF PoolTypeOK, DestructorNotifies, WorkerStates
<1>9. CASE DestructorJoins
  BY <1>9 DEF PoolTypeOK, DestructorJoins
<1> QED
  BY <1>1, <1>2, <1>3, <1>4, <1>5, <1>6, <1>7, <1>8, <1>9 DEF PoolNext, WorkerStep

(* The destructor's part of the invariant. *)
LEMMA NextDestructorInv ==
  ASSUME PoolTypeOK, DestructorInv, PoolNext
  PROVE  DestructorInv'
<1>1. ASSUME NEW w \in Workers, WorkerWaits(w)
      PROVE  DestructorInv'
  BY <1>1 DEF PoolTypeOK, DestructorInv, WorkerWaits, Ready
<1>2. ASSUME NEW w \in Workers, WorkerExits(w)
      PROVE  DestructorInv'
  BY <1>2 DEF PoolTypeOK, DestructorInv, WorkerExits, MustExit
<1>3. ASSUME NEW w \in Workers, SpuriousWake(w)
      PROVE  DestructorInv'
  BY <1>3 DEF PoolTypeOK, DestructorInv, SpuriousWake
<1>4. ASSUME NEW w \in Workers, WorkerTakes(w)
      PROVE  DestructorInv'
  <2>1. \A v \in Workers : wpc[v] # "exit"
    BY <1>4 DEF WorkerTakes, DestructorInv
  <2> QED
    BY <1>4, <2>1 DEF PoolTypeOK, DestructorInv, WorkerTakes
<1>5. ASSUME NEW w \in Workers, WorkerRuns(w)
      PROVE  DestructorInv'
  BY <1>5 DEF PoolTypeOK, DestructorInv, WorkerRuns
<1>6. ASSUME NEW c \in Clients, NotifyOne(c)
      PROVE  DestructorInv'
  <2>1. \A v \in Workers : wpc'[v] = wpc[v] \/ (wpc[v] = "wait" /\ wpc'[v] = "lock")
    <3>1. CASE \E v \in Workers : wpc[v] = "wait"
      BY <1>6, <3>1 DEF PoolTypeOK, NotifyOne
    <3>2. CASE ~\E v \in Workers : wpc[v] = "wait"
      BY <1>6, <3>2 DEF NotifyOne
    <3> QED
      BY <3>1, <3>2
  <2> QED
    BY <1>6, <2>1 DEF DestructorInv, NotifyOne
<1>7. ASSUME NEW c \in Clients, NEW t \in Tasks, Enqueue(c, t) \/ EnqueueThrows(c, t)
      PROVE  DestructorInv'
  BY <1>7 DEF DestructorInv, Enqueue, EnqueueThrows, EnqueueAccepts
<1>8. CASE DestructorStops
  BY <1>8 DEF DestructorInv, DestructorStops
<1>9. CASE DestructorNotifies
  BY <1>9 DEF PoolTypeOK, DestructorInv, DestructorNotifies
<1>10. CASE DestructorJoins
  BY <1>10 DEF DestructorInv, DestructorJoins
<1> QED
  BY <1>1, <1>2, <1>3, <1>4, <1>5, <1>6, <1>7, <1>8, <1>9, <1>10 DEF PoolNext, WorkerStep

(* A task never sits in the queue with every worker asleep and no notify due. *)
LEMMA NextNotStranded ==
  ASSUME PoolTypeOK, DestructorInv, NoTaskStranded, PoolNext
  PROVE  NoTaskStranded'
<1>1. ASSUME NEW w \in Workers, WorkerWaits(w)
      PROVE  NoTaskStranded'
  BY <1>1 DEF NoTaskStranded, WorkerWaits, Ready
<1>2. ASSUME NEW w \in Workers, WorkerExits(w)
      PROVE  NoTaskStranded'
  BY <1>2 DEF NoTaskStranded, WorkerExits, MustExit
<1>3. ASSUME NEW w \in Workers, SpuriousWake(w) \/ WorkerTakes(w) \/ WorkerRuns(w)
      PROVE  NoTaskStranded'
  <2>1. wpc'[w] \in {"lock", "run"}
    BY <1>3 DEF PoolTypeOK, SpuriousWake, WorkerTakes, WorkerRuns
  <2> QED
    BY <2>1 DEF NoTaskStranded
<1>4. ASSUME NEW c \in Clients, NotifyOne(c)
      PROVE  NoTaskStranded'
  <2> SUFFICES ASSUME tasks # <<>>, Workers # {}
               PROVE  \E w \in Workers : wpc'[w] \in {"lock", "run"}
    BY <1>4 DEF NoTaskStranded, NotifyOne
  <2>1. CASE \E w \in Workers : wpc[w] = "wait"
    BY <1>4, <2>1 DEF NotifyOne, PoolTypeOK
  <2>2. CASE \A w \in Workers : wpc[w] # "wait"
    BY <1>4, <2>2 DEF NotifyOne, PoolTypeOK, DestructorInv, WorkerStates
  <2> QED
    BY <2>1, <2>2
<1>5. ASSUME NEW c \in Clients, NEW t \in Tasks, Enqueue(c, t)
      PROVE  NoTaskStranded'
  BY <1>5 DEF NoTaskStranded, Enqueue, PoolTypeOK
<1>6. ASSUME NEW c \in Clients, NEW t \in Tasks, EnqueueThrows(c, t)
      PROVE  NoTaskStranded'
  BY <1>6 DEF NoTaskStranded, EnqueueThrows
<1>7. CASE DestructorStops \/ DestructorJoins
  BY <1>7 DEF NoTaskStranded, DestructorStops, DestructorJoins
<1>8. CASE DestructorNotifies
  BY <1>8 DEF NoTaskStranded, DestructorNotifies, PoolTypeOK
<1> QED
  BY <1>1, <1>2, <1>3, <1>4, <1>5, <1>6, <1>7, <1>8 DEF PoolNext, WorkerStep

(* Steps that move no task and let no worker into or out of one. *)
LEMMA ConservedIdle ==
  ASSUME TasksConserved,
         UNCHANGED <<tasks, wtask, fresh, accepted, rejected, executed>>,
         \A w \in Workers : wpc'[w] = "run" <=> wpc[w] = "run"
  PROVE  TasksConserved'
  BY DEF TasksConserved, InQueue, Held

(* WorkerTakes moves the first task from the queue to the worker. *)
LEMMA ConservedTakes ==
  ASSUME PoolTypeOK, TasksConserved, NEW w \in Workers, WorkerTakes(w)
  PROVE  TasksConserved'
<1> DEFINE h == tasks[1]
           InQueueNext(t) == \E i \in 1..Len(tasks') : tasks'[i] = t
           HeldNext(t) == \E v \in Workers : wtask'[v] = t
<1>1. /\ tasks \in Seq(Tasks) /\ tasks # <<>> /\ tasks' = Tail(tasks) /\ Head(tasks) = h
      /\ h \in Tasks /\ h # NoTask
  BY DEF WorkerTakes, PoolTypeOK
<1>2. /\ Len(tasks') = Len(tasks) - 1 /\ Len(tasks) \in Nat \ {0}
      /\ \A i \in 1..Len(tasks') : tasks'[i] = tasks[i + 1]
  BY <1>1
<1>3. \A i, j \in 1..Len(tasks) : tasks[i] = tasks[j] => i = j
  BY DEF TasksConserved
<1>4. wtask[w] = NoTask
  BY DEF WorkerTakes, TasksConserved
<1>5. \A v \in Workers : wtask'[v] = IF v = w THEN h ELSE wtask[v]
  BY <1>1 DEF WorkerTakes, PoolTypeOK
<1>6. \A v \in Workers : wpc'[v] = IF v = w THEN "run" ELSE wpc[v]
  BY DEF WorkerTakes, PoolTypeOK
<1>7. \A t \in Tasks : InQueueNext(t) <=> InQueue(t) /\ t # h
  <2>1. \A i \in 1..Len(tasks') : i + 1 \in 1..Len(tasks) /\ i + 1 # 1
    BY <1>2
  <2>2. \A i \in 1..Len(tasks) : i # 1 => i - 1 \in 1..Len(tasks') /\ tasks'[i - 1] = tasks[i]
    BY <1>2
  <2>3. 1 \in 1..Len(tasks)
    BY <1>2
  <2> QED
    BY <1>2, <1>3, <2>1, <2>2, <2>3 DEF InQueue
<1>8. \A t \in Tasks : HeldNext(t) <=> Held(t) \/ t = h
  BY <1>4, <1>5 DEF Held
<1>9. InQueue(h)
  BY <1>2 DEF InQueue
<1>10. UNCHANGED <<fresh, accepted, rejected, executed>>
  BY DEF WorkerTakes
<1>11. ~Held(h) /\ h \notin executed
  BY <1>1, <1>9 DEF TasksConserved
<1>a. accepted' = {t \in Tasks : InQueueNext(t)} \cup {t \in Tasks : HeldNext(t)} \cup executed'
  BY <1>1, <1>7, <1>8, <1>9, <1>10 DEF TasksConserved
<1>b. \A t \in Tasks : /\ InQueueNext(t) => ~HeldNext(t) /\ t \notin executed'
                       /\ HeldNext(t) => t \notin executed'
                       /\ t \in fresh' \cup rejected' => t \notin accepted'
  BY <1>7, <1>8, <1>10, <1>11 DEF TasksConserved
<1>c. \A i, j \in 1..Len(tasks') : tasks'[i] = tasks'[j] => i = j
  <2>1. \A i \in 1..Len(tasks') : i \in Nat /\ i + 1 \in 1..Len(tasks)
    BY <1>2
  <2> QED
    BY <1>2, <1>3, <2>1
<1>d. \A u, v \in Workers : wtask'[u] = wtask'[v] /\ wtask'[u] # NoTask => u = v
  BY <1>5, <1>11 DEF TasksConserved, Held
<1>e. \A v \in Workers : wtask'[v] # NoTask <=> wpc'[v] = "run"
  BY <1>1, <1>5, <1>6 DEF TasksConserved
<1> QED
  BY <1>a, <1>b, <1>c, <1>d, <1>e DEF TasksConserved, InQueue, Held

(* WorkerRuns moves the worker's task to the executed ones. *)
LEMMA ConservedRuns ==
  ASSUME PoolTypeOK, TasksConserved, NEW w \in Workers, WorkerRuns(w)
  PROVE  TasksConserved'
<1> DEFINE HeldNext(t) == \E v \in Workers : wtask'[v] = t
<1>1. wtask[w] \in Tasks /\ wtask[w] # NoTask
  BY DEF WorkerRuns, PoolTypeOK, TasksConserved
<1>2. \A v \in Workers : wtask'[v] = IF v = w THEN NoTask ELSE wtask[v]
  BY DEF WorkerRuns, PoolTypeOK
<1>3. \A v \in Workers : wpc'[v] = IF v = w THEN "lock" ELSE wpc[v]
  BY DEF WorkerRuns, PoolTypeOK
<1>4. UNCHANGED <<tasks, fresh, accepted, rejected>> /\ executed' = executed \cup {wtask[w]}
  BY DEF WorkerRuns
<1>5. \A t \in Tasks : HeldNext(t) <=> Held(t) /\ t # wtask[w]
  BY <1>1, <1>2 DEF Held, TasksConserved
<1>6. Held(wtask[w])
  BY DEF Held
<1>a. accepted' = {t \in Tasks : InQueue(t)} \cup {t \in Tasks : HeldNext(t)} \cup executed'
  BY <1>1, <1>4, <1>5, <1>6 DEF TasksConserved
<1>b. \A t \in Tasks : /\ InQueue(t) => ~HeldNext(t) /\ t \notin executed'
                       /\ HeldNext(t) => t \notin executed'
                       /\ t \in fresh' \cup rejected' => t \notin accepted'
  BY <1>4, <1>5, <1>6 DEF TasksConserved
<1>d. \A u, v \in Workers : wtask'[u] = wtask'[v] /\ wtask'[u] # NoTask => u = v
  BY <1>2 DEF TasksConserved
<1>e. \A v \in Workers : wtask'[v] # NoTask <=> wpc'[v] = "run"
  BY <1>2, <1>3 DEF TasksConserved
<1> QED
  BY <1>4, <1>a, <1>b, <1>d, <1>e DEF TasksConserved, InQueue, Held

(* Enqueue puts a task that nobody has offered before at the end of the queue. *)
LEMMA ConservedEnqueue ==
  ASSUME PoolTypeOK, TasksConserved, OfferedOnce,
         NEW c \in Clients, NEW t \in Tasks, Enqueue(c, t)
  PROVE  TasksConserved' /\ OfferedOnce'
<1> DEFINE InQueueNext(x) == \E i \in 1..Len(tasks') : tasks'[i] = x
<1>1. tasks \in Seq(Tasks) /\ tasks' = Append(tasks, t) /\ t \in fresh
  BY DEF Enqueue, PoolTypeOK
<1>2. /\ Len(tasks') = Len(tasks) + 1 /\ Len(tasks) \in Nat
      /\ \A i \in 1..Len(tasks) : tasks'[i] = tasks[i]
      /\ tasks'[Len(tasks) + 1] = t
  BY <1>1
<1>3. \A i \in 1..Len(tasks') : i \in 1..Len(tasks) \/ i = Len(tasks) + 1
  BY <1>2
<1>4. \A x : InQueueNext(x) <=> InQueue(x) \/ x = t
  BY <1>2, <1>3 DEF InQueue
<1>5. /\ UNCHANGED <<wpc, wtask, rejected, executed>>
      /\ fresh' = fresh \ {t} /\ accepted' = accepted \cup {t}
  BY DEF Enqueue
<1>6. t \notin accepted /\ ~InQueue(t) /\ ~Held(t) /\ t \notin executed
  BY <1>1 DEF TasksConserved
<1>7. OfferedOnce' /\ t \notin fresh' \cup rejected'
  BY <1>1, <1>5 DEF OfferedOnce
<1>a. accepted' = {x \in Tasks : InQueueNext(x)} \cup {x \in Tasks : Held(x)} \cup executed'
  BY <1>4, <1>5 DEF TasksConserved
<1>b. \A x \in Tasks : /\ InQueueNext(x) => ~Held(x) /\ x \notin executed'
                       /\ Held(x) => x \notin executed'
                       /\ x \in fresh' \cup rejected' => x \notin accepted'
  BY <1>4, <1>5, <1>6, <1>7 DEF TasksConserved
<1>c. \A i, j \in 1..Len(tasks') : tasks'[i] = tasks'[j] => i = j
  <2>1. \A i, j \in 1..Len(tasks) : tasks[i] = tasks[j] => i = j
    BY DEF TasksConserved
  <2>2. \A i \in 1..Len(tasks) : tasks[i] # t
    BY <1>6 DEF InQueue
  <2> QED
    BY <1>2, <1>3, <2>1, <2>2
<1> QED
  BY <1>5, <1>7, <1>a, <1>b, <1>c DEF TasksConserved, InQueue, Held

(* A refused task goes nowhere. *)
LEMMA ConservedThrows ==
  ASSUME PoolTypeOK, TasksConserved, OfferedOnce,
         NEW c \in Clients, NEW t \in Tasks, EnqueueThrows(c, t)
  PROVE  TasksConserved' /\ OfferedOnce'
  BY DEF EnqueueThrows, TasksConserved, OfferedOnce, InQueue, Held

(* Every step of workers, clients and destructor keeps the invariant. *)
LEMMA NextTaskInv == TaskInv /\ [PoolNext]_poolVars => TaskInv'
<1> SUFFICES ASSUME TaskInv, [PoolNext]_poolVars PROVE TaskInv'
  OBVIOUS
<1>1. CASE UNCHANGED poolVars
  BY <1>1 DEF poolVars, TaskInv, PoolTypeOK, TasksConserved, OfferedOnce, DestructorInv,
              NoTaskStranded, InQueue, Held
<1>2. CASE PoolNext
  <2>1. PoolTypeOK' /\ DestructorInv' /\ NoTaskStranded'
    BY <1>2, NextPoolTypeOK, NextDestructorInv, NextNotStranded DEF TaskInv
  <2>2. ASSUME NEW w \in Workers, WorkerWaits(w) \/ WorkerExits(w) \/ SpuriousWake(w)
        PROVE  TasksConserved' /\ OfferedOnce'
    <3>1. /\ UNCHANGED <<tasks, wtask, fresh, accepted, rejected, executed>>
          /\ \A v \in Workers : wpc'[v] = "run" <=> wpc[v] = "run"
      BY <2>2 DEF WorkerWaits, WorkerExits, SpuriousWake, TaskInv, PoolTypeOK
    <3> QED
      BY <3>1, ConservedIdle DEF TaskInv, OfferedOnce
  <2>3. ASSUME NEW w \in Workers, WorkerTakes(w) \/ WorkerRuns(w)
        PROVE  TasksConserved' /\ OfferedOnce'
    <3>1. UNCHANGED <<fresh, rejected>>
      BY <2>3 DEF WorkerTakes, WorkerRuns
    <3> QED
      BY <2>3, <3>1, ConservedTakes, ConservedRuns DEF TaskInv, OfferedOnce
  <2>4. ASSUME NEW c \in Clients, NotifyOne(c)
        PROVE  TasksConserved' /\ OfferedOnce'
    <3>1. UNCHANGED <<tasks, wtask, fresh, accepted, rejected, executed>>
      BY <2>4 DEF NotifyOne
    <3>2. \A v \in Workers : wpc'[v] = wpc[v] \/ (wpc[v] = "wait" /\ wpc'[v] = "lock")
      BY <2>4 DEF NotifyOne, TaskInv, PoolTypeOK
    <3> QED
      BY <3>1, <3>2, ConservedIdle DEF TaskInv, OfferedOnce
  <2>5. ASSUME NEW c \in Clients, NEW t \in Tasks, Enqueue(c, t) \/ EnqueueThrows(c, t)
        PROVE  TasksConserved' /\ OfferedOnce'
    BY <2>5, ConservedEnqueue, ConservedThrows DEF TaskInv
  <2>6. CASE DestructorStops \/ DestructorNotifies \/ DestructorJoins
    <3>1. UNCHANGED <<tasks, wtask, fresh, accepted, rejected, executed>>
      BY <2>6 DEF DestructorStops, DestructorNotifies, DestructorJoins
    <3>2. \A v \in Workers : wpc'[v] = "run" <=> wpc[v] = "run"
      BY <2>6 DEF DestructorStops, DestructorNotifies, DestructorJoins, TaskInv, PoolTypeOK
    <3>3. TasksConserved'
      BY <3>1, <3>2, ConservedIdle DEF TaskInv
    <3> QED
      BY <2>1, <3>1, <3>3 DEF TaskInv, OfferedOnce
  <2> QED
    BY <1>2, <2>1, <2>2, <2>3, <2>4, <2>5, <2>6 DEF PoolNext, WorkerStep, TaskInv
<1> QED
  BY <1>1, <1>2

(* The invariant holds in every reachable state of the pool. *)
LEMMA TaskInvariant == PoolSpec => []TaskInv
  BY InitTaskInv, NextTaskInv, PTL DEF PoolSpec

-------------------------------------------------------------------------------
(* What is proved of the pool.                                               *)

(* Workers, enqueue and the destructor keep the type of the pool's state. *)
THEOREM TasksTypeCorrect == PoolSpec => []PoolTypeOK
  BY TaskInvariant, PTL DEF TaskInv

(* An accepted task is queued once, held by one worker or executed, and never
   two of these (the workers' loop and enqueue). *)
THEOREM TasksNeverLost == PoolSpec => []TasksConserved
  BY TaskInvariant, PTL DEF TaskInv

(* ~ThreadPool returns only when every accepted task has run.  The pool needs a
   worker: one that is constructed with zero threads keeps its tasks. *)
THEOREM DestructorRunsAll ==
  ASSUME Workers # {}
  PROVE  PoolSpec => []DestroyedMeansAllRun
<1>1. TaskInv => DestroyedMeansAllRun
  <2> SUFFICES ASSUME TaskInv, dpc = "done" PROVE executed = accepted
    BY DEF DestroyedMeansAllRun
  <2>1. \A w \in Workers : wpc[w] = "exit"
    BY DEF TaskInv, DestructorInv
  <2>2. tasks = <<>>
    BY <2>1 DEF TaskInv, DestructorInv
  <2>3. \A t \in Tasks : ~InQueue(t)
    BY <2>2 DEF InQueue
  <2>4. \A t \in Tasks : ~Held(t)
    BY <2>1 DEF Held, TaskInv, TasksConserved
  <2> QED
    BY <2>3, <2>4 DEF TaskInv, TasksConserved
<1> QED
  BY <1>1, TaskInvariant, PTL

(* The notify_one that follows the unlock in enqueue is enough: no task waits in
   the queue while every worker sleeps and nobody is about to notify. *)
THEOREM NotifyReachesTask == PoolSpec => []NoTaskStranded
  BY TaskInvariant, PTL DEF TaskInv

-------------------------------------------------------------------------------
(* SqlConnPool.                                                              *)

(* A destroyed pool has no user inside GetConn or FreeConn. *)
QuietWhenClosed == ~alive => \A u \in Users : upc[u] = "idle"

HeldByUser(c) == \E u \in At("hold") : sql_[u] = c

(* No connection is lost: while the pool is alive each handle that init() opened
   is in the queue or with a user, and ClosePool closes them all. *)
NoHandleLeaks ==
  /\ alive => \A c \in opened : Queued(c) \/ HeldByUser(c)
  /\ ~alive => opened \subseteq closed

(* The inductive invariant. *)
HandleInv ==
  /\ TypeOK
  /\ QuietWhenClosed
  /\ PermitsMatchQueue
  /\ ExclusiveHandles
  /\ NoHandleLeaks

USE UsersAssumption, MaxConnAssumption

-------------------------------------------------------------------------------
(* Users that enter and leave a state.                                       *)

(* The counts of PermitsMatchQueue are natural numbers. *)
LEMMA AtFinite ==
  ASSUME NEW s
  PROVE  IsFiniteSet(At(s)) /\ Cardinality(At(s)) \in Nat
<1>1. At(s) \in SUBSET Users
  BY DEF At
<1>2. IsFiniteSet(At(s))
  BY <1>1, FS_Subset
<1> QED
  BY <1>2, FS_CardinalityType

(* One user moves from one state to another: the first count goes down by one,
   the second goes up by one, the others stay. *)
LEMMA MoveCounts ==
  ASSUME TypeOK, NEW u \in Users, NEW f \in UserStates, NEW t \in UserStates,
         upc[u] = f, f # t, upc' = [upc EXCEPT ![u] = t]
  PROVE  /\ Cardinality(At(t)') = Cardinality(At(t)) + 1
         /\ Cardinality(At(f)') = Cardinality(At(f)) - 1
         /\ \A s : s \notin {f, t} => {v \in Users : upc'[v] = s} = At(s)
<1>0. \A v \in Users : upc'[v] = IF v = u THEN t ELSE upc[v]
  BY DEF TypeOK
<1>1. At(t)' = At(t) \cup {u} /\ u \notin At(t)
  BY <1>0 DEF At
<1>2. At(f)' = At(f) \ {u} /\ u \in At(f)
  BY <1>0 DEF At
<1>3. \A s : s \notin {f, t} => {v \in Users : upc'[v] = s} = At(s)
  BY <1>0 DEF At
<1>4. Cardinality(At(t)') = Cardinality(At(t)) + 1
  BY <1>1, AtFinite, FS_AddElement
<1>5. Cardinality(At(f)') = Cardinality(At(f)) - 1
  BY <1>2, AtFinite, FS_RemoveElement, ZenonT(40)
<1> QED
  BY <1>3, <1>4, <1>5

(* A user in a state makes its count positive. *)
LEMMA AtPositive ==
  ASSUME NEW u \in Users
  PROVE  Cardinality(At(upc[u])) \in Nat \ {0}
<1>1. u \in At(upc[u])
  BY DEF At
<1> QED
  BY <1>1, AtFinite, FS_EmptySet

-------------------------------------------------------------------------------
(* The inductive invariant, one conjunct at a time.                          *)

(* init() establishes the invariant, whichever connections it could open. *)
LEMMA InitHandleInv == Init => HandleInv
<1> SUFFICES ASSUME Init PROVE HandleInv
  OBVIOUS
<1>1. conn_que_ \in Seq(Conns \cup {NULL}) /\ Len(conn_que_) = MAX_CONN_
  BY DEF Init, Conns
<1>2. TypeOK
  BY <1>1 DEF Init, TypeOK, UserStates
<1>3. QuietWhenClosed
  BY DEF Init, QuietWhenClosed
<1>4. At("pop") = {} /\ At("post") = {} /\ At("hold") = {}
  BY DEF Init, At
<1>5. PermitsMatchQueue
  <2>1. Cardinality(At("pop")) = 0 /\ Cardinality(At("post")) = 0
    BY <1>4, FS_EmptySet
  <2> QED
    BY <1>1, <2>1 DEF Init, PermitsMatchQueue
<1>6. ExclusiveHandles
  BY <1>1, <1>4 DEF Init, ExclusiveHandles, Conns, NULL
<1>7. NoHandleLeaks
  BY <1>1 DEF Init, NoHandleLeaks, Queued, Conns
<1> QED
  BY <1>2, <1>3, <1>5, <1>6, <1>7 DEF HandleInv

(* The steps of one user keep the types. *)
LEMMA UserTypeOK ==
  ASSUME TypeOK, NEW u \in Users,
         \/ GetConnEmpty(u) \/ GetConnBegin(u) \/ SemWait(u)
         \/ Pop(u) \/ FreePush(u) \/ FreePost(u)
  PROVE  TypeOK'
<1>1. CASE GetConnEmpty(u)
  BY <1>1 DEF TypeOK, GetConnEmpty
<1>2. CASE GetConnBegin(u)
  BY <1>2 DEF TypeOK, GetConnBegin, UserStates
<1>3. CASE SemWait(u)
  BY <1>3 DEF TypeOK, SemWait, UserStates
<1>4. CASE Pop(u)
  BY <1>4 DEF TypeOK, Pop, UserStates
<1>5. CASE FreePush(u)
  BY <1>5 DEF TypeOK, FreePush, UserStates
<1>6. CASE FreePost(u)
  BY <1>6 DEF TypeOK, FreePost, UserStates
<1> QED
  BY <1>1, <1>2, <1>3, <1>4, <1>5, <1>6

(* Permits and queue stay in step: SemWait and FreePost move a permit between
   the semaphore and a user, Pop and FreePush use one up or prepare one. *)
LEMMA UserPermits ==
  ASSUME TypeOK, PermitsMatchQueue, NEW u \in Users,
         \/ GetConnEmpty(u) \/ GetConnBegin(u) \/ SemWait(u)
         \/ Pop(u) \/ FreePush(u) \/ FreePost(u)
  PROVE  PermitsMatchQueue'
<1> DEFINE N(s) == Cardinality(At(s))
           M(s) == Cardinality({v \in Users : upc'[v] = s})
<1>a. M("pop") = N("pop")' /\ M("post") = N("post")'
  BY DEF At
<1>b. N("pop") \in Nat /\ N("post") \in Nat
  BY AtFinite
<1>c. Len(conn_que_) \in Nat /\ sem_id_ \in Nat
  BY DEF TypeOK
<1>1. CASE GetConnEmpty(u)
  <2>1. N("pop")' = N("pop") /\ N("post")' = N("post")
    BY <1>1 DEF GetConnEmpty, At
  <2> QED
    BY <1>1, <2>1 DEF GetConnEmpty, PermitsMatchQueue
<1>2. CASE GetConnBegin(u)
  <2>1. M("pop") = N("pop") /\ M("post") = N("post")
    BY <1>2, MoveCounts DEF GetConnBegin, UserStates
  <2> QED
    BY <1>2, <1>a, <2>1 DEF GetConnBegin, PermitsMatchQueue
<1>3. CASE SemWait(u)
  <2>1. N("pop")' = N("pop") + 1 /\ M("post") = N("post")
    BY <1>3, MoveCounts DEF SemWait, UserStates
  <2> QED
    BY <1>3, <1>a, <1>b, <1>c, <2>1 DEF SemWait, PermitsMatchQueue
<1>4. CASE Pop(u)
  <2>1. N("pop")' = N("pop") - 1 /\ M("post") = N("post")
    BY <1>4, MoveCounts DEF Pop, UserStates
  <2>2. Len(conn_que_') = Len(conn_que_) - 1
    BY <1>4 DEF Pop, TypeOK
  <2> QED
    BY <1>4, <1>a, <1>b, <1>c, <2>1, <2>2 DEF Pop, PermitsMatchQueue
<1>5. CASE FreePush(u)
  <2>1. M("pop") = N("pop") /\ N("post")' = N("post") + 1
    BY <1>5, MoveCounts DEF FreePush, UserStates
  <2>2. Len(conn_que_') = Len(conn_que_) + 1
    BY <1>5 DEF FreePush, TypeOK
  <2>3. sem_id_' = sem_id_ /\ alive' = alive
    BY <1>5 DEF FreePush
  <2> QED
    BY <1>a, <1>b, <1>c, <2>1, <2>2, <2>3 DEF PermitsMatchQueue
<1>6. CASE FreePost(u)
  <2>1. M("pop") = N("pop") /\ N("post")' = N("post") - 1
    BY <1>6, MoveCounts DEF FreePost, UserStates
  <2> QED
    BY <1>6, <1>a, <1>b, <1>c, <2>1 DEF FreePost, PermitsMatchQueue
<1> QED
  BY <1>1, <1>2, <1>3, <1>4, <1>5, <1>6

(* A handle stays with one owner: Pop takes it out of the queue as it hands it
   to the user, FreePush takes it from the user as it queues it. *)
LEMMA UserExclusive ==
  ASSUME TypeOK, ExclusiveHandles, NEW u \in Users,
         \/ GetConnEmpty(u) \/ GetConnBegin(u) \/ SemWait(u)
         \/ Pop(u) \/ FreePush(u) \/ FreePost(u)
  PROVE  ExclusiveHandles'
<1> DEFINE QueuedNext(c) == \E i \in 1..Len(conn_que_') : conn_que_'[i] = c
<1>0. \A v \in At("hold") : sql_[v] # NULL /\ ~Queued(sql_[v])
  BY DEF ExclusiveHandles
<1>1. CASE GetConnEmpty(u)
  <2>1. At("hold")' = At("hold") /\ u \notin At("hold")
    BY <1>1 DEF GetConnEmpty, At
  <2>2. \A v \in At("hold") : sql_'[v] = sql_[v]
    BY <1>1, <2>1 DEF GetConnEmpty, TypeOK, At
  <2> QED
    BY <1>1, <2>1, <2>2 DEF GetConnEmpty, ExclusiveHandles, Queued
<1>2. CASE GetConnBegin(u) \/ SemWait(u) \/ FreePost(u)
  <2>1. At("hold")' = At("hold") /\ conn_que_' = conn_que_ /\ sql_' = sql_
    BY <1>2 DEF GetConnBegin, SemWait, FreePost, At, TypeOK
  <2> QED
    BY <2>1 DEF ExclusiveHandles, Queued
<1>3. CASE Pop(u)
  <2>1. /\ conn_que_ \in Seq(Conns \cup {NULL}) /\ conn_que_ # <<>>
        /\ conn_que_' = Tail(conn_que_) /\ Head(conn_que_) = conn_que_[1]
    BY <1>3 DEF Pop, TypeOK
  <2>2. /\ Len(conn_que_') = Len(conn_que_) - 1 /\ Len(conn_que_) \in Nat \ {0}
        /\ \A i \in 1..Len(conn_que_') : conn_que_'[i] = conn_que_[i + 1]
    BY <2>1
  <2>3. \A c : QueuedNext(c) => Queued(c)
    BY <2>2 DEF Queued
  <2>4. conn_que_[1] # NULL => ~QueuedNext(conn_que_[1])
    <3>1. \A i, j \in 1..Len(conn_que_) :
            conn_que_[i] = conn_que_[j] /\ conn_que_[i] # NULL => i = j
      BY DEF ExclusiveHandles
    <3>2. \A i \in 1..Len(conn_que_') : i + 1 \in 1..Len(conn_que_) /\ i + 1 # 1
      BY <2>2
    <3> QED
      BY <2>2, <3>1, <3>2
  <2>5. \A v \in At("hold")' : v # u => v \in At("hold") /\ sql_'[v] = sql_[v]
    BY <1>3 DEF Pop, TypeOK, At
  <2>6. u \in At("hold")' => sql_'[u] = conn_que_[1] /\ conn_que_[1] # NULL
    BY <1>3, <2>1 DEF Pop, TypeOK, At
  <2>7. Queued(conn_que_[1])
    BY <2>2 DEF Queued
  <2>8. \A v \in At("hold")' : sql_'[v] # NULL /\ ~QueuedNext(sql_'[v])
    BY <1>0, <2>3, <2>4, <2>5, <2>6
  <2>9. \A v, w \in At("hold")' : sql_'[v] = sql_'[w] => v = w
    <3>1. \A v \in At("hold")' : v # u /\ u \in At("hold")' => sql_'[v] # sql_'[u]
      BY <1>0, <2>5, <2>6, <2>7
    <3>2. \A v, w \in At("hold") : sql_[v] = sql_[w] => v = w
      BY DEF ExclusiveHandles
    <3> QED
      BY <2>5, <3>1, <3>2
  <2>10. \A i, j \in 1..Len(conn_que_') :
           conn_que_'[i] = conn_que_'[j] /\ conn_que_'[i] # NULL => i = j
    <3>1. \A i, j \in 1..Len(conn_que_) :
            conn_que_[i] = conn_que_[j] /\ conn_que_[i] # NULL => i = j
      BY DEF ExclusiveHandles
    <3>2. \A i \in 1..Len(conn_que_') : i \in Nat /\ i + 1 \in 1..Len(conn_que_)
      BY <2>2
    <3> QED
      BY <2>2, <3>1, <3>2
  <2> QED
    BY <2>8, <2>9, <2>10 DEF ExclusiveHandles, Queued
<1>4. CASE FreePush(u)
  <2>1. /\ conn_que_ \in Seq(Conns \cup {NULL}) /\ sql_[u] \in Conns \cup {NULL}
        /\ conn_que_' = Append(conn_que_, sql_[u]) /\ u \in At("hold")
    BY <1>4 DEF FreePush, TypeOK, At
  <2>2. /\ Len(conn_que_') = Len(conn_que_) + 1 /\ Len(conn_que_) \in Nat
        /\ \A i \in 1..Len(conn_que_) : conn_que_'[i] = conn_que_[i]
        /\ conn_que_'[Len(conn_que_) + 1] = sql_[u]
    BY <2>1
  <2>3. \A c : QueuedNext(c) => Queued(c) \/ c = sql_[u]
    BY <2>2 DEF Queued
  <2>4. \A v \in At("hold")' : v \in At("hold") /\ v # u /\ sql_'[v] = sql_[v]
    BY <1>4 DEF FreePush, TypeOK, At
  <2>5. \A v, w \in At("hold") : sql_[v] = sql_[w] => v = w
    BY DEF ExclusiveHandles
  <2>6. \A v \in At("hold")' : sql_'[v] # NULL /\ ~QueuedNext(sql_'[v])
    BY <1>0, <2>1, <2>3, <2>4, <2>5
  <2>7. \A v, w \in At("hold")' : sql_'[v] = sql_'[w] => v = w
    BY <2>4, <2>5
  <2>8. \A i, j \in 1..Len(conn_que_') :
          conn_que_'[i] = conn_que_'[j] /\ conn_que_'[i] # NULL => i = j
    <3>1. \A i, j \in 1..Len(conn_que_) :
            conn_que_[i] = conn_que_[j] /\ conn_que_[i] # NULL => i = j
      BY DEF ExclusiveHandles
    <3>2. \A i \in 1..Len(conn_que_) : conn_que_[i] # sql_[u]
      BY <1>0, <2>1 DEF Queued
    <3>3. \A i \in 1..Len(conn_que_') : i \in 1..Len(conn_que_) \/ i = Len(conn_que_) + 1
      BY <2>2
    <3> QED
      BY <2>2, <3>1, <3>2, <3>3
  <2> QED
    BY <2>6, <2>7, <2>8 DEF ExclusiveHandles, Queued
<1> QED
  BY <1>1, <1>2, <1>3, <1>4

(* A handle that was opened is handed over, never dropped. *)
LEMMA UserKeepsHandles ==
  ASSUME TypeOK, NoHandleLeaks, NEW u \in Users, QuietWhenClosed,
         \/ GetConnEmpty(u) \/ GetConnBegin(u) \/ SemWait(u)
         \/ Pop(u) \/ FreePush(u) \/ FreePost(u)
  PROVE  NoHandleLeaks' /\ QuietWhenClosed'
<1>a. alive /\ alive' /\ opened' = opened /\ closed' = closed
  BY DEF TypeOK, QuietWhenClosed, GetConnEmpty, GetConnBegin, SemWait, Pop, FreePush, FreePost
<1>b. \A c \in opened : Queued(c) \/ HeldByUser(c)
  BY <1>a DEF NoHandleLeaks
<1> SUFFICES ASSUME NEW c \in opened
             PROVE  Queued(c)' \/ HeldByUser(c)'
  BY <1>a DEF NoHandleLeaks, QuietWhenClosed
<1>0. c # NULL
  BY DEF TypeOK, Conns, NULL
<1>1. CASE GetConnEmpty(u)
  BY <1>1, <1>b DEF GetConnEmpty, TypeOK, HeldByUser, At, Queued
<1>2. CASE GetConnBegin(u) \/ SemWait(u) \/ FreePost(u)
  BY <1>2, <1>b DEF GetConnBegin, SemWait, FreePost, TypeOK, HeldByUser, At, Queued
<1>3. CASE Pop(u)
  <2>1. /\ conn_que_ \in Seq(Conns \cup {NULL}) /\ conn_que_ # <<>>
        /\ conn_que_' = Tail(conn_que_) /\ Head(conn_que_) = conn_que_[1]
    BY <1>3 DEF Pop, TypeOK
  <2>2. /\ Len(conn_que_') = Len(conn_que_) - 1 /\ Len(conn_que_) \in Nat \ {0}
        /\ \A i \in 1..Len(conn_que_') : conn_que_'[i] = conn_que_[i + 1]
    BY <2>1
  <2>3. \A v \in At("hold") : v \in At("hold")' /\ sql_'[v] = sql_[v]
    BY <1>3 DEF Pop, TypeOK, At
  <2>4. HeldByUser(c) => HeldByUser(c)'
    BY <2>3 DEF HeldByUser
  <2>5. ASSUME NEW i \in 1..Len(conn_que_), conn_que_[i] = c
        PROVE  Queued(c)' \/ HeldByUser(c)'
    <3>1. CASE i = 1
      <4>1. u \in At("hold")' /\ sql_'[u] = c
        BY <1>0, <1>3, <2>1, <2>5, <3>1 DEF Pop, TypeOK, At
      <4> QED
        BY <4>1 DEF HeldByUser
    <3>2. CASE i # 1
      <4>1. i - 1 \in 1..Len(conn_que_') /\ conn_que_'[i - 1] = c
        BY <2>2, <2>5, <3>2
      <4> QED
        BY <4>1 DEF Queued
    <3> QED
      BY <3>1, <3>2
  <2> QED
    BY <1>b, <2>4, <2>5 DEF Queued
<1>4. CASE FreePush(u)
  <2>1. /\ conn_que_ \in Seq(Conns \cup {NULL}) /\ sql_[u] \in Conns \cup {NULL}
        /\ conn_que_' = Append(conn_que_, sql_[u])
    BY <1>4 DEF FreePush, TypeOK
  <2>2. /\ Len(conn_que_') = Len(conn_que_) + 1 /\ Len(conn_que_) \in Nat
        /\ \A i \in 1..Len(conn_que_) : conn_que_'[i] = conn_que_[i]
        /\ conn_que_'[Len(conn_que_) + 1] = sql_[u]
    BY <2>1
  <2>3. Queued(c) \/ c = sql_[u] => Queued(c)'
    BY <2>2 DEF Queued
  <2>4. \A v \in At("hold") : v # u => v \in At("hold")' /\ sql_'[v] = sql_[v]
    BY <1>4 DEF FreePush, TypeOK, At
  <2> QED
    BY <1>b, <2>3, <2>4 DEF HeldByUser
<1> QED
  BY <1>1, <1>2, <1>3, <1>4

(* ClosePool runs when every user is idle, so that the queue holds every handle. *)
LEMMA CloseInv ==
  ASSUME HandleInv, ClosePool
  PROVE  HandleInv'
<1>1. TypeOK'
  <2>1. conn_que_' \in Seq(Conns \cup {NULL})
    BY DEF ClosePool
  <2>2. closed' \in SUBSET Conns
    BY DEF ClosePool
  <2>3. alive' \in BOOLEAN
    BY DEF ClosePool
  <2> QED
    BY <2>1, <2>2, <2>3 DEF HandleInv, TypeOK, ClosePool
<1>2. QuietWhenClosed' /\ PermitsMatchQueue'
  BY DEF QuietWhenClosed, PermitsMatchQueue, ClosePool
<1>3. At("hold")' = {} /\ At("hold") = {}
  BY DEF ClosePool, At
<1>4. ExclusiveHandles'
  BY <1>3 DEF ExclusiveHandles, ClosePool
<1>5. NoHandleLeaks'
  <2>1. \A c \in opened : Queued(c) /\ c \in Conns
    BY <1>3 DEF HandleInv, NoHandleLeaks, ClosePool, HeldByUser, TypeOK
  <2> QED
    BY <2>1 DEF ClosePool, NoHandleLeaks
<1> QED
  BY <1>1, <1>2, <1>4, <1>5 DEF HandleInv

(* Every step of the pool, and stuttering, keeps the invariant. *)
LEMMA NextHandleInv == HandleInv /\ [Next]_vars => HandleInv'
<1> SUFFICES ASSUME HandleInv, [Next]_vars PROVE HandleInv'
  OBVIOUS
<1>1. CASE UNCHANGED vars
  BY <1>1 DEF vars, HandleInv, TypeOK, QuietWhenClosed, PermitsMatchQueue, At,
              ExclusiveHandles, Queued, NoHandleLeaks, HeldByUser
<1>2. ASSUME NEW u \in Users,
             \/ GetConnEmpty(u) \/ GetConnBegin(u) \/ SemWait(u)
             \/ Pop(u) \/ FreePush(u) \/ FreePost(u)
      PROVE  HandleInv'
  BY <1>2, UserTypeOK, UserPermits, UserExclusive, UserKeepsHandles DEF HandleInv
<1>3. CASE ClosePool
  BY <1>3, CloseInv
<1> QED
  BY <1>1, <1>2, <1>3 DEF Next

(* The invariant holds in every reachable state of the pool. *)
LEMMA HandleInvariant == Spec => []HandleInv
  BY InitHandleInv, NextHandleInv, PTL DEF Spec

-------------------------------------------------------------------------------
(* What is proved of the pool.                                               *)

(* GetConn and FreeConn keep the type of the pool's state. *)
THEOREM TypeCorrect == Spec => []TypeOK
  BY HandleInvariant, PTL DEF HandleInv

(* The semaphore's value and the permits on their way add up to the length of
   the queue, for every number of users and connections (GetConn, FreeConn). *)
THEOREM PermitsAccounted == Spec => []PermitsMatchQueue
  BY HandleInvariant, PTL DEF HandleInv

(* A user whose sem_wait has returned finds a handle when it has the mutex:
   front() and pop() are never called on an empty queue. *)
THEOREM PopNeverEmpty == Spec => []PopFindsHandle
<1>1. HandleInv => PopFindsHandle
  <2> SUFFICES ASSUME HandleInv, NEW u \in Users, upc[u] = "pop"
               PROVE  conn_que_ # <<>>
    BY DEF PopFindsHandle
  <2>1. Cardinality(At("pop")) \in Nat \ {0} /\ Cardinality(At("post")) \in Nat
    BY AtPositive, AtFinite
  <2>2. alive
    BY DEF HandleInv, QuietWhenClosed
  <2>3. Len(conn_que_) > 0
    BY <2>1, <2>2 DEF HandleInv, PermitsMatchQueue, TypeOK
  <2> QED
    BY <2>3
<1> QED
  BY <1>1, HandleInvariant, PTL

(* No two threads ever use one MYSQL handle, and no handle in use is queued
   (GetConn, FreeConn and SqlConnRAII). *)
THEOREM HandlesExclusive == Spec => []ExclusiveHandles
  BY HandleInvariant, PTL DEF HandleInv

(* No handle is lost: while the pool lives it is queued or held, and ClosePool
   closes every handle that init() opened. *)
THEOREM HandlesNotLeaked == Spec => []NoHandleLeaks
  BY HandleInvariant, PTL DEF HandleInv
===============================================================================
