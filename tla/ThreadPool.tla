------------------------------ MODULE ThreadPool -------------------------------
(***************************************************************************)
(* ThreadPool (src/threadpool.h): a fixed set of workers, a task queue and *)
(* a stop flag under queue_mutex, and a condition variable.  One atomic    *)
(* step is one critical section of queue_mutex, one notify (they are made  *)
(* after the lock is released) or the body of one task.                    *)
(*                                                                         *)
(* The pool's owner and its clients may run in different threads; a client *)
(* call is enqueue, which throws once stop is set.  The destructor sets    *)
(* stop, notifies all and joins the workers in the order of the vector.    *)
(***************************************************************************)
EXTENDS Naturals, Sequences, FiniteSets

CONSTANTS Workers,  \* the threads the constructor launches
          Clients,  \* the threads that call enqueue
          Tasks,    \* the task objects, each enqueued at most once
          NoTask    \* a worker that holds no task

ASSUME NoTaskAssumption == NoTask \notin Tasks

VARIABLES tasks,      \* the task queue
          stop,
          wpc,        \* per worker: where its loop is
          wtask,      \* per worker: the task it moved out of the queue
          cpc,        \* per client: "notify" between the push and notify_one
          dpc,        \* the destructor: "no", "notify", "join", "done"
          fresh,      \* tasks not offered to enqueue yet
          accepted,   \* history: the tasks enqueue accepted
          rejected,   \* history: the tasks enqueue threw for
          executed    \* history: the tasks that have run

poolVars == <<tasks, stop, wpc, wtask, cpc, dpc, fresh, accepted, rejected, executed>>

(* A worker is at the top of its loop ("lock"), blocked in condition.wait
   ("wait"), running a task ("run"), or has returned ("exit"). *)
WorkerStates == {"lock", "wait", "run", "exit"}

PoolTypeOK ==
  /\ tasks \in Seq(Tasks)
  /\ stop \in BOOLEAN
  /\ wpc \in [Workers -> WorkerStates]
  /\ wtask \in [Workers -> Tasks \cup {NoTask}]
  /\ cpc \in [Clients -> {"idle", "notify"}]
  /\ dpc \in {"no", "notify", "join", "done"}
  /\ fresh \in SUBSET Tasks
  /\ accepted \in SUBSET Tasks
  /\ rejected \in SUBSET Tasks
  /\ executed \in SUBSET Tasks

PoolInit ==
  /\ tasks = <<>>
  /\ stop = FALSE
  /\ wpc = [w \in Workers |-> "lock"]
  /\ wtask = [w \in Workers |-> NoTask]
  /\ cpc = [c \in Clients |-> "idle"]
  /\ dpc = "no"
  /\ fresh = Tasks
  /\ accepted = {}
  /\ rejected = {}
  /\ executed = {}

-------------------------------------------------------------------------------
(* Workers.                                                                  *)

(* The predicate of condition.wait: stop || !tasks.empty(). *)
Ready == stop \/ tasks # <<>>

(* With the lock held and the predicate false, the worker blocks. *)
WorkerWaits(w) ==
  /\ wpc[w] = "lock"
  /\ ~Ready
  /\ wpc' = [wpc EXCEPT ![w] = "wait"]
  /\ UNCHANGED <<tasks, stop, wtask, cpc, dpc, fresh, accepted, rejected, executed>>

(* Fault: return as soon as stop is set. *)
MustExit_OnStop == stop

(* if (stop && tasks.empty()) return; *)
MustExit == stop /\ tasks = <<>>

WorkerExits(w) ==
  /\ wpc[w] = "lock"
  /\ Ready
  /\ MustExit
  /\ wpc' = [wpc EXCEPT ![w] = "exit"]
  /\ UNCHANGED <<tasks, stop, wtask, cpc, dpc, fresh, accepted, rejected, executed>>

(* Fault: the task is read but not popped. *)
WorkerTakes_NoPop(w) ==
  /\ wpc[w] = "lock"
  /\ Ready /\ ~MustExit
  /\ tasks # <<>>
  /\ wtask' = [wtask EXCEPT ![w] = Head(tasks)]
  /\ wpc' = [wpc EXCEPT ![w] = "run"]
  /\ UNCHANGED <<tasks, stop, cpc, dpc, fresh, accepted, rejected, executed>>

(* task = std::move(tasks.front()); tasks.pop(); then the lock is released. *)
WorkerTakes(w) ==
  /\ wpc[w] = "lock"
  /\ Ready /\ ~MustExit
  /\ tasks # <<>>
  /\ wtask' = [wtask EXCEPT ![w] = Head(tasks)]
  /\ tasks' = Tail(tasks)
  /\ wpc' = [wpc EXCEPT ![w] = "run"]
  /\ UNCHANGED <<stop, cpc, dpc, fresh, accepted, rejected, executed>>

(* task(), and back to the top of the loop. *)
WorkerRuns(w) ==
  /\ wpc[w] = "run"
  /\ executed' = executed \cup {wtask[w]}
  /\ wtask' = [wtask EXCEPT ![w] = NoTask]
  /\ wpc' = [wpc EXCEPT ![w] = "lock"]
  /\ UNCHANGED <<tasks, stop, cpc, dpc, fresh, accepted, rejected>>

-------------------------------------------------------------------------------
(* Clients.                                                                  *)

(* if (stop) throw std::runtime_error("enqueue on stopped ThreadPool"); *)
EnqueueAccepts == ~stop

Enqueue(c, t) ==
  /\ cpc[c] = "idle"
  /\ t \in fresh
  /\ EnqueueAccepts
  /\ fresh' = fresh \ {t}
  /\ tasks' = Append(tasks, t)
  /\ accepted' = accepted \cup {t}
  /\ cpc' = [cpc EXCEPT ![c] = "notify"]
  /\ UNCHANGED <<stop, wpc, wtask, dpc, rejected, executed>>

EnqueueThrows(c, t) ==
  /\ cpc[c] = "idle"
  /\ t \in fresh
  /\ ~EnqueueAccepts
  /\ fresh' = fresh \ {t}
  /\ rejected' = rejected \cup {t}
  /\ UNCHANGED <<tasks, stop, wpc, wtask, cpc, dpc, accepted, executed>>

(* Fault: enqueue wakes nobody. *)
NotifyOne_Lost(c) ==
  /\ cpc[c] = "notify"
  /\ cpc' = [cpc EXCEPT ![c] = "idle"]
  /\ UNCHANGED <<tasks, stop, wpc, wtask, dpc, fresh, accepted, rejected, executed>>

(* condition.notify_one() wakes one of the blocked workers, if there is one. *)
NotifyOne(c) ==
  /\ cpc[c] = "notify"
  /\ cpc' = [cpc EXCEPT ![c] = "idle"]
  /\ IF \E w \in Workers : wpc[w] = "wait"
       THEN \E w \in Workers : /\ wpc[w] = "wait"
                               /\ wpc' = [wpc EXCEPT ![w] = "lock"]
       ELSE wpc' = wpc
  /\ UNCHANGED <<tasks, stop, wtask, dpc, fresh, accepted, rejected, executed>>

(* A spurious wake-up of condition.wait, which its predicate absorbs. *)
SpuriousWake(w) ==
  /\ wpc[w] = "wait"
  /\ wpc' = [wpc EXCEPT ![w] = "lock"]
  /\ UNCHANGED <<tasks, stop, wtask, cpc, dpc, fresh, accepted, rejected, executed>>

-------------------------------------------------------------------------------
(* The destructor.                                                           *)

DestructorStops ==
  /\ dpc = "no"
  /\ stop' = TRUE
  /\ dpc' = "notify"
  /\ UNCHANGED <<tasks, wpc, wtask, cpc, fresh, accepted, rejected, executed>>

(* Fault: notify_one instead of notify_all. *)
DestructorNotifies_One ==
  /\ dpc = "notify"
  /\ dpc' = "join"
  /\ \/ \E w \in Workers : /\ wpc[w] = "wait"
                           /\ wpc' = [wpc EXCEPT ![w] = "lock"]
     \/ (\A w \in Workers : wpc[w] # "wait") /\ wpc' = wpc
  /\ UNCHANGED <<tasks, stop, wtask, cpc, fresh, accepted, rejected, executed>>

(* condition.notify_all() *)
DestructorNotifies ==
  /\ dpc = "notify"
  /\ dpc' = "join"
  /\ wpc' = [w \in Workers |-> IF wpc[w] = "wait" THEN "lock" ELSE wpc[w]]
  /\ UNCHANGED <<tasks, stop, wtask, cpc, fresh, accepted, rejected, executed>>

(* Every worker.join() has returned. *)
DestructorJoins ==
  /\ dpc = "join"
  /\ \A w \in Workers : wpc[w] = "exit"
  /\ dpc' = "done"
  /\ UNCHANGED <<tasks, stop, wpc, wtask, cpc, fresh, accepted, rejected, executed>>

WorkerStep(w) == WorkerWaits(w) \/ WorkerExits(w) \/ WorkerTakes(w) \/ WorkerRuns(w)

PoolNext ==
  \/ \E w \in Workers : WorkerStep(w) \/ SpuriousWake(w)
  \/ \E c \in Clients : NotifyOne(c) \/ \E t \in Tasks : Enqueue(c, t) \/ EnqueueThrows(c, t)
  \/ DestructorStops \/ DestructorNotifies \/ DestructorJoins

PoolSpec == PoolInit /\ [][PoolNext]_poolVars

(* Every thread that can run does, and a task returns.  Spurious wake-ups, new
   calls of enqueue and the destruction of the pool are not relied upon. *)
Fairness ==
  /\ \A w \in Workers : WF_poolVars(WorkerStep(w))
  /\ \A c \in Clients : WF_poolVars(NotifyOne(c))
  /\ WF_poolVars(DestructorNotifies \/ DestructorJoins)

FairPoolSpec == PoolSpec /\ Fairness

-------------------------------------------------------------------------------
(* Properties.                                                               *)

InQueue(t) == \E i \in 1..Len(tasks) : tasks[i] = t
Held(t) == \E w \in Workers : wtask[w] = t

(* Every accepted task is in exactly one place: the queue, the hands of one
   worker, or behind it (the constructor's lambda and enqueue). *)
TasksConserved ==
  /\ accepted = {t \in Tasks : InQueue(t)} \cup {t \in Tasks : Held(t)} \cup executed
  /\ \A t \in Tasks : /\ InQueue(t) => ~Held(t) /\ t \notin executed
                      /\ Held(t) => t \notin executed
                      /\ t \in fresh \cup rejected => t \notin accepted
  /\ \A i, j \in 1..Len(tasks) : tasks[i] = tasks[j] => i = j
  /\ \A v, w \in Workers : wtask[v] = wtask[w] /\ wtask[v] # NoTask => v = w
  /\ \A w \in Workers : wtask[w] # NoTask <=> wpc[w] = "run"

(* What the destructor promises: when it returns, every task that enqueue
   accepted has run (threadpool.h:60 "stop=true, the rest of the queue is still
   executed"). *)
DestroyedMeansAllRun == dpc = "done" => executed = accepted

(* Every accepted task eventually runs, with no help from the destructor. *)
AcceptedRuns == \A t \in Tasks : (t \in accepted) ~> (t \in executed)

(* The destructor returns. *)
DestructorReturns == (dpc = "notify") ~> (dpc = "done")
===============================================================================
