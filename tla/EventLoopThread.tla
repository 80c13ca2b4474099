---------------------------- MODULE EventLoopThread ----------------------------
(***************************************************************************)
(* EventLoopThread (src/server/eventloopthread.cc): a thread that owns an  *)
(* EventLoop on its stack, composed with the loop itself.  The owner (the  *)
(* thread of the base loop) calls start_loop, uses the loop, and destroys  *)
(* the EventLoopThread; the two threads meet in the atomic pointer loop_   *)
(* and in the loop's own flags.                                            *)
(***************************************************************************)
EXTENDS EventLoop

CONSTANT Owner  \* the caller that owns the EventLoopThread

ASSUME OwnerAssumption == Owner \in Callers

VARIABLES loop_,  \* TRUE iff the atomic pointer loop_ is not null
          tpc,    \* where thread_func_ is
          opc,    \* where the owner is: start_loop, use, ~EventLoopThread
          mayQuit \* the application's choice: a callback may quit its own loop

eltVars == <<loop_, tpc, opc, mayQuit>>
allVars == <<vars, loop_, tpc, opc, mayQuit>>

(* thread_func_: "none" before std::thread, "built" once EventLoop loop is
   constructed and thread_cb_ has run, "looping" after loop_.store(&loop),
   "cleared" after loop_.store(nullptr), "exited" once the function has
   returned and the EventLoop on its stack is destroyed. *)
ThreadStates == {"none", "built", "looping", "cleared", "exited"}
OwnerStates == {"new", "spin", "fetch", "use", "null", "load", "quit", "wakeup",
                "join", "done", "undefined"}

ThreadTypeOK ==
  /\ TypeOK
  /\ loop_ \in BOOLEAN
  /\ tpc \in ThreadStates
  /\ opc \in OwnerStates
  /\ mayQuit \in BOOLEAN

ThreadInit ==
  /\ Init
  /\ loop_ = FALSE
  /\ tpc = "none"
  /\ opc = "new"
  /\ mayQuit \in BOOLEAN

(* The EventLoop on the thread's stack exists. *)
LoopAlive == tpc \in {"built", "looping", "cleared"}

-------------------------------------------------------------------------------
(* thread_func_.                                                             *)

(* Fault: loop_ is published only when loop() has returned. *)
Publish_AfterLoop ==
  /\ tpc = "built"
  /\ tpc' = "looping"
  /\ loop_' = (pc = "stopped")
  /\ UNCHANGED <<vars, opc, mayQuit>>

(* loop_.store(&loop), before loop() is entered. *)
Publish ==
  /\ tpc = "built"
  /\ tpc' = "looping"
  /\ loop_' = TRUE
  /\ UNCHANGED <<vars, opc, mayQuit>>

(* A step of loop() on the thread; a callback may quit its own loop. *)
ThreadLoopStep ==
  /\ tpc = "looping"
  /\ \/ LoopThreadStep
     \/ PollTimeout
     \/ mayQuit /\ Quit(LoopThread)
  /\ UNCHANGED eltVars

(* Fault: the pointer outlives the loop. *)
Unpublish_KeepsPointer ==
  /\ tpc = "looping"
  /\ pc = "stopped"
  /\ tpc' = "cleared"
  /\ UNCHANGED <<vars, loop_, opc, mayQuit>>

(* loop() has returned: loop_.store(nullptr). *)
Unpublish ==
  /\ tpc = "looping"
  /\ pc = "stopped"
  /\ tpc' = "cleared"
  /\ loop_' = FALSE
  /\ UNCHANGED <<vars, opc, mayQuit>>

(* thread_func_ returns and destroys the EventLoop. *)
ThreadExit ==
  /\ tpc = "cleared"
  /\ tpc' = "exited"
  /\ UNCHANGED <<vars, loop_, opc, mayQuit>>

-------------------------------------------------------------------------------
(* The owner.                                                                *)

(* start_loop: create the thread, which constructs its EventLoop. *)
StartLoop ==
  /\ opc = "new"
  /\ opc' = "spin"
  /\ tpc' = "built"
  /\ UNCHANGED <<vars, loop_, mayQuit>>

(* start_loop: while (loop_.load() == nullptr) ends. *)
SpinEnds ==
  /\ opc = "spin"
  /\ loop_
  /\ opc' = "fetch"
  /\ UNCHANGED <<vars, loop_, tpc, mayQuit>>

(* start_loop: loop = loop_.load(), the pointer it returns. *)
Fetch ==
  /\ opc = "fetch"
  /\ opc' = IF loop_ THEN "use" ELSE "null"
  /\ UNCHANGED <<vars, loop_, tpc, mayQuit>>

(* Between start_loop and the destructor the owner hands functors over. *)
OwnerCalls ==
  /\ opc = "use"
  /\ \/ \E f \in Functors : QueueInLoop(Owner, f)
     \/ Wakeup(Owner)
  /\ UNCHANGED eltVars

(* ~EventLoopThread: the first load tests loop_ for null. *)
Destroy ==
  /\ opc \in {"use", "null"}
  /\ callpc[Owner] = "idle"
  /\ opc' = IF loop_ THEN "load" ELSE "join"
  /\ UNCHANGED <<vars, loop_, tpc, mayQuit>>

(* ~EventLoopThread: the second load fetches the pointer that is used; quit()
   on a null pointer is undefined. *)
DestroyLoad ==
  /\ opc = "load"
  /\ opc' = IF loop_ THEN "quit" ELSE "undefined"
  /\ UNCHANGED <<vars, loop_, tpc, mayQuit>>

(* loop->quit(): the flag ... *)
DestroyQuit ==
  /\ opc = "quit"
  /\ LoopAlive
  /\ Quit(Owner)
  /\ opc' = "wakeup"
  /\ UNCHANGED <<loop_, tpc, mayQuit>>

(* ... and the write to the eventfd. *)
DestroyWakeup ==
  /\ opc = "wakeup"
  /\ LoopAlive
  /\ Wakeup(Owner)
  /\ opc' = "join"
  /\ UNCHANGED <<loop_, tpc, mayQuit>>

(* quit_, thread_id_ or wakefd_ of an EventLoop that no longer exists: the
   outcome is undefined, and nothing more is said of the owner. *)
UseDestroyedLoop ==
  /\ opc \in {"quit", "wakeup"}
  /\ ~LoopAlive
  /\ opc' = "undefined"
  /\ UNCHANGED <<vars, loop_, tpc, mayQuit>>

(* thread_.join() returns. *)
Join ==
  /\ opc = "join"
  /\ tpc = "exited"
  /\ opc' = "done"
  /\ UNCHANGED <<vars, loop_, tpc, mayQuit>>

(* The environment of the loop: a descriptor becomes ready. *)
Environment ==
  /\ tpc = "looping"
  /\ IoArrives
  /\ UNCHANGED eltVars

ThreadFunc == Publish \/ ThreadLoopStep \/ Unpublish \/ ThreadExit
OwnerDestroys ==
  DestroyLoad \/ DestroyQuit \/ DestroyWakeup \/ UseDestroyedLoop \/ Join

ThreadNext ==
  \/ ThreadFunc
  \/ StartLoop \/ SpinEnds \/ Fetch \/ OwnerCalls \/ Destroy \/ OwnerDestroys
  \/ Environment

(* Both threads are scheduled.  As in EventLoop nothing is assumed of the
   ten-second poll timeout, of incoming events or of a callback's own quit. *)
ThreadFairness ==
  /\ WF_allVars(Publish \/ Unpublish \/ ThreadExit)
  /\ WF_allVars(tpc = "looping" /\ LoopThreadStep /\ UNCHANGED eltVars)
  /\ WF_allVars(SpinEnds \/ Fetch)
  /\ WF_allVars(OwnerDestroys)
  /\ WF_allVars(OwnerCalls /\ Wakeup(Owner))

ThreadSpec == ThreadInit /\ [][ThreadNext]_allVars /\ ThreadFairness

-------------------------------------------------------------------------------
(* Properties.                                                               *)

(* Whoever reads a non-null loop_ reads the address of a live EventLoop
   (thread_func_, eventloopthread.cc:41-52). *)
PublishedLoopAlive == loop_ => LoopAlive

(* start_loop's spin on loop_ ends and returns the loop, when no callback quits
   the loop from the inside (start_loop, eventloopthread.cc:33-39). *)
StartLoopReturns == (opc = "spin" /\ ~mayQuit) ~> (opc = "use")

(* A destructor that begins once loop() is running stops the loop and ends the
   thread, whatever the loop is doing (~EventLoopThread,
   eventloopthread.cc:12-27). *)
RunningLoopStops ==
  (opc = "load" /\ pc # "idle" /\ ~mayQuit) ~> (tpc = "exited")
===============================================================================
