------------------------------- MODULE EventLoop -------------------------------
(***************************************************************************)
(* EventLoop (src/event/eventloop.cc): one thread runs loop(); any thread  *)
(* may hand it functors with queue_in_loop or run_in_loop, or ask it to    *)
(* stop with quit.  Each atomic step is one access to state that several   *)
(* threads share: the mutex-protected pending_func_, the atomic flags      *)
(* quit_ and calling_, and the eventfd wakefd_.                            *)
(*                                                                         *)
(* The application's callbacks are left open: while a callback runs on the *)
(* loop thread it may call queue_in_loop, run_in_loop and quit, any number *)
(* of times.  Functors are names; each one is submitted at most once, so   *)
(* that the history variables identify them.                               *)
(***************************************************************************)
EXTENDS Naturals, Sequences

CONSTANTS LoopThread,  \* the thread that constructed the loop and runs it
          Callers,     \* the other threads that hold a pointer to the loop
          Functors,    \* the callbacks handed to the loop
          EventfdMax   \* ceiling of the eventfd counter (2^64 - 2 in Linux)

ASSUME ThreadsAssumption == LoopThread \notin Callers
ASSUME EventfdAssumption == EventfdMax \in Nat \ {0}

Threads == Callers \cup {LoopThread}

VARIABLES pc,             \* where the loop thread is in loop()
          active,         \* active_channels_ still to be handled
          pending_func_,  \* functors queued, guarded by mtx_
          functors,       \* the batch dopending_func swapped out
          calling_,       \* set while dopending_func runs the batch
          quit_,
          wakefd,         \* counter of the eventfd behind wakefd_
          ioReady,        \* another registered descriptor is ready
          callpc,         \* per thread: "wakeup" between the push and wakeup_
          fresh,          \* functors not submitted yet
          executed,       \* history: queued functors that ran, in order
          direct          \* history: functors run directly by run_in_loop

loopVars == <<pc, active, pending_func_, functors, calling_, quit_>>
histVars == <<fresh, executed, direct>>
vars == <<pc, active, pending_func_, functors, calling_, quit_, wakefd,
          ioReady, callpc, fresh, executed, direct>>

(* The two channels registered with the poller: the loop's own wake_channel_
   and one that stands for every descriptor of the application. *)
Channels == {"wake", "io"}

(* loop(): "idle" before the call, "check" at while (!quit_), "poll" inside
   poller_->poll, "handle" in the loop over active_channels_, "swap" and "run"
   in dopending_func, "stopped" once loop() has returned. *)
LoopStates == {"idle", "check", "poll", "handle", "swap", "run", "stopped"}

TypeOK ==
  /\ pc \in LoopStates
  /\ active \in SUBSET Channels
  /\ pending_func_ \in Seq(Functors)
  /\ functors \in Seq(Functors)
  /\ calling_ \in BOOLEAN
  /\ quit_ \in BOOLEAN
  /\ wakefd \in 0..EventfdMax
  /\ ioReady \in BOOLEAN
  /\ callpc \in [Threads -> {"idle", "wakeup"}]
  /\ fresh \in SUBSET Functors
  /\ executed \in Seq(Functors)
  /\ direct \in SUBSET Functors

Init ==
  /\ pc = "idle"
  /\ active = {}
  /\ pending_func_ = <<>>
  /\ functors = <<>>
  /\ calling_ = FALSE
  /\ quit_ = FALSE
  /\ wakefd = 0
  /\ ioReady = FALSE
  /\ callpc = [t \in Threads |-> "idle"]
  /\ fresh = Functors
  /\ executed = <<>>
  /\ direct = {}

-------------------------------------------------------------------------------
(* Calls into the loop.                                                      *)

(* An application callback is running on the loop thread: the handler of an
   active channel, or the functor at the head of the batch. *)
InCallback ==
  \/ pc = "handle" /\ "io" \in active
  \/ pc = "run" /\ functors # <<>>

(* Thread t can start a call: a caller at any time, the loop thread only from
   inside a callback. *)
CanCall(t) ==
  /\ callpc[t] = "idle"
  /\ t = LoopThread => InCallback

(* Faults: only the calling_ half, or only the other-thread half, of the test. *)
NeedWakeup_OnlyCalling(t) == calling_
NeedWakeup_OnlyOther(t) == t # LoopThread

(* if (!is_in_loop_thread() || calling_) wakeup_(); *)
NeedWakeup(t) == t # LoopThread \/ calling_

(* queue_in_loop: push under the lock, then decide whether to wake the loop. *)
QueueInLoop(t, f) ==
  /\ CanCall(t)
  /\ f \in fresh
  /\ fresh' = fresh \ {f}
  /\ pending_func_' = Append(pending_func_, f)
  /\ callpc' = [callpc EXCEPT ![t] = IF NeedWakeup(t) THEN "wakeup" ELSE "idle"]
  /\ UNCHANGED <<pc, active, functors, calling_, quit_, wakefd, ioReady,
                 executed, direct>>

(* run_in_loop on the loop thread calls the functor in place, before loop() as
   well as from a callback; on any other thread it is QueueInLoop. *)
RunInLoopDirect(f) ==
  /\ callpc[LoopThread] = "idle"
  /\ pc = "idle" \/ InCallback
  /\ f \in fresh
  /\ fresh' = fresh \ {f}
  /\ direct' = direct \cup {f}
  /\ UNCHANGED <<loopVars, wakefd, ioReady, callpc, executed>>

(* Fault: quit() does not wake the loop. *)
Quit_NoWakeup(t) ==
  /\ CanCall(t)
  /\ quit_' = TRUE
  /\ UNCHANGED <<pc, active, pending_func_, functors, calling_, wakefd,
                 ioReady, callpc, histVars>>

(* quit: set the flag, and wake the loop when called from another thread. *)
Quit(t) ==
  /\ CanCall(t)
  /\ quit_' = TRUE
  /\ callpc' = [callpc EXCEPT ![t] = IF t # LoopThread THEN "wakeup" ELSE "idle"]
  /\ UNCHANGED <<pc, active, pending_func_, functors, calling_, wakefd,
                 ioReady, histVars>>

(* wakeup_: write 1 to the eventfd.  At the ceiling the non-blocking write
   fails with EAGAIN, which is logged; the descriptor stays readable. *)
Wakeup(t) ==
  /\ callpc[t] = "wakeup"
  /\ wakefd' = IF wakefd < EventfdMax THEN wakefd + 1 ELSE wakefd
  /\ callpc' = [callpc EXCEPT ![t] = "idle"]
  /\ UNCHANGED <<loopVars, ioReady, histVars>>

-------------------------------------------------------------------------------
(* The loop thread.  It takes no step of loop() while a call it made from a
   callback is still on its way to wakeup_. *)
LoopStep(from, to) ==
  /\ callpc[LoopThread] = "idle"
  /\ pc = from
  /\ pc' = to

(* Entry of loop(): looping_ = true; quit_ = false. *)
LoopBegin ==
  /\ LoopStep("idle", "check")
  /\ quit_' = FALSE
  /\ UNCHANGED <<active, pending_func_, functors, calling_, wakefd, ioReady,
                 callpc, histVars>>

(* Fault: the test of quit_ is made only once the poller has returned. *)
LoopTest_NoTest ==
  /\ LoopStep("check", "poll")
  /\ active' = {}
  /\ UNCHANGED <<pending_func_, functors, calling_, quit_, wakefd, ioReady,
                 callpc, histVars>>

(* while (!quit_): leave loop(), or clear active_channels_ and poll. *)
LoopTest ==
  /\ LoopStep("check", IF quit_ THEN "stopped" ELSE "poll")
  /\ active' = {}
  /\ UNCHANGED <<pending_func_, functors, calling_, quit_, wakefd, ioReady,
                 callpc, histVars>>

ReadyChannels == {c \in Channels : IF c = "wake" THEN wakefd > 0 ELSE ioReady}

(* epoll_wait returns the ready channels, level triggered. *)
PollReturns ==
  /\ LoopStep("poll", "handle")
  /\ ReadyChannels # {}
  /\ active' = ReadyChannels
  /\ UNCHANGED <<pending_func_, functors, calling_, quit_, wakefd, ioReady,
                 callpc, histVars>>

(* epoll_wait times out after PollTimeMs, or is interrupted: no active channel. *)
PollTimeout ==
  /\ LoopStep("poll", "handle")
  /\ ReadyChannels = {}
  /\ UNCHANGED <<active, pending_func_, functors, calling_, quit_, wakefd,
                 ioReady, callpc, histVars>>

(* handle_read_: reading the eventfd resets its counter. *)
HandleWake ==
  /\ LoopStep("handle", "handle")
  /\ "wake" \in active
  /\ active' = active \ {"wake"}
  /\ wakefd' = 0
  /\ UNCHANGED <<pending_func_, functors, calling_, quit_, ioReady, callpc,
                 histVars>>

(* The handler of an application channel returns; it consumed the readiness. *)
HandleIo ==
  /\ LoopStep("handle", "handle")
  /\ "io" \in active
  /\ active' = active \ {"io"}
  /\ ioReady' = FALSE
  /\ UNCHANGED <<pending_func_, functors, calling_, quit_, wakefd, callpc,
                 histVars>>

(* dopending_func: calling_ = true. *)
PendingBegin ==
  /\ LoopStep("handle", "swap")
  /\ active = {}
  /\ calling_' = TRUE
  /\ UNCHANGED <<active, pending_func_, functors, quit_, wakefd, ioReady,
                 callpc, histVars>>

(* Fault: only the first functor is taken over. *)
PendingSwap_Drop ==
  /\ LoopStep("swap", "run")
  /\ functors' = IF pending_func_ = <<>> THEN <<>> ELSE <<Head(pending_func_)>>
  /\ pending_func_' = <<>>
  /\ UNCHANGED <<active, calling_, quit_, wakefd, ioReady, callpc, histVars>>

(* dopending_func: functors.swap(pending_func_) under the lock. *)
PendingSwap ==
  /\ LoopStep("swap", "run")
  /\ functors' = pending_func_
  /\ pending_func_' = functors
  /\ UNCHANGED <<active, calling_, quit_, wakefd, ioReady, callpc, histVars>>

(* dopending_func: the functor at the head of the batch returns. *)
RunFunctor ==
  /\ LoopStep("run", "run")
  /\ functors # <<>>
  /\ executed' = Append(executed, Head(functors))
  /\ functors' = Tail(functors)
  /\ UNCHANGED <<active, pending_func_, calling_, quit_, wakefd, ioReady,
                 callpc, fresh, direct>>

(* dopending_func: calling_ = false, and round the loop again. *)
PendingEnd ==
  /\ LoopStep("run", "check")
  /\ functors = <<>>
  /\ calling_' = FALSE
  /\ UNCHANGED <<active, pending_func_, functors, quit_, wakefd, ioReady,
                 callpc, histVars>>

(* The environment makes a descriptor of the application ready. *)
IoArrives ==
  /\ ~ioReady
  /\ ioReady' = TRUE
  /\ UNCHANGED <<loopVars, wakefd, callpc, histVars>>

LoopThreadStep ==
  \/ LoopBegin \/ LoopTest \/ PollReturns \/ HandleWake \/ HandleIo
  \/ PendingBegin \/ PendingSwap \/ RunFunctor \/ PendingEnd
  \/ Wakeup(LoopThread)

Next ==
  \/ LoopThreadStep
  \/ PollTimeout
  \/ IoArrives
  \/ \E t \in Callers : Wakeup(t)
  \/ \E t \in Threads : Quit(t) \/ \E f \in Functors : QueueInLoop(t, f)
  \/ \E f \in Functors : RunInLoopDirect(f)

Spec == Init /\ [][Next]_vars

(* The scheduler runs every thread that can run, so the loop thread advances
   and a caller that pushed a functor reaches its wakeup_.  Nothing is assumed
   of PollTimeout (progress must not hang on the ten-second timeout), of
   incoming events or of the calls the application makes. *)
Fairness ==
  /\ WF_vars(LoopThreadStep)
  /\ \A t \in Callers : WF_vars(Wakeup(t))

FairSpec == Spec /\ Fairness

-------------------------------------------------------------------------------
(* Properties.                                                               *)

(* A wake-up is on its way to the poller: the eventfd is readable, or a thread
   is about to write to it. *)
Signalled == wakefd > 0 \/ \E t \in Threads : callpc[t] = "wakeup"

(* No lost wake-up: the loop never sleeps in epoll_wait on a queued functor
   that no wake-up announces (queue_in_loop, eventloop.cc:155-162). *)
NoLostWakeup == pc = "poll" /\ pending_func_ # <<>> => Signalled

(* A quit() that falls between the test of quit_ and epoll_wait still wakes the
   loop (quit, eventloop.cc:52-59). *)
NoLostQuit == pc = "poll" /\ quit_ => Signalled

(* The inductive strengthening of the two: outside "handle" and "swap", from
   which the loop reaches the swap before it polls again, every queued functor
   is announced; calling_ is true exactly inside dopending_func; the batch is
   empty outside "run". *)
WakeupInv ==
  /\ pc \notin {"handle", "swap"} /\ pending_func_ # <<>> => Signalled
  /\ NoLostQuit
  /\ calling_ <=> pc \in {"swap", "run"}
  /\ functors # <<>> => pc = "run"

(* Queued functors run once each, in the order of their pushes, whatever the
   interleaving of pushes, swaps and nested calls. *)
FQ == INSTANCE FunctorQueue WITH todo <- functors \o pending_func_,
                                 done <- executed
ImplementsFunctorQueue == FQ!FQSpec

(* Every queued functor is run, unless the loop is told to stop: this relies on
   the wake-ups and never on the poll timeout. *)
QueuedFunctorsRun ==
  \A f \in Functors :
     (\E i \in 1..Len(pending_func_) : pending_func_[i] = f)
       ~> ((\E i \in 1..Len(executed) : executed[i] = f) \/ quit_)

(* A quit() made while loop() is running makes loop() return. *)
QuitStopsLoop == (quit_ /\ pc \notin {"idle", "stopped"}) ~> (pc = "stopped")
===============================================================================
