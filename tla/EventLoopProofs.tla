---------------------------- MODULE EventLoopProofs ----------------------------
(***************************************************************************)
(* Proofs about EventLoop, and about the EventLoopThread that owns one, for *)
(* every set of calling threads, every set of functors and every eventfd   *)
(* ceiling.  The theorems before the last section are about EventLoop      *)
(* alone; the last section composes.                                       *)
(***************************************************************************)
EXTENDS EventLoopThread, SequenceTheorems, TLAPS

(* The definitions every step about an action unfolds. *)
USE DEF LoopStep, loopVars, histVars, Threads, Channels, LoopStates

(* Every variable keeps its type, and the eventfd counter its range: the steps
   of loop(), queue_in_loop, run_in_loop, quit and wakeup_ preserve TypeOK. *)
THEOREM TypeCorrect == Spec => []TypeOK
<1>1. Init => TypeOK
  <2> SUFFICES ASSUME Init PROVE TypeOK
    OBVIOUS
  <2>1. /\ wakefd \in 0..EventfdMax
        /\ callpc \in [Threads -> {"idle", "wakeup"}]
    BY EventfdAssumption DEF Init
  <2>2. /\ pc \in LoopStates
        /\ {calling_, quit_, ioReady} \subseteq BOOLEAN
    BY DEF Init
  <2>3. {} \in SUBSET Channels /\ {} \in SUBSET Functors
    OBVIOUS
  <2>4. /\ active \in SUBSET Channels
        /\ fresh \in SUBSET Functors
        /\ direct \in SUBSET Functors
    BY <2>3, Zenon DEF Init
  <2>5. <<>> \in Seq(Functors)
    OBVIOUS
  <2>6. {pending_func_, functors, executed} \subseteq Seq(Functors)
    BY <2>5, Zenon DEF Init
  <2> QED BY <2>1, <2>2, <2>4, <2>6 DEF TypeOK
<1>2. TypeOK /\ [Next]_vars => TypeOK'
  <2> SUFFICES ASSUME TypeOK, [Next]_vars PROVE TypeOK'
    OBVIOUS
  <2> USE EventfdAssumption DEF TypeOK
  <2>1. CASE LoopBegin BY <2>1 DEF LoopBegin
  <2>2. CASE LoopTest BY <2>2 DEF LoopTest
  <2>3. CASE PollReturns BY <2>3 DEF PollReturns, ReadyChannels
  <2>4. CASE HandleWake BY <2>4 DEF HandleWake
  <2>5. CASE HandleIo BY <2>5 DEF HandleIo
  <2>6. CASE PendingBegin BY <2>6 DEF PendingBegin
  <2>7. CASE PendingSwap BY <2>7 DEF PendingSwap
  <2>8. CASE RunFunctor BY <2>8 DEF RunFunctor
  <2>9. CASE PendingEnd BY <2>9 DEF PendingEnd
  <2>10. CASE PollTimeout BY <2>10 DEF PollTimeout
  <2>11. CASE IoArrives BY <2>11 DEF IoArrives
  <2>12. ASSUME NEW t \in Threads, Wakeup(t) PROVE TypeOK'
    BY <2>12 DEF Wakeup
  <2>13. ASSUME NEW t \in Threads, Quit(t) PROVE TypeOK'
    BY <2>13 DEF Quit
  <2>14. ASSUME NEW t \in Threads, NEW f \in Functors, QueueInLoop(t, f)
         PROVE TypeOK'
    BY <2>14 DEF QueueInLoop
  <2>15. ASSUME NEW f \in Functors, RunInLoopDirect(f) PROVE TypeOK'
    BY <2>15 DEF RunInLoopDirect
  <2>16. CASE UNCHANGED vars BY <2>16 DEF vars
  <2> QED BY <2>1, <2>2, <2>3, <2>4, <2>5, <2>6, <2>7, <2>8, <2>9, <2>10,
             <2>11, <2>12, <2>13, <2>14, <2>15, <2>16 DEF Next, LoopThreadStep
<1> QED BY <1>1, <1>2, PTL DEF Spec

(* The wake-up protocol is inductive: no interleaving of the push, the test of
   calling_, the write and the read of the eventfd and the swap leaves a queued
   functor, or a quit, unannounced while the loop sleeps. *)
THEOREM WakeupCorrect == Spec => []WakeupInv
<1>1. Init => WakeupInv
  BY DEF Init, WakeupInv, NoLostQuit
<1>2. TypeOK /\ WakeupInv /\ [Next]_vars => WakeupInv'
  <2> SUFFICES ASSUME TypeOK, WakeupInv, [Next]_vars PROVE WakeupInv'
    OBVIOUS
  <2> USE EventfdAssumption, ThreadsAssumption
      DEF TypeOK, WakeupInv, NoLostQuit, Signalled
  <2>1. CASE LoopBegin BY <2>1 DEF LoopBegin
  <2>2. CASE LoopTest BY <2>2 DEF LoopTest
  <2>3. CASE PollReturns BY <2>3 DEF PollReturns, ReadyChannels
  <2>4. CASE HandleWake BY <2>4 DEF HandleWake
  <2>5. CASE HandleIo BY <2>5 DEF HandleIo
  <2>6. CASE PendingBegin BY <2>6 DEF PendingBegin
  <2>7. CASE PendingSwap BY <2>7 DEF PendingSwap
  <2>8. CASE RunFunctor BY <2>8 DEF RunFunctor
  <2>9. CASE PendingEnd BY <2>9 DEF PendingEnd
  <2>10. CASE PollTimeout BY <2>10 DEF PollTimeout
  <2>11. CASE IoArrives BY <2>11 DEF IoArrives
  <2>12. ASSUME NEW t \in Threads, Wakeup(t) PROVE WakeupInv'
    BY <2>12 DEF Wakeup
  <2>13. ASSUME NEW t \in Threads, Quit(t) PROVE WakeupInv'
    BY <2>13 DEF Quit, CanCall, InCallback
  <2>14. ASSUME NEW t \in Threads, NEW f \in Functors, QueueInLoop(t, f)
         PROVE WakeupInv'
    BY <2>14 DEF QueueInLoop, NeedWakeup, CanCall, InCallback
  <2>15. ASSUME NEW f \in Functors, RunInLoopDirect(f) PROVE WakeupInv'
    BY <2>15 DEF RunInLoopDirect
  <2>16. CASE UNCHANGED vars BY <2>16 DEF vars
  <2> QED BY <2>1, <2>2, <2>3, <2>4, <2>5, <2>6, <2>7, <2>8, <2>9, <2>10,
             <2>11, <2>12, <2>13, <2>14, <2>15, <2>16 DEF Next, LoopThreadStep
<1> QED BY <1>1, <1>2, TypeCorrect, PTL DEF Spec

(* The loop never sleeps on a queued functor that no wake-up announces. *)
THEOREM NoLostWakeupCorrect == Spec => []NoLostWakeup
<1>1. WakeupInv => NoLostWakeup
  BY DEF WakeupInv, NoLostWakeup
<1> QED BY <1>1, WakeupCorrect, PTL

(* A quit() that falls between the test of quit_ and epoll_wait is announced. *)
THEOREM NoLostQuitCorrect == Spec => []NoLostQuit
<1>1. WakeupInv => NoLostQuit
  BY DEF WakeupInv
<1> QED BY <1>1, WakeupCorrect, PTL

-------------------------------------------------------------------------------
(* What the refinement needs of concatenation. *)

(* Pushing onto pending_func_ appends to the abstract queue. *)
LEMMA ConcatAppend ==
  ASSUME NEW S, NEW s \in Seq(S), NEW t \in Seq(S), NEW x \in S
  PROVE  s \o Append(t, x) = Append(s \o t, x)
OBVIOUS

(* Taking the head of the batch takes the head of the abstract queue. *)
LEMMA ConcatHeadTail ==
  ASSUME NEW S, NEW s \in Seq(S), NEW t \in Seq(S), s # <<>>
  PROVE  /\ s \o t # <<>>
         /\ Head(s \o t) = Head(s)
         /\ Tail(s \o t) = Tail(s) \o t
OBVIOUS

(* The event loop implements the abstract queue: every step either hands over,
   runs the oldest queued functor, runs one directly, or leaves the abstract
   queue (the running batch followed by pending_func_) as it is. *)
THEOREM Refinement == Spec => ImplementsFunctorQueue
<1>1. Init => FQ!FQInit
  <2> SUFFICES ASSUME Init PROVE FQ!FQInit
    OBVIOUS
  <2>1. <<>> \o <<>> = <<>>
    OBVIOUS
  <2> QED BY <2>1 DEF Init, FQ!FQInit
<1>2. TypeOK /\ WakeupInv /\ [Next]_vars => [FQ!FQNext]_(FQ!fqVars)
  <2> SUFFICES ASSUME TypeOK, WakeupInv, [Next]_vars
               PROVE  FQ!FQNext \/ UNCHANGED FQ!fqVars
    OBVIOUS
  <2> USE DEF FQ!fqVars
  <2>1. CASE LoopBegin BY <2>1 DEF LoopBegin
  <2>2. CASE LoopTest BY <2>2 DEF LoopTest
  <2>3. CASE PollReturns BY <2>3 DEF PollReturns
  <2>4. CASE HandleWake BY <2>4 DEF HandleWake
  <2>5. CASE HandleIo BY <2>5 DEF HandleIo
  <2>6. CASE PendingBegin BY <2>6 DEF PendingBegin
  <2>7. CASE PendingSwap
    <3>1. functors = <<>>
      BY <2>7 DEF PendingSwap, WakeupInv
    <3>2. pending_func_ \o <<>> = <<>> \o pending_func_
      BY DEF TypeOK
    <3> QED BY <2>7, <3>1, <3>2 DEF PendingSwap
  <2>8. CASE RunFunctor
    <3>1. /\ functors \o pending_func_ # <<>>
          /\ Head(functors \o pending_func_) = Head(functors)
          /\ Tail(functors \o pending_func_) = Tail(functors) \o pending_func_
      BY <2>8, ConcatHeadTail DEF RunFunctor, TypeOK
    <3>2. FQ!RunNext
      BY <2>8, <3>1 DEF RunFunctor, FQ!RunNext
    <3> QED BY <3>2 DEF FQ!FQNext
  <2>9. CASE PendingEnd BY <2>9 DEF PendingEnd
  <2>10. CASE PollTimeout BY <2>10 DEF PollTimeout
  <2>11. CASE IoArrives BY <2>11 DEF IoArrives
  <2>12. ASSUME NEW t \in Threads, Wakeup(t) PROVE UNCHANGED FQ!fqVars
    BY <2>12 DEF Wakeup
  <2>13. ASSUME NEW t \in Threads, Quit(t) PROVE UNCHANGED FQ!fqVars
    BY <2>13 DEF Quit
  <2>14. ASSUME NEW t \in Threads, NEW f \in Functors, QueueInLoop(t, f)
         PROVE FQ!FQNext
    <3>1. functors \o Append(pending_func_, f)
            = Append(functors \o pending_func_, f)
      BY ConcatAppend DEF TypeOK
    <3>2. FQ!Submit(f)
      BY <2>14, <3>1 DEF QueueInLoop, FQ!Submit
    <3> QED BY <3>2 DEF FQ!FQNext
  <2>15. ASSUME NEW f \in Functors, RunInLoopDirect(f) PROVE FQ!FQNext
    <3>1. FQ!RunDirect(f)
      BY <2>15 DEF RunInLoopDirect, FQ!RunDirect
    <3> QED BY <3>1 DEF FQ!FQNext
  <2>16. CASE UNCHANGED vars BY <2>16 DEF vars
  <2> QED BY <2>1, <2>2, <2>3, <2>4, <2>5, <2>6, <2>7, <2>8, <2>9, <2>10,
             <2>11, <2>12, <2>13, <2>14, <2>15, <2>16 DEF Next, LoopThreadStep
<1> QED BY <1>1, <1>2, TypeCorrect, WakeupCorrect, PTL
        DEF Spec, ImplementsFunctorQueue, FQ!FQSpec

-------------------------------------------------------------------------------
(* EventLoopThread: the loop composed with its thread and its owner.         *)

(* The composition adds no step to the loop: whatever the thread and the owner
   do, before, during and after loop(), is a step of EventLoop or leaves its
   variables alone (thread_func_ and ~EventLoopThread, eventloopthread.cc:12-52).
   Every theorem about Spec therefore holds of the thread's loop. *)
THEOREM ThreadImplementsLoop == ThreadSpec => Spec
<1>1. ThreadInit => Init
  BY DEF ThreadInit
<1>2. [ThreadNext]_allVars => [Next]_vars
  <2> SUFFICES ASSUME ThreadNext \/ UNCHANGED allVars
               PROVE  Next \/ UNCHANGED vars
    BY DEF allVars
  <2>1. CASE ThreadFunc
    BY <2>1 DEF ThreadFunc, Publish, ThreadLoopStep, Unpublish, ThreadExit, Next
  <2>2. CASE StartLoop \/ SpinEnds \/ Fetch \/ Destroy
    BY <2>2 DEF StartLoop, SpinEnds, Fetch, Destroy
  <2>3. CASE OwnerCalls
    BY <2>3, OwnerAssumption DEF OwnerCalls, Next
  <2>4. CASE OwnerDestroys
    BY <2>4, OwnerAssumption
       DEF OwnerDestroys, DestroyLoad, DestroyQuit, DestroyWakeup, UseDestroyedLoop, Join, Next
  <2>5. CASE Environment
    BY <2>5 DEF Environment, Next
  <2>6. CASE UNCHANGED allVars
    BY <2>6 DEF allVars
  <2> QED
    BY <2>1, <2>2, <2>3, <2>4, <2>5, <2>6 DEF ThreadNext
<1> QED
  BY <1>1, <1>2, PTL DEF ThreadSpec, Spec

(* The steps of the composition, as far as the owner and the thread go. *)
USE DEF ThreadFunc, Publish, ThreadLoopStep, Unpublish, ThreadExit, StartLoop, SpinEnds,
        Fetch, OwnerCalls, Destroy, OwnerDestroys, DestroyLoad, DestroyQuit,
        DestroyWakeup, UseDestroyedLoop, Join, Environment, eltVars

(* Every variable of the composition keeps its type. *)
THEOREM ThreadTypeCorrect == ThreadSpec => []ThreadTypeOK
<1> DEFINE EltTypeOK == /\ loop_ \in BOOLEAN /\ tpc \in ThreadStates
                        /\ opc \in OwnerStates /\ mayQuit \in BOOLEAN
<1>1. ThreadInit => EltTypeOK
  BY DEF ThreadInit, ThreadStates, OwnerStates
<1>2. EltTypeOK /\ [ThreadNext]_allVars => EltTypeOK'
  <2> SUFFICES ASSUME EltTypeOK, ThreadNext \/ UNCHANGED allVars
               PROVE  EltTypeOK'
    BY DEF allVars
  <2> USE DEF ThreadStates, OwnerStates
  <2>1. CASE ThreadFunc
    BY <2>1
  <2>2. CASE StartLoop \/ SpinEnds \/ Fetch \/ OwnerCalls \/ Destroy \/ Environment
    BY <2>2
  <2>3. CASE OwnerDestroys
    BY <2>3
  <2>4. CASE UNCHANGED allVars
    BY <2>4 DEF allVars
  <2> QED
    BY <2>1, <2>2, <2>3, <2>4 DEF ThreadNext
<1>3. TypeOK /\ EltTypeOK => ThreadTypeOK
  BY DEF ThreadTypeOK
<1> QED
  BY <1>1, <1>2, <1>3, ThreadImplementsLoop, TypeCorrect, PTL DEF ThreadSpec

(* The pointer is published exactly while thread_func_ is inside loop(): stronger
   than PublishedLoopAlive, whose other half is that ThreadExit finds it null. *)
PublishedWhileLooping ==
  /\ loop_ <=> tpc = "looping"
  /\ opc = "new" <=> tpc = "none"

(* While no callback quits the loop, the thread stays inside loop() until the
   owner's own quit(): the flag is down, so loop() cannot have returned. *)
OwnerQuitsOnly ==
  ~mayQuit /\ opc \in {"new", "spin", "fetch", "use", "load", "quit"} =>
     /\ ~quit_ /\ pc # "stopped"
     /\ opc \in {"fetch", "use", "load", "quit"} => loop_
     /\ opc = "spin" => tpc \in {"built", "looping"}

(* start_loop returns a loop, and ~EventLoopThread's two loads of loop_ agree,
   whenever no callback quits the loop from the inside: the destructor never
   calls quit() through a null pointer (eventloopthread.cc:12-27,33-39). *)
LoadsAgree ==
  ~mayQuit => /\ opc # "null"
              /\ opc \in {"fetch", "use", "load", "quit"} => loop_ /\ LoopAlive

(* Whoever reads a non-null loop_ reads the address of a live EventLoop, in every
   interleaving of the thread and its owner. *)
THEOREM PointerAlive == ThreadSpec => []PublishedLoopAlive
<1>1. ThreadInit => PublishedWhileLooping
  BY DEF ThreadInit, PublishedWhileLooping
<1>2. PublishedWhileLooping /\ [ThreadNext]_allVars => PublishedWhileLooping'
  <2> SUFFICES ASSUME PublishedWhileLooping, ThreadNext \/ UNCHANGED allVars
               PROVE  PublishedWhileLooping'
    BY DEF allVars
  <2> USE DEF PublishedWhileLooping
  <2>1. CASE ThreadFunc
    BY <2>1
  <2>2. CASE StartLoop \/ SpinEnds \/ Fetch \/ OwnerCalls \/ Destroy \/ Environment
    BY <2>2
  <2>3. CASE OwnerDestroys
    BY <2>3
  <2>4. CASE UNCHANGED allVars
    BY <2>4 DEF allVars
  <2> QED
    BY <2>1, <2>2, <2>3, <2>4 DEF ThreadNext
<1>3. PublishedWhileLooping => PublishedLoopAlive
  BY DEF PublishedWhileLooping, PublishedLoopAlive, LoopAlive
<1> QED
  BY <1>1, <1>2, <1>3, PTL DEF ThreadSpec

(* Of the two races of start_loop and ~EventLoopThread with a loop() that returns,
   the null pointer needs a callback that quits its own loop: without one the
   pointer stays published from the end of the spin to the owner's quit(). *)
THEOREM OwnerLoadsAgree == ThreadSpec => []LoadsAgree
<1> DEFINE IInv == PublishedWhileLooping /\ OwnerQuitsOnly /\ (~mayQuit => opc # "null")
<1>1. ThreadInit => IInv
  BY DEF ThreadInit, Init, PublishedWhileLooping, OwnerQuitsOnly
<1>2. IInv /\ [ThreadNext]_allVars => IInv'
  <2> SUFFICES ASSUME IInv, ThreadNext \/ UNCHANGED allVars
               PROVE  IInv'
    BY DEF allVars
  <2> USE DEF PublishedWhileLooping, OwnerQuitsOnly
  <2>1. CASE ThreadLoopStep
    <3>1. UNCHANGED eltVars /\ tpc = "looping"
      BY <2>1
    <3>2. ~mayQuit /\ ~quit_ /\ pc # "stopped" => ~quit_' /\ pc' # "stopped"
      BY <2>1 DEF LoopThreadStep, LoopBegin, LoopTest, PollReturns, HandleWake, HandleIo,
                  PendingBegin, PendingSwap, RunFunctor, PendingEnd, Wakeup, PollTimeout
    <3> QED
      BY <3>1, <3>2
  <2>2. CASE Publish \/ Unpublish \/ ThreadExit
    BY <2>2 DEF vars
  <2>3. CASE StartLoop \/ SpinEnds \/ Fetch \/ Destroy
    BY <2>3 DEF vars
  <2>4. CASE OwnerCalls \/ Environment
    BY <2>4 DEF QueueInLoop, Wakeup, IoArrives
  <2>5. CASE OwnerDestroys
    BY <2>5 DEF vars, Quit, Wakeup
  <2>6. CASE UNCHANGED allVars
    BY <2>6 DEF allVars, vars
  <2> QED
    BY <2>1, <2>2, <2>3, <2>4, <2>5, <2>6 DEF ThreadNext
<1>3. IInv => LoadsAgree
  BY DEF PublishedWhileLooping, OwnerQuitsOnly, LoadsAgree, LoopAlive
<1> QED
  BY <1>1, <1>2, <1>3, PTL DEF ThreadSpec

(* The wake-up protocol survives the composition: the thread's loop never sleeps
   on a functor the owner queued, or on the destructor's quit(), unannounced. *)
THEOREM ThreadWakeupCorrect == ThreadSpec => [](NoLostWakeup /\ NoLostQuit)
BY ThreadImplementsLoop, NoLostWakeupCorrect, NoLostQuitCorrect, PTL
===============================================================================
