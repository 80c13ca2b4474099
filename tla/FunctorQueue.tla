----------------------------- MODULE FunctorQueue -----------------------------
(***************************************************************************)
(* What EventLoop::queue_in_loop promises to its callers, with no loop, no *)
(* lock and no wake-up in sight: a functor handed over is run by the loop  *)
(* at most once, and the functors run in the order they were handed over.  *)
(* A functor passed to run_in_loop on the loop's own thread never enters   *)
(* the queue: it runs at once, ahead of whatever is queued.                *)
(*                                                                         *)
(* EventLoop.tla is shown to implement this specification.                 *)
(***************************************************************************)
EXTENDS Sequences

CONSTANT Functors

VARIABLES fresh,   \* functors nobody has submitted yet
          todo,    \* submitted and not yet run, oldest first
          done,    \* queued functors that have run, in the order they ran
          direct   \* functors run directly by run_in_loop on the loop thread

fqVars == <<fresh, todo, done, direct>>

FQInit ==
  /\ fresh = Functors
  /\ todo = <<>>
  /\ done = <<>>
  /\ direct = {}

Submit(f) ==
  /\ f \in fresh
  /\ fresh' = fresh \ {f}
  /\ todo' = Append(todo, f)
  /\ UNCHANGED <<done, direct>>

RunNext ==
  /\ todo # <<>>
  /\ done' = Append(done, Head(todo))
  /\ todo' = Tail(todo)
  /\ UNCHANGED <<fresh, direct>>

RunDirect(f) ==
  /\ f \in fresh
  /\ fresh' = fresh \ {f}
  /\ direct' = direct \cup {f}
  /\ UNCHANGED <<todo, done>>

FQNext ==
  \/ \E f \in Functors : Submit(f) \/ RunDirect(f)
  \/ RunNext

FQSpec == FQInit /\ [][FQNext]_fqVars
===============================================================================
