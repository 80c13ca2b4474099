------------------------------ MODULE MCEventLoop ------------------------------
(* The instance of EventLoop that TLC explores: two foreign threads, the loop's
   own thread, and three functors to hand over. *)
EXTENDS EventLoop
===============================================================================
