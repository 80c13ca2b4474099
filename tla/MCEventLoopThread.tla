-------------------------- MODULE MCEventLoopThread ----------------------------
(* The instance of EventLoopThread that TLC explores: the owner is the only
   thread that holds a pointer to the loop. *)
EXTENDS EventLoopThread
===============================================================================
