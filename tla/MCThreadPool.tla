----------------------------- MODULE MCThreadPool ------------------------------
(* The instance of ThreadPool that TLC explores. *)
EXTENDS ThreadPool
===============================================================================
