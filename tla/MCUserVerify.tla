----------------------------- MODULE MCUserVerify ------------------------------
(* The instance of UserVerify that TLC explores. *)
EXTENDS UserVerify
===============================================================================
