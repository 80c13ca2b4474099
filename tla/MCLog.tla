--------------------------------- MODULE MCLog ---------------------------------
(* The instance of Log that TLC explores: buffers of a few lines. *)
EXTENDS Log
===============================================================================
