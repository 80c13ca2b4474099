----------------------------- MODULE MCSqlConnPool -----------------------------
(* The instance of SqlConnPool that TLC explores. *)
EXTENDS SqlConnPool
===============================================================================
