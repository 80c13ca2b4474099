---------------------------- MODULE MCTcpConnection ----------------------------
(* The instances of TcpConnection that TLC explores. *)
EXTENDS TcpConnection
===============================================================================
