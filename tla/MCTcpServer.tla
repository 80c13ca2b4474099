------------------------------ MODULE MCTcpServer ------------------------------
(* The instance of TcpServer that TLC explores. *)
EXTENDS TcpServer
===============================================================================
