-------------------------- MODULE MCTcpConnection --------------------------
(* TcpConnection for TLC: messages are model values. *)
EXTENDS TcpConnection, TLC
=============================================================================
