----------------------------- MODULE MCTcpServer -----------------------------
(***************************************************************************)
(* TcpServer on small instances.                                           *)
(***************************************************************************)
EXTENDS TcpServer

CONSTANTS c1, c2, f1, f2
=============================================================================
