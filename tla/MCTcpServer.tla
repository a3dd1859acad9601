---------------------------- MODULE MCTcpServer ----------------------------
(***************************************************************************)
(* TcpServer for TLC: two contexts, so that the second and every second    *)
(* session share a thread with the acceptor.                               *)
(***************************************************************************)
EXTENDS TcpServer
=============================================================================
