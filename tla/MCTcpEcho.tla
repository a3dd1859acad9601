----------------------------- MODULE MCTcpEcho -----------------------------
(***************************************************************************)
(* TcpEcho for TLC: the smallest buffers that EchoAssumption allows, so    *)
(* that both directions fill up while the reads lag behind.                *)
(***************************************************************************)
EXTENDS TcpEcho
=============================================================================
