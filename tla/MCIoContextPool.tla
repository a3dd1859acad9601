-------------------------- MODULE MCIoContextPool --------------------------
(***************************************************************************)
(* IoContextPool for TLC; IoContextPool.cfg gives the constants.           *)
(***************************************************************************)
EXTENDS IoContextPool
=============================================================================
