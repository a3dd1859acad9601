--------------------------- MODULE MCMysqlSession ---------------------------
(***************************************************************************)
(* MysqlSession for TLC; MysqlSession.cfg gives the constants.             *)
(***************************************************************************)
EXTENDS MysqlSession
=============================================================================
