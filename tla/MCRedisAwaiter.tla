--------------------------- MODULE MCRedisAwaiter ---------------------------
(***************************************************************************)
(* RedisAwaiter for TLC; RedisAwaiter.cfg and RedisVoid.cfg give the       *)
(* constant.                                                               *)
(***************************************************************************)
EXTENDS RedisAwaiter
=============================================================================
