----------------------------- MODULE MCGreeter -----------------------------
(***************************************************************************)
(* Greeter for TLC.  The instances are in the configurations: two handler  *)
(* threads and two calls, or one of each.                                  *)
(***************************************************************************)
EXTENDS Greeter
=============================================================================
