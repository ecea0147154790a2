---------------------------- MODULE MCQueryCache ----------------------------
(***************************************************************************)
(* QueryCache for TLC: a message received here or elsewhere, a thread with *)
(* default requests and one with requests of its own, and one failed       *)
(* database call.                                                          *)
(***************************************************************************)
EXTENDS QueryCache
=============================================================================
