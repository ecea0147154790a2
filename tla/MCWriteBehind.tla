--------------------------- MODULE MCWriteBehind ----------------------------
(***************************************************************************)
(* WriteBehind for TLC.  Two writers compete for a buffer of one message   *)
(* and for the circuit breaker.  Of the two messages one is too wide for   *)
(* both tables, so that saving, dead-lettering and logging all happen.     *)
(* One retry and a threshold of two let a batch open the circuit by        *)
(* itself.                                                                 *)
(***************************************************************************)
EXTENDS WriteBehind
=============================================================================
