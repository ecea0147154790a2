------------------------- MODULE MCDbCircuitBreaker -------------------------
(***************************************************************************)
(* DbCircuitBreaker for TLC: three writer threads and a circuit that opens *)
(* at the second failure, so that a failure can be counted without opening *)
(* it and a success can fall between two counted failures.                 *)
(***************************************************************************)
EXTENDS DbCircuitBreaker
=============================================================================
