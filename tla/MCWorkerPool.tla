---------------------------- MODULE MCWorkerPool ----------------------------
(***************************************************************************)
(* WorkerPool for TLC: an initial worker, at most two at a time, a third   *)
(* worker object so that one may be added while a removed one still ends,  *)
(* one lost connection or refused call.                                    *)
(***************************************************************************)
EXTENDS WorkerPool
=============================================================================
