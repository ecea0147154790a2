-------------------------- MODULE MCQueuePublisher --------------------------
(***************************************************************************)
(* QueuePublisher for TLC. Two threads share two channels, so one thread   *)
(* can make a trial on a closed channel while an open one waits behind it; *)
(* two outages let a trial fail and one outage follow another; the circuit *)
(* opens at the second failure, so a failure can be counted without        *)
(* opening it.                                                             *)
(***************************************************************************)
EXTENDS QueuePublisher
=============================================================================
