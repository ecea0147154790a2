--------------------------- MODULE MCChatDelivery ---------------------------
(***************************************************************************)
(* ChatDelivery for TLC: one session of two requests, two consumer         *)
(* instances, two faults, so that a crash can meet an instance that is not *)
(* subscribed, or a publication that throws a claim that did not answer.   *)
(***************************************************************************)
EXTENDS ChatDelivery
=============================================================================
