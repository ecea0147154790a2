------------------------- MODULE MCConsumerPipeline -------------------------
(***************************************************************************)
(* ConsumerPipeline for TLC. Two consumer instances with one worker each,  *)
(* a buffer of one message, and three messages: an ordinary one, one       *)
(* without a messageId and one whose body is not JSON. One lost channel,   *)
(* one crash and one Redis fault may happen, in any order.                 *)
(***************************************************************************)
EXTENDS ConsumerPipeline, TLC

CONSTANTS w1, w2, i1, i2

MCHost == w1 :> i1 @@ w2 :> i2
=============================================================================
