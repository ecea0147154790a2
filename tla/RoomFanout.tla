------------------------------ MODULE RoomFanout ------------------------------
(***************************************************************************)
(* From a processed message to the instances' WebSocket clients:           *)
(* RedisRoomFanoutPublisher publishes it on the room's Redis channel, the  *)
(* listener container of every subscribed instance starts a thread for it, *)
(* and the thread broadcasts it (RoomManager models broadcastToRoom).      *)
(* When Redis throws, the publisher broadcasts to its own clients.         *)
(*                                                                         *)
(* External: Redis pub/sub, which keeps nothing for an instance that is    *)
(* not subscribed, and the container's subscriptions.                      *)
(***************************************************************************)
EXTENDS Naturals, FiniteSets

CONSTANTS Instances, Messages,
          MaxFaults    \* bound on Redis faults and crashes

VARIABLES subscribed,  \* instances with a running subscription
          publishing,  \* pairs <<i, m>>: m has been processed on i, publish goes on
          listener,    \* pairs <<i, m>>: a listener thread of i has m
          heard,       \* [Instances \X Messages -> broadcasts, 2 means several]
          faults,      \* Redis faults and crashes so far
          missed,      \* history: pairs <<i, m>> that no listener of i will see
          thrown       \* history: messages whose publication threw

fanoutVars == <<subscribed, publishing, listener, heard, faults, missed, thrown>>

Everywhere(m) == Instances \X {m}
At(i) == {i} \X Messages
Fault == faults < MaxFaults /\ faults' = faults + 1

Broadcast(pair) == heard' = [heard EXCEPT ![pair] = IF @ < 2 THEN @ + 1 ELSE 2]

\* ConsumerWorker calls publish for a message it has handed to the buffer.
Publish(i, m) ==
    /\ publishing' = publishing \cup {<<i, m>>}
    /\ UNCHANGED <<subscribed, listener, heard, faults, missed, thrown>>

Deliver(m) ==
    /\ listener' = listener \cup (subscribed \X {m})
    /\ missed' = missed \cup ((Instances \ subscribed) \X {m})

\* Fault: the publisher's own clients are always served directly.
SendAndBroadcast(i, m) ==
    /\ <<i, m>> \in publishing /\ publishing' = publishing \ {<<i, m>>}
    /\ Deliver(m) /\ Broadcast(<<i, m>>)
    /\ UNCHANGED <<subscribed, faults, thrown>>

\* convertAndSend
Send(i, m) ==
    /\ <<i, m>> \in publishing /\ publishing' = publishing \ {<<i, m>>}
    /\ Deliver(m)
    /\ UNCHANGED <<subscribed, heard, faults, thrown>>

\* Fault: the exception is only logged.
FallBackSilently(i, m) ==
    /\ <<i, m>> \in publishing /\ publishing' = publishing \ {<<i, m>>}
    /\ Fault /\ thrown' = thrown \cup {m}
    /\ \/ Deliver(m)
       \/ missed' = missed \cup (Everywhere(m) \ {<<i, m>>}) /\ UNCHANGED listener
    /\ UNCHANGED <<subscribed, heard>>

\* It throws, after Redis has delivered the message or without: the local
\* clients get it from the publisher.
FallBack(i, m) ==
    /\ <<i, m>> \in publishing /\ publishing' = publishing \ {<<i, m>>}
    /\ Fault /\ thrown' = thrown \cup {m}
    /\ Broadcast(<<i, m>>)
    /\ \/ Deliver(m)
       \/ missed' = missed \cup (Everywhere(m) \ {<<i, m>>}) /\ UNCHANGED listener
    /\ UNCHANGED subscribed

\* RoomFanoutSubscriber.onMessage, on a thread per message: in any order.
OnMessage(i, m) ==
    /\ <<i, m>> \in listener /\ listener' = listener \ {<<i, m>>}
    /\ Broadcast(<<i, m>>)
    /\ UNCHANGED <<subscribed, publishing, faults, missed, thrown>>

Unsubscribe(i) ==
    /\ i \in subscribed /\ subscribed' = subscribed \ {i}
    /\ Fault
    /\ UNCHANGED <<publishing, listener, heard, missed, thrown>>

Resubscribe(i) ==
    /\ i \notin subscribed /\ subscribed' = subscribed \cup {i}
    /\ UNCHANGED <<publishing, listener, heard, faults, missed, thrown>>

\* The process dies and is started again.
CrashFanout(i) ==
    /\ Fault
    /\ publishing' = publishing \ At(i) /\ listener' = listener \ At(i)
    /\ missed' = missed \cup (listener \cap At(i))
    /\ UNCHANGED <<subscribed, heard, thrown>>

FanoutInit ==
    /\ subscribed = Instances /\ publishing = {} /\ listener = {}
    /\ heard = [p \in Instances \X Messages |-> 0]
    /\ faults = 0 /\ missed = {} /\ thrown = {}

-----------------------------------------------------------------------------
FanoutTypeOK ==
    /\ subscribed \subseteq Instances
    /\ publishing \subseteq Instances \X Messages /\ listener \subseteq Instances \X Messages
    /\ heard \in [Instances \X Messages -> 0 .. 2]
    /\ faults \in 0 .. MaxFaults
    /\ missed \subseteq Instances \X Messages /\ thrown \subseteq Messages
=============================================================================
