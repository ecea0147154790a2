-------------------------- MODULE ConsumerPipeline --------------------------
(***************************************************************************)
(* The path of a message from a RabbitMQ room queue through the delivery   *)
(* callback of a ConsumerWorker: deduplication, write-behind buffer,       *)
(* fan-out, acknowledgement -- on several consumer instances, with lost    *)
(* channels, crashes and an unreliable Redis.                              *)
(*                                                                         *)
(* A worker's channel runs its callbacks one after the other, so a worker  *)
(* is at one step of one message.  Deliveries prefetched but not begun     *)
(* count as ready: they behave alike.  When a channel is lost the broker   *)
(* requeues what it had delivered, while the callback of the old delivery  *)
(* runs on; its ack or nack then has no effect (`stale').                  *)
(*                                                                         *)
(* External: the broker, and the buffer's writers, which WriteBehind       *)
(* models in full and which appear here as Persist.                        *)
(***************************************************************************)
EXTENDS Integers, FiniteSets

CONSTANTS Messages,     \* the messages published to the room queues
          Anonymous,    \* those without a messageId
          Malformed,    \* those whose body is not JSON
          Workers, Instances,
          Host,         \* [Workers -> Instances], the process of a worker
          SharedDedup,  \* claims in Redis, else in each process
          Redis,        \* the holder of shared claims
          Capacity,     \* chat.db.bufferCapacity
          MaxChannelLosses, MaxCrashes, MaxRedisFaults  \* bounds on failures

ASSUME PipelineAssumption ==
    /\ Anonymous \subseteq Messages /\ Malformed \subseteq Messages
    /\ Host \in [Workers -> Instances]
    /\ SharedDedup \in BOOLEAN
    /\ Redis \notin Instances
    /\ Capacity \in Nat \ {0}
    /\ MaxChannelLosses \in Nat /\ MaxCrashes \in Nat /\ MaxRedisFaults \in Nat

VARIABLES ready,      \* messages waiting in the broker
          pc,         \* [Workers -> the next step of the callback]
          msg,        \* [Workers -> the messages (one or none) being handled]
          stale,      \* workers whose delivery the broker has taken back
          claims,     \* [Instances \cup {Redis} -> messages claimed there]
          buffered,   \* [Instances -> messages in the BatchWriteBuffer]
          dropped,    \* messages refused by a full buffer
          settled,    \* messages the writers have seen to
          failures,   \* channel losses, crashes and Redis faults so far
          offers,     \* history: [Messages -> calls of offer, 2 means several]
          bypassed,   \* history: messages whose claim Redis did not answer
          crashed     \* history: messages a crash took out of memory

broker == <<ready, stale>>
worker == <<pc, msg>>
memory == <<buffered, dropped, settled>>
history == <<offers, bypassed, crashed>>
vars == <<broker, worker, claims, memory, failures, history>>

Labels == {"idle", "parse", "claim", "offer", "fanout", "ack", "nack"}

Goto(w, from, to) == pc[w] = from /\ pc' = [pc EXCEPT ![w] = to]

InHand == UNION {msg[w] : w \in Workers}
Unacked == UNION {msg[w] : w \in Workers \ stale}

(***************************************************************************)
(* The delivery callback of ConsumerWorker.registerConsumers               *)
(***************************************************************************)
Deliver(w, m) ==
    /\ m \in ready
    /\ Goto(w, "idle", "parse")
    /\ msg' = [msg EXCEPT ![w] = {m}]
    /\ ready' = ready \ {m}
    /\ UNCHANGED <<stale, claims, memory, failures, history>>

Parse(w) ==
    /\ Goto(w, "parse", IF msg[w] \subseteq Malformed THEN "nack" ELSE "claim")
    /\ UNCHANGED <<broker, msg, claims, memory, failures, history>>

\* Fault: every process keeps its own claims, Redis or not.
ClaimStoreLocal(w) == Host[w]

ClaimStore(w) == IF SharedDedup THEN Redis ELSE Host[w]

\* Fault: the answer of the claim is read the wrong way round.
ClaimFirstMisread(w) ==
    /\ msg[w] \cap (Anonymous \cup claims[ClaimStore(w)]) = {}
    /\ Goto(w, "claim", "ack")
    /\ claims' = [claims EXCEPT ![ClaimStore(w)] = @ \cup msg[w]]
    /\ UNCHANGED <<failures, bypassed>>

\* setIfAbsent (Redis) or putIfAbsent (in memory): the first caller wins.
ClaimFirst(w) ==
    /\ msg[w] \cap (Anonymous \cup claims[ClaimStore(w)]) = {}
    /\ Goto(w, "claim", "offer")
    /\ claims' = [claims EXCEPT ![ClaimStore(w)] = @ \cup msg[w]]
    /\ UNCHANGED <<failures, bypassed>>

\* Fault: a duplicate is rejected instead of acknowledged.
DuplicateNacked(w) ==
    /\ msg[w] \subseteq claims[ClaimStore(w)]
    /\ Goto(w, "claim", "nack")
    /\ UNCHANGED <<claims, failures, bypassed>>

Duplicate(w) ==
    /\ msg[w] \subseteq claims[ClaimStore(w)]
    /\ Goto(w, "claim", "ack")
    /\ UNCHANGED <<claims, failures, bypassed>>

NoMessageId(w) ==
    /\ msg[w] \subseteq Anonymous
    /\ Goto(w, "claim", "offer")
    /\ UNCHANGED <<claims, failures, bypassed>>

\* Redis throws, before or after it has set the key: processing goes on.
RedisFault(w) ==
    /\ SharedDedup
    /\ msg[w] \cap Anonymous = {}
    /\ failures.redis < MaxRedisFaults
    /\ failures' = [failures EXCEPT !.redis = @ + 1]
    /\ Goto(w, "claim", "offer")
    /\ \E set \in {{}, msg[w]} : claims' = [claims EXCEPT ![Redis] = @ \cup set]
    /\ bypassed' = bypassed \cup msg[w]

Claim(w) ==
    /\ ClaimFirst(w) \/ Duplicate(w) \/ NoMessageId(w) \/ RedisFault(w)
    /\ UNCHANGED <<broker, msg, memory, offers, crashed>>

Enqueue(w) == buffered' = [buffered EXCEPT ![Host[w]] = @ \cup msg[w]] /\ UNCHANGED dropped

\* Fault: the capacity is not looked at.
BufferUnbounded(w) == Enqueue(w)

\* Fault: a full buffer refuses a message without counting it.
BufferSilent(w) ==
    \/ Cardinality(buffered[Host[w]]) < Capacity /\ Enqueue(w)
    \/ Cardinality(buffered[Host[w]]) >= Capacity /\ UNCHANGED <<buffered, dropped>>

Buffer(w) ==
    \/ /\ Cardinality(buffered[Host[w]]) < Capacity
       /\ Enqueue(w)
    \/ /\ Cardinality(buffered[Host[w]]) >= Capacity
       /\ dropped' = dropped \cup msg[w]
       /\ UNCHANGED buffered

\* writeBuffer.offer: its result is not looked at.
Offer(w) ==
    /\ Goto(w, "offer", "fanout")
    /\ Buffer(w)
    /\ offers' = [m \in Messages |->
                    IF m \in msg[w] /\ offers[m] < 2 THEN offers[m] + 1 ELSE offers[m]]
    /\ UNCHANGED <<broker, msg, claims, settled, failures, bypassed, crashed>>

\* RoomFanoutPublisher.publish: the broadcast ends normally, or throws because
\* every open session rejected the message; publish catches the exception.
Fanout(w) ==
    /\ Goto(w, "fanout", "ack")
    /\ UNCHANGED <<broker, msg, claims, memory, failures, history>>

Finish(w) == msg' = [msg EXCEPT ![w] = {}] /\ stale' = stale \ {w}

Ack(w) ==
    /\ Goto(w, "ack", "idle")
    /\ Finish(w)
    /\ UNCHANGED <<ready, claims, memory, failures, history>>

\* Fault: basicNack without requeue.
NackDropped(w) ==
    /\ Goto(w, "nack", "idle")
    /\ Finish(w)
    /\ UNCHANGED <<ready, claims, memory, failures, history>>

Nack(w) ==
    /\ Goto(w, "nack", "idle")
    /\ Finish(w)
    /\ ready' = IF w \in stale THEN ready ELSE ready \cup msg[w]
    /\ UNCHANGED <<claims, memory, failures, history>>

Callback(w) == Parse(w) \/ Claim(w) \/ Offer(w) \/ Fanout(w) \/ Ack(w) \/ Nack(w)

(***************************************************************************)
(* A writer takes a message out of the buffer, into a table or onto stderr.*)
(***************************************************************************)
Persist(i, m) ==
    /\ m \in buffered[i]
    /\ buffered' = [buffered EXCEPT ![i] = @ \ {m}]
    /\ settled' = settled \cup {m}
    /\ UNCHANGED <<broker, worker, claims, dropped, failures, history>>

(***************************************************************************)
(* Failures                                                                *)
(***************************************************************************)
LoseChannel(w) ==
    /\ failures.channel < MaxChannelLosses
    /\ failures' = [failures EXCEPT !.channel = @ + 1]
    /\ pc[w] # "idle" /\ w \notin stale
    /\ stale' = stale \cup {w}
    /\ ready' = ready \cup msg[w]
    /\ UNCHANGED <<worker, claims, memory, history>>

\* The process dies and is started again: the broker takes back what was not
\* acknowledged, memory is gone, claims in Redis stay.
Crash(i) ==
    LET killed == {w \in Workers : Host[w] = i}
    IN /\ failures.crash < MaxCrashes
       /\ failures' = [failures EXCEPT !.crash = @ + 1]
       /\ ready' = ready \cup UNION {msg[w] : w \in killed \ stale}
       /\ stale' = stale \ killed
       /\ pc' = [w \in Workers |-> IF w \in killed THEN "idle" ELSE pc[w]]
       /\ msg' = [w \in Workers |-> IF w \in killed THEN {} ELSE msg[w]]
       /\ claims' = [claims EXCEPT ![i] = {}]
       /\ buffered' = [buffered EXCEPT ![i] = {}]
       /\ crashed' = crashed \cup buffered[i]
                       \cup UNION {msg[w] : w \in {v \in killed : pc[v] = "offer"}}
       /\ UNCHANGED <<dropped, settled, offers, bypassed>>

Init ==
    /\ ready = Messages /\ stale = {}
    /\ pc = [w \in Workers |-> "idle"]
    /\ msg = [w \in Workers |-> {}]
    /\ claims = [s \in Instances \cup {Redis} |-> {}]
    /\ buffered = [i \in Instances |-> {}]
    /\ dropped = {} /\ settled = {}
    /\ failures = [channel |-> 0, crash |-> 0, redis |-> 0]
    /\ offers = [m \in Messages |-> 0]
    /\ bypassed = {} /\ crashed = {}

Next ==
    \/ \E w \in Workers : Callback(w) \/ LoseChannel(w) \/ \E m \in Messages : Deliver(w, m)
    \/ \E i \in Instances : Crash(i) \/ \E m \in Messages : Persist(i, m)

\* Dispatch threads and writers run.  The broker offers every ready message to
\* a consumer sooner or later: with a prefetch above one, a message that is
\* requeued for ever does not hold up those behind it.
Fairness ==
    /\ \A w \in Workers : WF_vars(Callback(w))
    /\ \A m \in Messages : SF_vars(\E w \in Workers : Deliver(w, m))
    /\ \A i \in Instances, m \in Messages : WF_vars(Persist(i, m))

Spec == Init /\ [][Next]_vars /\ Fairness

-----------------------------------------------------------------------------
TypeOK ==
    /\ ready \subseteq Messages /\ stale \subseteq Workers
    /\ pc \in [Workers -> Labels]
    /\ msg \in [Workers -> SUBSET Messages]
    /\ claims \in [Instances \cup {Redis} -> SUBSET Messages]
    /\ buffered \in [Instances -> SUBSET Messages]
    /\ \A i \in Instances : Cardinality(buffered[i]) <= Capacity
    /\ dropped \subseteq Messages /\ settled \subseteq Messages
    /\ failures \in [channel : 0 .. MaxChannelLosses, crash : 0 .. MaxCrashes,
                     redis : 0 .. MaxRedisFaults]
    /\ offers \in [Messages -> 0 .. 2]
    /\ bypassed \subseteq Messages /\ crashed \subseteq Messages

InBuffer == UNION {buffered[i] : i \in Instances}

(***************************************************************************)
(* With claims in Redis a message is handed to the buffer, and fanned out, *)
(* at most once across all instances, although lost channels and crashes   *)
(* redeliver it and an old callback may still be running: except when it   *)
(* has no messageId or Redis failed to answer (RedisMessageDeduplicator).  *)
(***************************************************************************)
ProcessedOnce ==
    SharedDedup => \A m \in Messages \ (Anonymous \cup bypassed) : offers[m] <= 1

(***************************************************************************)
(* A message the broker has let go of is in a callback that will offer it, *)
(* in a buffer, seen to by a writer, counted as dropped -- or a crash took *)
(* it out of memory.  Redelivery, duplicates acknowledged while the first  *)
(* callback still runs and stale acks lose nothing else.                   *)
(***************************************************************************)
NothingElseLost ==
    Messages \subseteq ready \cup InHand \cup InBuffer \cup settled \cup dropped \cup crashed

(***************************************************************************)
(* Every parsable message leaves the broker for good: no redelivery loop   *)
(* survives the last failure.                                              *)
(***************************************************************************)
LeavesBroker == \A m \in Messages \ Malformed : <>[](m \notin ready \cup Unacked)

(***************************************************************************)
(* Every parsable message reaches a writer, unless the buffer was full or  *)
(* a crash took it out of memory.                                          *)
(***************************************************************************)
EventuallySettled ==
    \A m \in Messages \ Malformed : <>(m \in settled \cup dropped \cup crashed)

(***************************************************************************)
(* ARCHITECTURE.md:208 -- "at-least-once + dedup = effectively-once": what *)
(* the broker no longer keeps has been processed, or is being processed.   *)
(***************************************************************************)
AtLeastOnce == \A m \in Messages : m \in ready \cup InHand \/ offers[m] > 0

(***************************************************************************)
(* The callbacks, the claims and the broker together implement             *)
(* EffectivelyOnce: whatever the order of redeliveries, stale acks and     *)
(* crashes, the broker and the callbacks let go of a message only when it  *)
(* has been handed to the buffer or a crash has taken it.                  *)
(***************************************************************************)
Once == INSTANCE EffectivelyOnce WITH
            state <- [m \in Messages |-> IF m \in ready \cup InHand THEN "kept" ELSE "gone"],
            times <- offers,
            exempt <- Anonymous \cup bypassed,
            lost <- crashed

ImplementsEffectivelyOnce == Once!OnceSpec
=============================================================================
