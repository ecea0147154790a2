--------------------------- MODULE QueuePublisher ---------------------------
(***************************************************************************)
(* QueuePublisher.publish of server-v2, with its circuit breaker and the   *)
(* ChannelPool behind it, called concurrently by the threads that handle   *)
(* WebSocket messages.  The breaker has no lock, so each access to one of  *)
(* its atomics is an action.  One call of publish by thread t is           *)
(*   guard [cooldown [probe]] serialize borrow publish confirm             *)
(*   then  close reset  or  failed (restamp reopen | count [trip [stamp]]) *)
(*   then  return.                                                         *)
(*                                                                         *)
(* External, modelled from how the code uses it: the broker connection and *)
(* its channels.  While the broker is "slow" confirms are late or negative *)
(* and waitForConfirmsOrDie closes the channel before it throws; while the *)
(* connection is "down" every channel is closed, and the client's recovery *)
(* of the connection reopens them all.  Nothing else reopens a channel.    *)
(*                                                                         *)
(* `cooled' stands for "currentTimeMillis - openedAtMillis >=              *)
(* cooldownMillis".                                                        *)
(***************************************************************************)
EXTENDS Integers, Sequences, FiniteSets

CONSTANTS Threads,           \* threads that call publish
          Channels,          \* the channels of the pool
          None,              \* no channel (null)
          FailureThreshold,  \* chat.circuitBreaker.failureThreshold
          MaxOutages,        \* bound: how often the broker becomes slow or down
          Unserialisable     \* whether some payloads cannot be written as JSON

ASSUME PublisherAssumption ==
    /\ None \notin Channels
    /\ IsFiniteSet(Channels)
    /\ FailureThreshold \in Nat \ {0}
    /\ MaxOutages \in Nat
    /\ Unserialisable \in BOOLEAN

VARIABLES pc,            \* [Threads -> the next step of the thread]
          held,          \* [Threads -> the channel the call has borrowed]
          circuitState,  \* AtomicReference<CircuitState>
          failureCount,  \* AtomicInteger
          cooled,        \* the cooldown since openedAtMillis is over
          pool,          \* ArrayBlockingQueue<Channel>, head first
          open,          \* the channels that are open
          broker,        \* "up", "slow" or "down"
          outages        \* outages so far

circuit == <<circuitState, failureCount, cooled>>
channels == <<pool, held>>
external == <<open, broker, outages>>
vars == <<pc, circuit, channels, external>>

Labels ==
    {"idle", "guard", "cooldown", "probe", "serialize", "borrow", "publish",
     "confirm", "close", "reset", "failed", "restamp", "reopen", "count",
     "trip", "stamp", "return"}

Goto(t, from, to) == pc[t] = from /\ pc' = [pc EXCEPT ![t] = to]

Call(t) ==
    /\ Goto(t, "idle", "guard")
    /\ UNCHANGED <<circuit, channels, external>>

(***************************************************************************)
(* guardCircuit: the call goes on to "serialize" or is rejected ("idle").  *)
(***************************************************************************)
Guard(t) ==
    /\ Goto(t, "guard", CASE circuitState = "CLOSED"    -> "serialize"
                          [] circuitState = "OPEN"      -> "cooldown"
                          [] circuitState = "HALF_OPEN" -> "idle")
    /\ UNCHANGED <<circuit, channels, external>>

\* Fault: the comparison with the cooldown is the wrong way round.
CheckCooldownInverted(t) ==
    /\ Goto(t, "cooldown", IF cooled THEN "idle" ELSE "probe")
    /\ UNCHANGED <<circuit, channels, external>>

CheckCooldown(t) ==
    /\ Goto(t, "cooldown", IF cooled THEN "probe" ELSE "idle")
    /\ UNCHANGED <<circuit, channels, external>>

\* The winner of the compare-and-set makes the trial, a loser is rejected.
Probe(t) ==
    /\ Goto(t, "probe", IF circuitState = "OPEN" THEN "serialize" ELSE "idle")
    /\ circuitState' = IF circuitState = "OPEN" THEN "HALF_OPEN" ELSE circuitState
    /\ UNCHANGED <<failureCount, cooled, channels, external>>

(***************************************************************************)
(* The body of publish                                                     *)
(***************************************************************************)
\* A payload that cannot be written ends the call, and reports nothing to the
\* circuit: the throw is outside the try block that does.
Serialize(t) ==
    /\ \E next \in {"borrow"} \cup (IF Unserialisable THEN {"idle"} ELSE {}) :
         Goto(t, "serialize", next)
    /\ UNCHANGED <<circuit, channels, external>>

\* Fault: the channel is looked at, not taken.
BorrowPeek(t) ==
    /\ pool # <<>>
    /\ Goto(t, "borrow", "publish")
    /\ held' = [held EXCEPT ![t] = Head(pool)]
    /\ UNCHANGED <<pool, circuit, external>>

Borrow(t) ==
    /\ pool # <<>>
    /\ Goto(t, "borrow", "publish")
    /\ held' = [held EXCEPT ![t] = Head(pool)]
    /\ pool' = Tail(pool)
    /\ UNCHANGED <<circuit, external>>

\* basicPublish on a closed channel throws AlreadyClosedException.
Publish(t) ==
    /\ Goto(t, "publish", IF held[t] \in open THEN "confirm" ELSE "failed")
    /\ UNCHANGED <<circuit, channels, external>>

\* waitForConfirmsOrDie(5000) closes the channel when it does not get a confirm.
Confirmed(t) ==
    /\ broker = "up"
    /\ Goto(t, "confirm", "close")
    /\ UNCHANGED open

NotConfirmed(t) ==
    /\ broker = "slow"
    /\ Goto(t, "confirm", "failed")
    /\ open' = open \ {held[t]}

Confirm(t) ==
    /\ Confirmed(t) \/ NotConfirmed(t)
    /\ UNCHANGED <<circuit, channels, broker, outages>>

\* Fault: the reference is cleared before the channel is put back.
ReturnCleared(t) ==
    /\ Goto(t, "return", "idle")
    /\ held' = [held EXCEPT ![t] = None]
    /\ pool' = Append(pool, held'[t])
    /\ UNCHANGED <<circuit, external>>

\* Fault: a closed channel is not put back.
ReturnIfOpen(t) ==
    /\ Goto(t, "return", "idle")
    /\ pool' = IF held[t] \in open THEN Append(pool, held[t]) ELSE pool
    /\ held' = [held EXCEPT ![t] = None]
    /\ UNCHANGED <<circuit, external>>

\* Fault: the pool is a stack.
ReturnOnTop(t) ==
    /\ Goto(t, "return", "idle")
    /\ pool' = <<held[t]>> \o pool
    /\ held' = [held EXCEPT ![t] = None]
    /\ UNCHANGED <<circuit, external>>

\* ChannelPool.returnChannel does not look whether the channel is still open.
Return(t) ==
    /\ Goto(t, "return", "idle")
    /\ pool' = Append(pool, held[t])
    /\ held' = [held EXCEPT ![t] = None]
    /\ UNCHANGED <<circuit, external>>

(***************************************************************************)
(* onPublishSuccess                                                        *)
(***************************************************************************)
Close(t) ==
    /\ Goto(t, "close", "reset")
    /\ circuitState' = "CLOSED"
    /\ UNCHANGED <<failureCount, cooled, channels, external>>

ResetCount(t) ==
    /\ Goto(t, "reset", "return")
    /\ failureCount' = 0
    /\ UNCHANGED <<circuitState, cooled, channels, external>>

(***************************************************************************)
(* onPublishFailure: unlike DbCircuitBreaker it counts failures in an OPEN *)
(* circuit too, and stamps openedAtMillis after it has opened the circuit. *)
(***************************************************************************)
\* Fault: a failed trial leaves the circuit as it is.
FailedTrialUnreported(t) ==
    /\ Goto(t, "failed", IF circuitState = "HALF_OPEN" THEN "return" ELSE "count")
    /\ UNCHANGED <<circuit, channels, external>>

Failed(t) ==
    /\ Goto(t, "failed", IF circuitState = "HALF_OPEN" THEN "restamp" ELSE "count")
    /\ UNCHANGED <<circuit, channels, external>>

Stamp(t) ==
    /\ Goto(t, "restamp", "reopen") \/ Goto(t, "stamp", "return")
    /\ cooled' = FALSE
    /\ UNCHANGED <<circuitState, failureCount, channels, external>>

Reopen(t) ==
    /\ Goto(t, "reopen", "return")
    /\ circuitState' = "OPEN"
    /\ UNCHANGED <<failureCount, cooled, channels, external>>

Count(t) ==
    /\ failureCount' = failureCount + 1
    /\ Goto(t, "count", IF failureCount' >= FailureThreshold THEN "trip" ELSE "return")
    /\ UNCHANGED <<circuitState, cooled, channels, external>>

Trip(t) ==
    /\ Goto(t, "trip", IF circuitState = "CLOSED" THEN "stamp" ELSE "return")
    /\ circuitState' = IF circuitState = "CLOSED" THEN "OPEN" ELSE circuitState
    /\ UNCHANGED <<failureCount, cooled, channels, external>>

Step(t) ==
    \/ Guard(t) \/ CheckCooldown(t) \/ Probe(t)
    \/ Serialize(t) \/ Borrow(t) \/ Publish(t) \/ Confirm(t) \/ Return(t)
    \/ Close(t) \/ ResetCount(t)
    \/ Failed(t) \/ Stamp(t) \/ Reopen(t) \/ Count(t) \/ Trip(t)

(***************************************************************************)
(* Time, and the broker                                                    *)
(***************************************************************************)
Cooldown ==
    /\ ~cooled
    /\ cooled' = TRUE
    /\ UNCHANGED <<pc, circuitState, failureCount, channels, external>>

Outage == outages < MaxOutages /\ outages' = outages + 1

SlowDown ==
    /\ broker = "up"
    /\ Outage
    /\ broker' = "slow"
    /\ UNCHANGED <<pc, circuit, channels, open>>

\* The connection fails: every wait for a confirm ends in an exception.
Disconnect ==
    /\ broker # "down"
    /\ Outage
    /\ broker' = "down"
    /\ open' = {}
    /\ pc' = [t \in Threads |-> IF pc[t] = "confirm" THEN "failed" ELSE pc[t]]
    /\ UNCHANGED <<circuit, channels>>

Recover ==
    /\ broker # "up"
    /\ broker' = "up"
    /\ open' = IF broker = "down" THEN Channels ELSE open
    /\ UNCHANGED <<pc, circuit, channels, outages>>

\* The orders in which the constructor may have filled the pool.
Orders ==
    {s \in [1 .. Cardinality(Channels) -> Channels] :
        /\ \A c \in Channels : \E i \in DOMAIN s : s[i] = c
        /\ \A i, j \in DOMAIN s : s[i] = s[j] => i = j}

Init ==
    /\ pc = [t \in Threads |-> "idle"]
    /\ held = [t \in Threads |-> None]
    /\ circuitState = "CLOSED" /\ failureCount = 0 /\ cooled = TRUE
    /\ pool \in Orders
    /\ open = Channels
    /\ broker = "up" /\ outages = 0

Next ==
    \/ \E t \in Threads : Call(t) \/ Step(t)
    \/ Cooldown
    \/ SlowDown \/ Disconnect \/ Recover

\* A call that has begun goes on; the clock advances; an outage ends.  Nothing
\* obliges a client to send a message.
Fairness ==
    /\ \A t \in Threads : WF_vars(Step(t))
    /\ WF_vars(Cooldown)
    /\ WF_vars(Recover)

Spec == Init /\ [][Next]_vars /\ Fairness

-----------------------------------------------------------------------------
TypeOK ==
    /\ pc \in [Threads -> Labels]
    /\ held \in [Threads -> Channels \cup {None}]
    /\ circuitState \in {"CLOSED", "OPEN", "HALF_OPEN"}
    /\ failureCount \in Nat
    /\ cooled \in BOOLEAN
    /\ pool \in Seq(Channels)
    /\ open \subseteq Channels
    /\ broker \in {"up", "slow", "down"}
    /\ outages \in 0 .. MaxOutages

InPool == {pool[i] : i \in DOMAIN pool}

(***************************************************************************)
(* A channel is used by one thread at a time: what a thread has borrowed   *)
(* is neither in the pool nor borrowed by another, nor pooled twice.       *)
(* Confirms are tracked per channel, so two publishes on one would take    *)
(* each other's confirms (QueuePublisher.publish, ChannelPool).            *)
(***************************************************************************)
ChannelsExclusive ==
    /\ \A i, j \in DOMAIN pool : pool[i] = pool[j] => i = j
    /\ \A t \in Threads : held[t] \notin InPool
    /\ \A t, u \in Threads : held[t] = held[u] /\ held[t] # None => t = u

(***************************************************************************)
(* No failed publish costs the pool a channel, and no idle thread keeps    *)
(* one: every channel is in the pool or with a call that will return it.   *)
(***************************************************************************)
ChannelsAccounted ==
    \A c \in Channels : c \in InPool \/ \E t \in Threads : held[t] = c /\ pc[t] # "idle"

Trial == {"serialize", "borrow", "publish", "confirm", "close", "failed",
          "restamp", "reopen"}

(***************************************************************************)
(* QueuePublisher.java:157 -- "HALF_OPEN: the trial thread is already in   *)
(* flight": a half-open circuit rejects every call, so some call must be   *)
(* on its way to moving the circuit out of HALF_OPEN.                      *)
(***************************************************************************)
TrialInFlight == circuitState = "HALF_OPEN" => \E t \in Threads : pc[t] \in Trial

\* Clients keep sending messages.
Publishing == []<><<\E t \in Threads : Call(t)>>_vars

(***************************************************************************)
(* After the last outage one open channel is enough: trials rotate through *)
(* the pool until they meet it, and the circuit closes again and again.    *)
(***************************************************************************)
ReclosesWithOpenChannel ==
    Publishing /\ <>[](broker = "up" /\ open # {}) => []<>(circuitState = "CLOSED")

(***************************************************************************)
(* With every channel open after the last outage the circuit closes for    *)
(* good, whatever late failures, stale counts and stamps the outage left.  *)
(***************************************************************************)
ClosedForGood ==
    Publishing /\ <>[](broker = "up" /\ open = Channels) => <>[](circuitState = "CLOSED")

(***************************************************************************)
(* QueuePublisher.java:32 -- the three states are there so that a          *)
(* transient RabbitMQ error does not cause "permanent publish downtime":   *)
(* once the broker is well again, the circuit closes again.                *)
(***************************************************************************)
NoPermanentDowntime ==
    Publishing /\ <>[](broker = "up") => []<>(circuitState = "CLOSED")
=============================================================================
