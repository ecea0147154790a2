----------------------------- MODULE ChatDelivery -----------------------------
(***************************************************************************)
(* A message's whole way: a client's request, the room queue, one of the   *)
(* consumer instances, Redis, the clients of every instance.  ChatSession  *)
(* and RoomFanout are the two ends; what lies between is EffectivelyOnce,  *)
(* the specification that ConsumerPipeline implements.                     *)
(***************************************************************************)
EXTENDS ChatSession

CONSTANTS Instances, MaxFaults

ASSUME FaultAssumption == MaxFaults \in Nat

VARIABLES state, times, exempt, lost,
          subscribed, publishing, listener, heard, faults, missed, thrown

Once == INSTANCE EffectivelyOnce
Fanout == INSTANCE RoomFanout

onceVars == <<state, times, exempt, lost>>
fanoutVars == <<subscribed, publishing, listener, heard, faults, missed, thrown>>
vars == <<sessionVars, onceVars, fanoutVars>>

\* A session does something that brings nothing to the broker.
Talk ==
    /\ \/ \E s \in Sessions : Disconnect(s) \/ \E type \in Types : Request(s, type)
       \/ \E m \in Messages : GiveUp(m)
    /\ UNCHANGED <<onceVars, fanoutVars>>

Enqueue(m) ==
    /\ Confirm(m) \/ ArriveLate(m)
    /\ Once!Arrive(m)
    /\ UNCHANGED fanoutVars

\* The delivery callback of a worker of instance i: buffer, then fan-out.
\* Bound: a message that no claim protects is processed again once.
Process(i, m) ==
    /\ times[m] < 2 /\ Once!Process(m)
    /\ Fanout!Publish(i, m)
    /\ UNCHANGED sessionVars

\* Redis does not answer the claim.
Bypass(m) ==
    /\ Once!Exempt(m) /\ Fanout!Fault
    /\ UNCHANGED <<sessionVars, subscribed, publishing, listener, heard, missed, thrown>>

Release(m) ==
    /\ Once!Release(m)
    /\ \A i \in Instances : <<i, m>> \notin publishing
    /\ UNCHANGED <<sessionVars, fanoutVars>>

SendOut(i, m) ==
    /\ Fanout!Send(i, m) \/ Fanout!FallBack(i, m)
    /\ UNCHANGED <<sessionVars, onceVars>>

Listen(i, m) ==
    /\ Fanout!OnMessage(i, m)
    /\ UNCHANGED <<sessionVars, onceVars>>

Subscription(i) ==
    /\ Fanout!Unsubscribe(i) \/ Fanout!Resubscribe(i)
    /\ UNCHANGED <<sessionVars, onceVars>>

\* With instance i go the messages it was publishing, which stay claimed, and
\* perhaps one it had claimed and not yet processed.
Crash(i) ==
    /\ Fanout!CrashFanout(i)
    /\ \E claimed \in {{}} \cup {{m} : m \in {n \in Messages : state[n] = "kept" /\ times[n] = 0}} :
         lost' = lost \cup claimed \cup {m \in Messages : <<i, m>> \in publishing}
    /\ Once!LetGo({m \in lost' : state[m] = "kept"})
    /\ UNCHANGED <<sessionVars, times, exempt>>

Init ==
    /\ SessionInit /\ Fanout!FanoutInit
    /\ state = [m \in Messages |-> "absent"] /\ times = [m \in Messages |-> 0]
    /\ exempt = {} /\ lost = {}

Next ==
    \/ Talk
    \/ \E m \in Messages : Enqueue(m) \/ Bypass(m) \/ Release(m)
    \/ \E i \in Instances : Subscription(i) \/ Crash(i)
    \/ \E i \in Instances, m \in Messages : Process(i, m) \/ SendOut(i, m) \/ Listen(i, m)

\* Broker, consumers and listener threads run; nothing else has to happen.
Work ==
    \E i \in Instances, m \in Messages :
        (times[m] = 0 /\ Process(i, m)) \/ SendOut(i, m) \/ Listen(i, m)

Spec == Init /\ [][Next]_vars /\ WF_vars(Work)

-----------------------------------------------------------------------------
TypeOK ==
    /\ SessionTypeOK /\ Fanout!FanoutTypeOK
    /\ state \in [Messages -> {"absent", "kept", "gone"}] /\ times \in [Messages -> 0 .. 2]
    /\ exempt \subseteq Messages /\ lost \subseteq Messages

(***************************************************************************)
(* An instance broadcasts a message once.  Not twice, although every       *)
(* instance is subscribed, the publishing one too, and falls back on       *)
(* itself: except when the publication threw after Redis had delivered it, *)
(* or no claim protected the message.                                      *)
(***************************************************************************)
NotTwice ==
    \A i \in Instances, m \in Messages \ (thrown \cup exempt) : heard[<<i, m>>] <= 1

(***************************************************************************)
(* And not never: when no instance is publishing a processed message any   *)
(* more, each has broadcast it, has a thread about to, or is known to have *)
(* missed it, unless a crash took the message; and a message the broker    *)
(* let go was processed or taken by a crash.                               *)
(***************************************************************************)
NotForgotten ==
    \A m \in Messages \ lost :
        /\ state[m] = "gone" => times[m] > 0
        /\ times[m] > 0 => \/ \E i \in Instances : <<i, m>> \in publishing
                          \/ \A i \in Instances : \/ heard[<<i, m>>] > 0
                                                 \/ <<i, m>> \in listener \cup missed

\* Once: not twice and not never.
HeardOnce == NotTwice /\ NotForgotten

(***************************************************************************)
(* What a client was told is enqueued reaches the clients of every         *)
(* instance, unless a crash took the message, or the instance was not      *)
(* subscribed when Redis delivered it.                                     *)
(***************************************************************************)
EnqueuedIsHeard ==
    <>[](\A i \in Instances, m \in Messages : reply[m] = "ENQUEUED" =>
            m \in lost \/ heard[<<i, m>>] > 0 \/ <<i, m>> \in missed)
=============================================================================
