----------------------------- MODULE ChatSession -----------------------------
(***************************************************************************)
(* The sending side: ChatWebSocketHandlerV2 keeps a state per WebSocket    *)
(* session, publishes what the state allows to the room's queue and tells  *)
(* the client.  The container handles the requests of a session one after  *)
(* the other.  QueuePublisher models publish in full; here it has its      *)
(* outcomes: confirmed, given up although the broker has the message, or   *)
(* given up with a frame that may still arrive.                            *)
(***************************************************************************)
EXTENDS Naturals, Sequences

CONSTANTS Sessions,
          MaxRequests   \* bound on the requests of a session

ASSUME SessionAssumption == MaxRequests \in Nat

Messages == Sessions \X (1 .. MaxRequests)

VARIABLES chatState,  \* [Sessions -> the attribute SESSION_STATE_KEY]
          open,       \* sessions whose connection is open
          sent,       \* [Sessions -> number of requests so far]
          handling,   \* [Sessions -> the messages (one or none) in publish]
          kind,       \* [Messages -> messageType of an accepted request]
          reply,      \* [Messages -> what the client was told]
          queue,      \* history: the room queue, in the order of arrival
          late        \* messages whose frame may arrive after publish gave up

sessionVars == <<chatState, open, sent, handling, kind, reply, queue, late>>

Types == {"JOIN", "TEXT", "LEAVE", "other"}

Allows(state, type) == \/ type = "JOIN" /\ state = "NOT_JOINED"
                       \/ type \in {"TEXT", "LEAVE"} /\ state = "JOINED"

\* Fault: LEAVE removes the attribute.
AfterForgetful(state, type) == CASE type = "JOIN" -> "JOINED" [] type = "LEAVE" -> "removed" [] OTHER -> state

After(state, type) == CASE type = "JOIN" -> "JOINED" [] type = "LEAVE" -> "LEFT" [] OTHER -> state

\* sendSafely: a closed connection swallows the reply.
Tell(m, what) == reply' = IF m[1] \in open THEN [reply EXCEPT ![m] = what] ELSE reply

\* handleTextMessage up to publish; `other' is every request that is not valid.
Request(s, type) ==
    LET m == <<s, sent[s] + 1>>
    IN /\ s \in open /\ handling[s] = {} /\ sent[s] < MaxRequests
       /\ sent' = [sent EXCEPT ![s] = @ + 1]
       /\ IF Allows(chatState[s], type)
          THEN /\ chatState' = [chatState EXCEPT ![s] = After(@, type)]
               /\ kind' = [kind EXCEPT ![m] = type]
               /\ handling' = [handling EXCEPT ![s] = {m}]
               /\ UNCHANGED reply
          ELSE Tell(m, "ERROR") /\ UNCHANGED <<chatState, kind, handling>>
       /\ UNCHANGED <<open, queue, late>>

Done(m) ==
    /\ m \in handling[m[1]]
    /\ handling' = [handling EXCEPT ![m[1]] = {}]
    /\ UNCHANGED <<chatState, open, sent, kind>>

\* Fault: the client is told before the broker has confirmed.
ConfirmUnawaited(m) ==
    /\ Done(m) /\ Tell(m, "ENQUEUED")
    /\ late' = late \cup {m} /\ UNCHANGED queue

\* The broker has the message and confirms it in time, or does not.
Confirm(m) ==
    /\ Done(m) /\ queue' = Append(queue, m)
    /\ Tell(m, "ENQUEUED") \/ Tell(m, "QUEUE_ERROR")
    /\ UNCHANGED late

\* The circuit is open, the channel is closed, or the confirm does not come.
GiveUp(m) ==
    /\ Done(m) /\ Tell(m, "QUEUE_ERROR")
    /\ late' \in {late, late \cup {m}}
    /\ UNCHANGED queue

ArriveLate(m) ==
    /\ m \in late /\ late' = late \ {m}
    /\ queue' = Append(queue, m)
    /\ UNCHANGED <<chatState, open, sent, handling, kind, reply>>

\* afterConnectionClosed; a request in publish goes on.
Disconnect(s) ==
    /\ s \in open /\ open' = open \ {s}
    /\ UNCHANGED <<chatState, sent, handling, kind, reply, queue, late>>

SessionInit ==
    /\ chatState = [s \in Sessions |-> "NOT_JOINED"] /\ open = Sessions
    /\ sent = [s \in Sessions |-> 0] /\ handling = [s \in Sessions |-> {}]
    /\ kind = [m \in Messages |-> "none"] /\ reply = [m \in Messages |-> "none"]
    /\ queue = <<>> /\ late = {}

SessionNext ==
    \/ \E s \in Sessions : Disconnect(s) \/ \E type \in Types : Request(s, type)
    \/ \E m \in Messages : Confirm(m) \/ GiveUp(m) \/ ArriveLate(m)

SessionSpec == SessionInit /\ [][SessionNext]_sessionVars

-----------------------------------------------------------------------------
SessionTypeOK ==
    /\ chatState \in [Sessions -> {"NOT_JOINED", "JOINED", "LEFT"}]
    /\ open \subseteq Sessions /\ sent \in [Sessions -> 0 .. MaxRequests]
    /\ handling \in [Sessions -> SUBSET Messages]
    /\ kind \in [Messages -> Types \cup {"none"}]
    /\ reply \in [Messages -> {"none", "ENQUEUED", "QUEUE_ERROR", "ERROR"}]
    /\ queue \in Seq(Messages) /\ late \subseteq Messages

(***************************************************************************)
(* What the client was told holds in the room queue: every acknowledged    *)
(* message is in it once, those of a session in the order of their         *)
(* requests; the queue has at most one JOIN and one LEAVE of a session,    *)
(* and no acknowledged message of it after an acknowledged LEAVE --        *)
(* whatever publishes failed, with or without the broker having the        *)
(* message (handleTextMessage sets the state before it publishes).         *)
(***************************************************************************)
Known(n) == reply[queue[n]] = "ENQUEUED"
SameSession(n, o) == queue[n][1] = queue[o][1]

Conversation ==
    /\ \A m \in Messages : reply[m] = "ENQUEUED" => \E n \in DOMAIN queue : queue[n] = m
    /\ \A n, o \in DOMAIN queue : SameSession(n, o) /\ n # o =>
         /\ Known(n) /\ Known(o) /\ n < o => queue[n][2] < queue[o][2]
         /\ kind[queue[n]] \in {"JOIN", "LEAVE"} => kind[queue[n]] # kind[queue[o]]
         /\ Known(n) /\ Known(o) /\ kind[queue[n]] = "LEAVE" => o < n
=============================================================================
