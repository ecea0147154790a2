-------------------------- MODULE ChatDeliveryProofs --------------------------
(***************************************************************************)
(* Theorems about ChatDelivery, for any number of sessions, requests,      *)
(* instances and faults: what a client was told holds in the room queue,   *)
(* every instance broadcasts a message once, and what lies between the     *)
(* broker and the fan-out is EffectivelyOnce.                              *)
(***************************************************************************)
EXTENDS ChatDelivery, TLAPS

InQueue(m) == \E n \in DOMAIN queue : queue[n] = m

(***************************************************************************)
(* Where a message can be: in publish, late, or in the queue, and in one   *)
(* of them only; what is anywhere was accepted, and what was accepted has  *)
(* a number the session has reached.                                       *)
(***************************************************************************)
Placed ==
    /\ \A s \in Sessions : \A m \in handling[s] : m = <<s, sent[s]>>
    /\ \A s \in Sessions : \A m \in handling[s] : ~InQueue(m) /\ m \notin late /\ kind[m] # "none"
    /\ \A m \in late : ~InQueue(m) /\ kind[m] # "none"
    /\ \A n \in DOMAIN queue : kind[queue[n]] # "none"
    /\ \A m \in Messages : kind[m] # "none" => m[2] <= sent[m[1]]

Distinct == \A n, o \in DOMAIN queue : queue[n] = queue[o] => n = o

Replied == \A m \in Messages : reply[m] = "ENQUEUED" => InQueue(m)

Ordered ==
    \A n, o \in DOMAIN queue :
        SameSession(n, o) /\ Known(n) /\ Known(o) /\ n < o => queue[n][2] < queue[o][2]

(***************************************************************************)
(* What the session's state says of the requests it has accepted.          *)
(***************************************************************************)
Accepted ==
    \A m \in Messages :
        /\ kind[m] # "none" => chatState[m[1]] # "NOT_JOINED"
        /\ kind[m] = "LEAVE" => chatState[m[1]] = "LEFT"
        /\ \A n \in Messages : m[1] = n[1] =>
             /\ kind[m] \in {"JOIN", "LEAVE"} /\ kind[n] = kind[m] => n = m
             /\ kind[m] = "LEAVE" /\ kind[n] # "none" => n[2] <= m[2]

IInv == SessionTypeOK /\ Placed /\ Distinct /\ Replied /\ Ordered /\ Accepted

(***************************************************************************)
(* The broker has just what is in the room queue, processes nothing else,  *)
(* and lets go what was processed or is lost.                              *)
(***************************************************************************)
Brokered ==
    \A m \in Messages :
        /\ state[m] # "absent" <=> InQueue(m)
        /\ times[m] > 0 => state[m] # "absent"
        /\ state[m] = "gone" => times[m] > 0 \/ m \in lost

\* Only what has been processed is published, delivered and broadcast.
Started ==
    \A i \in Instances, m \in Messages :
        <<i, m>> \in publishing \cup listener \/ heard[<<i, m>>] > 0 => times[m] > 0

(***************************************************************************)
(* A claimed message whose publication did not throw: one instance at most *)
(* publishes it, nobody has it then, and who is about to broadcast it has  *)
(* not done so yet.                                                        *)
(***************************************************************************)
Single ==
    \A m \in Messages \ (thrown \cup exempt) :
        /\ times[m] <= 1
        /\ \A i \in Instances : <<i, m>> \in publishing =>
             \A j \in Instances : /\ <<j, m>> \in publishing => j = i
                                  /\ <<j, m>> \notin listener /\ heard[<<j, m>>] = 0
        /\ \A i \in Instances : <<i, m>> \in listener => heard[<<i, m>>] = 0

DeliveryInv == TypeOK /\ Brokered /\ Started /\ Single /\ HeardOnce

-----------------------------------------------------------------------------
\* A message is a session and a number.
LEMMA Pairs ==
    ASSUME NEW m \in Messages
    PROVE  m[1] \in Sessions /\ m[2] \in Nat /\ m = <<m[1], m[2]>>
BY SessionAssumption DEF Messages

\* What a message appended to a queue changes: one index and one element.
LEMMA Appended ==
    ASSUME NEW q \in Seq(Messages), NEW m \in Messages
    PROVE  /\ Append(q, m) \in Seq(Messages)
           /\ DOMAIN Append(q, m) = DOMAIN q \cup {Len(q) + 1}
           /\ Append(q, m)[Len(q) + 1] = m
           /\ \A n \in DOMAIN q : Append(q, m)[n] = q[n] /\ n < Len(q) + 1 /\ n \in Nat
OBVIOUS

LEMMA InitInv == SessionInit => IInv
<1> SUFFICES ASSUME SessionInit PROVE IInv
    OBVIOUS
<1>1. SessionTypeOK
    BY SessionAssumption DEF SessionInit, SessionTypeOK, Types
<1>2. DOMAIN queue = {}
    BY DEF SessionInit
<1>3. QED
    BY <1>1, <1>2 DEF SessionInit, IInv, Placed, Distinct, Replied, Ordered, Accepted

(***************************************************************************)
(* A request that is refused, or accepted by one of the three types.       *)
(***************************************************************************)
LEMMA RequestStep ==
    ASSUME IInv, NEW s \in Sessions, NEW type \in Types, Request(s, type)
    PROVE  IInv'
<1>0. PICK m \in Messages : m = <<s, sent[s] + 1>>
  <2>1. <<s, sent[s] + 1>> \in Messages
      BY SessionAssumption DEF Request, Messages, IInv, SessionTypeOK
  <2>2. QED
      BY <2>1
<1>1. /\ m[1] = s /\ m[2] = sent[s] + 1
      /\ handling[s] = {} /\ sent' = [sent EXCEPT ![s] = @ + 1]
      /\ open' = open /\ queue' = queue /\ late' = late
    BY <1>0 DEF Request
<1>a. sent' \in [Sessions -> 0 .. MaxRequests] /\ sent'[s] = m[2]
    BY <1>1, SessionAssumption DEF Request, IInv, SessionTypeOK
<1>b. \A x \in Messages : x[2] \in Nat /\ sent[x[1]] \in Nat /\ sent'[x[1]] \in Nat /\ sent'[x[1]] >= sent[x[1]]
    BY <1>1, <1>a, Pairs, SessionAssumption DEF IInv, SessionTypeOK
<1>2. kind[m] = "none"
    BY <1>1, SessionAssumption DEF IInv, Placed, SessionTypeOK
<1>3. ~InQueue(m) /\ m \notin late /\ \A t \in Sessions : m \notin handling[t]
    BY <1>2 DEF IInv, Placed, InQueue
<1>4. CASE ~Allows(chatState[s], type)
  <2>1. chatState' = chatState /\ kind' = kind /\ handling' = handling
        /\ (reply' = reply \/ reply' = [reply EXCEPT ![m] = "ERROR"])
      BY <1>0, <1>4 DEF Request, Tell
  <2>2. SessionTypeOK'
      BY <1>1, <1>a, <2>1 DEF IInv, SessionTypeOK
  <2>3. Placed'
      BY <1>1, <2>1, SessionAssumption, Pairs DEF IInv, SessionTypeOK, Placed, InQueue
  <2>4. \A x \in Messages : reply'[x] = "ENQUEUED" => reply[x] = "ENQUEUED"
      BY <2>1, <1>1 DEF IInv, SessionTypeOK
  <2>5. Distinct' /\ Replied' /\ Ordered' /\ Accepted'
    <3>1. \A n \in DOMAIN queue : queue[n] \in Messages
        BY DEF IInv, SessionTypeOK
    <3>2. Distinct' /\ Replied' /\ Accepted'
        BY <1>1, <2>1, <2>4 DEF IInv, Distinct, Replied, Accepted, InQueue
    <3>3. Ordered'
        BY <1>1, <2>1, <2>4, <3>1 DEF IInv, Ordered, Known, SameSession
    <3>4. QED
        BY <3>2, <3>3
  <2>6. QED
      BY <2>2, <2>3, <2>5 DEF IInv
<1>5. CASE Allows(chatState[s], type)
  <2>1. /\ chatState' = [chatState EXCEPT ![s] = After(@, type)]
        /\ kind' = [kind EXCEPT ![m] = type] /\ type # "other"
        /\ handling' = [handling EXCEPT ![s] = {m}] /\ reply' = reply
      BY <1>0, <1>5 DEF Request, Allows
  <2>2. After(chatState[s], type) = (IF type = "LEAVE" THEN "LEFT" ELSE "JOINED")
      BY <1>5 DEF Allows, After
  <2>3. SessionTypeOK'
      BY <1>1, <2>1, <2>2, SessionAssumption DEF IInv, SessionTypeOK, Request
  <2>4. \A x \in Messages : x # m => kind'[x] = kind[x]
      BY <2>1 DEF IInv, SessionTypeOK
  <2>5. kind'[m] = type /\ type # "none"
      BY <1>1, <2>1 DEF IInv, SessionTypeOK, Types
  <2>6. Placed'
    <3>1. \A t \in Sessions : \A x \in handling'[t] : x = <<t, sent'[t]>>
        BY <1>0, <1>1, <2>1 DEF IInv, SessionTypeOK, Placed
    <3>2. \A t \in Sessions : \A x \in handling'[t] : ~InQueue(x)' /\ x \notin late' /\ kind'[x] # "none"
      <4>1. \A t \in Sessions : t # s => handling'[t] = handling[t]
          BY <2>1 DEF IInv, SessionTypeOK
      <4>2. handling'[s] = {m}
          BY <2>1 DEF IInv, SessionTypeOK
      <4>3. ~InQueue(m)' /\ m \notin late'
          BY <1>1, <1>3 DEF InQueue
      <4>4. ASSUME NEW t \in Sessions, t # s, NEW x \in handling[t]
            PROVE  ~InQueue(x)' /\ x \notin late' /\ kind'[x] # "none"
        <5>1. x \in Messages /\ x # m
            BY <1>3, <4>4 DEF IInv, SessionTypeOK
        <5>2. QED
            BY <1>1, <2>4, <4>4, <5>1 DEF IInv, Placed, InQueue
      <4>5. QED
          BY <2>5, <4>1, <4>2, <4>3, <4>4
    <3>3. \A x \in late' : ~InQueue(x)' /\ kind'[x] # "none"
        BY <1>1, <2>4, <2>5 DEF IInv, SessionTypeOK, Placed, InQueue
    <3>4. \A n \in DOMAIN queue' : kind'[queue'[n]] # "none"
        BY <1>1, <2>4, <2>5 DEF IInv, SessionTypeOK, Placed
    <3>5. \A x \in Messages : kind'[x] # "none" => x[2] <= sent'[x[1]]
        BY <1>1, <1>a, <1>b, <2>4 DEF IInv, Placed
    <3>6. QED
        BY <3>1, <3>2, <3>3, <3>4, <3>5 DEF Placed
  <2>7. Distinct' /\ Replied' /\ Ordered'
      BY <1>1, <2>1 DEF IInv, Distinct, Replied, Ordered, Known, SameSession, InQueue
  <2>8. Accepted'
    <3>1. chatState'[s] = (IF type = "LEAVE" THEN "LEFT" ELSE "JOINED")
        BY <2>1, <2>2 DEF IInv, SessionTypeOK
    <3>2. \A t \in Sessions : t # s => chatState'[t] = chatState[t]
        BY <2>1 DEF IInv, SessionTypeOK
    <3>3. \A x \in Messages : x[1] = s => kind[x] # "LEAVE"
        BY <1>5 DEF IInv, Accepted, Allows
    <3>4. \A x \in Messages : x[1] = s /\ type = "JOIN" => kind[x] = "none"
        BY <1>5 DEF IInv, Accepted, Allows
    <3>5. \A x \in Messages : x[1] = s /\ kind'[x] # "none" => x[2] <= m[2]
      <4>1. \A x \in Messages : x[1] = s /\ kind[x] # "none" => x[2] <= m[2]
          BY <1>1, <1>a, <1>b DEF IInv, Placed
      <4>2. m[2] \in Nat
          BY <1>1, <1>b
      <4>3. QED
          BY <2>4, <4>1, <4>2
    <3>6. ASSUME NEW x \in Messages
          PROVE  /\ kind'[x] # "none" => chatState'[x[1]] # "NOT_JOINED"
                 /\ kind'[x] = "LEAVE" => chatState'[x[1]] = "LEFT"
        BY <1>1, <2>4, <2>5, <3>1, <3>2, <3>3, Pairs DEF IInv, Accepted
    <3>7. ASSUME NEW x \in Messages, NEW y \in Messages, x[1] = y[1]
          PROVE  kind'[x] \in {"JOIN", "LEAVE"} /\ kind'[y] = kind'[x] => y = x
        BY <1>1, <2>4, <2>5, <3>3, <3>4, <3>7 DEF IInv, Accepted
    <3>8. ASSUME NEW x \in Messages, NEW y \in Messages, x[1] = y[1]
          PROVE  kind'[x] = "LEAVE" /\ kind'[y] # "none" => y[2] <= x[2]
        BY <1>1, <2>4, <2>5, <3>3, <3>5, <3>8 DEF IInv, Accepted
    <3>9. QED
        BY <3>6, <3>7, <3>8 DEF Accepted
  <2>9. QED
      BY <2>3, <2>6, <2>7, <2>8 DEF IInv
<1>6. QED
    BY <1>4, <1>5

(***************************************************************************)
(* publish ends: the message is confirmed, or given up; or the frame of a  *)
(* message that was given up arrives.                                      *)
(***************************************************************************)
LEMMA PublishStep ==
    ASSUME IInv, NEW m \in Messages, Confirm(m) \/ GiveUp(m) \/ ArriveLate(m)
    PROVE  IInv'
<1>1. /\ chatState' = chatState /\ open' = open /\ sent' = sent /\ kind' = kind
      /\ \A t \in Sessions : handling'[t] \subseteq handling[t]
      /\ handling' \in [Sessions -> SUBSET Messages]
    BY DEF Confirm, GiveUp, ArriveLate, Done, IInv, SessionTypeOK
<1>2. /\ m \in handling[m[1]] \/ m \in late
      /\ ~InQueue(m) /\ kind[m] # "none" /\ m[1] \in Sessions
    BY Pairs DEF Confirm, GiveUp, ArriveLate, Done, IInv, Placed
<1>3. Accepted'
    BY <1>1 DEF IInv, Accepted
<1>4. queue \in Seq(Messages) /\ \A n \in DOMAIN queue : queue[n] \in Messages /\ queue[n] # m
    BY <1>2 DEF IInv, SessionTypeOK, InQueue
<1>5. CASE queue' = queue
  <2>1. GiveUp(m)
    <3>1. queue # Append(queue, m)
        BY <1>4
    <3>2. QED
        BY <1>5, <3>1 DEF Confirm, ArriveLate
  <2>2. /\ \A x \in Messages : reply'[x] = "ENQUEUED" => reply[x] = "ENQUEUED"
        /\ reply' \in [Messages -> {"none", "ENQUEUED", "QUEUE_ERROR", "ERROR"}]
        /\ late' \subseteq late \cup {m} /\ m \notin handling'[m[1]]
      BY <2>1, <1>2 DEF GiveUp, Done, Tell, IInv, SessionTypeOK
  <2>3. SessionTypeOK'
      BY <1>1, <1>5, <2>2 DEF IInv, SessionTypeOK
  <2>4. \A t \in Sessions : m \notin handling'[t]
    <3>1. ASSUME NEW t \in Sessions, m \in handling'[t] PROVE t = m[1]
      <4>1. m = <<t, sent[t]>>
          BY <1>1, <3>1 DEF IInv, Placed
      <4>2. QED
          BY <4>1
    <3>2. QED
        BY <2>2, <3>1
  <2>5. Placed'
      BY <1>1, <1>2, <1>5, <2>2, <2>4 DEF IInv, Placed, InQueue
  <2>6. Distinct' /\ Replied' /\ Ordered'
      BY <1>4, <1>5, <2>2 DEF IInv, Distinct, Replied, Ordered, Known, SameSession, InQueue
  <2>7. QED
      BY <1>3, <2>3, <2>5, <2>6 DEF IInv
<1>6. CASE queue' = Append(queue, m)
  <2> DEFINE last == Len(queue) + 1
  <2>1. /\ queue' \in Seq(Messages) /\ DOMAIN queue' = DOMAIN queue \cup {last} /\ queue'[last] = m
        /\ \A n \in DOMAIN queue : queue'[n] = queue[n] /\ n < last /\ n \in Nat
        /\ last \in Nat
      BY <1>4, <1>6, Appended
  <2> HIDE DEF last
  <2>2. \A x \in Messages : InQueue(x)' <=> InQueue(x) \/ x = m
      BY <2>1 DEF InQueue
  <2>3. m \notin late' /\ late' \subseteq late /\ m \notin handling'[m[1]]
    <3>1. CASE Confirm(m)
        BY <3>1, <1>2 DEF Confirm, Done, IInv, SessionTypeOK, Placed
    <3>2. CASE ArriveLate(m)
        BY <3>2, <1>2 DEF ArriveLate, IInv, SessionTypeOK, Placed
    <3>3. CASE GiveUp(m)
      <4>1. queue # Append(queue, m)
          BY <1>4
      <4>2. QED
          BY <3>3, <4>1, <1>6 DEF GiveUp
    <3>4. QED
        BY <3>1, <3>2, <3>3
  <2>4. /\ \A x \in Messages : x # m => reply'[x] = reply[x]
        /\ reply' \in [Messages -> {"none", "ENQUEUED", "QUEUE_ERROR", "ERROR"}]
        /\ reply'[m] = "ENQUEUED" => m \in handling[m[1]]
    <3>1. reply[m] # "ENQUEUED"
        BY <1>2 DEF IInv, Replied
    <3>2. QED
        BY <3>1 DEF Confirm, GiveUp, ArriveLate, Done, Tell, IInv, SessionTypeOK
  <2>5. SessionTypeOK'
      BY <1>1, <2>1, <2>3, <2>4 DEF IInv, SessionTypeOK
  <2>6. \A t \in Sessions : m \notin handling'[t]
    <3>1. ASSUME NEW t \in Sessions, m \in handling'[t] PROVE t = m[1]
      <4>1. m = <<t, sent[t]>>
          BY <1>1, <3>1 DEF IInv, Placed
      <4>2. QED
          BY <4>1
    <3>2. QED
        BY <2>3, <3>1
  <2>7. Placed'
    <3>1. \A t \in Sessions : \A x \in handling'[t] :
             x = <<t, sent'[t]>> /\ ~InQueue(x)' /\ x \notin late' /\ kind'[x] # "none"
        BY <1>1, <2>2, <2>3, <2>6 DEF IInv, SessionTypeOK, Placed
    <3>2. \A x \in late' : ~InQueue(x)' /\ kind'[x] # "none"
        BY <1>1, <2>2, <2>3 DEF IInv, SessionTypeOK, Placed
    <3>3. \A n \in DOMAIN queue' : kind'[queue'[n]] # "none"
        BY <1>1, <1>2, <2>1 DEF IInv, Placed
    <3>4. QED
        BY <1>1, <3>1, <3>2, <3>3 DEF IInv, Placed
  <2>8. Distinct'
      BY <1>4, <2>1 DEF IInv, Distinct
  <2>9. Replied'
      BY <2>2, <2>4 DEF IInv, Replied
  <2>10. Ordered'
    <3>1. ASSUME NEW n \in DOMAIN queue, queue[n][1] = m[1], m \in handling[m[1]]
          PROVE  queue[n][2] < m[2]
      <4>1. m = <<m[1], sent[m[1]]>> /\ m[2] = sent[m[1]]
          BY <1>2, <3>1 DEF IInv, Placed
      <4>2. queue[n][2] <= sent[m[1]]
          BY <1>4, <3>1 DEF IInv, Placed
      <4>3. queue[n] = <<m[1], queue[n][2]>> /\ queue[n][2] \in Nat /\ m[2] \in Nat
          BY <1>4, <3>1, Pairs
      <4>4. queue[n][2] # m[2]
          BY <1>4, <4>1, <4>3
      <4>5. QED
          BY <4>1, <4>2, <4>3, <4>4
    <3>2. ASSUME NEW n \in DOMAIN queue', NEW o \in DOMAIN queue',
                 SameSession(n, o)', Known(n)', Known(o)', n < o
          PROVE  queue'[n][2] < queue'[o][2]
      <4>1. n \in DOMAIN queue
          BY <2>1, <3>2
      <4>2. CASE o = last
          BY <2>1, <2>4, <3>1, <3>2, <4>1, <4>2 DEF SameSession, Known
      <4>3. CASE o \in DOMAIN queue
        <5>1. SameSession(n, o) /\ Known(n) /\ Known(o)
            BY <1>4, <2>1, <2>4, <3>2, <4>1, <4>3 DEF SameSession, Known
        <5>2. QED
            BY <2>1, <3>2, <4>1, <4>3, <5>1 DEF IInv, Ordered
      <4>4. QED
          BY <2>1, <4>2, <4>3
    <3>3. QED
        BY <3>2 DEF Ordered
  <2>11. QED
      BY <1>3, <2>5, <2>7, <2>8, <2>9, <2>10 DEF IInv
<1>7. QED
    BY <1>5, <1>6 DEF Confirm, GiveUp, ArriveLate

LEMMA SessionStep == IInv /\ [SessionNext]_sessionVars => IInv'
<1> SUFFICES ASSUME IInv, [SessionNext]_sessionVars PROVE IInv'
    OBVIOUS
<1>1. ASSUME NEW s \in Sessions, Disconnect(s) PROVE IInv'
    BY <1>1 DEF Disconnect, IInv, SessionTypeOK, Placed, Distinct, Replied, Ordered, Accepted,
        Known, SameSession, InQueue
<1>2. CASE UNCHANGED sessionVars
    BY <1>2 DEF sessionVars, IInv, SessionTypeOK, Placed, Distinct, Replied, Ordered, Accepted,
        Known, SameSession, InQueue
<1>3. QED
    BY <1>1, <1>2, RequestStep, PublishStep DEF SessionNext

LEMMA Meaning == IInv => Conversation
<1> SUFFICES ASSUME IInv PROVE Conversation
    OBVIOUS
<1>1. \A n \in DOMAIN queue : n \in Nat /\ queue[n] \in Messages /\ queue[n][2] \in Nat
    BY Pairs DEF IInv, SessionTypeOK
<1>2. ASSUME NEW n \in DOMAIN queue, NEW o \in DOMAIN queue, SameSession(n, o), n # o
      PROVE  /\ Known(n) /\ Known(o) /\ n < o => queue[n][2] < queue[o][2]
             /\ kind[queue[n]] \in {"JOIN", "LEAVE"} => kind[queue[n]] # kind[queue[o]]
             /\ Known(n) /\ Known(o) /\ kind[queue[n]] = "LEAVE" => o < n
  <2>1. queue[n] # queue[o] /\ queue[n][1] = queue[o][1] /\ kind[queue[o]] # "none"
      BY <1>2 DEF IInv, Distinct, SameSession, Placed
  <2>2. Known(n) /\ Known(o) /\ n < o => queue[n][2] < queue[o][2]
      BY <1>2 DEF IInv, Ordered
  <2>3. kind[queue[n]] \in {"JOIN", "LEAVE"} => kind[queue[n]] # kind[queue[o]]
      BY <1>1, <2>1 DEF IInv, Accepted
  <2>4. kind[queue[n]] = "LEAVE" => queue[o][2] <= queue[n][2]
      BY <1>1, <2>1 DEF IInv, Accepted
  <2>5. QED
      BY <1>1, <1>2, <2>2, <2>3, <2>4
<1>3. QED
    BY <1>2 DEF Conversation, IInv, Replied, InQueue

\* What the composition does with the session is what the session does.
LEMMA SessionOfNext == [Next]_vars => [SessionNext]_sessionVars
BY DEF Next, vars, Talk, Enqueue, Process, Bypass, Release, SendOut, Listen, Subscription,
    Crash, SessionNext, sessionVars

(***************************************************************************)
(* Whatever the clients send, whichever publishes fail or are confirmed    *)
(* too late, and whatever consumers and Redis do: an acknowledged message  *)
(* is in the room queue once and in its order, between one JOIN and one    *)
(* LEAVE at most.                                                          *)
(***************************************************************************)
THEOREM ConversationKept == Spec => []Conversation
<1>1. Init => IInv
    BY InitInv DEF Init
<1>2. IInv /\ [Next]_vars => IInv'
    BY SessionOfNext, SessionStep
<1>3. QED
    BY <1>1, <1>2, Meaning, PTL DEF Spec
-----------------------------------------------------------------------------
(***************************************************************************)
(* The way from the queue to the clients.  What a step of the fan-out does *)
(* to the pairs of an instance and a message, pair by pair.                *)
(***************************************************************************)
LEMMA BroadcastOf ==
    ASSUME heard \in [Instances \X Messages -> 0 .. 2],
           NEW i \in Instances, NEW m \in Messages, Fanout!Broadcast(<<i, m>>)
    PROVE  /\ heard' \in [Instances \X Messages -> 0 .. 2]
           /\ heard'[<<i, m>>] > 0
           /\ heard[<<i, m>>] = 0 => heard'[<<i, m>>] = 1
           /\ \A j \in Instances, n \in Messages :
                <<j, n>> # <<i, m>> => heard'[<<j, n>>] = heard[<<j, n>>]
<1>1. <<i, m>> \in Instances \X Messages
    OBVIOUS
<1>2. \A j \in Instances, n \in Messages : <<j, n>> \in Instances \X Messages
    OBVIOUS
<1> DEFINE p == <<i, m>>
<1>3. heard' = [heard EXCEPT ![p] = IF @ < 2 THEN @ + 1 ELSE 2]
    BY DEF Fanout!Broadcast
<1> HIDE DEF p
<1>4. p \in Instances \X Messages => heard' \in [Instances \X Messages -> 0 .. 2]
        /\ heard'[p] > 0 /\ (heard[p] = 0 => heard'[p] = 1)
        /\ \A q \in Instances \X Messages : q # p => heard'[q] = heard[q]
    BY <1>3
<1>5. QED
    BY <1>1, <1>2, <1>4 DEF p

LEMMA DeliveryOf ==
    ASSUME Fanout!FanoutTypeOK, NEW m \in Messages, Fanout!Deliver(m)
    PROVE  /\ listener' \subseteq Instances \X Messages /\ missed' \subseteq Instances \X Messages
           /\ \A j \in Instances : <<j, m>> \in listener' \cup missed'
           /\ \A j \in Instances, n \in Messages : n # m =>
                /\ <<j, n>> \in listener' <=> <<j, n>> \in listener
                /\ <<j, n>> \in missed' <=> <<j, n>> \in missed
BY DEF Fanout!Deliver, Fanout!FanoutTypeOK

\* Nothing the session does alone concerns the rest.
LEMMA TalkKeeps ==
    ASSUME DeliveryInv, SessionTypeOK', queue' = queue, UNCHANGED <<onceVars, fanoutVars>>
    PROVE  DeliveryInv'
BY DEF onceVars, fanoutVars, DeliveryInv, TypeOK, Fanout!FanoutTypeOK, Brokered, InQueue, Started,
    Single, HeardOnce, NotTwice, NotForgotten

LEMMA EnqueueKeeps ==
    ASSUME DeliveryInv, IInv, SessionTypeOK', NEW m \in Messages, Enqueue(m)
    PROVE  DeliveryInv'
<1>1. /\ queue' = Append(queue, m) /\ state[m] = "absent"
      /\ state' = [state EXCEPT ![m] = "kept"]
      /\ UNCHANGED <<times, exempt, lost, fanoutVars>>
    BY DEF Enqueue, Confirm, ArriveLate, Once!Arrive
<1>2. \A x \in Messages : InQueue(x)' <=> InQueue(x) \/ x = m
  <2>1. queue \in Seq(Messages)
      BY DEF IInv, SessionTypeOK
  <2>2. QED
      BY <1>1, <2>1, Appended DEF InQueue
<1>3. /\ state' \in [Messages -> {"absent", "kept", "gone"}] /\ state'[m] = "kept"
      /\ \A x \in Messages : x # m => state'[x] = state[x]
    BY <1>1 DEF DeliveryInv, TypeOK
<1>4. TypeOK'
    BY <1>1, <1>3 DEF DeliveryInv, TypeOK, fanoutVars, Fanout!FanoutTypeOK
<1>5. Brokered'
    BY <1>1, <1>2, <1>3 DEF DeliveryInv, Brokered
<1>6. Started' /\ Single' /\ NotTwice'
    BY <1>1 DEF DeliveryInv, Started, Single, HeardOnce, NotTwice, fanoutVars
<1>7. NotForgotten'
    BY <1>1, <1>3 DEF DeliveryInv, HeardOnce, NotForgotten, fanoutVars
<1>8. QED
    BY <1>4, <1>5, <1>6, <1>7 DEF DeliveryInv, HeardOnce

LEMMA ProcessKeeps ==
    ASSUME DeliveryInv, NEW i \in Instances, NEW m \in Messages, Process(i, m)
    PROVE  DeliveryInv'
<1>1. /\ state[m] = "kept" /\ (m \in exempt \/ times[m] = 0)
      /\ times' = [times EXCEPT ![m] = IF @ < 2 THEN @ + 1 ELSE 2]
      /\ publishing' = publishing \cup {<<i, m>>}
      /\ UNCHANGED <<sessionVars, state, exempt, lost, subscribed, listener, heard, faults,
                     missed, thrown>>
    BY DEF Process, Once!Process, Fanout!Publish
<1>2. /\ times' \in [Messages -> 0 .. 2] /\ times'[m] > 0
      /\ times[m] = 0 => times'[m] = 1
      /\ \A x \in Messages : x # m => times'[x] = times[x]
    BY <1>1 DEF DeliveryInv, TypeOK
<1>3. \A j \in Instances, x \in Messages :
        <<j, x>> \in publishing' <=> <<j, x>> \in publishing \/ (j = i /\ x = m)
    BY <1>1
<1>4. TypeOK'
  <2>1. publishing' \subseteq Instances \X Messages
      BY <1>1 DEF DeliveryInv, TypeOK, Fanout!FanoutTypeOK
  <2>2. QED
      BY <1>1, <1>2, <2>1 DEF DeliveryInv, TypeOK, Fanout!FanoutTypeOK, SessionTypeOK, sessionVars
<1>5. Brokered'
    BY <1>1, <1>2 DEF DeliveryInv, Brokered, InQueue, sessionVars
<1>6. Started'
    BY <1>1, <1>2, <1>3 DEF DeliveryInv, Started
<1>7. Single'
  <2>1. ASSUME NEW x \in Messages \ (thrown' \cup exempt'), x # m
        PROVE  /\ times'[x] <= 1
               /\ \A k \in Instances : <<k, x>> \in publishing' =>
                    \A j \in Instances : /\ <<j, x>> \in publishing' => j = k
                                         /\ <<j, x>> \notin listener' /\ heard'[<<j, x>>] = 0
               /\ \A k \in Instances : <<k, x>> \in listener' => heard'[<<k, x>>] = 0
      BY <1>1, <1>2, <1>3, <2>1 DEF DeliveryInv, Single
  <2>2. ASSUME m \notin thrown' \cup exempt'
        PROVE  /\ times'[m] <= 1
               /\ \A j \in Instances : /\ <<j, m>> \in publishing' => j = i
                                       /\ <<j, m>> \notin listener' /\ heard'[<<j, m>>] = 0
    <3>1. times[m] = 0
        BY <1>1, <2>2
    <3>2. \A j \in Instances : heard[<<j, m>>] \in 0 .. 2
        BY DEF DeliveryInv, TypeOK, Fanout!FanoutTypeOK
    <3>3. QED
        BY <1>1, <1>2, <1>3, <3>1, <3>2 DEF DeliveryInv, Started
  <2>3. QED
      BY <2>1, <2>2 DEF Single
<1>8. HeardOnce'
    BY <1>1, <1>2, <1>3 DEF DeliveryInv, HeardOnce, NotTwice, NotForgotten
<1>9. QED
    BY <1>4, <1>5, <1>6, <1>7, <1>8 DEF DeliveryInv

LEMMA BypassKeeps ==
    ASSUME DeliveryInv, NEW m \in Messages, Bypass(m)
    PROVE  DeliveryInv'
<1>1. /\ exempt' = exempt \cup {m} /\ faults < MaxFaults /\ faults' = faults + 1
      /\ UNCHANGED <<sessionVars, state, times, lost, subscribed, publishing, listener, heard,
                     missed, thrown>>
    BY DEF Bypass, Once!Exempt, Fanout!Fault
<1>2. TypeOK'
    BY <1>1, FaultAssumption DEF DeliveryInv, TypeOK, Fanout!FanoutTypeOK, SessionTypeOK, sessionVars
<1>3. Brokered' /\ Started' /\ Single'
    BY <1>1 DEF DeliveryInv, Brokered, InQueue, Started, Single, sessionVars
<1>4. HeardOnce'
    BY <1>1 DEF DeliveryInv, HeardOnce, NotTwice, NotForgotten
<1>5. QED
    BY <1>2, <1>3, <1>4 DEF DeliveryInv

\* What is released was processed, or is lost and stays so.
LEMMA ReleaseKeeps ==
    ASSUME DeliveryInv, NEW m \in Messages, Release(m)
    PROVE  DeliveryInv'
<1>1. /\ state[m] = "kept" /\ (times[m] > 0 \/ m \in lost)
      /\ state' = [x \in Messages |-> IF x \in {m} THEN "gone" ELSE state[x]]
      /\ UNCHANGED <<sessionVars, times, exempt, lost, fanoutVars>>
    BY DEF Release, Once!Release, Once!LetGo
<1>2. /\ state' \in [Messages -> {"absent", "kept", "gone"}] /\ state'[m] = "gone"
      /\ \A x \in Messages : x # m => state'[x] = state[x]
    BY <1>1 DEF DeliveryInv, TypeOK
<1>3. TypeOK'
    BY <1>1, <1>2 DEF DeliveryInv, TypeOK, Fanout!FanoutTypeOK, SessionTypeOK, sessionVars, fanoutVars
<1>4. Brokered'
    BY <1>1, <1>2 DEF DeliveryInv, Brokered, InQueue, sessionVars
<1>5. Started' /\ Single' /\ NotTwice'
    BY <1>1 DEF DeliveryInv, Started, Single, HeardOnce, NotTwice, fanoutVars
<1>6. NotForgotten'
    BY <1>1, <1>2 DEF DeliveryInv, HeardOnce, NotForgotten, fanoutVars
<1>7. QED
    BY <1>3, <1>4, <1>5, <1>6 DEF DeliveryInv, HeardOnce

\* Redis has the message, and every instance has it or misses it.
LEMMA SendKeeps ==
    ASSUME DeliveryInv, NEW i \in Instances, NEW m \in Messages, Fanout!Send(i, m),
           UNCHANGED <<sessionVars, onceVars>>
    PROVE  DeliveryInv'
<1>1. /\ <<i, m>> \in publishing /\ publishing' = publishing \ {<<i, m>>} /\ Fanout!Deliver(m)
      /\ UNCHANGED <<sessionVars, onceVars, subscribed, heard, faults, thrown>>
    BY DEF Fanout!Send
<1>2. /\ listener' \subseteq Instances \X Messages /\ missed' \subseteq Instances \X Messages
      /\ \A j \in Instances : <<j, m>> \in listener' \cup missed'
      /\ \A j \in Instances, n \in Messages : n # m =>
           /\ <<j, n>> \in listener' <=> <<j, n>> \in listener
           /\ <<j, n>> \in missed' <=> <<j, n>> \in missed
    BY <1>1, DeliveryOf DEF DeliveryInv, TypeOK
<1>3. \A j \in Instances, n \in Messages :
        <<j, n>> \in publishing' <=> <<j, n>> \in publishing /\ ~(j = i /\ n = m)
    BY <1>1
<1>4. TypeOK'
    BY <1>1, <1>2 DEF DeliveryInv, TypeOK, Fanout!FanoutTypeOK, SessionTypeOK, sessionVars, onceVars
<1>5. Brokered'
    BY <1>1 DEF DeliveryInv, Brokered, InQueue, sessionVars, onceVars
<1>6. Started'
    BY <1>1, <1>2, <1>3 DEF DeliveryInv, Started, onceVars
<1>7. Single' /\ NotTwice'
    BY <1>1, <1>2, <1>3 DEF DeliveryInv, Single, HeardOnce, NotTwice, onceVars
<1>8. NotForgotten'
    BY <1>1, <1>2, <1>3 DEF DeliveryInv, HeardOnce, NotForgotten, onceVars
<1>9. QED
    BY <1>4, <1>5, <1>6, <1>7, <1>8 DEF DeliveryInv, HeardOnce

\* The publication throws: the publisher's clients have the message, and the
\* other instances have it or miss it.
LEMMA FallBackKeeps ==
    ASSUME DeliveryInv, NEW i \in Instances, NEW m \in Messages, Fanout!FallBack(i, m),
           UNCHANGED <<sessionVars, onceVars>>
    PROVE  DeliveryInv'
<1>1. /\ <<i, m>> \in publishing /\ publishing' = publishing \ {<<i, m>>}
      /\ faults < MaxFaults /\ faults' = faults + 1 /\ thrown' = thrown \cup {m}
      /\ Fanout!Broadcast(<<i, m>>)
      /\ UNCHANGED <<sessionVars, onceVars, subscribed>>
    BY DEF Fanout!FallBack, Fanout!Fault
<1>2. /\ listener' \subseteq Instances \X Messages /\ missed' \subseteq Instances \X Messages
      /\ \A j \in Instances : j # i => <<j, m>> \in listener' \cup missed'
      /\ \A j \in Instances, n \in Messages : n # m =>
           /\ <<j, n>> \in listener' <=> <<j, n>> \in listener
           /\ <<j, n>> \in missed' <=> <<j, n>> \in missed
  <2>1. CASE Fanout!Deliver(m)
      BY <2>1, DeliveryOf DEF DeliveryInv, TypeOK
  <2>2. CASE missed' = missed \cup (Fanout!Everywhere(m) \ {<<i, m>>}) /\ UNCHANGED listener
      BY <2>2 DEF DeliveryInv, TypeOK, Fanout!FanoutTypeOK, Fanout!Everywhere
  <2>3. QED
      BY <2>1, <2>2 DEF Fanout!FallBack
<1>3. /\ heard' \in [Instances \X Messages -> 0 .. 2] /\ heard'[<<i, m>>] > 0
      /\ \A j \in Instances, n \in Messages :
           <<j, n>> # <<i, m>> => heard'[<<j, n>>] = heard[<<j, n>>]
    BY <1>1, BroadcastOf DEF DeliveryInv, TypeOK, Fanout!FanoutTypeOK
<1>4. \A j \in Instances, n \in Messages :
        <<j, n>> \in publishing' <=> <<j, n>> \in publishing /\ ~(j = i /\ n = m)
    BY <1>1
<1>5. \A j \in Instances, n \in Messages : n # m => heard'[<<j, n>>] = heard[<<j, n>>]
    BY <1>3
<1>6. TypeOK'
    BY <1>1, <1>2, <1>3, FaultAssumption
    DEF DeliveryInv, TypeOK, Fanout!FanoutTypeOK, SessionTypeOK, sessionVars, onceVars
<1>7. Brokered'
    BY <1>1 DEF DeliveryInv, Brokered, InQueue, sessionVars, onceVars
<1>8. Started'
    BY <1>1, <1>2, <1>4, <1>5 DEF DeliveryInv, Started, onceVars
<1>9. Single' /\ NotTwice'
    BY <1>1, <1>2, <1>4, <1>5 DEF DeliveryInv, Single, HeardOnce, NotTwice, onceVars
<1>10. NotForgotten'
    BY <1>1, <1>2, <1>3, <1>4, <1>5 DEF DeliveryInv, HeardOnce, NotForgotten, onceVars
<1>11. QED
    BY <1>6, <1>7, <1>8, <1>9, <1>10 DEF DeliveryInv, HeardOnce

LEMMA ListenKeeps ==
    ASSUME DeliveryInv, NEW i \in Instances, NEW m \in Messages, Listen(i, m)
    PROVE  DeliveryInv'
<1>1. /\ <<i, m>> \in listener /\ listener' = listener \ {<<i, m>>}
      /\ Fanout!Broadcast(<<i, m>>)
      /\ UNCHANGED <<sessionVars, onceVars, subscribed, publishing, faults, missed, thrown>>
    BY DEF Listen, Fanout!OnMessage
<1>2. /\ heard' \in [Instances \X Messages -> 0 .. 2] /\ heard'[<<i, m>>] > 0
      /\ heard[<<i, m>>] = 0 => heard'[<<i, m>>] = 1
      /\ \A j \in Instances, n \in Messages :
           <<j, n>> # <<i, m>> => heard'[<<j, n>>] = heard[<<j, n>>]
    BY <1>1, BroadcastOf DEF DeliveryInv, TypeOK, Fanout!FanoutTypeOK
<1>3. \A j \in Instances, n \in Messages :
        <<j, n>> \in listener' <=> <<j, n>> \in listener /\ <<j, n>> # <<i, m>>
    BY <1>1
<1>4. TypeOK'
  <2>1. listener' \subseteq Instances \X Messages
      BY <1>1 DEF DeliveryInv, TypeOK, Fanout!FanoutTypeOK
  <2>2. QED
      BY <1>1, <1>2, <2>1
      DEF DeliveryInv, TypeOK, Fanout!FanoutTypeOK, SessionTypeOK, sessionVars, onceVars
<1>5. Brokered'
    BY <1>1 DEF DeliveryInv, Brokered, InQueue, sessionVars, onceVars
<1>6. Started'
    BY <1>1, <1>2, <1>3 DEF DeliveryInv, Started, onceVars
<1>7. Single' /\ NotTwice'
  <2>1. ASSUME m \notin thrown \cup exempt, NEW j \in Instances
        PROVE  <<j, m>> \notin publishing
      BY <1>1, <2>1 DEF DeliveryInv, Single
  <2>2. m \notin thrown \cup exempt => heard'[<<i, m>>] = 1
      BY <1>1, <1>2 DEF DeliveryInv, Single
  <2>3. Single'
      BY <1>1, <1>2, <1>3, <2>1 DEF DeliveryInv, Single, onceVars
  <2>4. NotTwice'
    <3>1. ASSUME NEW j \in Instances, NEW n \in Messages, n \notin thrown \cup exempt
          PROVE  heard'[<<j, n>>] <= 1
      <4>1. CASE <<j, n>> = <<i, m>>
        <5>1. n = m
            BY <4>1
        <5>2. QED
            BY <2>2, <3>1, <4>1, <5>1
      <4>2. CASE <<j, n>> # <<i, m>>
          BY <1>2, <3>1, <4>2 DEF DeliveryInv, HeardOnce, NotTwice
      <4>3. QED
          BY <4>1, <4>2
    <3>2. QED
        BY <1>1, <3>1 DEF NotTwice, onceVars
  <2>5. QED
      BY <2>3, <2>4
<1>8. NotForgotten'
    BY <1>1, <1>2, <1>3 DEF DeliveryInv, HeardOnce, NotForgotten, onceVars
<1>9. QED
    BY <1>4, <1>5, <1>6, <1>7, <1>8 DEF DeliveryInv, HeardOnce

LEMMA SubscriptionKeeps ==
    ASSUME DeliveryInv, NEW i \in Instances, Subscription(i)
    PROVE  DeliveryInv'
<1>1. /\ subscribed' \subseteq Instances /\ faults' \in 0 .. MaxFaults
      /\ UNCHANGED <<sessionVars, onceVars, publishing, listener, heard, missed, thrown>>
    BY FaultAssumption DEF Subscription, Fanout!Unsubscribe, Fanout!Resubscribe, Fanout!Fault, DeliveryInv,
        TypeOK, Fanout!FanoutTypeOK
<1>2. TypeOK'
    BY <1>1 DEF DeliveryInv, TypeOK, Fanout!FanoutTypeOK, SessionTypeOK, sessionVars, onceVars
<1>3. QED
    BY <1>1, <1>2 DEF DeliveryInv, Brokered, InQueue, Started, Single, HeardOnce, NotTwice,
        NotForgotten, sessionVars, onceVars

(***************************************************************************)
(* What the dead instance was publishing is lost, what its threads had is  *)
(* missed, and what it had claimed without processing it is lost too.      *)
(***************************************************************************)
LEMMA CrashKeeps ==
    ASSUME DeliveryInv, NEW i \in Instances, Crash(i)
    PROVE  DeliveryInv'
<1>1. /\ publishing' = publishing \ Fanout!At(i) /\ listener' = listener \ Fanout!At(i)
      /\ missed' = missed \cup (listener \cap Fanout!At(i))
      /\ faults < MaxFaults /\ faults' = faults + 1
      /\ UNCHANGED <<sessionVars, times, exempt, subscribed, heard, thrown>>
    BY DEF Crash, Fanout!CrashFanout, Fanout!Fault
<1>2. /\ lost \subseteq lost' /\ lost' \subseteq Messages
      /\ \A m \in Messages : <<i, m>> \in publishing => m \in lost'
    BY DEF Crash, DeliveryInv, TypeOK
<1>3. /\ state' \in [Messages -> {"absent", "kept", "gone"}]
      /\ \A m \in Messages : state'[m] # state[m] => state[m] = "kept" /\ state'[m] = "gone" /\ m \in lost'
    BY DEF Crash, Once!LetGo, DeliveryInv, TypeOK
<1>4. \A j \in Instances, m \in Messages :
        /\ <<j, m>> \in publishing' <=> <<j, m>> \in publishing /\ j # i
        /\ <<j, m>> \in listener' <=> <<j, m>> \in listener /\ j # i
        /\ <<j, m>> \in missed' <=> <<j, m>> \in missed \/ (<<j, m>> \in listener /\ j = i)
    BY <1>1 DEF Fanout!At
<1>5. TypeOK'
  <2>1. /\ publishing' \subseteq Instances \X Messages /\ listener' \subseteq Instances \X Messages
        /\ missed' \subseteq Instances \X Messages
      BY <1>1 DEF DeliveryInv, TypeOK, Fanout!FanoutTypeOK
  <2>2. QED
      BY <1>1, <1>2, <1>3, <2>1, FaultAssumption
      DEF DeliveryInv, TypeOK, Fanout!FanoutTypeOK, SessionTypeOK, sessionVars
<1>6. Brokered'
    BY <1>1, <1>2, <1>3 DEF DeliveryInv, Brokered, InQueue, sessionVars
<1>7. Started'
    BY <1>1, <1>4 DEF DeliveryInv, Started
<1>8. Single' /\ NotTwice'
    BY <1>1, <1>4 DEF DeliveryInv, Single, HeardOnce, NotTwice
<1>9. NotForgotten'
  <2>1. ASSUME NEW m \in Messages \ lost'
        PROVE  /\ state'[m] = "gone" => times'[m] > 0
               /\ times'[m] > 0 => \/ \E j \in Instances : <<j, m>> \in publishing'
                                   \/ \A j \in Instances : \/ heard'[<<j, m>>] > 0
                                                           \/ <<j, m>> \in listener' \cup missed'
    <3>1. m \notin lost /\ state'[m] = state[m] /\ <<i, m>> \notin publishing
        BY <1>2, <1>3
    <3>2. QED
        BY <1>1, <1>4, <3>1 DEF DeliveryInv, HeardOnce, NotForgotten
  <2>2. QED
      BY <2>1 DEF NotForgotten
<1>10. QED
    BY <1>5, <1>6, <1>7, <1>8, <1>9 DEF DeliveryInv, HeardOnce

LEMMA DeliveryStep == DeliveryInv /\ IInv /\ [Next]_vars /\ IInv' => DeliveryInv'
<1> SUFFICES ASSUME DeliveryInv, IInv, [Next]_vars, SessionTypeOK' PROVE DeliveryInv'
    BY DEF IInv
<1>1. CASE Talk
  <2>1. queue' = queue /\ UNCHANGED <<onceVars, fanoutVars>>
      BY <1>1 DEF Talk, Disconnect, Request, GiveUp
  <2>2. QED
      BY <2>1, TalkKeeps
<1>2. CASE UNCHANGED vars
    BY <1>2, TalkKeeps DEF vars, sessionVars
<1>3. ASSUME NEW i \in Instances, NEW m \in Messages, SendOut(i, m) PROVE DeliveryInv'
    BY <1>3, SendKeeps, FallBackKeeps DEF SendOut
<1>4. QED
    BY <1>1, <1>2, <1>3, EnqueueKeeps, ProcessKeeps, BypassKeeps, ReleaseKeeps, ListenKeeps,
        SubscriptionKeeps, CrashKeeps DEF Next

LEMMA DeliveryInit == Init => DeliveryInv
<1> SUFFICES ASSUME Init PROVE DeliveryInv
    OBVIOUS
<1>1. SessionTypeOK /\ DOMAIN queue = {}
    BY InitInv DEF Init, IInv, SessionInit
<1>2. Fanout!FanoutTypeOK
    BY FaultAssumption DEF Init, Fanout!FanoutInit, Fanout!FanoutTypeOK
<1>3. /\ \A m \in Messages : state[m] = "absent" /\ times[m] = 0
      /\ publishing = {} /\ listener = {} /\ \A i \in Instances, m \in Messages : heard[<<i, m>>] = 0
    BY DEF Init, Fanout!FanoutInit
<1>4. TypeOK
    BY <1>1, <1>2 DEF Init, TypeOK
<1>5. QED
    BY <1>1, <1>3, <1>4 DEF DeliveryInv, Brokered, InQueue, Started, Single, HeardOnce, NotTwice,
        NotForgotten

\* Both invariants hold of every behaviour.
LEMMA Always == Spec => [](IInv /\ DeliveryInv)
<1>1. Init => IInv /\ DeliveryInv
    BY InitInv, DeliveryInit DEF Init
<1>2. IInv /\ DeliveryInv /\ [Next]_vars => (IInv /\ DeliveryInv)'
    BY SessionOfNext, SessionStep, DeliveryStep
<1>3. QED
    BY <1>1, <1>2, PTL DEF Spec

(***************************************************************************)
(* Every variable of the three components keeps its type.                  *)
(***************************************************************************)
THEOREM TypeInvariant == Spec => []TypeOK
<1>1. DeliveryInv => TypeOK
    BY DEF DeliveryInv
<1>2. QED
    BY <1>1, Always, PTL

(***************************************************************************)
(* Every instance broadcasts a message once: not twice, unless its         *)
(* publication threw or no claim protected it; and not never, unless a     *)
(* crash took it or the instance is known to have missed it -- whatever    *)
(* instances crash, subscribe and unsubscribe                              *)
(* (RedisRoomFanoutPublisher.publish, RoomFanoutSubscriber.onMessage).     *)
(***************************************************************************)
THEOREM BroadcastOnce == Spec => []HeardOnce
<1>1. DeliveryInv => HeardOnce
    BY DEF DeliveryInv
<1>2. QED
    BY <1>1, Always, PTL

(***************************************************************************)
(* The composition adds nothing to its parts: of the session it shows just *)
(* steps of ChatSession, and of the broker and the consumers just steps of *)
(* EffectivelyOnce, which ConsumerPipeline implements.                     *)
(***************************************************************************)
THEOREM Composition == Spec => SessionSpec /\ Once!OnceSpec
<1>1. Init => SessionInit /\ Once!OnceInit
    BY DEF Init, Once!OnceInit
<1>2. DeliveryInv /\ [Next]_vars => [Once!OnceNext]_onceVars
  <2> SUFFICES ASSUME DeliveryInv, [Next]_vars PROVE [Once!OnceNext]_onceVars
      OBVIOUS
  <2>1. CASE Talk \/ UNCHANGED vars
      BY <2>1 DEF Talk, vars
  <2>2. ASSUME NEW m \in Messages, Enqueue(m) \/ Bypass(m) \/ Release(m)
        PROVE  Once!OnceNext
      BY <2>2 DEF Enqueue, Bypass, Release, Once!OnceNext
  <2>3. ASSUME NEW i \in Instances, Subscription(i)
        PROVE  UNCHANGED onceVars
      BY <2>3 DEF Subscription
  <2>4. ASSUME NEW i \in Instances, Crash(i)
        PROVE  Once!OnceNext
    <3>1. PICK claimed \in {{}} \cup {{m} : m \in {n \in Messages : state[n] = "kept" /\ times[n] = 0}} :
             lost' = lost \cup claimed \cup {m \in Messages : <<i, m>> \in publishing}
        BY <2>4 DEF Crash
    <3> DEFINE held == claimed \cup {m \in Messages : <<i, m>> \in publishing}
               released == {m \in lost' : state[m] = "kept"}
    <3>2. \A m \in Messages : <<i, m>> \in publishing => state[m] # "absent"
        BY DEF DeliveryInv, Started, Brokered
    <3>3. held \in SUBSET {m \in Messages : state[m] # "absent"}
        BY <3>1, <3>2
    <3>4. released \in SUBSET {m \in Messages : state[m] # "absent"}
        BY <3>1, <3>3 DEF DeliveryInv, TypeOK
    <3>5. lost' = lost \cup held /\ Once!LetGo(released) /\ UNCHANGED <<times, exempt>>
        BY <2>4, <3>1 DEF Crash
    <3>6. Once!Crash
      <4> HIDE DEF held, released
      <4>1. QED
          BY <3>3, <3>4, <3>5 DEF Once!Crash
    <3>7. QED
        BY <3>6 DEF Once!OnceNext
  <2>5. ASSUME NEW i \in Instances, NEW m \in Messages, Process(i, m) \/ SendOut(i, m) \/ Listen(i, m)
        PROVE  [Once!OnceNext]_onceVars
      BY <2>5 DEF Process, SendOut, Listen, Once!OnceNext
  <2>6. QED
      BY <2>1, <2>2, <2>3, <2>4, <2>5 DEF Next
<1>3. [Next]_vars => [SessionNext]_sessionVars
    BY SessionOfNext
<1>4. QED
    BY <1>1, <1>2, <1>3, Always, PTL DEF Spec, SessionSpec, Once!OnceSpec, Once!onceVars, onceVars

(***************************************************************************)
(* Nor does it take a step away from the session: whatever publish has in  *)
(* hand, or has given up, may still come to the broker, which never has it *)
(* already, so that Arrive does not stop a Confirm or an ArriveLate.       *)
(***************************************************************************)
BrokerTakes ==
    \A m \in Messages : m \in handling[m[1]] \cup late => state[m] = "absent"

THEOREM NothingRefused == Spec => []BrokerTakes
<1>1. IInv /\ DeliveryInv => BrokerTakes
  <2> SUFFICES ASSUME IInv, DeliveryInv, NEW m \in Messages, m \in handling[m[1]] \cup late
               PROVE  ~InQueue(m)
      BY DEF BrokerTakes, DeliveryInv, Brokered
  <2>1. m[1] \in Sessions
      BY Pairs
  <2>2. QED
      BY <2>1 DEF IInv, Placed
<1>2. QED
    BY <1>1, Always, PTL
=============================================================================
