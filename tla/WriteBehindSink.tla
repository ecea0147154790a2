-------------------------- MODULE WriteBehindSink ---------------------------
(***************************************************************************)
(* What the write-behind path promises for a message handed to             *)
(* BatchWriteBuffer.offer, without saying how: it is refused at once (and  *)
(* counted), or it is kept in memory until there is evidence of it outside *)
(* -- a row of `messages', a row of `messages_dlq', or a line on stderr.   *)
(* A message is never let go of without that evidence.                     *)
(***************************************************************************)
CONSTANT Messages

VARIABLES refused,  \* dropped because the buffer was full
          pending,  \* in the memory of the process
          stored,   \* rows of messages
          dead,     \* rows of messages_dlq
          logged    \* message ids written to stderr

sinkVars == <<refused, pending, stored, dead, logged>>

SinkInit ==
    /\ refused = {} /\ pending = {}
    /\ stored = {} /\ dead = {} /\ logged = {}

Accept(m) ==
    /\ m \notin refused \cup pending \cup stored \cup dead \cup logged
    /\ pending' = pending \cup {m}
    /\ UNCHANGED <<refused, stored, dead, logged>>

Refuse(m) ==
    /\ m \notin refused \cup pending \cup stored \cup dead \cup logged
    /\ refused' = refused \cup {m}
    /\ UNCHANGED <<pending, stored, dead, logged>>

\* Rows appear while their messages are still in memory: a write may fail, or
\* be repeated, after some of its rows were committed.
Store(S) ==
    /\ S \subseteq pending
    /\ stored' = stored \cup S
    /\ UNCHANGED <<refused, pending, dead, logged>>

Retire(S) ==
    /\ S \subseteq pending \cap stored
    /\ pending' = pending \ S
    /\ UNCHANGED <<refused, stored, dead, logged>>

GiveUp(m) ==
    /\ m \in pending
    /\ pending' = pending \ {m}
    /\ \/ dead' = dead \cup {m} /\ UNCHANGED logged
       \/ logged' = logged \cup {m} /\ UNCHANGED dead
    /\ UNCHANGED <<refused, stored>>

SinkNext ==
    \/ \E m \in Messages : Accept(m) \/ Refuse(m) \/ GiveUp(m)
    \/ \E S \in SUBSET Messages : Store(S) \/ Retire(S)

SinkSpec == SinkInit /\ [][SinkNext]_sinkVars
=============================================================================
