---------------------------- MODULE RoomManager -----------------------------
(***************************************************************************)
(* RoomManager of consumer-v3: the registry of a room's WebSocket sessions *)
(* and the broadcast to them.  Rooms are separate keys of one map and do   *)
(* not interact, so one room is modelled.                                  *)
(*                                                                         *)
(* The map entry holds a set object, and an empty room loses its entry: a  *)
(* later session gets a new object.  Objects have an identity here, since  *)
(* an operation goes on with the object it looked up after the map has     *)
(* changed.  addSession, removeSession and broadcastToRoom take no lock on *)
(* the map or the set; a broadcast holds a session's monitor while it      *)
(* sends on it.                                                            *)
(*                                                                         *)
(* Each session runs its handler callbacks in order:                       *)
(*   new -> add -> in -> remove -> check -> [unmap] -> gone                *)
(* and each broadcaster (a delivery callback or a Redis listener thread)   *)
(* performs one broadcast:                                                 *)
(*   ready -> next -> lock -> send -> next ...                             *)
(*   -> done, threw (every session failed) or aborted.                     *)
(***************************************************************************)
EXTENDS Integers, FiniteSets

CONSTANTS Sessions,      \* WebSocket sessions of the room
          Broadcasters,  \* threads that call broadcastToRoom
          None           \* no set object, no session

ASSUME RoomAssumption ==
    IsFiniteSet(Sessions) /\ None \notin Sessions \cup Broadcasters /\ None \notin Nat

Objects == 1 .. Cardinality(Sessions)  \* an addSession creates one at most

VARIABLES mapped,     \* the object roomSessions maps the room to, or None
          created,    \* objects created so far
          members,    \* [Objects -> SUBSET Sessions], the contents of each
          open,       \* the sessions whose connection is open
          pc,         \* [Sessions -> the next step of the session's handler]
          object,     \* [Sessions -> the object its handler looked up]
          bpc,        \* [Broadcasters -> the next step]
          target,     \* [Broadcasters -> the session at hand]
          iterated,   \* [Broadcasters -> the object iterated over]
          todo,       \* [Broadcasters -> members at the start, not yet visited]
          visited,    \* [Broadcasters -> members visited]
          attempted,  \* [Broadcasters -> members a send was tried on]
          reached,    \* [Broadcasters -> some send succeeded: failed < attempted]
          monitor     \* [Sessions -> the broadcaster that holds it, or None]

registry == <<mapped, created, members>>
handlers == <<open, pc, object>>
progress == <<iterated, todo, visited, attempted, reached>>
vars == <<registry, handlers, bpc, target, progress, monitor>>
broadcast == <<bpc, target, progress, monitor>>

(***************************************************************************)
(* addSession, from afterConnectionEstablished                             *)
(***************************************************************************)
Lookup(s) ==
    /\ pc[s] = "new"
    /\ pc' = [pc EXCEPT ![s] = "add"]
    /\ IF mapped = None
         THEN created' = created + 1 /\ mapped' = created'
         ELSE UNCHANGED <<created, mapped>>
    /\ object' = [object EXCEPT ![s] = mapped']
    /\ open' = open \cup {s}
    /\ UNCHANGED <<members, broadcast>>

Forget(s) == object' = [object EXCEPT ![s] = None]

\* Fault: the session's set is put back into the map.
AddAndPut(s) ==
    /\ pc[s] = "add"
    /\ pc' = [pc EXCEPT ![s] = "in"]
    /\ members' = [members EXCEPT ![object[s]] = @ \cup {s}]
    /\ mapped' = object[s]
    /\ Forget(s)
    /\ UNCHANGED <<created, open, broadcast>>

Add(s) ==
    /\ pc[s] = "add"
    /\ pc' = [pc EXCEPT ![s] = "in"]
    /\ members' = [members EXCEPT ![object[s]] = @ \cup {s}]
    /\ Forget(s)
    /\ UNCHANGED <<mapped, created, open, broadcast>>

(***************************************************************************)
(* The connection ends; later afterConnectionClosed calls removeSession.   *)
(***************************************************************************)
Close(s) ==
    /\ s \in open
    /\ open' = open \ {s}
    /\ UNCHANGED <<registry, pc, object, broadcast>>

LookupForRemoval(s) ==
    /\ pc[s] = "in" /\ s \notin open
    /\ pc' = [pc EXCEPT ![s] = IF mapped = None THEN "gone" ELSE "remove"]
    /\ object' = [object EXCEPT ![s] = mapped]
    /\ UNCHANGED <<registry, open, broadcast>>

Remove(s) ==
    /\ pc[s] = "remove"
    /\ pc' = [pc EXCEPT ![s] = "check"]
    /\ members' = [members EXCEPT ![object[s]] = @ \ {s}]
    /\ UNCHANGED <<mapped, created, open, object, broadcast>>

\* Fault: the room is unmapped only if one member is left, as if the check
\* came before the removal.
CheckLast(s) ==
    /\ pc[s] = "check"
    /\ pc' = [pc EXCEPT ![s] =
                IF Cardinality(members[object[s]]) = 1 THEN "unmap" ELSE "gone"]
    /\ Forget(s)
    /\ UNCHANGED <<registry, open, broadcast>>

CheckEmpty(s) ==
    /\ pc[s] = "check"
    /\ pc' = [pc EXCEPT ![s] = IF members[object[s]] = {} THEN "unmap" ELSE "gone"]
    /\ Forget(s)
    /\ UNCHANGED <<registry, open, broadcast>>

\* roomSessions.remove(roomId): whatever object the room is mapped to by now.
Unmap(s) ==
    /\ pc[s] = "unmap"
    /\ pc' = [pc EXCEPT ![s] = "gone"]
    /\ mapped' = None
    /\ UNCHANGED <<created, members, open, object, broadcast>>

Handler(s) ==
    \/ Lookup(s) \/ Add(s)
    \/ LookupForRemoval(s) \/ Remove(s) \/ CheckEmpty(s) \/ Unmap(s)

(***************************************************************************)
(* broadcastToRoom                                                         *)
(***************************************************************************)
\* No set, or an empty one, ends the broadcast at once.
Begin(b) ==
    /\ bpc[b] = "ready"
    /\ bpc' = [bpc EXCEPT ![b] = IF mapped = None THEN "done" ELSE "next"]
    /\ iterated' = [iterated EXCEPT ![b] = mapped]
    /\ todo' = [todo EXCEPT ![b] = IF mapped = None THEN {} ELSE members[mapped]]
    /\ UNCHANGED <<registry, handlers, target, visited, attempted, reached, monitor>>

\* The iteration is weakly consistent: it visits the members that stay, may or
\* may not visit those that come or go, and visits none twice.
Visit(b) ==
    /\ bpc[b] = "next"
    /\ \E s \in (todo[b] \cup members[iterated[b]]) \ visited[b] :
         /\ target' = [target EXCEPT ![b] = s]
         /\ todo' = [todo EXCEPT ![b] = @ \ {s}]
         /\ visited' = [visited EXCEPT ![b] = @ \cup {s}]
    /\ bpc' = [bpc EXCEPT ![b] = "lock"]
    /\ UNCHANGED <<registry, handlers, iterated, attempted, reached, monitor>>

\* Every open session failed: an IOException for the caller.
End(b) ==
    /\ bpc[b] = "next"
    /\ todo[b] \cap members[iterated[b]] = {}
    /\ bpc' = [bpc EXCEPT ![b] =
                 IF attempted[b] # {} /\ ~reached[b] THEN "threw" ELSE "done"]
    /\ UNCHANGED <<registry, handlers, target, progress, monitor>>

\* Fault: a closed session ends the loop.
SkipAll(b) ==
    /\ bpc[b] = "lock" /\ monitor[target[b]] = None /\ target[b] \notin open
    /\ bpc' = [bpc EXCEPT ![b] = "done"]
    /\ target' = [target EXCEPT ![b] = None]
    /\ UNCHANGED <<registry, handlers, progress, monitor>>

\* synchronized (session): isOpen is read in the step that takes the monitor,
\* which no other thread can tell from a later one.
Skip(b) ==
    /\ bpc[b] = "lock" /\ monitor[target[b]] = None /\ target[b] \notin open
    /\ bpc' = [bpc EXCEPT ![b] = "next"]
    /\ target' = [target EXCEPT ![b] = None]
    /\ UNCHANGED <<registry, handlers, progress, monitor>>

\* Fault: the session's monitor is not waited for.
AttemptUnlocked(b) ==
    /\ bpc[b] = "lock" /\ target[b] \in open
    /\ bpc' = [bpc EXCEPT ![b] = "send"]
    /\ monitor' = [monitor EXCEPT ![target[b]] = b]
    /\ attempted' = [attempted EXCEPT ![b] = @ \cup {target[b]}]
    /\ UNCHANGED <<registry, handlers, target, iterated, todo, visited, reached>>

Attempt(b) ==
    /\ bpc[b] = "lock" /\ monitor[target[b]] = None /\ target[b] \in open
    /\ bpc' = [bpc EXCEPT ![b] = "send"]
    /\ monitor' = [monitor EXCEPT ![target[b]] = b]
    /\ attempted' = [attempted EXCEPT ![b] = @ \cup {target[b]}]
    /\ UNCHANGED <<registry, handlers, target, iterated, todo, visited, reached>>

Unlock(b) ==
    /\ monitor' = [monitor EXCEPT ![target[b]] = None]
    /\ target' = [target EXCEPT ![b] = None]

\* sendMessage returns, or throws IOException, which the loop survives.
Send(b) ==
    /\ bpc[b] = "send"
    /\ Unlock(b)
    /\ reached' \in {reached, [reached EXCEPT ![b] = TRUE]}
    /\ bpc' = [bpc EXCEPT ![b] = "next"]
    /\ UNCHANGED <<registry, handlers, iterated, todo, visited, attempted>>

\* Fault: the exception leaves the monitor locked.
SendAbortsLocked(b) ==
    /\ bpc[b] = "send" /\ target[b] \notin open
    /\ target' = [target EXCEPT ![b] = None]
    /\ bpc' = [bpc EXCEPT ![b] = "aborted"]
    /\ UNCHANGED <<registry, handlers, progress, monitor>>

\* A session that was closed under the sender makes the container throw an
\* IllegalStateException, which the loop does not survive.
SendAborts(b) ==
    /\ bpc[b] = "send" /\ target[b] \notin open
    /\ Unlock(b)
    /\ bpc' = [bpc EXCEPT ![b] = "aborted"]
    /\ UNCHANGED <<registry, handlers, progress>>

Broadcast(b) ==
    \/ Begin(b) \/ Visit(b) \/ End(b)
    \/ Skip(b) \/ Attempt(b) \/ Send(b) \/ SendAborts(b)

Ended == {"done", "threw", "aborted"}

\* Nothing is left to do: sessions are gone and broadcasts have ended.
Terminated ==
    /\ \A s \in Sessions : pc[s] = "gone"
    /\ \A b \in Broadcasters : bpc[b] \in Ended
    /\ UNCHANGED vars

Init ==
    /\ mapped = None /\ created = 0
    /\ members = [o \in Objects |-> {}]
    /\ open = {}
    /\ pc = [s \in Sessions |-> "new"]
    /\ object = [s \in Sessions |-> None]
    /\ bpc = [b \in Broadcasters |-> "ready"]
    /\ target = [b \in Broadcasters |-> None]
    /\ iterated = [b \in Broadcasters |-> None]
    /\ todo = [b \in Broadcasters |-> {}]
    /\ visited = [b \in Broadcasters |-> {}]
    /\ attempted = [b \in Broadcasters |-> {}]
    /\ reached = [b \in Broadcasters |-> FALSE]
    /\ monitor = [s \in Sessions |-> None]

Next ==
    \/ \E s \in Sessions : Handler(s) \/ Close(s)
    \/ \E b \in Broadcasters : Broadcast(b)
    \/ Terminated

Spec == Init /\ [][Next]_vars

-----------------------------------------------------------------------------
\* Types, and every held monitor belongs to a broadcaster that is sending on it.
TypeOK ==
    /\ mapped \in Objects \cup {None}
    /\ created \in 0 .. Cardinality(Sessions)
    /\ members \in [Objects -> SUBSET Sessions]
    /\ open \subseteq Sessions
    /\ pc \in [Sessions -> {"new", "add", "in", "remove", "check", "unmap", "gone"}]
    /\ object \in [Sessions -> Objects \cup {None}]
    /\ bpc \in [Broadcasters -> {"ready", "next", "lock", "send"} \cup Ended]
    /\ target \in [Broadcasters -> Sessions \cup {None}]
    /\ iterated \in [Broadcasters -> Objects \cup {None}]
    /\ todo \in [Broadcasters -> SUBSET Sessions]
    /\ visited \in [Broadcasters -> SUBSET Sessions]
    /\ attempted \in [Broadcasters -> SUBSET Sessions]
    /\ reached \in [Broadcasters -> BOOLEAN]
    /\ monitor \in [Sessions -> Broadcasters \cup {None}]
    /\ \A s \in Sessions : monitor[s] # None =>
         bpc[monitor[s]] = "send" /\ target[monitor[s]] = s

(***************************************************************************)
(* Two broadcasts never send on one session at the same time, which Tomcat *)
(* answers with TEXT_PARTIAL_WRITING (RoomManager.java:69).                *)
(***************************************************************************)
OneSenderPerSession ==
    \A a, b \in Broadcasters :
        bpc[a] = "send" /\ bpc[b] = "send" /\ target[a] = target[b] => a = b

(***************************************************************************)
(* A session that was removed is never in the set a later broadcast finds, *)
(* whichever set objects additions and removals of others have looked up   *)
(* in the meantime.                                                        *)
(***************************************************************************)
GoneIsForgotten ==
    mapped # None => \A s \in members[mapped] : pc[s] # "gone"

(***************************************************************************)
(* When every session that came has gone, the room's entry is gone too:    *)
(* no interleaving of additions and removals leaves an empty set behind in *)
(* the map.                                                                *)
(***************************************************************************)
NoEmptyRoomLeft == (\A s \in Sessions : pc[s] \in {"new", "gone"}) => mapped = None

(***************************************************************************)
(* A broadcast that ran to its end has tried every session that was in its *)
(* set from start to end and is still open, although others came, went and *)
(* closed while it ran.                                                    *)
(***************************************************************************)
OpenMembersAttempted ==
    \A b \in Broadcasters :
        bpc[b] \in {"done", "threw"} /\ iterated[b] # None =>
            \A s \in (todo[b] \cup visited[b]) \cap members[iterated[b]] \cap open :
                s \in attempted[b]

(***************************************************************************)
(* RoomManager.java:45 -- a broadcast goes "to every open WebSocket        *)
(* session in the room": a session whose addSession has returned and that  *)
(* is open is in the set the next broadcast will find.                     *)
(***************************************************************************)
ConnectedIsRegistered ==
    \A s \in open : pc[s] = "in" => mapped # None /\ s \in members[mapped]
=============================================================================
