--------------------------- MODULE RoomManagerProofs ---------------------------
(***************************************************************************)
(* Theorems about RoomManager, for any number of sessions and of           *)
(* concurrent broadcasts.                                                  *)
(***************************************************************************)
EXTENDS RoomManager, FiniteSetTheorems, TLAPS

(***************************************************************************)
(* The inductive invariant: the registry, then the broadcasts.             *)
(***************************************************************************)
Steps == {"new", "add", "in", "remove", "check", "unmap", "gone"}
Came == {s \in Sessions : pc[s] # "new"}

RegistryTyped ==
    /\ mapped \in Objects \cup {None}
    /\ created \in Nat
    /\ members \in [Objects -> SUBSET Sessions]
    /\ open \subseteq Sessions
    /\ pc \in [Sessions -> Steps]
    /\ object \in [Sessions -> Objects \cup {None}]

\* Set objects are numbered as they are made; those to come are empty.
Numbered ==
    /\ created <= Cardinality(Came)
    /\ mapped # None => mapped <= created
    /\ \A s \in Sessions : pc[s] \in {"add", "remove", "check"} =>
         object[s] \in Objects /\ object[s] <= created
    /\ \A o \in Objects : o > created => members[o] = {}

\* A session whose removal is done is in no set but abandoned ones.
Forgotten ==
    \A s \in Sessions, o \in Objects : s \in members[o] =>
        /\ pc[s] \notin {"new", "add"}
        /\ pc[s] = "remove" => o = object[s] \/ o # mapped
        /\ pc[s] \in {"check", "unmap", "gone"} => o # mapped

\* Someone will see the mapped set to its end: a member, or a handler that is
\* about to add to it or has just removed itself from it.
Attended ==
    mapped # None => \E s \in Sessions :
        \/ pc[s] \in {"add", "check"} /\ object[s] = mapped
        \/ pc[s] \in {"in", "remove"} /\ s \in members[mapped]
        \/ pc[s] = "unmap"

RegistryInv == RegistryTyped /\ Numbered /\ Forgotten /\ Attended

BroadcastTyped ==
    /\ bpc \in [Broadcasters -> {"ready", "next", "lock", "send"} \cup Ended]
    /\ target \in [Broadcasters -> Sessions \cup {None}]
    /\ iterated \in [Broadcasters -> Objects \cup {None}]
    /\ todo \in [Broadcasters -> SUBSET Sessions]
    /\ visited \in [Broadcasters -> SUBSET Sessions]
    /\ attempted \in [Broadcasters -> SUBSET Sessions]
    /\ reached \in [Broadcasters -> BOOLEAN]
    /\ monitor \in [Sessions -> Broadcasters \cup {None}]
    /\ \A b \in Broadcasters : bpc[b] \in {"lock", "send"} => target[b] \in Sessions
    /\ \A b \in Broadcasters : bpc[b] \in {"next", "lock", "send"} => iterated[b] \in Objects

\* A monitor is held by the broadcast that sends, and by no other.
Exclusive ==
    /\ \A s \in Sessions : monitor[s] # None =>
         bpc[monitor[s]] = "send" /\ target[monitor[s]] = s
    /\ \A b \in Broadcasters : bpc[b] = "send" => monitor[target[b]] = b

\* The sessions of a broadcast had been added before, and each it has visited
\* was tried, was closed, or is the one at hand.
Tried ==
    \A b \in Broadcasters :
        /\ \A s \in todo[b] \cup visited[b] : pc[s] \notin {"new", "add"}
        /\ \A s \in visited[b] \cap open :
             s \in attempted[b] \/ (bpc[b] = "lock" /\ target[b] = s)
        /\ bpc[b] \in {"done", "threw"} /\ iterated[b] # None =>
             todo[b] \cap members[iterated[b]] = {}

IInv == RegistryInv /\ BroadcastTyped /\ Exclusive /\ Tried

-----------------------------------------------------------------------------
LEMMA CameFinite ==
    /\ IsFiniteSet(Came) /\ Cardinality(Came) \in Nat
    /\ Cardinality(Came) <= Cardinality(Sessions) /\ Cardinality(Sessions) \in Nat
BY RoomAssumption, FS_Subset, FS_CardinalityType, Came \subseteq Sessions DEF Came

LEMMA ObjectsAreNumbers == Objects \subseteq Nat \ {0} /\ None \notin Objects
BY RoomAssumption, FS_CardinalityType DEF Objects

\* A session that comes makes room for one more object.
LEMMA OneMoreCame ==
    ASSUME NEW s \in Sessions, pc[s] = "new", pc \in [Sessions -> Steps],
           pc' = [pc EXCEPT ![s] = "add"]
    PROVE  Cardinality(Came') = Cardinality(Came) + 1 /\ Cardinality(Came') <= Cardinality(Sessions)
<1>1. Came' = Came \cup {s} /\ s \notin Came
    BY DEF Came, Steps
<1>2. Cardinality(Came \cup {s}) = Cardinality(Came) + 1
    BY <1>1, CameFinite, FS_AddElement
<1>3. Came' \subseteq Sessions
    BY DEF Came
<1>4. Cardinality(Came') <= Cardinality(Sessions)
    BY <1>3, RoomAssumption, FS_Subset
<1>5. QED
    BY <1>1, <1>2, <1>4

\* Any other step of a handler.
LEMMA SameCame ==
    ASSUME NEW s \in Sessions, pc[s] # "new", pc \in [Sessions -> Steps], NEW to \in Steps \ {"new"},
           pc' = [pc EXCEPT ![s] = to]
    PROVE  Came' = Came
BY DEF Came, Steps

(***************************************************************************)
(* The handlers and the registry.                                          *)
(***************************************************************************)
LEMMA LookupStep == ASSUME RegistryInv, NEW s \in Sessions, Lookup(s) PROVE RegistryInv'
<1> USE ObjectsAreNumbers, CameFinite
<1>1. /\ pc[s] = "new" /\ pc' = [pc EXCEPT ![s] = "add"]
      /\ object' = [object EXCEPT ![s] = mapped'] /\ open' = open \cup {s} /\ members' = members
      /\ \/ mapped = None /\ created' = created + 1 /\ mapped' = created + 1
         \/ mapped # None /\ created' = created /\ mapped' = mapped
    BY DEF Lookup
<1>2. Cardinality(Came') = Cardinality(Came) + 1 /\ Cardinality(Came') <= Cardinality(Sessions)
    BY <1>1, OneMoreCame DEF RegistryInv, RegistryTyped
<1>3. created' \in Nat /\ created' <= Cardinality(Came') /\ created <= created'
    BY <1>1, <1>2 DEF RegistryInv, RegistryTyped, Numbered
<1>4. mapped' \in Objects /\ mapped' <= created'
    BY <1>1, <1>2, <1>3 DEF RegistryInv, RegistryTyped, Numbered, Objects
<1>5. RegistryTyped'
    BY <1>1, <1>3, <1>4 DEF RegistryInv, RegistryTyped, Steps
<1>6. Numbered'
  <2>1. ASSUME NEW x \in Sessions, pc'[x] \in {"add", "remove", "check"}
        PROVE  object'[x] \in Objects /\ object'[x] <= created'
    <3>1. CASE x = s
      <4>1. object'[s] = mapped'
          BY <1>1 DEF RegistryInv, RegistryTyped
      <4>2. QED
          BY <1>4, <3>1, <4>1
    <3>2. CASE x # s
      <4>1. object[x] \in Objects /\ object[x] <= created /\ object'[x] = object[x]
          BY <1>1, <2>1, <3>2 DEF RegistryInv, RegistryTyped, Numbered
      <4>2. object[x] \in Nat /\ created \in Nat
          BY <4>1 DEF RegistryInv, RegistryTyped
      <4>3. object[x] <= created'
          BY <1>3, <4>1, <4>2
      <4>4. QED
          BY <4>1, <4>3
    <3>3. QED
        BY <3>1, <3>2
  <2>2. \A o \in Objects : o > created' => members'[o] = {}
      BY <1>1, <1>3 DEF RegistryInv, RegistryTyped, Numbered
  <2>3. QED
      BY <1>3, <1>4, <2>1, <2>2 DEF Numbered
<1>7. \A x \in Sessions, o \in Objects : x \in members[o] => x # s
    BY <1>1 DEF RegistryInv, Forgotten
<1>8. \A o \in Objects : members[o] # {} => (o = mapped' <=> o = mapped)
    BY <1>1 DEF RegistryInv, RegistryTyped, Numbered
<1>9. Forgotten'
    BY <1>1, <1>7, <1>8 DEF RegistryInv, RegistryTyped, Forgotten
<1>10. Attended'
    BY <1>1 DEF RegistryInv, RegistryTyped, Attended
<1>11. QED
    BY <1>5, <1>6, <1>9, <1>10 DEF RegistryInv

LEMMA AddStep == ASSUME RegistryInv, NEW s \in Sessions, Add(s) PROVE RegistryInv'
<1> USE ObjectsAreNumbers, CameFinite
<1>1. /\ pc[s] = "add" /\ pc' = [pc EXCEPT ![s] = "in"]
      /\ members' = [members EXCEPT ![object[s]] = @ \cup {s}]
      /\ object' = [object EXCEPT ![s] = None]
      /\ UNCHANGED <<mapped, created, open>>
    BY DEF Add, Forget
<1>2. object[s] \in Objects /\ object[s] <= created
    BY <1>1 DEF RegistryInv, Numbered
<1>3. Came' = Came
    BY <1>1, SameCame DEF RegistryInv, RegistryTyped, Steps
<1>4. RegistryTyped'
    BY <1>1, <1>2 DEF RegistryInv, RegistryTyped, Steps
<1>5. Numbered'
    BY <1>1, <1>2, <1>3 DEF RegistryInv, RegistryTyped, Numbered
<1>6. Forgotten'
    BY <1>1, <1>2 DEF RegistryInv, RegistryTyped, Forgotten
<1>7. Attended'
    BY <1>1, <1>2 DEF RegistryInv, RegistryTyped, Attended
<1>8. QED
    BY <1>4, <1>5, <1>6, <1>7 DEF RegistryInv

LEMMA LookupForRemovalStep ==
    ASSUME RegistryInv, NEW s \in Sessions, LookupForRemoval(s) PROVE RegistryInv'
<1> USE ObjectsAreNumbers, CameFinite
<1> DEFINE to == IF mapped = None THEN "gone" ELSE "remove"
<1>1. /\ pc[s] = "in" /\ pc' = [pc EXCEPT ![s] = to]
      /\ object' = [object EXCEPT ![s] = mapped]
      /\ UNCHANGED <<mapped, created, members, open>>
    BY DEF LookupForRemoval, registry
<1>2. to \in {"gone", "remove"} /\ (to = "gone" <=> mapped = None)
    OBVIOUS
<1> HIDE DEF to
<1>3. Came' = Came
    BY <1>1, <1>2, SameCame DEF RegistryInv, RegistryTyped, Steps
<1>4. RegistryTyped'
    BY <1>1, <1>2 DEF RegistryInv, RegistryTyped, Steps
<1>5. Numbered'
    BY <1>1, <1>2, <1>3 DEF RegistryInv, RegistryTyped, Numbered
<1>6. Forgotten'
    BY <1>1, <1>2 DEF RegistryInv, RegistryTyped, Forgotten
<1>7. Attended'
    BY <1>1, <1>2 DEF RegistryInv, RegistryTyped, Attended
<1>8. QED
    BY <1>4, <1>5, <1>6, <1>7 DEF RegistryInv

LEMMA RemoveStep == ASSUME RegistryInv, NEW s \in Sessions, Remove(s) PROVE RegistryInv'
<1> USE ObjectsAreNumbers, CameFinite
<1>1. /\ pc[s] = "remove" /\ pc' = [pc EXCEPT ![s] = "check"]
      /\ members' = [members EXCEPT ![object[s]] = @ \ {s}]
      /\ UNCHANGED <<mapped, created, open, object>>
    BY DEF Remove
<1>2. object[s] \in Objects /\ object[s] <= created
    BY <1>1 DEF RegistryInv, Numbered
<1>3. Came' = Came
    BY <1>1, SameCame DEF RegistryInv, RegistryTyped, Steps
<1>4. RegistryTyped'
    BY <1>1, <1>2 DEF RegistryInv, RegistryTyped, Steps
<1>5. Numbered'
    BY <1>1, <1>2, <1>3 DEF RegistryInv, RegistryTyped, Numbered
<1>6. Forgotten'
    BY <1>1, <1>2 DEF RegistryInv, RegistryTyped, Forgotten
<1>7. Attended'
    BY <1>1, <1>2 DEF RegistryInv, RegistryTyped, Attended, Forgotten
<1>8. QED
    BY <1>4, <1>5, <1>6, <1>7 DEF RegistryInv

LEMMA CheckEmptyStep == ASSUME RegistryInv, NEW s \in Sessions, CheckEmpty(s) PROVE RegistryInv'
<1> USE ObjectsAreNumbers, CameFinite
<1> DEFINE to == IF members[object[s]] = {} THEN "unmap" ELSE "gone"
<1>1. /\ pc[s] = "check" /\ pc' = [pc EXCEPT ![s] = to]
      /\ object' = [object EXCEPT ![s] = None]
      /\ UNCHANGED <<mapped, created, members, open>>
    BY DEF CheckEmpty, Forget, registry
<1>2. to \in {"unmap", "gone"} /\ (to = "gone" => members[object[s]] # {})
    OBVIOUS
<1> HIDE DEF to
<1>3. Came' = Came
    BY <1>1, <1>2, SameCame DEF RegistryInv, RegistryTyped, Steps
<1>4. RegistryTyped'
    BY <1>1, <1>2 DEF RegistryInv, RegistryTyped, Steps
<1>5. Numbered'
    BY <1>1, <1>2, <1>3 DEF RegistryInv, RegistryTyped, Numbered
<1>6. Forgotten'
    BY <1>1, <1>2 DEF RegistryInv, RegistryTyped, Forgotten
<1>7. Attended'
  <2>1. CASE to = "unmap"
      BY <1>1, <2>1 DEF RegistryInv, RegistryTyped, Attended
  <2>2. CASE to = "gone" /\ mapped = object[s]
    <3>1. PICK x \in Sessions : x \in members[mapped]
        BY <1>1, <1>2, <2>2 DEF RegistryInv, RegistryTyped, Numbered
    <3>2. pc[x] \in {"in", "remove"} /\ x # s
        BY <1>1, <2>2, <3>1 DEF RegistryInv, RegistryTyped, Numbered, Forgotten, Steps
    <3>3. QED
        BY <1>1, <3>1, <3>2 DEF RegistryInv, RegistryTyped, Attended
  <2>3. CASE mapped # object[s]
      BY <1>1, <2>3 DEF RegistryInv, RegistryTyped, Attended
  <2>4. QED
      BY <1>2, <2>1, <2>2, <2>3
<1>8. QED
    BY <1>4, <1>5, <1>6, <1>7 DEF RegistryInv

LEMMA UnmapStep == ASSUME RegistryInv, NEW s \in Sessions, Unmap(s) PROVE RegistryInv'
<1> USE ObjectsAreNumbers, CameFinite
<1>1. /\ pc[s] = "unmap" /\ pc' = [pc EXCEPT ![s] = "gone"] /\ mapped' = None
      /\ UNCHANGED <<created, members, open, object>>
    BY DEF Unmap
<1>2. Came' = Came
    BY <1>1, SameCame DEF RegistryInv, RegistryTyped, Steps
<1>3. RegistryTyped'
    BY <1>1 DEF RegistryInv, RegistryTyped, Steps
<1>4. Numbered' /\ Forgotten' /\ Attended'
    BY <1>1, <1>2 DEF RegistryInv, RegistryTyped, Numbered, Forgotten, Attended
<1>5. QED
    BY <1>3, <1>4 DEF RegistryInv

LEMMA HandlerStep == ASSUME RegistryInv, NEW s \in Sessions, Handler(s) PROVE RegistryInv'
BY LookupStep, AddStep, LookupForRemovalStep, RemoveStep, CheckEmptyStep, UnmapStep DEF Handler

LEMMA RegistryUnchanged ==
    ASSUME RegistryInv, UNCHANGED <<registry, pc, object>>, open' \subseteq open
    PROVE  RegistryInv'
BY DEF RegistryInv, RegistryTyped, Numbered, Forgotten, Attended, Came, registry

(***************************************************************************)
(* What the sessions do does not disturb the broadcasts.                   *)
(***************************************************************************)
LEMMA BroadcastsUndisturbed ==
    ASSUME IInv, NEW s \in Sessions, Handler(s) \/ Close(s)
    PROVE  BroadcastTyped' /\ Exclusive' /\ Tried'
<1>1. UNCHANGED <<bpc, target, iterated, todo, visited, attempted, reached, monitor>>
    BY DEF Handler, Lookup, Add, LookupForRemoval, Remove, CheckEmpty, Unmap, Close, broadcast, progress
<1>2. BroadcastTyped' /\ Exclusive'
    BY <1>1 DEF IInv, BroadcastTyped, Exclusive
<1>3. \A x \in Sessions : pc[x] \notin {"new", "add"} => pc'[x] \notin {"new", "add"}
    BY DEF Handler, Lookup, Add, LookupForRemoval, Remove, CheckEmpty, Unmap, Close,
           IInv, RegistryInv, RegistryTyped
<1>4. \A x \in Sessions : x \in open' => x \in open \/ pc[x] = "new"
    BY DEF Handler, Lookup, Add, LookupForRemoval, Remove, CheckEmpty, Unmap, Close, handlers
<1>5. \A x \in Sessions, o \in Objects : x \in members'[o] => x \in members[o] \/ pc[x] = "add"
    BY DEF Handler, Lookup, Add, LookupForRemoval, Remove, CheckEmpty, Unmap, Close, registry,
           IInv, RegistryInv, RegistryTyped
<1>6. Tried'
    BY <1>1, <1>3, <1>4, <1>5 DEF IInv, Tried, BroadcastTyped
<1>7. QED
    BY <1>2, <1>6

(***************************************************************************)
(* The steps of a broadcast.                                               *)
(***************************************************************************)
LEMMA RegistryUndisturbed ==
    ASSUME IInv, NEW b \in Broadcasters, Broadcast(b)
    PROVE  RegistryInv' /\ UNCHANGED <<mapped, created, members, open, pc, object>>
<1>1. UNCHANGED <<registry, handlers>>
    BY DEF Broadcast, Begin, Visit, End, Skip, Attempt, Send, SendAborts
<1>2. QED
    BY <1>1, RegistryUnchanged DEF IInv, registry, handlers

LEMMA BeginStep ==
    ASSUME IInv, NEW b \in Broadcasters, Begin(b) PROVE BroadcastTyped' /\ Exclusive' /\ Tried'
<1> USE ObjectsAreNumbers DEF IInv, RegistryInv, RegistryTyped
<1>1. /\ bpc[b] = "ready"
      /\ bpc' = [bpc EXCEPT ![b] = IF mapped = None THEN "done" ELSE "next"]
      /\ iterated' = [iterated EXCEPT ![b] = mapped]
      /\ todo' = [todo EXCEPT ![b] = IF mapped = None THEN {} ELSE members[mapped]]
      /\ UNCHANGED <<mapped, created, members, open, pc, object, target, visited, attempted, reached, monitor>>
    BY DEF Begin, registry, handlers
<1>2. BroadcastTyped'
    BY <1>1 DEF BroadcastTyped, Ended
<1>3. Exclusive'
    BY <1>1 DEF BroadcastTyped, Exclusive
<1>4. Tried'
    BY <1>1 DEF BroadcastTyped, Tried, Forgotten
<1>5. QED
    BY <1>2, <1>3, <1>4

LEMMA VisitStep ==
    ASSUME IInv, NEW b \in Broadcasters, Visit(b) PROVE BroadcastTyped' /\ Exclusive' /\ Tried'
<1> USE ObjectsAreNumbers DEF IInv, RegistryInv, RegistryTyped
<1>1. PICK s \in (todo[b] \cup members[iterated[b]]) \ visited[b] :
         /\ bpc[b] = "next" /\ bpc' = [bpc EXCEPT ![b] = "lock"]
         /\ target' = [target EXCEPT ![b] = s]
         /\ todo' = [todo EXCEPT ![b] = @ \ {s}]
         /\ visited' = [visited EXCEPT ![b] = @ \cup {s}]
         /\ UNCHANGED <<mapped, created, members, open, pc, object, iterated, attempted, reached, monitor>>
    BY DEF Visit, registry, handlers
<1>2. s \in Sessions /\ iterated[b] \in Objects /\ pc[s] \notin {"new", "add"}
    BY <1>1 DEF BroadcastTyped, Tried, Forgotten
<1>3. BroadcastTyped'
    BY <1>1, <1>2 DEF BroadcastTyped, Ended
<1>4. Exclusive'
    BY <1>1 DEF BroadcastTyped, Exclusive
<1>5. Tried'
    BY <1>1, <1>2 DEF BroadcastTyped, Tried
<1>6. QED
    BY <1>3, <1>4, <1>5

LEMMA EndStep ==
    ASSUME IInv, NEW b \in Broadcasters, End(b) PROVE BroadcastTyped' /\ Exclusive' /\ Tried'
<1> USE DEF IInv, RegistryInv, RegistryTyped
<1> DEFINE to == IF attempted[b] # {} /\ ~reached[b] THEN "threw" ELSE "done"
<1>1. /\ bpc[b] = "next" /\ bpc' = [bpc EXCEPT ![b] = to]
      /\ todo[b] \cap members[iterated[b]] = {} /\ to \in {"threw", "done"}
      /\ UNCHANGED <<mapped, created, members, open, pc, object, target, iterated, todo, visited,
                     attempted, reached, monitor>>
    BY DEF End, registry, handlers, progress
<1> HIDE DEF to
<1>2. BroadcastTyped'
    BY <1>1 DEF BroadcastTyped, Ended
<1>3. Exclusive'
    BY <1>1 DEF BroadcastTyped, Exclusive
<1>4. Tried'
    BY <1>1 DEF BroadcastTyped, Tried
<1>5. QED
    BY <1>2, <1>3, <1>4

LEMMA SkipStep ==
    ASSUME IInv, NEW b \in Broadcasters, Skip(b) PROVE BroadcastTyped' /\ Exclusive' /\ Tried'
<1> USE DEF IInv, RegistryInv, RegistryTyped
<1>1. /\ bpc[b] = "lock" /\ bpc' = [bpc EXCEPT ![b] = "next"] /\ target[b] \notin open
      /\ target' = [target EXCEPT ![b] = None]
      /\ UNCHANGED <<mapped, created, members, open, pc, object, iterated, todo, visited,
                     attempted, reached, monitor>>
    BY DEF Skip, registry, handlers, progress
<1>2. BroadcastTyped'
    BY <1>1 DEF BroadcastTyped, Ended
<1>3. Exclusive'
    BY <1>1 DEF BroadcastTyped, Exclusive
<1>4. Tried'
    BY <1>1 DEF BroadcastTyped, Tried
<1>5. QED
    BY <1>2, <1>3, <1>4

LEMMA AttemptStep ==
    ASSUME IInv, NEW b \in Broadcasters, Attempt(b) PROVE BroadcastTyped' /\ Exclusive' /\ Tried'
<1> USE RoomAssumption DEF IInv, RegistryInv, RegistryTyped
<1>1. /\ bpc[b] = "lock" /\ bpc' = [bpc EXCEPT ![b] = "send"] /\ target[b] \in Sessions
      /\ monitor[target[b]] = None /\ monitor' = [monitor EXCEPT ![target[b]] = b]
      /\ attempted' = [attempted EXCEPT ![b] = @ \cup {target[b]}]
      /\ UNCHANGED <<mapped, created, members, open, pc, object, target, iterated, todo, visited, reached>>
    BY DEF Attempt, registry, handlers, BroadcastTyped
<1>2. BroadcastTyped'
    BY <1>1 DEF BroadcastTyped, Ended
<1>3. Exclusive'
    BY <1>1 DEF BroadcastTyped, Exclusive
<1>4. Tried'
    BY <1>1 DEF BroadcastTyped, Tried
<1>5. QED
    BY <1>2, <1>3, <1>4

LEMMA SendStep ==
    ASSUME IInv, NEW b \in Broadcasters, Send(b) \/ SendAborts(b)
    PROVE  BroadcastTyped' /\ Exclusive' /\ Tried'
<1> USE RoomAssumption DEF IInv, RegistryInv, RegistryTyped
<1>1. PICK to \in {"next", "aborted"} : bpc' = [bpc EXCEPT ![b] = to]
    BY DEF Send, SendAborts
<1>2. /\ bpc[b] = "send" /\ target[b] \in Sessions
      /\ monitor' = [monitor EXCEPT ![target[b]] = None] /\ target' = [target EXCEPT ![b] = None]
      /\ reached' \in [Broadcasters -> BOOLEAN]
      /\ UNCHANGED <<mapped, created, members, open, pc, object, iterated, todo, visited, attempted>>
    BY DEF Send, SendAborts, Unlock, registry, handlers, progress, BroadcastTyped
<1>3. BroadcastTyped'
    BY <1>1, <1>2 DEF BroadcastTyped, Ended
<1>4. Exclusive'
    BY <1>1, <1>2 DEF BroadcastTyped, Exclusive
<1>5. Tried'
    BY <1>1, <1>2 DEF BroadcastTyped, Tried
<1>6. QED
    BY <1>3, <1>4, <1>5

-----------------------------------------------------------------------------
LEMMA InitInv == Init => IInv
<1> SUFFICES ASSUME Init PROVE IInv
    OBVIOUS
<1> USE ObjectsAreNumbers, CameFinite, RoomAssumption
<1>1. RegistryInv
    BY DEF Init, RegistryInv, RegistryTyped, Numbered, Forgotten, Attended, Steps
<1>2. BroadcastTyped /\ Exclusive /\ Tried
    BY DEF Init, BroadcastTyped, Exclusive, Tried, Ended
<1>3. QED
    BY <1>1, <1>2 DEF IInv

LEMMA NextStep == IInv /\ [Next]_vars => IInv'
<1> SUFFICES ASSUME IInv, [Next]_vars PROVE IInv'
    OBVIOUS
<1>1. ASSUME NEW s \in Sessions, Handler(s) \/ Close(s) PROVE IInv'
  <2>1. CASE Close(s)
    <3>1. RegistryInv'
        BY <2>1, RegistryUnchanged DEF Close, IInv
    <3>2. QED
        BY <1>1, <3>1, BroadcastsUndisturbed DEF IInv
  <2>2. QED
      BY <1>1, <2>1, HandlerStep, BroadcastsUndisturbed DEF IInv
<1>2. ASSUME NEW b \in Broadcasters, Broadcast(b) PROVE IInv'
    BY <1>2, RegistryUndisturbed, BeginStep, VisitStep, EndStep, SkipStep, AttemptStep, SendStep
       DEF Broadcast, IInv
<1>3. CASE UNCHANGED vars
  <2>1. RegistryInv'
      BY <1>3, RegistryUnchanged DEF IInv, vars, handlers
  <2>2. BroadcastTyped' /\ Exclusive' /\ Tried'
      BY <1>3 DEF IInv, BroadcastTyped, Exclusive, Tried, vars, registry, handlers, progress
  <2>3. QED
      BY <2>1, <2>2 DEF IInv
<1>4. QED
    BY <1>1, <1>2, <1>3 DEF Next, Terminated

(***************************************************************************)
(* A set object in the map is attended to, sessions that are gone are in   *)
(* abandoned objects only, and a monitor is held by the one that sends.    *)
(***************************************************************************)
THEOREM InductiveInvariant == Spec => []IInv
BY InitInv, NextStep, PTL DEF Spec

(***************************************************************************)
(* Types; addSession creates one set object per session at most.           *)
(***************************************************************************)
THEOREM TypeInvariant == Spec => []TypeOK
<1>1. IInv => TypeOK
    BY CameFinite DEF IInv, RegistryInv, RegistryTyped, Numbered, BroadcastTyped, Exclusive, Steps, TypeOK
<1>2. QED
    BY <1>1, InductiveInvariant, PTL

(***************************************************************************)
(* No two broadcasts send on one session at the same time.                 *)
(***************************************************************************)
THEOREM MonitorExcludes == Spec => []OneSenderPerSession
<1>1. IInv => OneSenderPerSession
    BY DEF IInv, Exclusive, OneSenderPerSession
<1>2. QED
    BY <1>1, InductiveInvariant, PTL

(***************************************************************************)
(* A removed session is in no set that a broadcast can find.               *)
(***************************************************************************)
THEOREM RemovedIsForgotten == Spec => []GoneIsForgotten
<1>1. IInv => GoneIsForgotten
    BY ObjectsAreNumbers DEF IInv, RegistryInv, RegistryTyped, Forgotten, GoneIsForgotten
<1>2. QED
    BY <1>1, InductiveInvariant, PTL

(***************************************************************************)
(* The room's entry goes with its last session.                            *)
(***************************************************************************)
THEOREM RoomEntryGoes == Spec => []NoEmptyRoomLeft
<1>1. IInv => NoEmptyRoomLeft
    BY DEF IInv, RegistryInv, Attended, NoEmptyRoomLeft
<1>2. QED
    BY <1>1, InductiveInvariant, PTL

(***************************************************************************)
(* A broadcast that ran to its end has tried every session it owed a try.  *)
(***************************************************************************)
THEOREM BroadcastIsComplete == Spec => []OpenMembersAttempted
<1>1. IInv => OpenMembersAttempted
    BY DEF IInv, Tried, OpenMembersAttempted
<1>2. QED
    BY <1>1, InductiveInvariant, PTL
=============================================================================
