------------------------ MODULE ConsumerPipelineProofs ------------------------
(***************************************************************************)
(* Theorems about ConsumerPipeline, for any number of messages, workers,   *)
(* instances, failures and any capacity of the buffers.                    *)
(***************************************************************************)
EXTENDS ConsumerPipeline, FiniteSetTheorems, TLAPS

(***************************************************************************)
(* Where a message is.                                                     *)
(***************************************************************************)
Held(m) == \E w \in Workers : m \in msg[w]
Owed(m) == \E w \in Workers : m \in msg[w] /\ w \notin stale
Offering(m) == \E w \in Workers : m \in msg[w] /\ pc[w] = "offer"
Done(m) == (\E i \in Instances : m \in buffered[i]) \/ m \in settled \cup dropped \cup crashed

(***************************************************************************)
(* The inductive invariant.                                                *)
(***************************************************************************)
Typed ==
    /\ ready \subseteq Messages /\ stale \subseteq Workers
    /\ pc \in [Workers -> Labels]
    /\ msg \in [Workers -> SUBSET Messages]
    /\ claims \in [Instances \cup {Redis} -> SUBSET Messages]
    /\ buffered \in [Instances -> SUBSET Messages]
    /\ dropped \subseteq Messages /\ settled \subseteq Messages
    /\ failures \in [channel : 0 .. MaxChannelLosses, crash : 0 .. MaxCrashes,
                     redis : 0 .. MaxRedisFaults]
    /\ offers \in [Messages -> 0 .. 2]
    /\ bypassed \subseteq Messages /\ crashed \subseteq Messages

Bounded == \A i \in Instances : IsFiniteSet(buffered[i]) /\ Cardinality(buffered[i]) <= Capacity

\* A worker that is not idle handles one message.
Single ==
    \A w \in Workers :
        /\ pc[w] = "idle" => msg[w] = {} /\ w \notin stale
        /\ pc[w] # "idle" => \E m \in Messages : msg[w] = {m}

\* A claim, and a callback about to acknowledge, rest on an offer made or due.
Traced ==
    \A m \in Messages :
        /\ \A s \in Instances \cup {Redis} : m \in claims[s] => Offering(m) \/ Done(m)
        /\ \A w \in Workers :
             m \in msg[w] /\ pc[w] \in {"fanout", "ack"} => Offering(m) \/ Done(m)

\* Stale deliveries are not counted on.
Kept == \A m \in Messages : m \in ready \/ Owed(m) \/ Offering(m) \/ Done(m)

Counted == \A m \in Messages : Done(m) => m \in crashed \/ offers[m] > 0

\* Who is about to offer a message holds its claim, alone and for the first time.
Protected ==
    SharedDedup => \A m \in Messages : m \notin Anonymous \cup bypassed =>
        /\ offers[m] <= 1
        /\ offers[m] > 0 => m \in claims[Redis] /\ ~Offering(m)
        /\ \A v \in Workers : m \in msg[v] /\ pc[v] = "offer" =>
             m \in claims[Redis] /\ \A w \in Workers : m \in msg[w] /\ pc[w] = "offer" => v = w

IInv == Typed /\ Bounded /\ Single /\ Traced /\ Kept /\ Counted /\ Protected

-----------------------------------------------------------------------------
LEMMA InitInv == Init => IInv
<1> SUFFICES ASSUME Init PROVE IInv
    OBVIOUS
<1>1. Typed
    BY PipelineAssumption DEF Init, Typed, Labels
<1>2. Bounded
    BY PipelineAssumption, FS_EmptySet DEF Init, Bounded
<1>3. Single /\ Traced /\ Kept /\ Counted /\ Protected
    BY PipelineAssumption DEF Init, Single, Traced, Kept, Counted, Protected, Held, Owed, Offering, Done
<1>4. QED
    BY <1>1, <1>2, <1>3 DEF IInv

LEMMA DeliverStep ==
    ASSUME IInv, NEW w \in Workers, NEW m \in Messages, Deliver(w, m)
    PROVE  IInv'
<1>1. /\ pc[w] = "idle" /\ msg[w] = {} /\ w \notin stale /\ m \in ready
      /\ pc' = [pc EXCEPT ![w] = "parse"] /\ msg' = [msg EXCEPT ![w] = {m}]
      /\ ready' = ready \ {m}
      /\ UNCHANGED <<stale, claims, buffered, dropped, settled, failures, offers, bypassed, crashed>>
    BY DEF Deliver, Goto, IInv, Single, memory, history
<1>2. Typed' /\ Bounded' /\ Single'
    BY <1>1 DEF IInv, Typed, Bounded, Single, Labels
<1>3. \A x \in Messages : Offering(x)' = Offering(x) /\ Done(x)' = Done(x)
    BY <1>1 DEF IInv, Typed, Offering, Done
<1>4. Traced' /\ Counted'
    BY <1>1, <1>3 DEF IInv, Typed, Traced, Counted
<1>5. Kept'
    BY <1>1, <1>3 DEF IInv, Typed, Kept, Owed
<1>6. Protected'
    BY <1>1, <1>3 DEF IInv, Typed, Protected
<1>7. QED
    BY <1>2, <1>4, <1>5, <1>6 DEF IInv

(***************************************************************************)
(* Steps that move a worker from one label to another that is not "offer"  *)
(* and change nothing else; an acknowledgement must be accounted for.      *)
(***************************************************************************)
LEMMA MoveStep ==
    ASSUME IInv, NEW w \in Workers, NEW to \in Labels \ {"idle", "offer"},
           pc[w] \notin {"idle", "offer"}, pc' = [pc EXCEPT ![w] = to],
           \A m \in msg[w] : to \in {"fanout", "ack"} => Offering(m) \/ Done(m),
           UNCHANGED <<broker, msg, claims, memory, failures, history>>
    PROVE  IInv'
<1>1. UNCHANGED <<ready, stale, msg, claims, buffered, dropped, settled, failures, offers, bypassed, crashed>>
    BY DEF broker, memory, history
<1>2. Typed' /\ Bounded' /\ Single'
    BY <1>1 DEF IInv, Typed, Bounded, Single
<1>3. \A x \in Messages : Offering(x)' = Offering(x) /\ Done(x)' = Done(x)
    BY <1>1 DEF IInv, Typed, Offering, Done
<1>4. Traced' /\ Counted'
    BY <1>1, <1>3 DEF IInv, Typed, Traced, Counted
<1>5. Kept'
    BY <1>1, <1>3 DEF IInv, Typed, Kept, Owed
<1>6. Protected'
    BY <1>1, <1>3 DEF IInv, Typed, Protected
<1>7. QED
    BY <1>2, <1>4, <1>5, <1>6 DEF IInv

LEMMA ParseStep == ASSUME IInv, NEW w \in Workers, Parse(w) PROVE IInv'
<1> DEFINE to == IF msg[w] \subseteq Malformed THEN "nack" ELSE "claim"
<1>1. pc[w] = "parse" /\ pc' = [pc EXCEPT ![w] = to] /\ to \in {"nack", "claim"}
    BY DEF Parse, Goto
<1> HIDE DEF to
<1>2. UNCHANGED <<broker, msg, claims, memory, failures, history>>
    BY DEF Parse
<1>3. QED
    BY <1>1, <1>2, MoveStep DEF Labels

LEMMA FanoutStep == ASSUME IInv, NEW w \in Workers, Fanout(w) PROVE IInv'
<1>1. pc[w] = "fanout" /\ pc' = [pc EXCEPT ![w] = "ack"]
      /\ UNCHANGED <<broker, msg, claims, memory, failures, history>>
    BY DEF Fanout, Goto
<1>2. \A m \in msg[w] : Offering(m) \/ Done(m)
    BY <1>1 DEF IInv, Traced, Typed
<1>3. QED
    BY <1>1, <1>2, MoveStep DEF Labels

(***************************************************************************)
(* The claim: won, unprotected, or taken for won; or a duplicate.          *)
(***************************************************************************)
LEMMA ClaimStep == ASSUME IInv, NEW w \in Workers, Claim(w) PROVE IInv'
<1>1. PICK m \in Messages : msg[w] = {m}
    BY DEF Claim, ClaimFirst, Duplicate, NoMessageId, RedisFault, Goto, IInv, Single
<1>2. /\ pc[w] = "claim"
      /\ UNCHANGED <<ready, stale, msg, buffered, dropped, settled, offers, crashed>>
    BY DEF Claim, ClaimFirst, Duplicate, NoMessageId, RedisFault, Goto, broker, memory
<1>3. ClaimStore(w) \in Instances \cup {Redis} /\ (SharedDedup => ClaimStore(w) = Redis)
    BY PipelineAssumption DEF ClaimStore
<1>4. CASE Duplicate(w)
  <2>1. pc' = [pc EXCEPT ![w] = "ack"] /\ UNCHANGED <<claims, failures, bypassed>>
        /\ m \in claims[ClaimStore(w)]
      BY <1>1, <1>4 DEF Duplicate, Goto
  <2>2. Offering(m) \/ Done(m)
      BY <1>3, <2>1 DEF IInv, Traced
  <2>3. QED
      BY <1>1, <1>2, <2>1, <2>2, MoveStep DEF Labels, broker, memory, history
<1>5. CASE ClaimFirst(w) \/ NoMessageId(w) \/ RedisFault(w)
  <2>1. /\ pc' = [pc EXCEPT ![w] = "offer"]
        /\ claims' \in [Instances \cup {Redis} -> SUBSET Messages]
        /\ \A s \in Instances \cup {Redis} : claims[s] \subseteq claims'[s] /\ claims'[s] \subseteq claims[s] \cup {m}
      BY <1>1, <1>3, <1>5 DEF ClaimFirst, NoMessageId, RedisFault, Goto, IInv, Typed
  <2>2. /\ failures' \in [channel : 0 .. MaxChannelLosses, crash : 0 .. MaxCrashes, redis : 0 .. MaxRedisFaults]
        /\ bypassed \subseteq bypassed' /\ bypassed' \subseteq bypassed \cup {m}
      BY <1>1, <1>5, PipelineAssumption DEF ClaimFirst, NoMessageId, RedisFault, IInv, Typed
  <2>3. Typed' /\ Bounded' /\ Single'
      BY <1>1, <1>2, <2>1, <2>2 DEF IInv, Typed, Bounded, Single, Labels
  <2>4. \A x \in Messages : (Offering(x)' <=> Offering(x) \/ x = m) /\ Done(x)' = Done(x)
      BY <1>1, <1>2, <2>1 DEF IInv, Typed, Offering, Done
  <2>5. Traced'
      BY <1>1, <1>2, <2>1, <2>4 DEF IInv, Typed, Traced
  <2>6. Kept' /\ Counted'
      BY <1>2, <2>4 DEF IInv, Kept, Owed, Counted
  <2>7. Protected'
    <3>1. SharedDedup => \/ m \in Anonymous \cup bypassed'
                         \/ m \notin claims[Redis] /\ m \in claims'[Redis]
        BY <1>1, <1>3, <1>5 DEF ClaimFirst, NoMessageId, RedisFault, IInv, Typed
    <3>2. ASSUME SharedDedup, NEW x \in Messages, x \notin Anonymous \cup bypassed', x # m
          PROVE  /\ offers'[x] <= 1
                 /\ offers'[x] > 0 => x \in claims'[Redis] /\ ~Offering(x)'
                 /\ \A v \in Workers : x \in msg'[v] /\ pc'[v] = "offer" =>
                      x \in claims'[Redis] /\ \A u \in Workers : x \in msg'[u] /\ pc'[u] = "offer" => v = u
        BY <1>1, <1>2, <2>1, <2>2, <2>4, <3>2 DEF IInv, Typed, Protected
    <3>3. ASSUME SharedDedup, m \notin Anonymous \cup bypassed'
          PROVE  /\ offers'[m] = 0 /\ m \in claims'[Redis]
                 /\ \A u \in Workers : m \in msg'[u] /\ pc'[u] = "offer" => u = w
      <4>1. m \notin claims[Redis] /\ m \in claims'[Redis] /\ m \notin bypassed
          BY <2>2, <3>1, <3>3
      <4>2. ~Offering(m) /\ ~(offers[m] > 0) /\ offers[m] \in 0 .. 2
          BY <3>3, <4>1 DEF IInv, Protected, Offering, Typed
      <4>3. QED
          BY <1>1, <1>2, <2>1, <4>1, <4>2 DEF IInv, Typed, Offering
    <3>4. QED
        BY <3>2, <3>3 DEF Protected
  <2>8. QED
      BY <2>3, <2>5, <2>6, <2>7 DEF IInv
<1>6. QED
    BY <1>4, <1>5 DEF Claim

(***************************************************************************)
(* The offer: Offering becomes Done, and the message is counted.           *)
(***************************************************************************)
LEMMA BufferBounded ==
    ASSUME IInv, NEW w \in Workers, NEW m \in Messages, msg[w] = {m}, Buffer(w)
    PROVE  /\ Bounded'
           /\ buffered' \in [Instances -> SUBSET Messages]
           /\ dropped \subseteq dropped' /\ dropped' \subseteq Messages
           /\ \A i \in Instances : buffered[i] \subseteq buffered'[i] /\ buffered'[i] \subseteq buffered[i] \cup {m}
           /\ m \in dropped' \/ m \in buffered'[Host[w]]
           /\ dropped' \subseteq dropped \cup {m}
<1>1. Host[w] \in Instances /\ buffered \in [Instances -> SUBSET Messages]
    BY PipelineAssumption DEF IInv, Typed
<1>2. CASE Cardinality(buffered[Host[w]]) < Capacity /\ Enqueue(w)
  <2>1. buffered' = [buffered EXCEPT ![Host[w]] = @ \cup {m}] /\ dropped' = dropped
      BY <1>2 DEF Enqueue
  <2>2. IsFiniteSet(buffered[Host[w]] \cup {m}) /\ Cardinality(buffered[Host[w]] \cup {m}) <= Capacity
    <3>1. IsFiniteSet(buffered[Host[w]])
        BY <1>1 DEF IInv, Bounded
    <3>2. Cardinality(buffered[Host[w]]) \in Nat
        BY <3>1, FS_CardinalityType
    <3>3. IsFiniteSet(buffered[Host[w]] \cup {m})
          /\ Cardinality(buffered[Host[w]] \cup {m}) \in
               {Cardinality(buffered[Host[w]]), Cardinality(buffered[Host[w]]) + 1}
        BY <3>1, FS_AddElement
    <3>4. QED
        BY <1>2, <3>2, <3>3, PipelineAssumption
  <2>3. Bounded'
      BY <1>1, <2>1, <2>2 DEF IInv, Bounded
  <2>4. QED
      BY <1>1, <2>1, <2>3 DEF IInv, Typed
<1>3. CASE buffered' = buffered /\ dropped' = dropped \cup msg[w]
    BY <1>1, <1>3 DEF IInv, Typed, Bounded
<1>4. QED
    BY <1>2, <1>3 DEF Buffer

LEMMA OfferStep == ASSUME IInv, NEW w \in Workers, Offer(w) PROVE IInv'
<1>1. PICK m \in Messages : msg[w] = {m}
    BY DEF Offer, Goto, IInv, Single
<1>2. /\ pc[w] = "offer" /\ pc' = [pc EXCEPT ![w] = "fanout"]
      /\ offers' = [x \in Messages |-> IF x \in msg[w] /\ offers[x] < 2 THEN offers[x] + 1 ELSE offers[x]]
      /\ UNCHANGED <<ready, stale, msg, claims, settled, failures, bypassed, crashed>>
    BY DEF Offer, Goto, broker
<1>3. /\ Bounded'
      /\ buffered' \in [Instances -> SUBSET Messages]
      /\ dropped \subseteq dropped' /\ dropped' \subseteq Messages /\ dropped' \subseteq dropped \cup {m}
      /\ \A i \in Instances : buffered[i] \subseteq buffered'[i] /\ buffered'[i] \subseteq buffered[i] \cup {m}
      /\ m \in dropped' \/ m \in buffered'[Host[w]]
    BY <1>1, BufferBounded DEF Offer
<1>4. /\ offers'[m] > 0 /\ offers' \in [Messages -> 0 .. 2]
      /\ \A x \in Messages : x # m => offers'[x] = offers[x]
      /\ offers[m] = 0 => offers'[m] = 1
    BY <1>1, <1>2 DEF IInv, Typed
<1>5. Typed' /\ Single'
    BY <1>2, <1>3, <1>4 DEF IInv, Typed, Single, Labels
<1>6. /\ \A x \in Messages : (Done(x) => Done(x)') /\ (Done(x)' => Done(x) \/ x = m)
      /\ Done(m)'
    BY <1>2, <1>3, PipelineAssumption DEF Done
<1>7. \A x \in Messages : (x # m => (Offering(x)' <=> Offering(x))) /\ (Offering(x)' => Offering(x))
    BY <1>1, <1>2 DEF IInv, Typed, Offering
<1>8. Traced'
    BY <1>1, <1>2, <1>6, <1>7 DEF IInv, Typed, Traced
<1>9. Kept' /\ Counted'
    BY <1>2, <1>4, <1>6, <1>7 DEF IInv, Kept, Owed, Counted
<1>10. Protected'
  <2>1. ASSUME SharedDedup, NEW x \in Messages, x \notin Anonymous \cup bypassed', x # m
        PROVE  /\ offers'[x] <= 1
               /\ offers'[x] > 0 => x \in claims'[Redis] /\ ~Offering(x)'
               /\ \A v \in Workers : x \in msg'[v] /\ pc'[v] = "offer" =>
                    x \in claims'[Redis] /\ \A u \in Workers : x \in msg'[u] /\ pc'[u] = "offer" => v = u
      BY <1>1, <1>2, <1>4, <1>7, <2>1 DEF IInv, Typed, Protected
  <2>2. ASSUME SharedDedup, m \notin Anonymous \cup bypassed'
        PROVE  offers'[m] = 1 /\ m \in claims'[Redis] /\ ~Offering(m)'
    <3>1. m \in claims[Redis] /\ \A u \in Workers : m \in msg[u] /\ pc[u] = "offer" => u = w
        BY <1>1, <1>2, <2>2 DEF IInv, Protected
    <3>2. offers[m] = 0
        BY <1>1, <1>2, <2>2 DEF IInv, Typed, Protected, Offering
    <3>3. QED
        BY <1>2, <1>4, <3>1, <3>2 DEF IInv, Typed, Offering
  <2>3. QED
      BY <2>1, <2>2 DEF Protected, Offering
<1>11. QED
    BY <1>3, <1>5, <1>8, <1>9, <1>10 DEF IInv

(***************************************************************************)
(* The end of a callback: what it held is requeued, or the broker has it   *)
(* back already, or it is accounted for.                                   *)
(***************************************************************************)
LEMMA FinishStep ==
    ASSUME IInv, NEW w \in Workers, pc[w] \in {"ack", "nack"}, Ack(w) \/ Nack(w)
    PROVE  IInv'
<1>1. PICK m \in Messages : msg[w] = {m}
    BY DEF IInv, Single
<1>2. /\ pc' = [pc EXCEPT ![w] = "idle"] /\ msg' = [msg EXCEPT ![w] = {}] /\ stale' = stale \ {w}
      /\ ready \subseteq ready' /\ ready' \subseteq Messages
      /\ UNCHANGED <<claims, buffered, dropped, settled, failures, offers, bypassed, crashed>>
    BY <1>1 DEF Ack, Nack, Finish, Goto, memory, history, IInv, Typed
<1>3. m \in ready' \/ w \in stale \/ Offering(m) \/ Done(m)
    BY <1>1 DEF Ack, Nack, Goto, IInv, Traced
<1>4. Typed' /\ Bounded' /\ Single'
    BY <1>2 DEF IInv, Typed, Bounded, Single, Labels
<1>5. \A x \in Messages : Offering(x)' = Offering(x) /\ Done(x)' = Done(x)
    BY <1>2 DEF IInv, Typed, Offering, Done
<1>6. Traced' /\ Counted'
    BY <1>2, <1>5 DEF IInv, Typed, Traced, Counted
<1>7. Kept'
  <2>1. \A x \in Messages : Owed(x) => Owed(x)' \/ (x = m /\ w \notin stale)
      BY <1>1, <1>2 DEF IInv, Typed, Owed
  <2>2. QED
      BY <1>2, <1>3, <1>5, <2>1 DEF IInv, Kept
<1>8. Protected'
    BY <1>2, <1>5 DEF IInv, Typed, Protected
<1>9. QED
    BY <1>4, <1>6, <1>7, <1>8 DEF IInv

LEMMA PersistStep ==
    ASSUME IInv, NEW i \in Instances, NEW m \in Messages, Persist(i, m)
    PROVE  IInv'
<1>1. /\ m \in buffered[i] /\ buffered' = [buffered EXCEPT ![i] = @ \ {m}]
      /\ settled' = settled \cup {m}
      /\ UNCHANGED <<ready, stale, pc, msg, claims, dropped, failures, offers, bypassed, crashed>>
    BY DEF Persist, broker, worker, history
<1>2. Typed' /\ Single'
    BY <1>1 DEF IInv, Typed, Single
<1>3. Bounded'
  <2>1. IsFiniteSet(buffered[i] \ {m}) /\ Cardinality(buffered[i] \ {m}) <= Capacity
    <3>1. IsFiniteSet(buffered[i]) /\ Cardinality(buffered[i]) <= Capacity
        BY DEF IInv, Bounded
    <3>2. Cardinality(buffered[i]) \in Nat
        BY <3>1, FS_CardinalityType
    <3>3. IsFiniteSet(buffered[i] \ {m}) /\ Cardinality(buffered[i] \ {m}) = Cardinality(buffered[i]) - 1
        BY <1>1, <3>1, FS_RemoveElement
    <3>4. QED
        BY <3>1, <3>2, <3>3, PipelineAssumption
  <2>2. QED
      BY <1>1, <2>1 DEF IInv, Typed, Bounded
<1>4. \A x \in Messages : Offering(x)' = Offering(x) /\ (Done(x)' <=> Done(x))
    BY <1>1 DEF IInv, Typed, Offering, Done
<1>5. Traced' /\ Kept' /\ Counted' /\ Protected'
    BY <1>1, <1>4 DEF IInv, Typed, Traced, Kept, Owed, Counted, Protected
<1>6. QED
    BY <1>2, <1>3, <1>5 DEF IInv

(***************************************************************************)
(* Failures.                                                               *)
(***************************************************************************)
LEMMA LoseChannelStep == ASSUME IInv, NEW w \in Workers, LoseChannel(w) PROVE IInv'
<1>1. /\ failures' \in [channel : 0 .. MaxChannelLosses, crash : 0 .. MaxCrashes, redis : 0 .. MaxRedisFaults]
      /\ pc[w] # "idle" /\ stale' = stale \cup {w} /\ ready' = ready \cup msg[w]
      /\ UNCHANGED <<pc, msg, claims, buffered, dropped, settled, offers, bypassed, crashed>>
    BY PipelineAssumption DEF LoseChannel, IInv, Typed, worker, memory, history
<1>2. Typed' /\ Bounded' /\ Single'
    BY <1>1 DEF IInv, Typed, Bounded, Single
<1>3. \A x \in Messages : Offering(x)' = Offering(x) /\ Done(x)' = Done(x)
    BY <1>1 DEF Offering, Done
<1>4. Traced' /\ Counted' /\ Protected'
    BY <1>1, <1>3 DEF IInv, Traced, Counted, Protected
<1>5. Kept'
    BY <1>1, <1>3 DEF IInv, Kept, Owed
<1>6. QED
    BY <1>2, <1>4, <1>5 DEF IInv

LEMMA CrashStep == ASSUME IInv, NEW i \in Instances, Crash(i) PROVE IInv'
<1> DEFINE killed == {w \in Workers : Host[w] = i}
<1>1. /\ failures' \in [channel : 0 .. MaxChannelLosses, crash : 0 .. MaxCrashes, redis : 0 .. MaxRedisFaults]
      /\ stale' = stale \ killed
      /\ pc' = [w \in Workers |-> IF w \in killed THEN "idle" ELSE pc[w]]
      /\ msg' = [w \in Workers |-> IF w \in killed THEN {} ELSE msg[w]]
      /\ claims' = [claims EXCEPT ![i] = {}]
      /\ buffered' = [buffered EXCEPT ![i] = {}]
      /\ UNCHANGED <<dropped, settled, offers, bypassed>>
    BY PipelineAssumption DEF Crash, IInv, Typed
<1>2. /\ ready \subseteq ready' /\ ready' \subseteq Messages
      /\ \A w \in killed : w \notin stale => msg[w] \subseteq ready'
    BY DEF Crash, IInv, Typed
<1>3. /\ crashed \subseteq crashed' /\ crashed' \subseteq Messages /\ buffered[i] \subseteq crashed'
      /\ \A w \in killed : pc[w] = "offer" => msg[w] \subseteq crashed'
    BY DEF Crash, IInv, Typed
<1> HIDE DEF killed
<1>4. Typed' /\ Single'
    BY <1>1, <1>2, <1>3 DEF IInv, Typed, Single, Labels
<1>5. Bounded'
    BY <1>1, FS_EmptySet, PipelineAssumption DEF IInv, Typed, Bounded
<1>6. \A x \in Messages : /\ Offering(x)' => Offering(x)
                          /\ Done(x) => Done(x)'
                          /\ Offering(x) => Offering(x)' \/ Done(x)'
                          /\ Done(x)' => Done(x) \/ x \in crashed'
    BY <1>1, <1>3 DEF IInv, Typed, Offering, Done
<1>7. \A s \in Instances \cup {Redis} : claims'[s] \subseteq claims[s]
    BY <1>1 DEF IInv, Typed
<1>8. Traced'
    BY <1>1, <1>6, <1>7 DEF IInv, Typed, Traced
<1>9. Counted'
    BY <1>1, <1>3, <1>6 DEF IInv, Counted
<1>10. Kept'
  <2>1. \A x \in Messages : Owed(x) => Owed(x)' \/ x \in ready'
      BY <1>1, <1>2 DEF Owed
  <2>2. QED
      BY <1>2, <1>6, <2>1 DEF IInv, Kept
<1>11. Protected'
  <2>1. claims'[Redis] = claims[Redis]
      BY <1>1, PipelineAssumption DEF IInv, Typed
  <2>2. \A v \in Workers, x \in Messages : x \in msg'[v] /\ pc'[v] = "offer" => x \in msg[v] /\ pc[v] = "offer"
      BY <1>1
  <2>3. QED
      BY <1>1, <1>6, <2>1, <2>2 DEF IInv, Protected
<1>12. QED
    BY <1>4, <1>5, <1>8, <1>9, <1>10, <1>11 DEF IInv

LEMMA NextStep == IInv /\ [Next]_vars => IInv'
<1> SUFFICES ASSUME IInv, [Next]_vars PROVE IInv'
    OBVIOUS
<1>1. ASSUME NEW w \in Workers, Callback(w) PROVE IInv'
  <2>1. CASE Ack(w) \/ Nack(w)
      BY <2>1, FinishStep DEF Ack, Nack, Goto
  <2>2. QED
      BY <1>1, <2>1, ParseStep, ClaimStep, OfferStep, FanoutStep DEF Callback
<1>2. CASE UNCHANGED vars
  <2>1. UNCHANGED <<ready, stale, pc, msg, claims, buffered, dropped, settled, failures, offers, bypassed, crashed>>
      BY <1>2 DEF vars, broker, worker, memory, history
  <2>2. QED
      BY <2>1 DEF IInv, Typed, Bounded, Single, Traced, Kept, Counted, Protected, Owed, Offering, Done
<1>3. QED
    BY <1>1, <1>2, LoseChannelStep, DeliverStep, CrashStep, PersistStep DEF Next

(***************************************************************************)
(* Every message is in the broker, in the hands of a callback that is not  *)
(* stale, about to be offered, or accounted for; claims and acks rest on   *)
(* an offer; nobody but the holder of a claim offers.                      *)
(***************************************************************************)
THEOREM InductiveInvariant == Spec => []IInv
BY InitInv, NextStep, PTL DEF Spec

(***************************************************************************)
(* Types, one message per callback, buffers within their capacity.         *)
(***************************************************************************)
THEOREM TypeInvariant == Spec => []TypeOK
<1>1. IInv => TypeOK
    BY DEF IInv, Typed, Bounded, TypeOK
<1>2. QED
    BY <1>1, InductiveInvariant, PTL

(***************************************************************************)
(* With claims in Redis, a message with an id is processed once, unless    *)
(* Redis failed to answer its claim.                                       *)
(***************************************************************************)
THEOREM OnceProcessed == Spec => []ProcessedOnce
<1>1. IInv => ProcessedOnce
    BY DEF IInv, Protected, ProcessedOnce
<1>2. QED
    BY <1>1, InductiveInvariant, PTL

(***************************************************************************)
(* Nothing is lost but by a full buffer or a crash.                        *)
(***************************************************************************)
THEOREM NothingLost == Spec => []NothingElseLost
<1>1. IInv => NothingElseLost
  <2> SUFFICES ASSUME IInv, NEW m \in Messages
               PROVE  m \in ready \cup InHand \cup InBuffer \cup settled \cup dropped \cup crashed
      BY DEF NothingElseLost
  <2>1. Owed(m) \/ Offering(m) => m \in InHand
      BY DEF Owed, Offering, InHand
  <2>2. Done(m) => m \in InBuffer \cup settled \cup dropped \cup crashed
      BY DEF Done, InBuffer
  <2>3. QED
      BY <2>1, <2>2 DEF IInv, Kept
<1>2. QED
    BY <1>1, InductiveInvariant, PTL

-----------------------------------------------------------------------------
(***************************************************************************)
(* The refinement: every step is a step of EffectivelyOnce or a stutter.   *)
(***************************************************************************)
Keeping(m) == m \in ready \/ Held(m)

LEMMA Stutter ==
    ASSUME \A m \in Messages : Keeping(m)' <=> Keeping(m),
           UNCHANGED <<offers, bypassed, crashed>>
    PROVE  UNCHANGED Once!onceVars
BY DEF Once!onceVars, Keeping, Held, InHand

LEMMA OfferIsProcess ==
    ASSUME IInv, SharedDedup, NEW w \in Workers, Offer(w)
    PROVE  Once!OnceNext
<1>1. PICK m \in Messages : msg[w] = {m}
    BY DEF Offer, Goto, IInv, Single
<1>2. /\ pc[w] = "offer" /\ UNCHANGED <<ready, msg, bypassed, crashed>>
      /\ offers' = [x \in Messages |-> IF x \in msg[w] /\ offers[x] < 2 THEN offers[x] + 1 ELSE offers[x]]
      /\ offers \in [Messages -> 0 .. 2]
    BY DEF Offer, Goto, broker, IInv, Typed
<1>3. m \in Anonymous \cup bypassed \/ offers[m] = 0
    BY <1>1, <1>2 DEF IInv, Protected, Offering
<1>4. offers' = [offers EXCEPT ![m] = IF @ < 2 THEN @ + 1 ELSE 2]
  <2> DEFINE more == IF offers[m] < 2 THEN offers[m] + 1 ELSE 2
  <2>1. offers'[m] = more
      BY <1>1, <1>2
  <2>2. \A x \in Messages : x # m => offers'[x] = offers[x]
      BY <1>1, <1>2
  <2> HIDE DEF more
  <2>3. offers' = [offers EXCEPT ![m] = more]
      BY <1>2, <2>1, <2>2
  <2>4. QED
      BY <2>3 DEF more
<1>5. m \in InHand /\ InHand' = InHand
    BY <1>1, <1>2 DEF InHand
<1>6. Once!Process(m)
    BY <1>2, <1>3, <1>4, <1>5 DEF Once!Process
<1>7. QED
    BY <1>6 DEF Once!OnceNext

\* What leaves the broker and the callbacks is Done, hence offered or lost.
LEMMA FinishIsRelease ==
    ASSUME IInv, IInv', NEW w \in Workers, Ack(w) \/ Nack(w)
    PROVE  [Once!OnceNext]_(Once!onceVars)
<1>1. PICK m \in Messages : msg[w] = {m}
    BY DEF Ack, Nack, Goto, IInv, Single
<1>2. /\ msg' = [msg EXCEPT ![w] = {}] /\ ready \subseteq ready' /\ ready' \subseteq ready \cup {m}
      /\ UNCHANGED <<offers, bypassed, crashed>>
    BY <1>1 DEF Ack, Nack, Finish, Goto, memory, history
<1>3. \A x \in Messages : x # m => (Keeping(x)' <=> Keeping(x))
    BY <1>1, <1>2 DEF Keeping, Held, IInv, Typed
<1>4. Keeping(m)
    BY <1>1 DEF Keeping, Held
<1>5. CASE Keeping(m)'
    BY <1>2, <1>3, <1>4, <1>5, Stutter
<1>6. CASE ~Keeping(m)'
  <2>1. Done(m)'
      BY <1>6 DEF Keeping, Held, IInv, Kept, Owed, Offering
  <2>2. m \in crashed' \/ offers[m] > 0
      BY <1>2, <2>1 DEF IInv, Counted
  <2>3. \A x \in Messages : /\ (x \in ready' \cup InHand' <=> Keeping(x)')
                            /\ (x \in ready \cup InHand <=> Keeping(x))
      BY DEF Keeping, Held, InHand
  <2>4. Once!LetGo({m})
      BY <1>3, <1>4, <1>6, <2>2, <2>3 DEF Once!LetGo
  <2>5. Once!Release(m)
      BY <1>2, <2>4 DEF Once!Release
  <2>6. QED
      BY <2>5 DEF Once!OnceNext
<1>7. QED
    BY <1>5, <1>6

LEMMA CrashIsCrash ==
    ASSUME IInv, IInv', NEW i \in Instances, Crash(i)
    PROVE  Once!OnceNext
<1> DEFINE held == crashed' \ crashed
           before == ready \cup InHand
           after == ready' \cup InHand'
           released == {m \in Messages : m \in before /\ m \notin after}
<1>1. \A x \in Messages : /\ (x \in ready' \cup InHand' <=> Keeping(x)')
                          /\ (x \in ready \cup InHand <=> Keeping(x))
    BY DEF Keeping, Held, InHand
<1>2. /\ UNCHANGED <<offers, bypassed>> /\ crashed' = crashed \cup held
      /\ held \subseteq Messages
    BY DEF Crash, IInv, Typed
<1>3. \A x \in Messages : Keeping(x)' => Keeping(x)
  <2>1. \A v \in Workers : msg'[v] \subseteq msg[v]
      BY DEF Crash
  <2>2. \A x \in ready' : x \in ready \/ Held(x)
      BY DEF Crash, Held
  <2>3. QED
      BY <2>1, <2>2 DEF Keeping, Held
<1>4. ASSUME NEW m \in Messages, ~Keeping(m)' PROVE offers[m] > 0 \/ m \in crashed'
  <2>1. Done(m)'
      BY <1>4 DEF Keeping, Held, IInv, Kept, Owed, Offering
  <2>2. QED
      BY <1>2, <2>1 DEF IInv, Counted
<1>5. Once!LetGo(released)
    BY <1>1, <1>3, <1>4 DEF Once!LetGo
<1>6. Once!Crash
  <2>1. released \in SUBSET Messages /\ held \in SUBSET Messages
      BY <1>2
  <2> HIDE DEF released, held
  <2> DEFINE there == {m \in Messages :
                 [x \in Messages |-> IF x \in ready \cup InHand THEN "kept" ELSE "gone"][m] # "absent"}
  <2>2. released \in SUBSET there /\ held \in SUBSET there
      BY <2>1
  <2>3. crashed' = crashed \cup held /\ UNCHANGED <<offers, Anonymous \cup bypassed>>
      BY <1>2
  <2> HIDE DEF there
  <2>4. \E h, r \in SUBSET there :
          crashed' = crashed \cup h /\ Once!LetGo(r) /\ UNCHANGED <<offers, Anonymous \cup bypassed>>
      BY <1>5, <2>2, <2>3, SMTT(30) DEF Once!LetGo
  <2>5. QED
      BY <2>4, Zenon DEF Once!Crash, Once!LetGo, there
<1>7. QED
    BY <1>6 DEF Once!OnceNext

LEMMA StepIsStep ==
    ASSUME SharedDedup, IInv, IInv', [Next]_vars
    PROVE  [Once!OnceNext]_(Once!onceVars)
<1>1. ASSUME NEW w \in Workers, Parse(w) \/ Fanout(w) PROVE UNCHANGED Once!onceVars
  <2>1. UNCHANGED <<ready, msg, offers, bypassed, crashed>>
      BY <1>1 DEF Parse, Fanout, broker, history
  <2>2. QED
      BY <2>1, Stutter DEF Keeping, Held
<1>2. ASSUME NEW w \in Workers, Claim(w) PROVE [Once!OnceNext]_(Once!onceVars)
  <2>1. PICK m \in Messages : msg[w] = {m}
      BY <1>2 DEF Claim, ClaimFirst, Duplicate, NoMessageId, RedisFault, Goto, IInv, Single
  <2>2. UNCHANGED <<ready, msg, offers, crashed>>
      BY <1>2 DEF Claim, broker
  <2>3. CASE RedisFault(w)
    <3>1. m \in InHand /\ InHand' = InHand /\ bypassed' = bypassed \cup {m}
        BY <2>1, <2>2, <2>3 DEF InHand, RedisFault
    <3>2. Once!Exempt(m)
        BY <2>2, <3>1 DEF Once!Exempt
    <3>3. QED
        BY <3>2 DEF Once!OnceNext
  <2>4. CASE bypassed' = bypassed
      BY <2>2, <2>4, Stutter DEF Keeping, Held
  <2>5. QED
      BY <1>2, <2>3, <2>4 DEF Claim, ClaimFirst, Duplicate, NoMessageId
<1>3. ASSUME NEW w \in Workers, Callback(w) PROVE [Once!OnceNext]_(Once!onceVars)
    BY <1>1, <1>2, <1>3, OfferIsProcess, FinishIsRelease DEF Callback
<1>4. ASSUME NEW w \in Workers, LoseChannel(w) PROVE UNCHANGED Once!onceVars
  <2>1. UNCHANGED <<msg, offers, bypassed, crashed>> /\ ready' = ready \cup msg[w]
      BY <1>4 DEF LoseChannel, worker, history
  <2>2. QED
      BY <2>1, Stutter DEF Keeping, Held
<1>5. ASSUME NEW w \in Workers, NEW m \in Messages, Deliver(w, m) PROVE UNCHANGED Once!onceVars
  <2>1. /\ UNCHANGED <<offers, bypassed, crashed>> /\ m \in ready /\ ready' = ready \ {m}
        /\ msg[w] = {} /\ msg' = [msg EXCEPT ![w] = {m}]
      BY <1>5 DEF Deliver, Goto, history, IInv, Single
  <2>2. \A x \in Messages : Keeping(x)' <=> Keeping(x)
      BY <2>1 DEF Keeping, Held, IInv, Typed
  <2>3. QED
      BY <2>1, <2>2, Stutter
<1>6. ASSUME NEW i \in Instances, NEW m \in Messages, Persist(i, m) PROVE UNCHANGED Once!onceVars
  <2>1. UNCHANGED <<ready, msg, offers, bypassed, crashed>>
      BY <1>6 DEF Persist, broker, worker, history
  <2>2. QED
      BY <2>1, Stutter DEF Keeping, Held
<1>7. CASE UNCHANGED vars
  <2>1. UNCHANGED <<ready, msg, offers, bypassed, crashed>>
      BY <1>7 DEF vars, broker, worker, history
  <2>2. QED
      BY <2>1, Stutter DEF Keeping, Held
<1>8. QED
    BY <1>3, <1>4, <1>5, <1>6, <1>7, CrashIsCrash DEF Next

(***************************************************************************)
(* With claims in Redis, workers, broker and crashes implement             *)
(* EffectivelyOnce: kept until processed, processed once, save for the     *)
(* exceptions it spells out.                                               *)
(***************************************************************************)
THEOREM Refinement == SharedDedup => (Spec => ImplementsEffectivelyOnce)
<1>1. Init => Once!OnceInit
    BY PipelineAssumption DEF Init, InHand, Once!OnceInit
<1>2. SharedDedup /\ IInv /\ IInv' /\ [Next]_vars => [Once!OnceNext]_(Once!onceVars)
    BY StepIsStep
<1>3. ASSUME SharedDedup PROVE IInv /\ IInv' /\ [Next]_vars => [Once!OnceNext]_(Once!onceVars)
    BY <1>2, <1>3
<1>4. ASSUME SharedDedup PROVE Spec => ImplementsEffectivelyOnce
    BY <1>1, <1>3, <1>4, InductiveInvariant, PTL DEF Spec, ImplementsEffectivelyOnce, Once!OnceSpec
<1>5. QED
    BY <1>4
=============================================================================
