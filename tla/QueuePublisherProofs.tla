------------------------ MODULE QueuePublisherProofs ------------------------
(***************************************************************************)
(* Proofs about QueuePublisher, for any number of threads, channels and    *)
(* outages and any failure threshold.                                      *)
(***************************************************************************)
EXTENDS QueuePublisher, SequenceTheorems, FiniteSetTheorems, TLAPS

\* The labels of a call between borrowing a channel and giving it back.
Holding ==
    {"publish", "confirm", "close", "reset", "failed", "restamp", "reopen",
     "count", "trip", "stamp", "return"}

Held ==
    \A t \in Threads : IF pc[t] \in Holding THEN held[t] \in Channels ELSE held[t] = None

(***************************************************************************)
(* Every variable keeps its type, and a call holds a channel exactly from  *)
(* the borrow to the return of its finally block (QueuePublisher.publish). *)
(***************************************************************************)
THEOREM TypeInvariant == Spec => [](TypeOK /\ Held)
  <1> DEFINE Inv == TypeOK /\ Held
  <1>1. Init => Inv
    <2> SUFFICES ASSUME Init PROVE Inv
      OBVIOUS
    <2>1. Cardinality(Channels) \in Nat
      BY PublisherAssumption, FS_CardinalityType
    <2>2. pool \in Seq(Channels)
      BY <2>1 DEF Init, Orders
    <2> QED  BY <2>2, PublisherAssumption DEF Init, TypeOK, Held, Labels, Holding
  <1>2. Inv /\ [Next]_vars => Inv'
    <2> SUFFICES ASSUME TypeOK, Held, [Next]_vars PROVE TypeOK' /\ Held'
      OBVIOUS
    <2> USE PublisherAssumption DEF circuit, channels, external, Labels, Holding, Goto
    <2>1. ASSUME NEW t \in Threads, Call(t) \/ Step(t) PROVE TypeOK' /\ Held'
      <3>1. CASE Call(t)           BY <3>1 DEF Call, TypeOK, Held
      <3>2. CASE Guard(t)          BY <3>2 DEF Guard, TypeOK, Held
      <3>3. CASE CheckCooldown(t)  BY <3>3 DEF CheckCooldown, TypeOK, Held
      <3>4. CASE Probe(t)          BY <3>4 DEF Probe, TypeOK, Held
      <3>5. CASE Serialize(t)      BY <3>5 DEF Serialize, TypeOK, Held
      <3>6. CASE Borrow(t)
        <4>1. Head(pool) \in Channels /\ Tail(pool) \in Seq(Channels)
          BY <3>6, HeadTailProperties DEF Borrow, TypeOK
        <4> QED  BY <3>6, <4>1 DEF Borrow, TypeOK, Held
      <3>7. CASE Publish(t)        BY <3>7 DEF Publish, TypeOK, Held
      <3>8. CASE Confirm(t)        BY <3>8 DEF Confirm, Confirmed, NotConfirmed, TypeOK, Held
      <3>9. CASE Return(t)
        <4>1. Append(pool, held[t]) \in Seq(Channels)
          BY <3>9, AppendProperties DEF Return, TypeOK, Held
        <4> QED  BY <3>9, <4>1 DEF Return, TypeOK, Held
      <3>10. CASE Close(t)         BY <3>10 DEF Close, TypeOK, Held
      <3>11. CASE ResetCount(t)    BY <3>11 DEF ResetCount, TypeOK, Held
      <3>12. CASE Failed(t)        BY <3>12 DEF Failed, TypeOK, Held
      <3>13. CASE Stamp(t)         BY <3>13 DEF Stamp, TypeOK, Held
      <3>14. CASE Reopen(t)        BY <3>14 DEF Reopen, TypeOK, Held
      <3>15. CASE Count(t)         BY <3>15 DEF Count, TypeOK, Held
      <3>16. CASE Trip(t)          BY <3>16 DEF Trip, TypeOK, Held
      <3> QED
        BY <2>1, <3>1, <3>2, <3>3, <3>4, <3>5, <3>6, <3>7, <3>8, <3>9, <3>10, <3>11,
           <3>12, <3>13, <3>14, <3>15, <3>16
        DEF Step
    <2>2. CASE Cooldown    BY <2>2 DEF Cooldown, TypeOK, Held
    <2>3. CASE SlowDown    BY <2>3 DEF SlowDown, Outage, TypeOK, Held
    <2>4. CASE Disconnect  BY <2>4 DEF Disconnect, Outage, TypeOK, Held
    <2>5. CASE Recover     BY <2>5 DEF Recover, TypeOK, Held
    <2>6. CASE UNCHANGED vars
      BY <2>6 DEF vars, TypeOK, Held
    <2> QED  BY <2>1, <2>2, <2>3, <2>4, <2>5, <2>6 DEF Next
  <1> QED  BY <1>1, <1>2, PTL DEF Spec

-----------------------------------------------------------------------------
(***************************************************************************)
(* The channels.  Only Borrow and Return touch the pool, and each moves    *)
(* one channel between the pool and a thread.                              *)
(***************************************************************************)
LEMMA OnlyBorrowAndReturn ==
    ASSUME [Next]_vars
    PROVE  UNCHANGED channels \/ \E t \in Threads : Borrow(t) \/ Return(t)
  BY DEF Next, Step, Call, Guard, CheckCooldown, Probe, Serialize, Publish, Confirm,
         Close, ResetCount, Failed, Stamp, Reopen, Count, Trip,
         Cooldown, SlowDown, Disconnect, Recover, vars

Distinct(s) == \A i, j \in DOMAIN s : s[i] = s[j] => i = j

\* Taking the first channel of a pool that has every channel once.
LEMMA TakeFirst ==
    ASSUME NEW s \in Seq(Channels), s # <<>>, Distinct(s)
    PROVE  /\ Head(s) \in Channels /\ Distinct(Tail(s))
           /\ Head(s) \notin {Tail(s)[i] : i \in DOMAIN Tail(s)}
           /\ {s[i] : i \in DOMAIN s} = {Head(s)} \cup {Tail(s)[i] : i \in DOMAIN Tail(s)}
  <1>1. /\ Len(s) \in Nat /\ Len(s) >= 1 /\ DOMAIN s = 1 .. Len(s) /\ Head(s) = s[1]
        /\ DOMAIN Tail(s) = 1 .. (Len(s) - 1)
        /\ \A i \in 1 .. (Len(s) - 1) : Tail(s)[i] = s[i + 1] /\ i + 1 \in 1 .. Len(s) /\ i + 1 # 1
        /\ Head(s) \in Channels
    BY EmptySeq
  <1>2. \A i \in 1 .. Len(s) : i = 1 \/ (i - 1 \in 1 .. (Len(s) - 1) /\ (i - 1) + 1 = i)
    BY <1>1
  <1>3. Distinct(Tail(s)) /\ Head(s) \notin {Tail(s)[i] : i \in DOMAIN Tail(s)}
    BY <1>1 DEF Distinct
  <1>4. {s[i] : i \in DOMAIN s} = {Head(s)} \cup {Tail(s)[i] : i \in DOMAIN Tail(s)}
    <2>1. ASSUME NEW i \in DOMAIN s PROVE s[i] \in {Head(s)} \cup {Tail(s)[j] : j \in DOMAIN Tail(s)}
      <3>1. CASE i = 1
        BY <1>1, <3>1
      <3>2. CASE i # 1
        <4>1. i - 1 \in DOMAIN Tail(s) /\ Tail(s)[i - 1] = s[i]
          BY <1>1, <1>2, <3>2
        <4> QED  BY <4>1
      <3> QED  BY <3>1, <3>2
    <2>2. Head(s) = s[1] /\ 1 \in DOMAIN s
      BY <1>1
    <2>3. \A i \in DOMAIN Tail(s) : i + 1 \in DOMAIN s /\ Tail(s)[i] = s[i + 1]
      BY <1>1
    <2> QED  BY <2>1, <2>2, <2>3
  <1> QED  BY <1>1, <1>3, <1>4

\* Putting a channel that is not in the pool at its end.
LEMMA PutLast ==
    ASSUME NEW s \in Seq(Channels), NEW c \in Channels, Distinct(s),
           c \notin {s[i] : i \in DOMAIN s}
    PROVE  /\ Distinct(Append(s, c))
           /\ {Append(s, c)[i] : i \in DOMAIN Append(s, c)} = {s[i] : i \in DOMAIN s} \cup {c}
  <1>1. /\ Len(s) \in Nat /\ DOMAIN s = 1 .. Len(s) /\ DOMAIN Append(s, c) = 1 .. (Len(s) + 1)
        /\ \A i \in 1 .. Len(s) : Append(s, c)[i] = s[i]
        /\ Append(s, c)[Len(s) + 1] = c
    OBVIOUS
  <1>2. \A i \in 1 .. (Len(s) + 1) : i \in 1 .. Len(s) \/ i = Len(s) + 1
    BY <1>1
  <1> QED  BY <1>1, <1>2 DEF Distinct

HeldBySome == {held[t] : t \in Threads}

Accounted == Channels \subseteq InPool \cup HeldBySome

ChannelInvariant == ChannelsExclusive /\ Accounted

\* Borrowing moves the head of the pool to one thread.
LEMMA BorrowKeeps ==
    ASSUME TypeOK, Held, ChannelInvariant, NEW t \in Threads, Borrow(t)
    PROVE  ChannelInvariant'
  <1> DEFINE c == Head(pool)
  <1>1. /\ pool \in Seq(Channels) /\ pool # <<>> /\ pool' = Tail(pool)
        /\ held' = [held EXCEPT ![t] = c] /\ held[t] = None
    BY DEF Borrow, Goto, TypeOK, Held, Holding
  <1>2. c \in Channels /\ InPool = {c} \cup InPool'
    <2>1. Distinct(pool)
      BY DEF ChannelInvariant, ChannelsExclusive, Distinct
    <2> QED  BY <1>1, <2>1, TakeFirst DEF InPool
  <1>3. Distinct(pool') /\ c \notin InPool'
    <2>1. Distinct(pool)
      BY DEF ChannelInvariant, ChannelsExclusive, Distinct
    <2> QED  BY <1>1, <2>1, TakeFirst DEF InPool
  <1>4. held'[t] = c /\ \A u \in Threads \ {t} : held'[u] = held[u] /\ held[u] \notin InPool
    BY <1>1 DEF TypeOK, ChannelInvariant, ChannelsExclusive
  <1> HIDE DEF c
  <1>5. ChannelsExclusive'
    BY <1>2, <1>3, <1>4 DEF ChannelInvariant, ChannelsExclusive, Distinct
  <1>6. Accounted'
    <2> SUFFICES ASSUME NEW d \in Channels PROVE d \in InPool' \cup HeldBySome'
      BY DEF Accounted
    <2>1. CASE d \in InPool
      BY <1>2, <1>4, <2>1 DEF HeldBySome
    <2>2. CASE d \in HeldBySome
      <3>1. PICK u \in Threads : held[u] = d
        BY <2>2 DEF HeldBySome
      <3>2. u # t
        BY <1>1, <3>1, PublisherAssumption
      <3> QED  BY <1>4, <3>1, <3>2 DEF HeldBySome
    <2> QED  BY <2>1, <2>2 DEF ChannelInvariant, Accounted
  <1> QED  BY <1>5, <1>6 DEF ChannelInvariant

\* Returning moves the channel of one thread to the end of the pool.
LEMMA ReturnKeeps ==
    ASSUME TypeOK, Held, ChannelInvariant, NEW t \in Threads, Return(t)
    PROVE  ChannelInvariant'
  <1> DEFINE c == held[t]
  <1>1. /\ pool \in Seq(Channels) /\ pool' = Append(pool, c) /\ c \in Channels
        /\ held' = [held EXCEPT ![t] = None]
    BY DEF Return, Goto, TypeOK, Held, Holding
  <1>2. c \notin InPool /\ c # None /\ Distinct(pool)
    BY <1>1, PublisherAssumption DEF ChannelInvariant, ChannelsExclusive, Distinct
  <1>3. InPool' = InPool \cup {c}
    BY <1>1, <1>2, PutLast DEF InPool
  <1>4. Distinct(pool')
    BY <1>1, <1>2, PutLast DEF InPool
  <1>5. held'[t] = None /\ \A u \in Threads \ {t} : held'[u] = held[u] /\ held[u] # c
    BY <1>1, <1>2 DEF TypeOK, ChannelInvariant, ChannelsExclusive
  <1>6. None \notin InPool'
    <2>1. InPool \subseteq Channels
      BY <1>1 DEF InPool
    <2> QED  BY <1>1, <1>3, <2>1, PublisherAssumption
  <1>7. \A u \in Threads : held'[u] \notin InPool'
    BY <1>3, <1>5, <1>6 DEF ChannelInvariant, ChannelsExclusive
  <1>8. ChannelsExclusive'
    BY <1>4, <1>5, <1>7 DEF ChannelInvariant, ChannelsExclusive, Distinct
  <1>9. Accounted'
    <2> SUFFICES ASSUME NEW d \in Channels PROVE d \in InPool' \cup HeldBySome'
      BY DEF Accounted
    <2>1. CASE d \in InPool
      BY <1>3, <2>1
    <2>2. CASE d \in HeldBySome
      <3>1. PICK u \in Threads : held[u] = d
        BY <2>2 DEF HeldBySome
      <3> QED  BY <1>3, <1>5, <3>1 DEF HeldBySome
    <2> QED  BY <2>1, <2>2 DEF ChannelInvariant, Accounted
  <1> QED  BY <1>8, <1>9 DEF ChannelInvariant

\* The pool and the threads together hold every channel once.
LEMMA ChannelsKept == Spec => []ChannelInvariant
  <1>1. Init => ChannelInvariant
    <2> SUFFICES ASSUME Init PROVE ChannelInvariant
      OBVIOUS
    <2>1. /\ \A i, j \in DOMAIN pool : pool[i] = pool[j] => i = j
          /\ Channels = InPool
          /\ \A t \in Threads : held[t] = None
      BY DEF Init, Orders, InPool
    <2> QED
      BY <2>1, PublisherAssumption DEF ChannelInvariant, ChannelsExclusive, Accounted
  <1>2. TypeOK /\ Held /\ ChannelInvariant /\ [Next]_vars => ChannelInvariant'
    <2> SUFFICES ASSUME TypeOK, Held, ChannelInvariant, [Next]_vars PROVE ChannelInvariant'
      OBVIOUS
    <2>1. CASE UNCHANGED channels
      BY <2>1
      DEF channels, ChannelInvariant, ChannelsExclusive, Accounted, InPool, HeldBySome
    <2>2. CASE \E t \in Threads : Borrow(t) \/ Return(t)
      BY <2>2, BorrowKeeps, ReturnKeeps
    <2> QED  BY <2>1, <2>2, OnlyBorrowAndReturn
  <1> QED  BY <1>1, <1>2, TypeInvariant, PTL DEF Spec

(***************************************************************************)
(* No channel is ever used by two threads, or handed out while it is in    *)
(* use, however calls of publish fail and interleave                       *)
(* (QueuePublisher.publish, ChannelPool.borrowChannel, returnChannel).     *)
(***************************************************************************)
THEOREM NoSharedChannel == Spec => []ChannelsExclusive
  <1>1. ChannelInvariant => ChannelsExclusive
    BY DEF ChannelInvariant
  <1> QED  BY <1>1, ChannelsKept, PTL

(***************************************************************************)
(* No call of publish costs the pool a channel: one that is not in the     *)
(* pool is in the hands of a call that has yet to reach its finally block. *)
(***************************************************************************)
THEOREM NoChannelLost == Spec => []ChannelsAccounted
  <1>1. Held /\ ChannelInvariant => ChannelsAccounted
    <2> SUFFICES ASSUME Held, ChannelInvariant, NEW c \in Channels, c \notin InPool
                 PROVE  \E t \in Threads : held[t] = c /\ pc[t] # "idle"
      BY DEF ChannelsAccounted
    <2>1. PICK t \in Threads : held[t] = c
      BY DEF ChannelInvariant, Accounted, HeldBySome
    <2>2. pc[t] \in Holding
      BY <2>1, PublisherAssumption DEF Held
    <2> QED  BY <2>1, <2>2 DEF Holding
  <1> QED  BY <1>1, ChannelsKept, TypeInvariant, PTL

-----------------------------------------------------------------------------
(***************************************************************************)
(* If every payload can be serialised, a half-open circuit always has a    *)
(* call on its way that will close it or open it again, whoever made the   *)
(* trial and whatever late failures were taken for it                      *)
(* (QueuePublisher.guardCircuit, onPublishSuccess, onPublishFailure).      *)
(***************************************************************************)
THEOREM TrialAlwaysInFlight ==
    ASSUME Unserialisable = FALSE
    PROVE  Spec => []TrialInFlight
  <1>1. Init => TrialInFlight
    BY DEF Init, TrialInFlight
  <1>2. TypeOK /\ TrialInFlight /\ [Next]_vars => TrialInFlight'
    <2> SUFFICES ASSUME TypeOK, TrialInFlight, [Next]_vars, circuitState' = "HALF_OPEN"
                 PROVE  \E t \in Threads : pc'[t] \in Trial
      BY DEF TrialInFlight
    <2> USE DEF circuit, channels, external, Goto, TypeOK, Trial
    <2>1. CASE circuitState # "HALF_OPEN"
      <3>1. PICK t \in Threads : Probe(t)
        BY <2>1 DEF Next, Step, Call, Guard, CheckCooldown, Serialize, Borrow, Publish,
                    Confirm, Return, Close, ResetCount, Failed, Stamp, Reopen, Count, Trip,
                    Cooldown, SlowDown, Disconnect, Recover, vars
      <3> QED  BY <2>1, <3>1 DEF Probe
    <2>2. CASE circuitState = "HALF_OPEN"
      <3>1. PICK t \in Threads : pc[t] \in Trial
        BY <2>2 DEF TrialInFlight
      <3>2. CASE pc'[t] = pc[t]
        BY <3>1, <3>2
      <3>3. CASE Step(t)
        <4>1. CASE Serialize(t)  BY <3>1, <4>1 DEF Serialize
        <4>2. CASE Borrow(t)     BY <3>1, <4>2 DEF Borrow
        <4>3. CASE Publish(t)    BY <3>1, <4>3 DEF Publish
        <4>4. CASE Confirm(t)    BY <3>1, <4>4 DEF Confirm, Confirmed, NotConfirmed
        <4>5. CASE Close(t)      BY <3>1, <4>5 DEF Close
        <4>6. CASE Failed(t)     BY <2>2, <3>1, <4>6 DEF Failed
        <4>7. CASE Stamp(t)      BY <3>1, <4>7 DEF Stamp
        <4>8. CASE Reopen(t)     BY <3>1, <4>8 DEF Reopen
        <4> QED
          BY <3>1, <3>3, <4>1, <4>2, <4>3, <4>4, <4>5, <4>6, <4>7, <4>8
          DEF Step, Guard, CheckCooldown, Probe, Return, ResetCount, Count, Trip
      <3>4. CASE Disconnect
        <4>1. pc'[t] \in {pc[t], "failed"}
          BY <3>4 DEF Disconnect
        <4> QED  BY <3>1, <4>1
      <3>5. pc'[t] = pc[t] \/ Step(t) \/ Disconnect
        <4>1. ASSUME NEW u \in Threads, Call(u) \/ Step(u), u # t
              PROVE  pc'[t] = pc[t]
          BY <4>1
          DEF Step, Call, Guard, CheckCooldown, Probe, Serialize, Borrow, Publish,
              Confirm, Confirmed, NotConfirmed, Return, Close, ResetCount, Failed,
              Stamp, Reopen, Count, Trip
        <4>2. ~Call(t)
          BY <3>1 DEF Call
        <4>3. CASE Cooldown \/ SlowDown \/ Recover \/ UNCHANGED vars
          BY <4>3 DEF Cooldown, SlowDown, Recover, vars
        <4> QED  BY <4>1, <4>2, <4>3 DEF Next
      <3> QED  BY <3>2, <3>3, <3>4, <3>5
    <2> QED  BY <2>1, <2>2
  <1> QED  BY <1>1, <1>2, TypeInvariant, PTL DEF Spec
=============================================================================
