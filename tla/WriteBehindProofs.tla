------------------------- MODULE WriteBehindProofs --------------------------
(***************************************************************************)
(* Proofs about WriteBehind, for any number of writers and messages, any   *)
(* capacity, batch size, number of retries and failure threshold.          *)
(***************************************************************************)
EXTENDS WriteBehind, SequenceTheorems, TLAPS

-----------------------------------------------------------------------------
(***************************************************************************)
(* What the operations on the buffer's queue -- Append, Head and Tail, and *)
(* SubSeq, which drops the first elements -- do to the set of its elements,*)
(* to its length, and to the absence of duplicates.                        *)
(***************************************************************************)
Contents(s) == {s[i] : i \in DOMAIN s}

\* Appending an element adds it, and nothing else, to what a queue holds.
LEMMA AppendContents ==
    ASSUME NEW S, NEW s \in Seq(S), NEW x \in S
    PROVE  /\ Append(s, x) \in Seq(S)
           /\ Len(Append(s, x)) = Len(s) + 1
           /\ Contents(Append(s, x)) = Contents(s) \cup {x}
  <1>1. /\ Append(s, x) \in Seq(S)
        /\ Len(Append(s, x)) = Len(s) + 1
        /\ \A i \in 1 .. Len(s) : Append(s, x)[i] = s[i]
        /\ Append(s, x)[Len(s) + 1] = x
        /\ Len(s) \in Nat
    OBVIOUS
  <1>2. DOMAIN s = 1 .. Len(s) /\ DOMAIN Append(s, x) = 1 .. (Len(s) + 1)
    BY <1>1
  <1> QED  BY <1>1, <1>2 DEF Contents

\* What is left of a queue after n polls, element by element.
LEMMA SubSeqElements ==
    ASSUME NEW S, NEW s \in Seq(S), NEW n \in 0 .. Len(s)
    PROVE  /\ SubSeq(s, n + 1, Len(s)) \in Seq(S)
           /\ Len(SubSeq(s, n + 1, Len(s))) = Len(s) - n
           /\ DOMAIN SubSeq(s, n + 1, Len(s)) = 1 .. (Len(s) - n)
           /\ \A i \in 1 .. (Len(s) - n) : SubSeq(s, n + 1, Len(s))[i] = s[n + i]
  <1> DEFINE t == SubSeq(s, n + 1, Len(s))
  <1>1. /\ Len(s) \in Nat /\ DOMAIN s = 1 .. Len(s)
        /\ \A i \in 1 .. Len(s) : s[i] \in S
        /\ n \in Nat /\ n <= Len(s)
    OBVIOUS
  <1>2. \A i \in (n + 1) .. Len(s) : s[i] \in S
    BY <1>1
  <1>3. /\ t \in Seq(S)
        /\ Len(t) = IF n + 1 <= Len(s) THEN Len(s) - (n + 1) + 1 ELSE 0
        /\ \A i \in 1 .. Len(s) - (n + 1) + 1 : t[i] = s[n + 1 + i - 1]
    <2> DEFINE first == n + 1  last == Len(s)
    <2>1. first \in Int /\ last \in Int /\ \A i \in first .. last : s[i] \in S
      BY <1>1, <1>2
    <2> HIDE DEF first, last
    <2>2. /\ SubSeq(s, first, last) \in Seq(S)
          /\ Len(SubSeq(s, first, last)) = IF first <= last THEN last - first + 1 ELSE 0
          /\ \A i \in 1 .. last - first + 1 : SubSeq(s, first, last)[i] = s[first + i - 1]
      BY <2>1, SubSeqProperties
    <2> QED  BY <2>2 DEF first, last
  <1>4. Len(t) = Len(s) - n /\ DOMAIN t = 1 .. (Len(s) - n)
    <2> HIDE DEF t
    <2> DEFINE last == Len(s)  length == Len(t)
    <2>1. last \in Nat /\ n \in Nat /\ n <= last
          /\ length = IF n + 1 <= last THEN last - (n + 1) + 1 ELSE 0
      BY <1>1, <1>3
    <2>2. length = last - n
      <3> HIDE DEF last, length
      <3> QED  BY <2>1
    <2> QED  BY <1>3, <2>2
  <1>5. \A i \in 1 .. (Len(s) - n) : t[i] = s[n + i]
    <2> SUFFICES ASSUME NEW i \in 1 .. (Len(s) - n) PROVE t[i] = s[n + i]
      OBVIOUS
    <2>1. i \in 1 .. Len(s) - (n + 1) + 1 /\ n + 1 + i - 1 = n + i
      BY <1>1
    <2>2. t[i] = s[n + 1 + i - 1]
      BY <1>3, <2>1
    <2> HIDE DEF t
    <2> QED  BY <2>1, <2>2
  <1> QED  BY <1>3, <1>4, <1>5

\* Polling n times splits what the queue held into taken and left.
LEMMA SubSeqContents ==
    ASSUME NEW S, NEW s \in Seq(S), NEW n \in 0 .. Len(s)
    PROVE  /\ {s[i] : i \in 1 .. n} \subseteq S
           /\ Contents(s) = {s[i] : i \in 1 .. n} \cup Contents(SubSeq(s, n + 1, Len(s)))
  <1> DEFINE t == SubSeq(s, n + 1, Len(s))
  <1>1. /\ Len(s) \in Nat /\ DOMAIN s = 1 .. Len(s)
        /\ \A i \in 1 .. Len(s) : s[i] \in S
        /\ n \in Nat /\ n <= Len(s)
    OBVIOUS
  <1>4. DOMAIN t = 1 .. (Len(s) - n)
    BY SubSeqElements
  <1>5. \A i \in 1 .. (Len(s) - n) : t[i] = s[n + i]
    BY SubSeqElements
  <1> HIDE DEF t
  <1>6. ASSUME NEW i \in 1 .. Len(s)
        PROVE  s[i] \in {s[j] : j \in 1 .. n} \cup Contents(t)
    <2>1. CASE i <= n
      BY <2>1, <1>1
    <2>2. CASE i > n
      <3>1. i - n \in 1 .. (Len(s) - n) /\ n + (i - n) = i
        BY <2>2, <1>1
      <3>2. t[i - n] = s[i]
        BY <3>1, <1>5
      <3> QED  BY <3>1, <3>2, <1>4 DEF Contents
    <2> QED  BY <2>1, <2>2, <1>1
  <1>7. ASSUME NEW i \in 1 .. (Len(s) - n) PROVE t[i] \in Contents(s)
    <2>1. n + i \in 1 .. Len(s)
      BY <1>1
    <2> QED  BY <2>1, <1>1, <1>5 DEF Contents
  <1>8. {s[i] : i \in 1 .. n} \subseteq S /\ {s[i] : i \in 1 .. n} \subseteq Contents(s)
    BY <1>1 DEF Contents
  <1>9. Contents(s) = {s[i] : i \in 1 .. n} \cup Contents(t)
    BY <1>1, <1>4, <1>6, <1>7, <1>8 DEF Contents
  <1> QED  BY <1>8, <1>9 DEF t

\* One poll takes the head and leaves the rest.
LEMMA HeadTailContents ==
    ASSUME NEW S, NEW s \in Seq(S), s # <<>>
    PROVE  /\ Tail(s) \in Seq(S)
           /\ Len(Tail(s)) = Len(s) - 1
           /\ Head(s) \in S
           /\ Contents(s) = {Head(s)} \cup Contents(Tail(s))
  <1>1. /\ Head(s) \in S /\ Tail(s) \in Seq(S) /\ Len(Tail(s)) = Len(s) - 1
        /\ Tail(s) = SubSeq(s, 2, Len(s))
    BY HeadTailProperties, TailIsSubSeq
  <1>2. Head(s) = s[1] /\ 1 \in 0 .. Len(s) /\ 1 + 1 = 2
    OBVIOUS
  <1>3. Contents(s) = {s[i] : i \in 1 .. 1} \cup Contents(SubSeq(s, 1 + 1, Len(s)))
    BY <1>2, SubSeqContents
  <1>4. {s[i] : i \in 1 .. 1} = {s[1]}
    OBVIOUS
  <1> QED  BY <1>1, <1>2, <1>3, <1>4

Distinct(s) == \A i, j \in DOMAIN s : s[i] = s[j] => i = j

\* Appending an element the queue does not hold makes no duplicate.
LEMMA AppendDistinct ==
    ASSUME NEW S, NEW s \in Seq(S), NEW x \in S, x \notin Contents(s), Distinct(s)
    PROVE  Distinct(Append(s, x))
  <1>1. /\ \A i \in 1 .. Len(s) : Append(s, x)[i] = s[i]
        /\ Append(s, x)[Len(s) + 1] = x
        /\ Len(s) \in Nat
        /\ DOMAIN s = 1 .. Len(s) /\ DOMAIN Append(s, x) = 1 .. (Len(s) + 1)
    BY Append(s, x) \in Seq(S) /\ Len(Append(s, x)) = Len(s) + 1
  <1> SUFFICES ASSUME NEW i \in 1 .. (Len(s) + 1), NEW j \in 1 .. (Len(s) + 1),
                      Append(s, x)[i] = Append(s, x)[j]
               PROVE  i = j
    BY <1>1 DEF Distinct
  <1>2. CASE i \in 1 .. Len(s) /\ j \in 1 .. Len(s)
    BY <1>1, <1>2 DEF Distinct
  <1>3. CASE i \in 1 .. Len(s) /\ j = Len(s) + 1
    BY <1>1, <1>3 DEF Contents
  <1>4. CASE i = Len(s) + 1 /\ j \in 1 .. Len(s)
    BY <1>1, <1>4 DEF Contents
  <1>5. CASE i = Len(s) + 1 /\ j = Len(s) + 1
    BY <1>5
  <1> QED  BY <1>1, <1>2, <1>3, <1>4, <1>5

\* Of a queue without duplicates, nothing that is taken is also left.
LEMMA SubSeqDistinct ==
    ASSUME NEW S, NEW s \in Seq(S), NEW n \in 0 .. Len(s), Distinct(s)
    PROVE  /\ Distinct(SubSeq(s, n + 1, Len(s)))
           /\ {s[i] : i \in 1 .. n} \cap Contents(SubSeq(s, n + 1, Len(s))) = {}
  <1> DEFINE t == SubSeq(s, n + 1, Len(s))
  <1>1. /\ Len(s) \in Nat /\ DOMAIN s = 1 .. Len(s)
        /\ n \in Nat /\ n <= Len(s)
    OBVIOUS
  <1>2. DOMAIN t = 1 .. (Len(s) - n) /\ \A i \in 1 .. (Len(s) - n) : t[i] = s[n + i]
    BY SubSeqElements
  <1> HIDE DEF t
  <1>3. ASSUME NEW i \in 1 .. (Len(s) - n), NEW j \in 1 .. (Len(s) - n), t[i] = t[j]
        PROVE  i = j
    <2>1. n + i \in 1 .. Len(s) /\ n + j \in 1 .. Len(s) /\ s[n + i] = s[n + j]
      BY <1>1, <1>2, <1>3
    <2>2. n + i = n + j
      BY <2>1, <1>1 DEF Distinct
    <2> QED  BY <2>2, <1>1
  <1>4. ASSUME NEW i \in 1 .. n, NEW j \in 1 .. (Len(s) - n), s[i] = t[j]
        PROVE  FALSE
    <2>1. n + j \in 1 .. Len(s) /\ i \in 1 .. Len(s) /\ s[i] = s[n + j]
      BY <1>1, <1>2, <1>4
    <2>2. i = n + j
      BY <2>1, <1>1 DEF Distinct
    <2> QED  BY <2>2, <1>1
  <1>5. Distinct(t)
    BY <1>2, <1>3 DEF Distinct
  <1>6. {s[i] : i \in 1 .. n} \cap Contents(t) = {}
    BY <1>2, <1>4 DEF Contents
  <1> QED  BY <1>5, <1>6 DEF t

\* The same of one poll.
LEMMA TailDistinct ==
    ASSUME NEW S, NEW s \in Seq(S), s # <<>>, Distinct(s)
    PROVE  Distinct(Tail(s)) /\ Head(s) \notin Contents(Tail(s))
  <1>1. Tail(s) = SubSeq(s, 2, Len(s))
    BY TailIsSubSeq
  <1>2. Head(s) = s[1] /\ 1 \in 0 .. Len(s) /\ 1 + 1 = 2
    OBVIOUS
  <1>3. /\ Distinct(SubSeq(s, 1 + 1, Len(s)))
        /\ {s[i] : i \in 1 .. 1} \cap Contents(SubSeq(s, 1 + 1, Len(s))) = {}
    BY <1>2, SubSeqDistinct
  <1>4. s[1] \in {s[i] : i \in 1 .. 1}
    OBVIOUS
  <1> QED  BY <1>1, <1>2, <1>3, <1>4

-----------------------------------------------------------------------------
(***************************************************************************)
(* Type correctness.  The steps of the breaker are typed once, as facts    *)
(* about the variables of DbCircuitBreaker.                                *)
(***************************************************************************)
BreakerTyped ==
    /\ pc \in [Writers -> WriterLabels]
    /\ state \in {"CLOSED", "OPEN", "HALF_OPEN"}
    /\ failures \in Nat
    /\ cooled \in BOOLEAN

\* No step of the breaker leaves the types of its variables.
LEMMA BreakerStepTyped ==
    ASSUME BreakerTyped, NEW w \in Writers, BreakerStep(w)
    PROVE  BreakerTyped'
  <1> USE DEF BreakerTyped, WriterLabels, BreakerLabels, Goto, breaker
  <1>1. CASE ReadState(w)      BY <1>1 DEF ReadState
  <1>2. CASE ReadCooldown(w)   BY <1>2 DEF ReadCooldown
  <1>3. CASE Probe(w)          BY <1>3 DEF Probe
  <1>4. CASE Close(w)          BY <1>4 DEF Close
  <1>5. CASE ResetFailures(w)  BY <1>5 DEF ResetFailures
  <1>6. CASE Classify(w)       BY <1>6 DEF Classify
  <1>7. CASE Stamp(w)          BY <1>7 DEF Stamp
  <1>8. CASE Reopen(w)         BY <1>8 DEF Reopen
  <1>9. CASE Count(w)          BY <1>9 DEF Count
  <1>10. CASE Trip(w)          BY <1>10 DEF Trip
  <1> QED
    BY <1>1, <1>2, <1>3, <1>4, <1>5, <1>6, <1>7, <1>8, <1>9, <1>10
    DEF BreakerStep, IsOpen, OnSuccess, OnFailure

\* drainTo leaves a shorter queue and a batch of the messages it took.
LEMMA DrainToTyped ==
    ASSUME TypeOK, NEW w \in Writers, NEW n \in 0 .. Len(queue), DrainTo(w, n)
    PROVE  /\ queue' \in Seq(Messages)
           /\ Len(queue') <= Capacity
           /\ batch' \in [Writers -> SUBSET Messages]
           /\ attempt' \in [Writers -> 0 .. MaxRetries]
  <1>1. /\ queue' \in Seq(Messages)
        /\ Len(queue') = Len(queue) - n
        /\ {queue[i] : i \in 1 .. n} \subseteq Messages
    BY SubSeqElements, SubSeqContents DEF TypeOK, DrainTo
  <1>2. Len(queue') <= Capacity
    BY <1>1, WriteBehindAssumption DEF TypeOK
  <1> QED
    BY <1>1, <1>2, WriteBehindAssumption DEF TypeOK, DrainTo

\* drainTo never asks for more than the queue holds.
LEMMA AtMostInRange ==
    ASSUME TypeOK, NEW n \in Nat
    PROVE  AtMost(n) \in 0 .. Len(queue)
  BY DEF AtMost, TypeOK

(***************************************************************************)
(* Every variable keeps its type, and the queue never outgrows its         *)
(* capacity (BatchWriteBuffer's LinkedBlockingQueue(capacity)).            *)
(***************************************************************************)
THEOREM TypeInvariant == Spec => []TypeOK
  <1>1. Init => TypeOK
    BY WriteBehindAssumption DEF Init, TypeOK, WriterLabels
  <1>2. TypeOK /\ [Next]_vars => TypeOK'
    <2> SUFFICES ASSUME TypeOK, [Next]_vars PROVE TypeOK'
      OBVIOUS
    <2> USE WriteBehindAssumption DEF breakerVars, breaker, buffer, tables
    <2>1. ASSUME NEW m \in Messages, Offer(m) PROVE TypeOK'
      <3>1. CASE Enqueue(m)
        <4>1. queue' \in Seq(Messages) /\ Len(queue') <= Capacity
          BY <3>1, AppendContents DEF Enqueue, TypeOK
        <4> QED  BY <2>1, <3>1, <4>1 DEF Offer, Enqueue, TypeOK
      <3>2. CASE Drop(m)
        BY <2>1, <3>2 DEF Offer, Drop, TypeOK
      <3> QED  BY <2>1, <3>1, <3>2 DEF Offer
    <2>2. ASSUME NEW w \in Writers, WriterStep(w) PROVE TypeOK'
      <3>1. CASE Loop(w)
        BY <3>1 DEF Loop, Goto, TypeOK, WriterLabels
      <3>2. CASE Poll(w)
        <4>1. CASE PollInterrupted(w)
          BY <3>2, <4>1 DEF Poll, PollInterrupted, Goto, TypeOK, WriterLabels
        <4>2. CASE PollHead(w)
          <5>1. /\ queue' \in Seq(Messages) /\ Len(queue') <= Capacity
                /\ {Head(queue)} \subseteq Messages
            BY <4>2, HeadTailContents DEF PollHead, TypeOK
          <5> QED
            BY <3>2, <4>2, <5>1 DEF Poll, PollHead, Goto, TypeOK, WriterLabels
        <4>3. CASE PollTimeout(w)
          BY <3>2, <4>3 DEF Poll, PollTimeout, Goto, TypeOK, WriterLabels
        <4> QED  BY <3>2, <4>1, <4>2, <4>3 DEF Poll
      <3>3. CASE Drain(w)
        <4>1. AtMost(BatchSize - 1) \in 0 .. Len(queue)
          BY AtMostInRange
        <4>2. DrainTo(w, AtMost(BatchSize - 1))
          BY <3>3 DEF Drain
        <4> QED
          BY <3>3, <4>1, <4>2, DrainToTyped
          DEF Drain, DrainTo, Goto, TypeOK, WriterLabels, BreakerLabels
      <3>4. CASE Flush(w)
        <4>1. DrainTo(w, Len(queue)) /\ Len(queue) \in 0 .. Len(queue)
          BY <3>4 DEF Flush, TypeOK
        <4> QED
          BY <3>4, <4>1, DrainToTyped
          DEF Flush, DrainTo, Goto, TypeOK, WriterLabels, BreakerLabels
      <3>5. CASE BreakerCall(w)
        <4>1. BreakerTyped /\ BreakerStep(w)
          BY <3>5 DEF BreakerTyped, BreakerCall, TypeOK
        <4>2. BreakerTyped'
          BY <4>1, BreakerStepTyped
        <4> QED  BY <3>5, <4>2 DEF BreakerTyped, BreakerCall, TypeOK
      <3>6. CASE Save(w)
        BY <3>6 DEF Save, SaveOk, SaveThrows, Goto, TypeOK, WriterLabels, BreakerLabels
      <3>7. CASE Decide(w)
        BY <3>7
        DEF Decide, Retry, GiveUpOn, Refusal, Goto, TypeOK, WriterLabels, BreakerLabels
      <3>8. CASE Bury(w)
        BY <3>8 DEF Bury, TypeOK
      <3>9. CASE Return(w)
        BY <3>9 DEF Return, Goto, TypeOK, WriterLabels
      <3> QED
        BY <2>2, <3>1, <3>2, <3>3, <3>4, <3>5, <3>6, <3>7, <3>8, <3>9 DEF WriterStep
    <2>3. CASE Stop
      BY <2>3 DEF Stop, TypeOK
    <2>4. CASE Tick
      BY <2>4 DEF Tick, Cooldown, TypeOK
    <2>5. CASE UNCHANGED vars
      BY <2>5 DEF vars, TypeOK
    <2> QED  BY <2>1, <2>2, <2>3, <2>4, <2>5 DEF Next
  <1> QED  BY <1>1, <1>2, PTL DEF Spec

-----------------------------------------------------------------------------
(***************************************************************************)
(* What a writer holds at each point of its loop.                          *)
(***************************************************************************)
Emptied ==
    \A w \in Writers : pc[w] \in {"loop", "poll", "flush", "done"} => batch[w] = {}

Saved ==
    \A w \in Writers :
        pc[w] \in {"onSuccess", "reset", "succeeded"} => batch[w] \subseteq messages

\* Writer w moves inside writeBatchWithRetry, and comes to the end of onSuccess
\* only from its beginning.
Stays(w) ==
    \E to \in BreakerLabels \ {"onSuccess"} :
        /\ pc' = [pc EXCEPT ![w] = to]
        /\ to \in {"reset", "succeeded"} => pc[w] \in {"onSuccess", "reset"}

\* Every step of the breaker satisfies Stays.
LEMMA BreakerStepStays ==
    ASSUME BreakerTyped, NEW w \in Writers, BreakerStep(w)
    PROVE  Stays(w)
  <1>1. ASSUME NEW from, NEW to \in BreakerLabels \ {"onSuccess"}, Goto(w, from, to),
               to \in {"reset", "succeeded"} => from \in {"onSuccess", "reset"}
        PROVE  Stays(w)
    BY <1>1 DEF Stays, Goto
  <1>2. CASE ReadState(w) \/ ReadCooldown(w) \/ Probe(w) \/ Reopen(w) \/ Trip(w)
    <2>1. \E from \in {"isOpen", "cooldown", "probe", "reopen", "trip"},
             to \in {"cooldown", "save", "probe", "refused", "failed"} : Goto(w, from, to)
      BY <1>2 DEF ReadState, ReadCooldown, Probe, Reopen, Trip
    <2> QED  BY <2>1, <1>1 DEF BreakerLabels
  <1>3. CASE Classify(w)
    <2>1. \/ Goto(w, "onFailure", "restamp")
          \/ Goto(w, "onFailure", "count")
          \/ Goto(w, "onFailure", "failed")
      BY <1>3 DEF Classify, BreakerTyped
    <2> QED  BY <2>1, <1>1 DEF BreakerLabels
  <1>4. CASE OnSuccess(w)
    <2>1. Goto(w, "onSuccess", "reset") \/ Goto(w, "reset", "succeeded")
      BY <1>4 DEF OnSuccess, Close, ResetFailures
    <2> QED  BY <2>1, <1>1 DEF BreakerLabels
  <1>5. CASE Stamp(w)
    BY <1>5, <1>1 DEF Stamp, BreakerLabels
  <1>6. CASE Count(w)
    <2>1. \E to \in {"stamp", "failed"} : Goto(w, "count", to)
      BY <1>6 DEF Count
    <2> QED  BY <2>1, <1>1 DEF BreakerLabels
  <1> QED
    BY <1>2, <1>3, <1>4, <1>5, <1>6 DEF BreakerStep, IsOpen, OnFailure

-----------------------------------------------------------------------------
(***************************************************************************)
(* Every message a writer takes leaves the queue for the writer's batch.   *)
(***************************************************************************)
Take(w, S) ==
    /\ S \subseteq Messages
    /\ batch' = [batch EXCEPT ![w] = @ \cup S]
    /\ Queued = S \cup Queued'
    /\ Distinct(queue) => Distinct(queue') /\ S \cap Queued' = {}

\* poll(100ms) takes the head: the batch it replaces is empty.
LEMMA PollHeadTakes ==
    ASSUME TypeOK, Emptied, NEW w \in Writers, PollHead(w)
    PROVE  \E S : Take(w, S)
  <1>1. batch[w] = {}
    BY DEF PollHead, Goto, Emptied
  <1>2. batch' = [batch EXCEPT ![w] = @ \cup {Head(queue)}]
    BY <1>1 DEF PollHead
  <1>3. queue \in Seq(Messages) /\ queue # <<>> /\ queue' = Tail(queue)
    BY DEF PollHead, TypeOK
  <1>4. Head(queue) \in Messages /\ Contents(queue) = {Head(queue)} \cup Contents(queue')
    BY <1>3, HeadTailContents
  <1>5. Distinct(queue) => Distinct(queue') /\ Head(queue) \notin Contents(queue')
    BY <1>3, TailDistinct
  <1>6. Take(w, {Head(queue)})
    BY <1>2, <1>4, <1>5 DEF Take, Queued, Contents
  <1> QED  BY <1>6

\* drainTo takes the first n messages.
LEMMA DrainTakes ==
    ASSUME TypeOK, NEW w \in Writers, NEW n \in 0 .. Len(queue), DrainTo(w, n)
    PROVE  \E S : Take(w, S)
  <1> DEFINE S == {queue[i] : i \in 1 .. n}
  <1>1. queue \in Seq(Messages) /\ queue' = SubSeq(queue, n + 1, Len(queue))
    BY DEF DrainTo, TypeOK
  <1>2. S \subseteq Messages /\ Contents(queue) = S \cup Contents(queue')
    BY <1>1, SubSeqContents
  <1>3. Distinct(queue) => Distinct(queue') /\ S \cap Contents(queue') = {}
    BY <1>1, SubSeqDistinct
  <1>4. batch' = [batch EXCEPT ![w] = @ \cup S]
    BY DEF DrainTo
  <1> HIDE DEF S
  <1>5. Take(w, S)
    BY <1>2, <1>3, <1>4 DEF Take, Queued, Contents
  <1> QED  BY <1>5

\* What the other writers hold.
Others(w) == UNION {batch[v] : v \in Writers \ {w}}

\* What the writers hold, split into one writer and the others.
LEMMA HeldParts ==
    ASSUME NEW w \in Writers
    PROVE  Held = batch[w] \cup Others(w)
  BY DEF Held, Others

\* The split after an assignment to one batch.
LEMMA HeldUpdate ==
    ASSUME TypeOK, NEW w \in Writers, NEW B, batch' = [batch EXCEPT ![w] = B]
    PROVE  Held' = B \cup Others(w)
  <1>1. \A v \in Writers : batch'[v] = IF v = w THEN B ELSE batch[v]
    BY DEF TypeOK
  <1> QED  BY <1>1 DEF Held, Others

-----------------------------------------------------------------------------
(***************************************************************************)
(* A message is in one place of the process: once in the queue, or in one  *)
(* batch.  And offer accounts for all there is.                            *)
(***************************************************************************)
Exclusive ==
    /\ Distinct(queue)
    /\ \A w \in Writers : batch[w] \cap Queued = {}
    /\ \A v, w \in Writers : v # w => batch[v] \cap batch[w] = {}

Pending == Queued \cup Held

Traced == offered = dropped \cup Pending \cup Settled

IInv == TypeOK /\ Emptied /\ Saved /\ Exclusive /\ Traced

\* An assignment to one batch leaves the others alone.
LEMMA BatchUpdate ==
    ASSUME TypeOK, NEW w \in Writers, NEW B, batch' = [batch EXCEPT ![w] = B]
    PROVE  /\ batch'[w] = B
           /\ \A v \in Writers \ {w} : batch'[v] = batch[v]
  BY DEF TypeOK

\* Taking messages from the queue moves them, and loses or copies none.
LEMMA TakeKeeps ==
    ASSUME TypeOK, Exclusive, NEW w \in Writers, NEW S, Take(w, S)
    PROVE  Exclusive' /\ Pending' = Pending
  <1>1. /\ Queued = S \cup Queued'
        /\ Distinct(queue') /\ S \cap Queued' = {}
        /\ batch' = [batch EXCEPT ![w] = batch[w] \cup S]
    BY DEF Take, Exclusive
  <1>2. batch'[w] = batch[w] \cup S /\ \A v \in Writers \ {w} : batch'[v] = batch[v]
    BY <1>1, BatchUpdate
  <1>3. \A v \in Writers : batch'[v] \cap Queued' = {}
    BY <1>1, <1>2 DEF Exclusive
  <1>4. ASSUME NEW u \in Writers, NEW v \in Writers, u # v
        PROVE  batch'[u] \cap batch'[v] = {}
    BY <1>1, <1>2, <1>4 DEF Exclusive
  <1>5. Held' = batch[w] \cup S \cup Others(w) /\ Held = batch[w] \cup Others(w)
    BY <1>1, HeldUpdate, HeldParts
  <1> QED  BY <1>1, <1>3, <1>4, <1>5 DEF Exclusive, Pending

\* Letting go of a message takes it out of the process.
LEMMA ReleaseKeeps ==
    ASSUME TypeOK, Exclusive, NEW w \in Writers, NEW S, S \subseteq batch[w],
           batch' = [batch EXCEPT ![w] = batch[w] \ S], queue' = queue
    PROVE  Exclusive' /\ Pending' = Pending \ S
  <1>1. batch'[w] = batch[w] \ S /\ \A v \in Writers \ {w} : batch'[v] = batch[v]
    BY BatchUpdate
  <1>2. Queued' = Queued /\ Distinct(queue')
    BY DEF Queued, Exclusive
  <1>3. Exclusive'
    BY <1>1, <1>2 DEF Exclusive
  <1>4. Held' = (batch[w] \ S) \cup Others(w) /\ Held = batch[w] \cup Others(w)
    BY HeldUpdate, HeldParts
  <1>5. Others(w) \cap batch[w] = {}
    BY DEF Others, Exclusive
  <1>6. batch[w] \cap Queued = {}
    BY DEF Exclusive
  <1> QED  BY <1>2, <1>3, <1>4, <1>5, <1>6 DEF Pending

\* Steps that leave the queue and the batches alone.
LEMMA Unmoved ==
    ASSUME Exclusive, UNCHANGED <<queue, batch>>
    PROVE  Exclusive' /\ Pending' = Pending /\ Queued' = Queued /\ Held' = Held
  <1>1. Queued' = Queued /\ Held' = Held
    BY DEF Queued, Held
  <1> QED  BY <1>1 DEF Exclusive, Distinct, Pending

\* Enqueueing a message that is nowhere yet adds exactly that message.
LEMMA EnqueueKeeps ==
    ASSUME TypeOK, Exclusive, NEW m \in Messages, m \notin Pending,
           Enqueue(m), batch' = batch
    PROVE  Exclusive' /\ Pending' = Pending \cup {m} /\ Queued' = Queued \cup {m}
  <1>1. queue \in Seq(Messages) /\ queue' = Append(queue, m)
    BY DEF Enqueue, TypeOK
  <1>2. Queued' = Queued \cup {m}
    BY <1>1, AppendContents DEF Queued, Contents
  <1>3. m \notin Queued /\ \A w \in Writers : m \notin batch[w]
    BY DEF Pending, Held
  <1>4. Distinct(queue')
    BY <1>1, <1>3, AppendDistinct DEF Exclusive, Contents, Queued
  <1>5. Held' = Held
    BY DEF Held
  <1> QED  BY <1>2, <1>3, <1>4, <1>5 DEF Exclusive, Pending

\* A writer that moves from one label to another keeps Emptied and Saved if
\* its own batch is as the new label demands.
LEMMA HandsKept ==
    ASSUME TypeOK, Emptied, Saved, NEW w \in Writers, NEW to,
           pc' = [pc EXCEPT ![w] = to], messages \subseteq messages',
           \A v \in Writers \ {w} : batch'[v] = batch[v],
           to \in {"loop", "poll", "flush", "done"} => batch'[w] = {},
           to \in {"onSuccess", "reset", "succeeded"} => batch'[w] \subseteq messages'
    PROVE  Emptied' /\ Saved'
  <1>1. pc'[w] = to /\ \A v \in Writers \ {w} : pc'[v] = pc[v]
    BY DEF TypeOK
  <1> QED  BY <1>1 DEF Emptied, Saved

\* Each action of Next keeps the inductive invariant.
LEMMA StepKeepsInvariant ==
    ASSUME IInv, TypeOK', [Next]_vars
    PROVE  IInv'
  <1> USE DEF breakerVars, breaker, buffer, tables
  <1> SUFFICES Emptied' /\ Saved' /\ Exclusive' /\ Traced'
    BY DEF IInv
  <1>1. TypeOK /\ Emptied /\ Saved /\ Exclusive /\ Traced
    BY DEF IInv
  <1>2. ASSUME NEW m \in Messages, Offer(m)
        PROVE  Emptied' /\ Saved' /\ Exclusive' /\ Traced'
    <2>1. Emptied' /\ Saved'
      BY <1>1, <1>2 DEF Offer, Emptied, Saved
    <2>2. Settled' = Settled /\ offered' = offered \cup {m} /\ batch' = batch /\ m \notin Pending
      BY <1>1, <1>2 DEF Offer, Settled, Traced
    <2>3. CASE Enqueue(m)
      <3>1. Exclusive' /\ Pending' = Pending \cup {m}
        BY <1>1, <2>2, <2>3, EnqueueKeeps
      <3>2. dropped' = dropped
        BY <2>3 DEF Enqueue
      <3> QED  BY <1>1, <2>1, <2>2, <3>1, <3>2 DEF Traced
    <2>4. CASE Drop(m)
      <3>1. queue' = queue /\ dropped' = dropped \cup {m}
        BY <2>4 DEF Drop
      <3>2. Exclusive' /\ Pending' = Pending
        BY <1>1, <2>2, <3>1, Unmoved
      <3> QED  BY <1>1, <2>1, <2>2, <3>1, <3>2 DEF Traced
    <2> QED  BY <1>2, <2>3, <2>4 DEF Offer
  <1>3. ASSUME NEW w \in Writers, WriterStep(w)
        PROVE  Emptied' /\ Saved' /\ Exclusive' /\ Traced'
    <2>1. CASE Loop(w)
      <3>1. UNCHANGED <<queue, batch, offered, dropped, messages, dlq, logged>>
        BY <2>1 DEF Loop
      <3>2. Exclusive' /\ Traced'
        BY <1>1, <3>1, Unmoved DEF Traced, Settled
      <3>3. pc[w] = "loop" /\ \E to : pc' = [pc EXCEPT ![w] = to] /\ to \in {"poll", "flush"}
        BY <2>1 DEF Loop, Goto
      <3>4. Emptied' /\ Saved'
        BY <1>1, <3>1, <3>3, HandsKept DEF Emptied
      <3> QED  BY <3>2, <3>4
    <2>2. CASE Poll(w)
      <3>1. UNCHANGED <<offered, dropped, messages, dlq, logged>>
        BY <2>2 DEF Poll
      <3>2. CASE PollHead(w)
        <4>1. PICK S : Take(w, S)
          BY <1>1, <3>2, PollHeadTakes
        <4>2. Exclusive' /\ Traced'
          BY <1>1, <3>1, <4>1, TakeKeeps DEF Traced, Settled
        <4>3. pc' = [pc EXCEPT ![w] = "drain"] /\ \A v \in Writers \ {w} : batch'[v] = batch[v]
          BY <1>1, <3>2 DEF PollHead, Goto, TypeOK
        <4>4. Emptied' /\ Saved'
          BY <1>1, <3>1, <4>3, HandsKept
        <4> QED  BY <4>2, <4>4
      <3>3. CASE PollInterrupted(w) \/ PollTimeout(w)
        <4>1. UNCHANGED <<queue, batch>>
          BY <3>3 DEF PollInterrupted, PollTimeout
        <4>2. Exclusive' /\ Traced'
          BY <1>1, <3>1, <4>1, Unmoved DEF Traced, Settled
        <4>3. pc[w] = "poll" /\ \E to : pc' = [pc EXCEPT ![w] = to] /\ to \in {"loop", "flush"}
          BY <3>3 DEF PollInterrupted, PollTimeout, Goto
        <4>4. Emptied' /\ Saved'
          BY <1>1, <3>1, <4>1, <4>3, HandsKept DEF Emptied
        <4> QED  BY <4>2, <4>4
      <3> QED  BY <2>2, <3>2, <3>3 DEF Poll
    <2>3. CASE Drain(w) \/ Flush(w)
      <3>1. UNCHANGED <<offered, dropped, messages, dlq, logged>>
        BY <2>3 DEF Drain, Flush, DrainTo
      <3>2. \E n \in 0 .. Len(queue) : DrainTo(w, n) /\ (Flush(w) => n = Len(queue))
        <4>1. CASE Flush(w)
          <5>1. Len(queue) \in 0 .. Len(queue)
            BY <1>1 DEF TypeOK
          <5> QED  BY <4>1, <5>1 DEF Flush
        <4>2. CASE Drain(w)
          <5>1. AtMost(BatchSize - 1) \in 0 .. Len(queue)
            BY <1>1, AtMostInRange, WriteBehindAssumption
          <5>2. ~Flush(w)
            BY <4>2 DEF Drain, Flush, Goto
          <5> QED  BY <4>2, <5>1, <5>2 DEF Drain
        <4> QED  BY <2>3, <4>1, <4>2
      <3>3. PICK S : Take(w, S)
        BY <1>1, <3>2, DrainTakes
      <3>4. Exclusive' /\ Traced'
        BY <1>1, <3>1, <3>3, TakeKeeps DEF Traced, Settled
      <3>5. /\ batch'[w] = batch[w] \cup S /\ Queued = S \cup Queued'
            /\ \A v \in Writers \ {w} : batch'[v] = batch[v]
        BY <1>1, <3>3 DEF Take, TypeOK
      <3>6. CASE Drain(w) \/ queue # <<>>
        <4>1. pc' = [pc EXCEPT ![w] = "isOpen"]
          BY <2>3, <3>6 DEF Drain, Flush, Goto
        <4>2. Emptied' /\ Saved'
          BY <1>1, <3>1, <3>5, <4>1, HandsKept
        <4> QED  BY <3>4, <4>2
      <3>7. CASE Flush(w) /\ queue = <<>>
        <4>1. pc[w] = "flush" /\ pc' = [pc EXCEPT ![w] = "done"]
          BY <3>7 DEF Flush, Goto
        <4>2. Queued = {} /\ batch[w] = {}
          BY <1>1, <3>7, <4>1 DEF Queued, Emptied
        <4>3. batch'[w] = {}
          BY <3>5, <4>2
        <4>4. Emptied' /\ Saved'
          BY <1>1, <3>1, <3>5, <4>1, <4>3, HandsKept
        <4> QED  BY <3>4, <4>4
      <3> QED  BY <2>3, <3>6, <3>7
    <2>4. CASE BreakerCall(w)
      <3>1. UNCHANGED <<queue, batch, offered, dropped, messages, dlq, logged>>
        BY <2>4 DEF BreakerCall
      <3>2. Exclusive' /\ Traced'
        BY <1>1, <3>1, Unmoved DEF Traced, Settled
      <3>3. BreakerTyped /\ BreakerStep(w)
        BY <1>1, <2>4 DEF BreakerCall, BreakerTyped, TypeOK
      <3>4. Stays(w)
        BY <3>3, BreakerStepStays
      <3>5. PICK to \in BreakerLabels \ {"onSuccess"} :
              /\ pc' = [pc EXCEPT ![w] = to]
              /\ to \in {"reset", "succeeded"} => pc[w] \in {"onSuccess", "reset"}
        BY <3>4 DEF Stays
      <3>6. to \notin {"loop", "poll", "flush", "done"}
        BY DEF BreakerLabels
      <3>7. to \in {"onSuccess", "reset", "succeeded"} => batch'[w] \subseteq messages'
        BY <1>1, <3>1, <3>5 DEF Saved
      <3>8. Emptied' /\ Saved'
        BY <1>1, <3>1, <3>5, <3>6, <3>7, HandsKept
      <3> QED  BY <3>2, <3>8
    <2>5. CASE Save(w)
      <3>1. UNCHANGED <<queue, batch, offered, dropped, dlq, logged>>
        BY <2>5 DEF Save
      <3>2. Exclusive' /\ Pending' = Pending
        BY <1>1, <3>1, Unmoved
      <3>3. \/ pc' = [pc EXCEPT ![w] = "onSuccess"] /\ batch[w] \subseteq messages'
            \/ pc' = [pc EXCEPT ![w] = "onFailure"]
        BY <2>5 DEF Save, SaveOk, SaveThrows, Goto
      <3>4. \E S : messages' = messages \cup S /\ S \subseteq batch[w]
        BY <2>5 DEF Save, SaveOk, SaveThrows
      <3>5. batch[w] \subseteq Pending
        BY DEF Pending, Held
      <3>6. Traced'
        BY <1>1, <3>1, <3>2, <3>4, <3>5 DEF Traced, Settled
      <3>7. Emptied' /\ Saved'
        BY <1>1, <3>1, <3>3, <3>4, HandsKept
      <3> QED  BY <3>2, <3>6, <3>7
    <2>6. CASE Decide(w)
      <3>1. UNCHANGED <<queue, batch, offered, dropped, messages, dlq, logged>>
        BY <2>6 DEF Decide
      <3>2. Exclusive' /\ Traced'
        BY <1>1, <3>1, Unmoved DEF Traced, Settled
      <3>3. \E to \in {"save", "bury"} : pc' = [pc EXCEPT ![w] = to]
        BY <2>6 DEF Decide, Retry, GiveUpOn, Refusal, Goto
      <3>4. Emptied' /\ Saved'
        BY <1>1, <3>1, <3>3, HandsKept
      <3> QED  BY <3>2, <3>4
    <2>7. CASE Bury(w)
      <3>1. PICK m \in batch[w] :
              /\ batch' = [batch EXCEPT ![w] = batch[w] \ {m}]
              /\ \/ dlq' = dlq \cup {m} /\ logged' = logged
                 \/ logged' = logged \cup {m} /\ dlq' = dlq
        BY <2>7 DEF Bury
      <3>2. UNCHANGED <<pc, queue, offered, dropped, messages>> /\ pc[w] = "bury"
        BY <2>7 DEF Bury
      <3>3. Exclusive' /\ Pending' = Pending \ {m}
        BY <1>1, <3>1, <3>2, ReleaseKeeps
      <3>4. m \in Pending
        BY DEF Pending, Held
      <3>5. Traced'
        BY <1>1, <3>1, <3>2, <3>3, <3>4 DEF Traced, Settled
      <3>6. \A v \in Writers : batch'[v] \subseteq batch[v]
        BY <1>1, <3>1 DEF TypeOK
      <3>7. Emptied' /\ Saved'
        BY <1>1, <3>2, <3>6 DEF Emptied, Saved
      <3> QED  BY <3>3, <3>5, <3>7
    <2>8. CASE Return(w)
      <3>1. /\ UNCHANGED <<queue, offered, dropped, messages, dlq, logged>>
            /\ batch' = [batch EXCEPT ![w] = batch[w] \ batch[w]]
        BY <2>8 DEF Return
      <3>2. batch[w] \subseteq messages
        BY <1>1, <2>8 DEF Return, Saved
      <3>3. Exclusive' /\ Pending' = Pending \ batch[w]
        BY <1>1, <3>1, ReleaseKeeps
      <3>4. batch[w] \subseteq Pending
        BY DEF Pending, Held
      <3>5. Traced'
        BY <1>1, <3>1, <3>2, <3>3, <3>4 DEF Traced, Settled
      <3>6. \E to \in {"loop", "done"} : pc' = [pc EXCEPT ![w] = to]
        BY <2>8 DEF Return, Goto
      <3>7. batch'[w] = {} /\ \A v \in Writers \ {w} : batch'[v] = batch[v]
        BY <1>1, <3>1, BatchUpdate
      <3>8. Emptied' /\ Saved'
        BY <1>1, <3>1, <3>6, <3>7, HandsKept
      <3> QED  BY <3>3, <3>5, <3>8
    <2> QED  BY <1>3, <2>1, <2>2, <2>3, <2>4, <2>5, <2>6, <2>7, <2>8 DEF WriterStep
  <1>4. CASE Stop \/ Tick \/ UNCHANGED vars
    <2>1. UNCHANGED <<pc, queue, batch, offered, dropped, messages, dlq, logged>>
      BY <1>4 DEF Stop, Tick, Cooldown, vars
    <2>2. Exclusive' /\ Pending' = Pending
      BY <1>1, <2>1, Unmoved
    <2> QED  BY <1>1, <2>1, <2>2 DEF Emptied, Saved, Traced, Settled
  <1> QED  BY <1>2, <1>3, <1>4 DEF Next

-----------------------------------------------------------------------------
(***************************************************************************)
(* IInv is an invariant: a writer holds nothing outside of                 *)
(* writeBatchWithRetry, only saved rows after a successful save, no        *)
(* message is in two places, and the places account for all offers.        *)
(***************************************************************************)
THEOREM InductiveInvariant == Spec => []IInv
  <1>1. Init => IInv
    <2> SUFFICES ASSUME Init PROVE IInv
      OBVIOUS
    <2>1. TypeOK
      BY WriteBehindAssumption DEF Init, TypeOK, WriterLabels
    <2>2. Emptied /\ Saved
      BY DEF Init, Emptied, Saved
    <2>3. Queued = {} /\ Held = {} /\ Settled = {}
      BY DEF Init, Queued, Held, Settled
    <2>4. Exclusive
      BY <2>3 DEF Init, Exclusive, Distinct
    <2> QED  BY <2>1, <2>2, <2>3, <2>4 DEF Init, IInv, Traced, Pending
  <1>2. IInv /\ TypeOK' /\ [Next]_vars => IInv'
    BY StepKeepsInvariant
  <1> QED  BY <1>1, <1>2, TypeInvariant, PTL DEF Spec

(***************************************************************************)
(* No message offered to the buffer vanishes without having been dropped   *)
(* and counted, saved, dead-lettered or logged (DatabaseWriter,            *)
(* BatchWriteBuffer).                                                      *)
(***************************************************************************)
THEOREM NothingLost == Spec => []NoSilentLoss
  <1>1. IInv => NoSilentLoss
    BY DEF IInv, Traced, Pending, NoSilentLoss
  <1> QED  BY <1>1, InductiveInvariant, PTL

-----------------------------------------------------------------------------
(***************************************************************************)
(* A writer flushes only once the shutdown has begun, and has emptied the  *)
(* queue when it has.                                                      *)
(***************************************************************************)
Flushed ==
    \A w \in Writers :
        /\ pc[w] = "flush" => shutdown # "up"
        /\ final[w] => shutdown # "up" /\ Queued \subseteq late
        /\ pc[w] = "done" => final[w]

\* A step of writer w that leaves `final' alone, adds nothing to the queue and
\* ends in "flush" or "done" only when it may.
LEMMA FlushedKept ==
    ASSUME TypeOK, Flushed, NEW w \in Writers, NEW to,
           pc' = [pc EXCEPT ![w] = to],
           UNCHANGED <<final, shutdown, late>>, Queued' \subseteq Queued,
           to = "flush" => shutdown # "up",
           to = "done" => final[w]
    PROVE  Flushed'
  <1>1. pc'[w] = to /\ \A v \in Writers \ {w} : pc'[v] = pc[v]
    BY DEF TypeOK
  <1> QED  BY <1>1 DEF Flushed

\* Each action of Next keeps what a returned writer has left behind.
LEMMA StepKeepsFlushed ==
    ASSUME IInv, Flushed, [Next]_vars
    PROVE  Flushed'
  <1> USE DEF breakerVars, breaker, buffer, tables
  <1>1. TypeOK /\ Emptied /\ Exclusive
    BY DEF IInv
  <1>2. ASSUME NEW m \in Messages, Offer(m)
        PROVE  Flushed'
    <2>1. /\ UNCHANGED <<pc, final, shutdown>>
          /\ late \subseteq late'
          /\ shutdown # "up" => m \in late'
      BY <1>2 DEF Offer
    <2>2. Queued' \subseteq Queued \cup {m}
      <3>1. CASE Enqueue(m)
        <4>1. queue \in Seq(Messages) /\ queue' = Append(queue, m)
          BY <1>1, <3>1 DEF Enqueue, TypeOK
        <4> QED  BY <4>1, AppendContents DEF Queued, Contents
      <3>2. CASE Drop(m)
        BY <3>2 DEF Drop, Queued
      <3> QED  BY <1>2, <3>1, <3>2 DEF Offer
    <2> QED  BY <2>1, <2>2 DEF Flushed
  <1>3. ASSUME NEW w \in Writers, WriterStep(w)
        PROVE  Flushed'
    <2>1. CASE Loop(w)
      <3>1. /\ UNCHANGED <<final, shutdown, late>> /\ Queued' = Queued
            /\ \E to \in {"poll", "flush"} :
                 pc' = [pc EXCEPT ![w] = to] /\ (to = "flush" => shutdown # "up")
        BY <2>1 DEF Loop, Goto, Queued
      <3> QED  BY <1>1, <3>1, FlushedKept
    <2>2. CASE Poll(w)
      <3>1. UNCHANGED <<final, shutdown, late>>
        BY <2>2 DEF Poll
      <3>2. CASE PollHead(w)
        <4>1. PICK S : Take(w, S)
          BY <1>1, <3>2, PollHeadTakes
        <4>2. pc' = [pc EXCEPT ![w] = "drain"] /\ Queued' \subseteq Queued
          BY <3>2, <4>1 DEF PollHead, Goto, Take
        <4> QED  BY <1>1, <3>1, <4>2, FlushedKept
      <3>3. CASE PollInterrupted(w) \/ PollTimeout(w)
        <4>1. /\ Queued' = Queued
              /\ \E to \in {"loop", "flush"} :
                   pc' = [pc EXCEPT ![w] = to] /\ (to = "flush" => shutdown # "up")
          BY <3>3 DEF PollInterrupted, PollTimeout, Goto, Queued
        <4> QED  BY <1>1, <3>1, <4>1, FlushedKept
      <3> QED  BY <2>2, <3>2, <3>3 DEF Poll
    <2>3. CASE Drain(w)
      <3>1. AtMost(BatchSize - 1) \in 0 .. Len(queue)
        BY <1>1, AtMostInRange, WriteBehindAssumption
      <3>2. PICK S : Take(w, S)
        BY <1>1, <2>3, <3>1, DrainTakes DEF Drain
      <3>3. /\ UNCHANGED <<final, shutdown, late>> /\ Queued' \subseteq Queued
            /\ pc' = [pc EXCEPT ![w] = "isOpen"]
        BY <2>3, <3>2 DEF Drain, DrainTo, Goto, Take
      <3> QED  BY <1>1, <3>3, FlushedKept
    <2>4. CASE Flush(w)
      <3>1. queue' = SubSeq(queue, Len(queue) + 1, Len(queue)) /\ Len(queue) \in 0 .. Len(queue)
            /\ queue \in Seq(Messages)
        BY <1>1, <2>4 DEF Flush, DrainTo, TypeOK
      <3>2. DOMAIN queue' = 1 .. (Len(queue) - Len(queue)) /\ Len(queue) \in Nat
        BY <3>1, SubSeqElements
      <3>3. Queued' = {}
        BY <3>2 DEF Queued
      <3>4. /\ UNCHANGED <<shutdown, late>> /\ pc[w] = "flush"
            /\ \E to \in {"isOpen", "done"} : pc' = [pc EXCEPT ![w] = to]
            /\ final' = [final EXCEPT ![w] = TRUE]
        BY <2>4 DEF Flush, DrainTo, Goto
      <3>5. /\ final'[w] /\ pc'[w] # "flush"
            /\ \A v \in Writers \ {w} : pc'[v] = pc[v] /\ final'[v] = final[v]
        BY <1>1, <3>4 DEF TypeOK
      <3> QED  BY <3>3, <3>4, <3>5 DEF Flushed
    <2>5. CASE BreakerCall(w)
      <3>1. UNCHANGED <<final, shutdown, late>> /\ Queued' = Queued
        BY <2>5 DEF BreakerCall, Queued
      <3>2. BreakerTyped /\ BreakerStep(w)
        BY <1>1, <2>5 DEF BreakerCall, BreakerTyped, TypeOK
      <3>3. \E to \in BreakerLabels : pc' = [pc EXCEPT ![w] = to]
        BY <3>2, BreakerStepStays DEF Stays
      <3> QED  BY <1>1, <3>1, <3>3, FlushedKept DEF BreakerLabels
    <2>6. CASE Save(w) \/ Decide(w)
      <3>1. UNCHANGED <<final, shutdown, late>> /\ Queued' = Queued
        BY <2>6 DEF Save, Decide, Queued
      <3>2. \E to \in {"onSuccess", "onFailure", "save", "bury"} : pc' = [pc EXCEPT ![w] = to]
        BY <2>6 DEF Save, SaveOk, SaveThrows, Decide, Retry, GiveUpOn, Refusal, Goto
      <3> QED  BY <1>1, <3>1, <3>2, FlushedKept
    <2>7. CASE Bury(w)
      <3>1. UNCHANGED <<pc, final, shutdown, late>> /\ Queued' = Queued
        BY <2>7 DEF Bury, Queued
      <3> QED  BY <3>1 DEF Flushed
    <2>8. CASE Return(w)
      <3>1. /\ UNCHANGED <<final, shutdown, late>> /\ Queued' = Queued
            /\ \E to \in {"loop", "done"} :
                 pc' = [pc EXCEPT ![w] = to] /\ (to = "done" => final[w])
        BY <2>8 DEF Return, Goto, Queued
      <3> QED  BY <1>1, <3>1, FlushedKept
    <2> QED  BY <1>3, <2>1, <2>2, <2>3, <2>4, <2>5, <2>6, <2>7, <2>8 DEF WriterStep
  <1>4. CASE Stop \/ Tick \/ UNCHANGED vars
    <2>1. /\ UNCHANGED <<pc, final, late>> /\ Queued' = Queued
          /\ shutdown # "up" => shutdown' # "up"
      BY <1>4 DEF Stop, Tick, Cooldown, vars, Queued
    <2> QED  BY <2>1 DEF Flushed
  <1> QED  BY <1>2, <1>3, <1>4 DEF Next

(***************************************************************************)
(* A writer that has returned from run leaves nothing in the buffer that   *)
(* was offered before the shutdown (DatabaseWriter.run).                   *)
(***************************************************************************)
THEOREM FlushesOnShutdown == Spec => []FlushedOnShutdown
  <1>1. Init => Flushed
    BY DEF Init, Flushed
  <1>2. IInv /\ Flushed /\ [Next]_vars => Flushed'
    BY StepKeepsFlushed
  <1>3. Flushed => FlushedOnShutdown
    BY DEF Flushed, FlushedOnShutdown
  <1> QED  BY <1>1, <1>2, <1>3, InductiveInvariant, PTL DEF Spec

-----------------------------------------------------------------------------
(***************************************************************************)
(* The refinement.  Each step is one operation of the sink, or changes     *)
(* nothing the sink can see: a message that moves from the queue to a      *)
(* batch stays pending.                                                    *)
(***************************************************************************)
LEMMA StepRefines ==
    ASSUME IInv, [Next]_vars
    PROVE  [Sink!SinkNext]_(Sink!sinkVars)
  <1> USE DEF breakerVars, breaker, buffer, tables
  <1>1. TypeOK /\ Emptied /\ Saved /\ Exclusive /\ Traced
    BY DEF IInv
  <1>2. ASSUME Pending' = Pending, UNCHANGED <<dropped, messages, dlq, logged>>
        PROVE  UNCHANGED Sink!sinkVars
    BY <1>2 DEF Pending, Sink!sinkVars
  <1>3. ASSUME NEW m \in Messages, Offer(m)
        PROVE  Sink!SinkNext
    <2>1. m \notin dropped \cup Pending \cup messages \cup dlq \cup logged
      BY <1>1, <1>3 DEF Offer, Traced, Settled
    <2>2. UNCHANGED <<batch, messages, dlq, logged>>
      BY <1>3 DEF Offer
    <2>3. CASE Enqueue(m)
      <3>1. Pending' = Pending \cup {m} /\ dropped' = dropped
        BY <1>1, <2>1, <2>2, <2>3, EnqueueKeeps DEF Enqueue
      <3>2. Sink!Accept(m)
        BY <2>1, <2>2, <3>1 DEF Sink!Accept, Pending
      <3> QED  BY <3>2 DEF Sink!SinkNext
    <2>4. CASE Drop(m)
      <3>1. queue' = queue /\ dropped' = dropped \cup {m}
        BY <2>4 DEF Drop
      <3>2. Pending' = Pending
        BY <1>1, <2>2, <3>1, Unmoved
      <3>3. Sink!Refuse(m)
        BY <2>1, <2>2, <3>1, <3>2 DEF Sink!Refuse, Pending
      <3> QED  BY <3>3 DEF Sink!SinkNext
    <2> QED  BY <1>3, <2>3, <2>4 DEF Offer
  <1>4. ASSUME NEW w \in Writers, WriterStep(w)
        PROVE  Sink!SinkNext \/ UNCHANGED Sink!sinkVars
    <2>1. CASE Loop(w) \/ BreakerCall(w) \/ Decide(w)
      <3>1. UNCHANGED <<queue, batch, dropped, messages, dlq, logged>>
        BY <2>1 DEF Loop, BreakerCall, Decide
      <3> QED  BY <1>1, <1>2, <3>1, Unmoved
    <2>2. CASE Poll(w)
      <3>1. UNCHANGED <<dropped, messages, dlq, logged>>
        BY <2>2 DEF Poll
      <3>2. CASE PollHead(w)
        <4>1. PICK S : Take(w, S)
          BY <1>1, <3>2, PollHeadTakes
        <4> QED  BY <1>1, <1>2, <3>1, <4>1, TakeKeeps
      <3>3. CASE PollInterrupted(w) \/ PollTimeout(w)
        <4>1. UNCHANGED <<queue, batch>>
          BY <3>3 DEF PollInterrupted, PollTimeout
        <4> QED  BY <1>1, <1>2, <3>1, <4>1, Unmoved
      <3> QED  BY <2>2, <3>2, <3>3 DEF Poll
    <2>3. CASE Drain(w) \/ Flush(w)
      <3>1. UNCHANGED <<dropped, messages, dlq, logged>>
        BY <2>3 DEF Drain, Flush, DrainTo
      <3>2. Len(queue) \in 0 .. Len(queue) /\ AtMost(BatchSize - 1) \in 0 .. Len(queue)
        <4>1. Len(queue) \in 0 .. Len(queue)
          BY <1>1 DEF TypeOK
        <4>2. AtMost(BatchSize - 1) \in 0 .. Len(queue)
          BY <1>1, AtMostInRange, WriteBehindAssumption
        <4> QED  BY <4>1, <4>2
      <3>3. \E n \in 0 .. Len(queue) : DrainTo(w, n)
        BY <2>3, <3>2 DEF Drain, Flush
      <3>4. PICK S : Take(w, S)
        BY <1>1, <3>3, DrainTakes
      <3> QED  BY <1>1, <1>2, <3>1, <3>4, TakeKeeps
    <2>4. CASE Save(w)
      <3>1. UNCHANGED <<queue, batch, dropped, dlq, logged>>
        BY <2>4 DEF Save
      <3>2. PICK S : messages' = messages \cup S /\ S \subseteq batch[w]
        BY <2>4 DEF Save, SaveOk, SaveThrows
      <3>3. Pending' = Pending /\ batch[w] \subseteq Pending /\ S \in SUBSET Messages
        BY <1>1, <3>1, <3>2, Unmoved DEF Pending, Held, TypeOK
      <3>4. Sink!Store(S)
        BY <3>1, <3>2, <3>3 DEF Sink!Store, Pending
      <3> QED  BY <3>3, <3>4 DEF Sink!SinkNext
    <2>5. CASE Bury(w)
      <3>1. PICK m \in batch[w] :
              /\ batch' = [batch EXCEPT ![w] = batch[w] \ {m}]
              /\ \/ dlq' = dlq \cup {m} /\ logged' = logged
                 \/ logged' = logged \cup {m} /\ dlq' = dlq
        BY <2>5 DEF Bury
      <3>2. UNCHANGED <<queue, dropped, messages>>
        BY <2>5 DEF Bury
      <3>3. Pending' = Pending \ {m}
        <4>1. {m} \subseteq batch[w] /\ batch' = [batch EXCEPT ![w] = batch[w] \ {m}]
          BY <3>1
        <4>2. queue' = queue
          BY <3>2
        <4> QED  BY <1>1, <4>1, <4>2, ReleaseKeeps
      <3>4. m \in Pending /\ m \in Messages
        BY <1>1 DEF Pending, Held, TypeOK
      <3>5. Sink!GiveUp(m)
        BY <3>1, <3>2, <3>3, <3>4 DEF Sink!GiveUp, Pending
      <3> QED  BY <3>4, <3>5 DEF Sink!SinkNext
    <2>6. CASE Return(w)
      <3>1. /\ UNCHANGED <<queue, dropped, messages, dlq, logged>>
            /\ batch' = [batch EXCEPT ![w] = batch[w] \ batch[w]]
        BY <2>6 DEF Return
      <3>2. /\ batch[w] \subseteq messages
            /\ batch[w] \subseteq Pending
            /\ batch[w] \in SUBSET Messages
        <4>1. batch[w] \subseteq messages
          BY <1>1, <2>6 DEF Return, Saved
        <4>2. batch[w] \subseteq Pending
          BY DEF Pending, Held
        <4>3. batch[w] \in SUBSET Messages
          BY <1>1 DEF TypeOK
        <4> QED  BY <4>1, <4>2, <4>3
      <3>3. Pending' = Pending \ batch[w]
        BY <1>1, <3>1, ReleaseKeeps
      <3>4. Sink!Retire(batch[w])
        BY <3>1, <3>2, <3>3 DEF Sink!Retire, Pending
      <3> QED  BY <3>2, <3>4 DEF Sink!SinkNext
    <2> QED  BY <1>4, <2>1, <2>2, <2>3, <2>4, <2>5, <2>6 DEF WriterStep
  <1>5. CASE Stop \/ Tick \/ UNCHANGED vars
    <2>1. UNCHANGED <<queue, batch, dropped, messages, dlq, logged>>
      BY <1>5 DEF Stop, Tick, Cooldown, vars
    <2> QED  BY <1>1, <1>2, <2>1, Unmoved
  <1> QED  BY <1>3, <1>4, <1>5 DEF Next

(***************************************************************************)
(* The write-behind path keeps the promise of WriteBehindSink: a message   *)
(* is refused at once, or stays in memory until its row, its dead letter   *)
(* or its line on stderr is there.                                         *)
(***************************************************************************)
THEOREM Implementation == Spec => ImplementsSink
  <1>1. Init => Sink!SinkInit
    BY DEF Init, Sink!SinkInit, Queued, Held
  <1>2. IInv /\ [Next]_vars => [Sink!SinkNext]_(Sink!sinkVars)
    BY StepRefines
  <1> QED
    BY <1>1, <1>2, InductiveInvariant, PTL DEF Spec, ImplementsSink, Sink!SinkSpec

-----------------------------------------------------------------------------
(***************************************************************************)
(* The circuit has no state of its own that says whose the trial write is: *)
(* the result of the compare-and-set in isOpen is not looked at.  Still a  *)
(* half-open circuit has some writer on its way to close it or to open it  *)
(* again, one that probed or one that was let through before.              *)
(***************************************************************************)
Trial == {"save", "onSuccess", "onFailure", "restamp", "reopen"}

TrialInFlight == state = "HALF_OPEN" => \E w \in Writers : pc[w] \in Trial

\* A step that ends a trial leaves a circuit that is not half open, and only
\* a probe makes it half open, at the beginning of a trial.
LEMMA BreakerKeepsTrial ==
    ASSUME pc \in [Writers -> WriterLabels], TrialInFlight, NEW w \in Writers,
           BreakerStep(w)
    PROVE  TrialInFlight'
  <1> SUFFICES ASSUME state' = "HALF_OPEN" PROVE \E u \in Writers : pc'[u] \in Trial
    BY DEF TrialInFlight
  <1>1. CASE Probe(w)
    BY <1>1 DEF Probe, Goto, Trial
  <1>2. CASE ~Probe(w)
    <2>1. state = "HALF_OPEN"
      BY <1>2 DEF BreakerStep, IsOpen, OnSuccess, OnFailure, ReadState, ReadCooldown, Close,
                  ResetFailures, Classify, Stamp, Reopen, Count, Trip, breaker
    <2>2. PICK u \in Writers : pc[u] \in Trial
      BY <2>1 DEF TrialInFlight
    <2>3. CASE u # w
      <3>1. pc'[u] = pc[u]
        BY <2>3 DEF BreakerStep, IsOpen, OnSuccess, OnFailure, ReadState, ReadCooldown, Probe,
                    Close, ResetFailures, Classify, Stamp, Reopen, Count, Trip, Goto
      <3> QED  BY <2>2, <3>1
    <2>4. CASE u = w
      <3>1. Classify(w) \/ Stamp(w)
        BY <1>2, <2>2, <2>4
        DEF BreakerStep, IsOpen, OnSuccess, OnFailure, ReadState, ReadCooldown, Close,
            ResetFailures, Reopen, Count, Trip, Goto, Trial
      <3> QED
        BY <2>1, <2>2, <2>4, <3>1 DEF Classify, Stamp, Goto, Trial
    <2> QED  BY <2>3, <2>4
  <1> QED  BY <1>1, <1>2

\* A step in which every trial goes on and the circuit stays as it is.
LEMMA OthersKeepTrial ==
    ASSUME TrialInFlight, state' = state,
           \A u \in Writers : pc[u] \in Trial => pc'[u] \in Trial
    PROVE  TrialInFlight'
  BY DEF TrialInFlight

(***************************************************************************)
(* No half-open circuit is left to itself: neither a late failure that is  *)
(* taken for the trial's, nor a retry, nor the shutdown takes the last     *)
(* trial away (DbCircuitBreaker.isOpen, DatabaseWriter).  It is what lets  *)
(* the circuit close after the database has recovered.                     *)
(***************************************************************************)
THEOREM HalfOpenIsTried == Spec => []TrialInFlight
  <1>1. Init => TrialInFlight
    BY DEF Init, TrialInFlight
  <1>2. TypeOK /\ TrialInFlight /\ [Next]_vars => TrialInFlight'
    <2> SUFFICES ASSUME TypeOK, TrialInFlight, [Next]_vars PROVE TrialInFlight'
      OBVIOUS
    <2>1. ASSUME NEW w \in Writers, WriterStep(w) PROVE TrialInFlight'
      <3>1. CASE BreakerCall(w)
        BY <3>1, BreakerKeepsTrial DEF BreakerCall, TypeOK
      <3>2. CASE Save(w)
        BY <3>2, OthersKeepTrial DEF Save, SaveOk, SaveThrows, Goto, breaker, Trial, TypeOK
      <3>3. CASE Loop(w) \/ Poll(w) \/ Drain(w) \/ Flush(w)
        BY <3>3, OthersKeepTrial
        DEF Loop, Poll, PollInterrupted, PollHead, PollTimeout, Drain, Flush, Goto, breaker,
            Trial, TypeOK
      <3>4. CASE Decide(w) \/ Bury(w) \/ Return(w)
        BY <3>4, OthersKeepTrial
        DEF Decide, Retry, GiveUpOn, Refusal, Bury, Return, Goto, breaker, breakerVars, Trial,
            TypeOK
      <3> QED  BY <2>1, <3>1, <3>2, <3>3, <3>4 DEF WriterStep
    <2>2. CASE UNCHANGED <<pc, state>>
      BY <2>2, OthersKeepTrial
    <2> QED
      BY <2>1, <2>2 DEF Next, Offer, Stop, Tick, Cooldown, vars, breakerVars, breaker
  <1> QED  BY <1>1, <1>2, TypeInvariant, PTL DEF Spec

(***************************************************************************)
(* The same of the breaker under any callers, whose requests and retries   *)
(* come at any time (DbCircuitBreaker's own specification).                *)
(***************************************************************************)
THEOREM HalfOpenIsTriedByAnyCaller == BreakerSpec => []TrialInFlight
  <1>1. BreakerInit => BreakerTyped /\ TrialInFlight
    BY DEF BreakerInit, BreakerTyped, WriterLabels, BreakerLabels, TrialInFlight
  <1>2. BreakerTyped /\ TrialInFlight /\ [BreakerNext]_breakerVars => (BreakerTyped /\ TrialInFlight)'
    <2> SUFFICES ASSUME BreakerTyped, TrialInFlight, [BreakerNext]_breakerVars
                 PROVE  BreakerTyped' /\ TrialInFlight'
      OBVIOUS
    <2>1. ASSUME NEW w \in Writers, BreakerStep(w) PROVE BreakerTyped' /\ TrialInFlight'
      BY <2>1, BreakerStepTyped, BreakerKeepsTrial DEF BreakerTyped
    <2>2. ASSUME NEW w \in Writers, SaveSucceeds(w) \/ SaveFails(w) \/ NextCall(w)
          PROVE  BreakerTyped' /\ TrialInFlight'
      <3>1. BreakerTyped'
        BY <2>2
        DEF SaveSucceeds, SaveFails, NextCall, Goto, breaker, BreakerTyped, WriterLabels, BreakerLabels
      <3>2. TrialInFlight'
        BY <2>2, OthersKeepTrial
        DEF SaveSucceeds, SaveFails, NextCall, Goto, breaker, Trial, BreakerTyped
      <3> QED  BY <3>1, <3>2
    <2>3. CASE Cooldown \/ UNCHANGED breakerVars
      BY <2>3 DEF Cooldown, breakerVars, breaker, BreakerTyped, TrialInFlight
    <2> QED  BY <2>1, <2>2, <2>3 DEF BreakerNext, CallerStep
  <1> QED  BY <1>1, <1>2, PTL DEF BreakerSpec
=============================================================================
