---------------------------- MODULE WorkerPoolProofs ----------------------------
(***************************************************************************)
(* Theorems about WorkerPool, for any workers, limits and number of        *)
(* faults, and both orders of the shutdown.                                *)
(***************************************************************************)
EXTENDS WorkerPool, SequenceTheorems, FiniteSetTheorems, TLAPS

Distinct(s) == \A i, j \in DOMAIN s : s[i] = s[j] => i = j

(***************************************************************************)
(* The inductive invariant: the list of workers and the shutdown, then the *)
(* connection.                                                             *)
(***************************************************************************)
Places == {"start", "lock", "connecting", "channel", "listening", "ended"}

PoolTyped ==
    /\ active \in Seq(Workers) /\ Distinct(active)
    /\ count \in MinWorkers .. MaxWorkers
    /\ scaler \in {"idle", "add", "remove"}
    /\ stopped \subseteq Workers
    /\ pc \in [Workers -> Places]
    /\ shut \subseteq {"initial", "scaling"}

\* The decision is still within the limits when it is carried out.
Decided == (scaler = "add" => count < MaxWorkers) /\ (scaler = "remove" => count > MinWorkers)

\* Every worker that goes on is on the list, which is no longer than the count
\* until the executor of the added workers is shut down.
Listed ==
    /\ \A w \in Workers : pc[w] # "ended" /\ w \notin stopped /\ ~Interrupted(w) => w \in Range(active)
    /\ Initial \subseteq Range(active) \cup stopped
    /\ "scaling" \notin shut => Len(active) <= count

\* Of the shutdown, n steps are done.  Once the list is cleared the initial
\* workers are stopped, and the executor is shut down after that.
Closing ==
    \E plan \in Shutdowns, n \in 0 .. 4 :
        /\ todo = SubSeq(plan, n + 1, 4)
        /\ (\E i \in 1 .. n : plan[i] = "clear") => Initial \subseteq stopped
        /\ "scaling" \in shut => \E i \in 1 .. n : plan[i] = "shutScaling"

PoolInv == PoolTyped /\ Decided /\ Listed /\ Closing

Closed == {n \in DOMAIN link : link[n] = "closed"}

LinkTyped ==
    /\ link \in Seq({"open", "lost", "closed"})
    /\ connection = Len(link)
    /\ found \in [Workers -> 0 .. Len(link)]
    /\ losses \in Nat /\ refusals \in Nat /\ losses + refusals <= MaxFaults

\* One worker connects at a time; while it does, or while the connection is not
\* open, every connection so far is accounted for by a loss or the close.
Charged ==
    /\ \A v, w \in Workers : pc[v] = "connecting" /\ pc[w] = "connecting" => v = w
    /\ Len(link) <= 1 + losses + Cardinality(Closed)
    /\ ~Open(connection) \/ (\E w \in Workers : pc[w] = "connecting") =>
         Len(link) <= losses + Cardinality(Closed)

LinkInv == LinkTyped /\ Charged

IInv == PoolInv /\ LinkInv

-----------------------------------------------------------------------------
(***************************************************************************)
(* About sequences.                                                        *)
(***************************************************************************)
\* All elements but the last.
LEMMA DropLast ==
    ASSUME NEW S, NEW s \in Seq(S), s # <<>>, Distinct(s)
    PROVE  /\ SubSeq(s, 1, Len(s) - 1) \in Seq(S)
           /\ Len(SubSeq(s, 1, Len(s) - 1)) = Len(s) - 1
           /\ Distinct(SubSeq(s, 1, Len(s) - 1))
           /\ s[Len(s)] \in S
           /\ Range(s) \subseteq Range(SubSeq(s, 1, Len(s) - 1)) \cup {s[Len(s)]}
<1> DEFINE n == Len(s)
           t == SubSeq(s, 1, n - 1)
<1>1. /\ n \in Nat /\ n >= 1 /\ DOMAIN s = 1 .. n /\ \A i \in 1 .. n : s[i] \in S
    BY EmptySeq
<1>2. /\ t \in Seq(S)
      /\ Len(t) = IF 1 <= n - 1 THEN n - 1 - 1 + 1 ELSE 0
      /\ \A i \in 1 .. n - 1 - 1 + 1 : t[i] = s[1 + i - 1]
  <2>1. 1 \in Int /\ n - 1 \in Int /\ \A i \in 1 .. n - 1 : s[i] \in S
      BY <1>1
  <2> HIDE DEF n
  <2>2. QED
      BY <2>1, SubSeqProperties
<1> HIDE DEF n
<1>3. Len(t) = n - 1
    BY <1>1, <1>2
<1>4. DOMAIN t = 1 .. n - 1
    BY <1>2, <1>3
<1>5. \A i \in 1 .. n - 1 : t[i] = s[i]
  <2> SUFFICES ASSUME NEW i \in 1 .. n - 1 PROVE t[i] = s[i]
      OBVIOUS
  <2>1. i \in 1 .. n - 1 - 1 + 1 /\ 1 + i - 1 = i
      BY <1>1
  <2>2. t[i] = s[1 + i - 1]
      BY <1>2, <2>1
  <2> HIDE DEF t
  <2>3. QED
      BY <2>1, <2>2
<1> HIDE DEF t
<1>6. Distinct(t)
    BY <1>1, <1>4, <1>5 DEF Distinct
<1>7. \A i \in 1 .. n : i \in 1 .. n - 1 \/ i = n
    BY <1>1
<1>8. Range(s) \subseteq Range(t) \cup {s[n]}
    BY <1>1, <1>4, <1>5, <1>7 DEF Range
<1>9. s[n] \in S
    BY <1>1
<1>10. QED
    BY <1>2, <1>3, <1>6, <1>8, <1>9 DEF t, n

LEMMA AppendWorker ==
    ASSUME NEW S, NEW s \in Seq(S), NEW x \in S, x \notin Range(s), Distinct(s)
    PROVE  /\ Append(s, x) \in Seq(S) /\ Len(Append(s, x)) = Len(s) + 1
           /\ Distinct(Append(s, x)) /\ Range(Append(s, x)) = Range(s) \cup {x}
<1>1. /\ Append(s, x) \in Seq(S) /\ Len(s) \in Nat /\ Len(Append(s, x)) = Len(s) + 1
      /\ DOMAIN s = 1 .. Len(s) /\ DOMAIN Append(s, x) = 1 .. (Len(s) + 1)
      /\ \A i \in 1 .. Len(s) : Append(s, x)[i] = s[i]
      /\ Append(s, x)[Len(s) + 1] = x
    OBVIOUS
<1>2. \A i \in 1 .. (Len(s) + 1) : i \in 1 .. Len(s) \/ i = Len(s) + 1
    BY <1>1
<1>3. \A i \in 1 .. Len(s) : s[i] # x
    BY <1>1 DEF Range
<1>4. Distinct(Append(s, x))
    BY <1>1, <1>2, <1>3 DEF Distinct
<1>5. Range(Append(s, x)) = Range(s) \cup {x}
    BY <1>1, <1>2 DEF Range
<1>6. QED
    BY <1>1, <1>4, <1>5

LEMMA RangeCardinality ==
    ASSUME NEW S, NEW s \in Seq(S), Distinct(s)
    PROVE  IsFiniteSet(Range(s)) /\ Cardinality(Range(s)) = Len(s)
<1>1. Len(s) \in Nat /\ DOMAIN s = 1 .. Len(s) /\ s \in [1 .. Len(s) -> S]
    OBVIOUS
<1>2. IsFiniteSet(1 .. Len(s)) /\ Cardinality(1 .. Len(s)) = Len(s)
    BY <1>1, FS_Interval
<1>3. s \in Surjection(1 .. Len(s), Range(s))
    BY <1>1 DEF Range, Surjection
<1>4. s \in Injection(1 .. Len(s), Range(s))
    BY <1>1, <1>3 DEF Distinct, Injection, IsInjective, Surjection
<1>5. QED
    BY <1>2, <1>3, <1>4, FS_Surjection

LEMMA Limits == MinWorkers \in Nat /\ MaxWorkers \in Nat /\ MinWorkers <= MaxWorkers
BY PoolAssumption, FS_Subset, FS_CardinalityType DEF MinWorkers

(***************************************************************************)
(* The list of workers.                                                    *)
(***************************************************************************)
\* A worker takes a step, or ends.
LEMMA RunKeepsPool ==
    ASSUME PoolInv, NEW w \in Workers, NEW to \in Places, pc[w] # "ended",
           pc' = [pc EXCEPT ![w] = to],
           UNCHANGED <<active, count, stopped, scaler, todo, shut>>
    PROVE  PoolInv'
<1>1. PoolTyped' /\ Decided'
    BY DEF PoolInv, PoolTyped, Decided
<1>2. Listed' /\ Closing'
    BY DEF PoolInv, PoolTyped, Listed, Closing, Interrupted
<1>3. QED
    BY <1>1, <1>2 DEF PoolInv

LEMMA PoolUnchanged ==
    ASSUME PoolInv, UNCHANGED <<active, count, stopped, scaler, pc, todo, shut>>
    PROVE  PoolInv'
BY DEF PoolInv, PoolTyped, Decided, Listed, Closing, Interrupted

LEMMA DecideStep == ASSUME PoolInv, Decide PROVE PoolInv'
<1>1. /\ UNCHANGED <<active, count, stopped, pc, todo, shut>>
      /\ \/ count < MaxWorkers /\ scaler' = "add"
         \/ count > MinWorkers /\ scaler' = "remove"
    BY DEF Decide, pool, worker, closing
<1>2. QED
    BY <1>1 DEF PoolInv, PoolTyped, Decided, Listed, Closing, Interrupted

LEMMA AddStep == ASSUME PoolInv, NEW w \in Workers, AddWorker(w) PROVE PoolInv'
<1>1. /\ scaler = "add" /\ scaler' = "idle"
      /\ w \notin Initial /\ w \notin Range(active) /\ pc[w] = "ended"
      /\ active' = Append(active, w) /\ stopped' = stopped \ {w}
      /\ UNCHANGED <<todo, shut>>
    BY DEF AddWorker, closing
<1>2. /\ active' \in Seq(Workers) /\ Len(active') = Len(active) + 1 /\ Distinct(active')
      /\ Range(active') = Range(active) \cup {w}
    BY <1>1, AppendWorker DEF PoolInv, PoolTyped
<1>3. count \in Nat /\ Len(active) \in Nat
    BY Limits DEF PoolInv, PoolTyped
<1>4. /\ count' \in MinWorkers .. MaxWorkers
      /\ "scaling" \notin shut => Len(active') <= count'
  <2>1. CASE "scaling" \in shut
      BY <2>1 DEF AddWorker, PoolInv, PoolTyped
  <2>2. CASE "scaling" \notin shut
    <3>1. count' = count + 1 /\ count < MaxWorkers /\ Len(active) <= count
        BY <1>1, <2>2 DEF AddWorker, PoolInv, Decided, Listed
    <3>2. count' \in MinWorkers .. MaxWorkers
        BY <3>1, Limits DEF PoolInv, PoolTyped
    <3>3. Len(active') <= count'
        BY <1>2, <1>3, <3>1
    <3>4. QED
        BY <3>2, <3>3
  <2>3. QED
      BY <2>1, <2>2
<1>5. /\ pc' \in [Workers -> Places]
      /\ \A x \in Workers : x # w => pc'[x] = pc[x]
    BY DEF AddWorker, PoolInv, PoolTyped, Places
<1>6. PoolTyped' /\ Decided'
    BY <1>1, <1>2, <1>4, <1>5 DEF PoolInv, PoolTyped, Decided
<1>7. Listed'
  <2>1. \A x \in Workers : pc'[x] # "ended" /\ x \notin stopped' /\ ~Interrupted(x)' => x \in Range(active')
      BY <1>1, <1>2, <1>5 DEF PoolInv, Listed, Interrupted
  <2>2. Initial \subseteq Range(active') \cup stopped'
      BY <1>1, <1>2 DEF PoolInv, Listed
  <2>3. QED
      BY <1>1, <1>4, <2>1, <2>2 DEF PoolInv, Listed
<1>8. Closing'
    BY <1>1 DEF PoolInv, Closing
<1>9. QED
    BY <1>6, <1>7, <1>8 DEF PoolInv

LEMMA RemoveStep == ASSUME PoolInv, RemoveWorker PROVE PoolInv'
<1>1. scaler = "remove" /\ scaler' = "idle" /\ UNCHANGED <<pc, todo, shut>>
    BY DEF RemoveWorker, worker, closing
<1>2. CASE active = <<>>
  <2>1. UNCHANGED <<active, count, stopped>>
      BY <1>2 DEF RemoveWorker, pool
  <2>2. QED
      BY <1>1, <2>1 DEF PoolInv, PoolTyped, Decided, Listed, Closing, Interrupted
<1>3. CASE active # <<>>
  <2> DEFINE last == active[Len(active)]
  <2>1. /\ active' = SubSeq(active, 1, Len(active) - 1)
        /\ stopped' = stopped \cup {last} /\ count' = count - 1
      BY <1>3 DEF RemoveWorker
  <2>2. /\ active' \in Seq(Workers) /\ Len(active') = Len(active) - 1 /\ Distinct(active')
        /\ last \in Workers /\ Range(active) \subseteq Range(active') \cup {last}
      BY <1>3, <2>1, DropLast DEF PoolInv, PoolTyped
  <2> HIDE DEF last
  <2>3. count' \in MinWorkers .. MaxWorkers /\ ("scaling" \notin shut => Len(active') <= count')
    <3>1. count \in MinWorkers .. MaxWorkers /\ count > MinWorkers /\ Len(active) \in Nat
        BY <1>1 DEF PoolInv, PoolTyped, Decided
    <3>2. count' \in MinWorkers .. MaxWorkers
        BY <2>1, <3>1, Limits
    <3>3. ASSUME "scaling" \notin shut PROVE Len(active') <= count'
      <4>1. Len(active) <= count
          BY <3>3 DEF PoolInv, Listed
      <4>2. QED
          BY <2>1, <2>2, <3>1, <4>1, Limits
    <3>4. QED
        BY <3>2, <3>3
  <2>4. PoolTyped' /\ Decided'
      BY <1>1, <2>1, <2>2, <2>3 DEF PoolInv, PoolTyped, Decided
  <2>5. Listed' /\ Closing'
      BY <1>1, <2>1, <2>2, <2>3 DEF PoolInv, Listed, Closing, Interrupted
  <2>6. QED
      BY <2>4, <2>5 DEF PoolInv
<1>4. QED
    BY <1>2, <1>3

(***************************************************************************)
(* The shutdown.                                                           *)
(***************************************************************************)
Tasks == {"stopInitial", "close", "clear", "shutScaling"}

\* Two pairs of steps, one after the other.
LEMMA Pairs ==
    ASSUME NEW s \in Seq(Tasks), NEW t \in Seq(Tasks), Len(s) = 2, Len(t) = 2
    PROVE  /\ s \o t \in Seq(Tasks) /\ Len(s \o t) = 4
           /\ (s \o t)[1] = s[1] /\ (s \o t)[2] = s[2] /\ (s \o t)[3] = t[1] /\ (s \o t)[4] = t[2]
<1>1. /\ s \o t \in Seq(Tasks) /\ Len(s \o t) = Len(s) + Len(t)
      /\ \A i \in 1 .. Len(s) + Len(t) : (s \o t)[i] = IF i <= Len(s) THEN s[i] ELSE t[i - Len(s)]
    BY ConcatProperties
<1>2. QED
    BY <1>1

\* In both orders the list is cleared before the executor is shut down.
LEMMA Plans ==
    ASSUME NEW plan \in Shutdowns
    PROVE  /\ plan \in Seq(Tasks) /\ Len(plan) = 4
           /\ \/ plan[1] = "stopInitial" /\ plan[2] = "close" /\ plan[3] = "clear" /\ plan[4] = "shutScaling"
              \/ plan[1] = "clear" /\ plan[2] = "shutScaling" /\ plan[3] = "stopInitial" /\ plan[4] = "close"
<1> DEFINE s == ConfigDestroy
           t == ScalerDestroy
<1>1. s \in Seq(Tasks) /\ t \in Seq(Tasks)
    BY DEF ConfigDestroy, ScalerDestroy, Tasks
<1>2. Len(s) = 2 /\ s[1] = "stopInitial" /\ s[2] = "close"
    BY DEF ConfigDestroy
<1>3. Len(t) = 2 /\ t[1] = "clear" /\ t[2] = "shutScaling"
    BY DEF ScalerDestroy
<1> HIDE DEF s, t
<1>4. /\ s \o t \in Seq(Tasks) /\ Len(s \o t) = 4
      /\ (s \o t)[1] = s[1] /\ (s \o t)[2] = s[2] /\ (s \o t)[3] = t[1] /\ (s \o t)[4] = t[2]
    BY <1>1, <1>2, <1>3, Pairs
<1>5. /\ t \o s \in Seq(Tasks) /\ Len(t \o s) = 4
      /\ (t \o s)[1] = t[1] /\ (t \o s)[2] = t[2] /\ (t \o s)[3] = s[1] /\ (t \o s)[4] = s[2]
    BY <1>1, <1>2, <1>3, Pairs
<1>6. plan = s \o t \/ plan = t \o s
    BY DEF Shutdowns, s, t
<1>7. QED
    BY <1>2, <1>3, <1>4, <1>5, <1>6, Zenon

LEMMA FourPlaces == \A k \in 1 .. 4 : k = 1 \/ k = 2 \/ k = 3 \/ k = 4
OBVIOUS

\* Once the executor is shut down, the list has been cleared.
LEMMA ClearedFirst ==
    ASSUME NEW plan \in Shutdowns, NEW n \in 0 .. 4, NEW j \in 1 .. n, plan[j] = "shutScaling"
    PROVE  \E i \in 1 .. n : plan[i] = "clear"
<1>1. j \in 1 .. 4 /\ j <= n /\ n \in Nat
    OBVIOUS
<1>2. CASE plan[1] = "stopInitial" /\ plan[2] = "close" /\ plan[3] = "clear" /\ plan[4] = "shutScaling"
  <2>1. j = 4
      BY <1>1, <1>2, FourPlaces
  <2>2. 3 \in 1 .. n
      BY <1>1, <2>1
  <2>3. QED
      BY <1>2, <2>2
<1>3. CASE plan[1] = "clear" /\ plan[2] = "shutScaling" /\ plan[3] = "stopInitial" /\ plan[4] = "close"
  <2>1. 1 \in 1 .. n
      BY <1>1
  <2>2. QED
      BY <1>3, <2>1
<1>4. QED
    BY <1>2, <1>3, Plans

\* What is left of a plan of which n steps are done.
LEMMA Rest ==
    ASSUME NEW plan \in Shutdowns, NEW n \in 0 .. 4
    PROVE  /\ SubSeq(plan, n + 1, 4) \in Seq(Tasks) /\ Len(SubSeq(plan, n + 1, 4)) = 4 - n
           /\ \A i \in 1 .. (4 - n) : SubSeq(plan, n + 1, 4)[i] = plan[n + i]
<1>1. plan \in Seq(Tasks) /\ Len(plan) = 4
    BY Plans
<1>2. n + 1 \in Int /\ \A i \in n + 1 .. 4 : plan[i] \in Tasks
  <2>1. \A i \in 1 .. 4 : plan[i] \in Tasks
      BY <1>1, ElementOfSeq, Zenon
  <2>2. \A i \in n + 1 .. 4 : i \in 1 .. 4
      OBVIOUS
  <2>3. QED
      BY <2>1, <2>2
<1>3. /\ SubSeq(plan, n + 1, 4) \in Seq(Tasks)
      /\ Len(SubSeq(plan, n + 1, 4)) = IF n + 1 <= 4 THEN 4 - (n + 1) + 1 ELSE 0
      /\ \A i \in 1 .. 4 - (n + 1) + 1 : SubSeq(plan, n + 1, 4)[i] = plan[n + 1 + i - 1]
    BY <1>2, SubSeqProperties
<1>4. Len(SubSeq(plan, n + 1, 4)) = 4 - n
    BY <1>3
<1>5. \A i \in 1 .. (4 - n) : i \in 1 .. 4 - (n + 1) + 1 /\ n + 1 + i - 1 = n + i
    OBVIOUS
<1>6. QED
    BY <1>3, <1>4, <1>5

\* The next step of the shutdown is done.
LEMMA OneStepMore ==
    ASSUME NEW plan \in Shutdowns, NEW n \in 0 .. 4, todo = SubSeq(plan, n + 1, 4),
           NEW step, ShutStep(step)
    PROVE  n + 1 \in 1 .. 4 /\ plan[n + 1] = step /\ todo' = SubSeq(plan, n + 1 + 1, 4)
<1>1. plan \in Seq(Tasks) /\ Len(plan) = 4
    BY Plans
<1>2. /\ todo \in Seq(Tasks) /\ Len(todo) = 4 - n
      /\ \A i \in 1 .. (4 - n) : todo[i] = plan[n + i]
    BY Rest, Zenon
<1>3. todo # <<>> /\ Head(todo) = step /\ todo' = Tail(todo)
    BY DEF ShutStep
<1>4. n + 1 \in 1 .. 4 /\ n + 1 \in 0 .. 4 /\ 1 \in 1 .. (4 - n)
    BY <1>2, <1>3
<1>5. plan[n + 1] = step
    BY <1>2, <1>3, <1>4
<1> DEFINE m == n + 1
           rest == SubSeq(plan, m + 1, 4)
<1>6. /\ rest \in Seq(Tasks) /\ Len(rest) = 4 - m
      /\ \A i \in 1 .. (4 - m) : rest[i] = plan[m + i]
    BY <1>4, Rest, Zenon
<1>7. /\ Tail(todo) \in Seq(Tasks) /\ Len(Tail(todo)) = Len(todo) - 1
      /\ \A i \in 1 .. Len(Tail(todo)) : Tail(todo)[i] = todo[i + 1]
    BY <1>2, <1>3, HeadTailProperties
<1> HIDE DEF rest
<1>8. Len(Tail(todo)) = 4 - m
    BY <1>2, <1>7
<1>9. \A i \in 1 .. 4 - m : Tail(todo)[i] = rest[i]
  <2> SUFFICES ASSUME NEW i \in 1 .. 4 - m PROVE Tail(todo)[i] = rest[i]
      OBVIOUS
  <2>1. i + 1 \in 1 .. (4 - n) /\ n + (i + 1) = m + i
      BY <1>4
  <2>2. Tail(todo)[i] = todo[i + 1]
      BY <1>7, <1>8
  <2>3. todo[i + 1] = plan[n + (i + 1)]
      BY <1>2, <2>1
  <2> HIDE DEF m
  <2>4. QED
      BY <1>6, <2>1, <2>2, <2>3
<1>10. Tail(todo) = rest
    BY <1>6, <1>7, <1>8, <1>9, SeqEqual
<1>11. QED
    BY <1>3, <1>4, <1>5, <1>10 DEF rest

\* What a step owes, so that the shutdown stays on its plan.
LEMMA ClosingStep ==
    ASSUME PoolInv, NEW step, ShutStep(step),
           shut' \subseteq shut \cup (IF step = "shutScaling" THEN {"scaling"} ELSE {"initial"}),
           stopped \subseteq stopped', step = "clear" => Initial \subseteq stopped'
    PROVE  Closing'
<1>1. PICK plan \in Shutdowns, n \in 0 .. 4 :
        /\ todo = SubSeq(plan, n + 1, 4)
        /\ (\E i \in 1 .. n : plan[i] = "clear") => Initial \subseteq stopped
        /\ "scaling" \in shut => \E i \in 1 .. n : plan[i] = "shutScaling"
    BY DEF PoolInv, Closing
<1> DEFINE m == n + 1
<1>2. m \in 1 .. 4 /\ plan[m] = step /\ todo' = SubSeq(plan, m + 1, 4)
    BY <1>1, OneStepMore
<1>3. m = n + 1 /\ \A i \in 1 .. m : i \in 1 .. n \/ i = m
    OBVIOUS
<1> HIDE DEF m
<1>8. 1 .. n \subseteq 1 .. m /\ m \in 1 .. m
    BY <1>2, <1>3
<1>4. (\E i \in 1 .. m : plan[i] = "clear") => Initial \subseteq stopped'
    BY <1>1, <1>2, <1>3
<1>5. "scaling" \in shut' => \E i \in 1 .. m : plan[i] = "shutScaling"
    BY <1>1, <1>2, <1>8
<1>6. m \in 0 .. 4
    BY <1>2
<1>7. QED
    BY <1>2, <1>4, <1>5, <1>6 DEF Closing

LEMMA InitialStopped == ASSUME PoolInv, "scaling" \in shut PROVE Initial \subseteq stopped
<1>1. PICK plan \in Shutdowns, n \in 0 .. 4 :
        /\ (\E i \in 1 .. n : plan[i] = "clear") => Initial \subseteq stopped
        /\ \E i \in 1 .. n : plan[i] = "shutScaling"
    BY DEF PoolInv, Closing
<1>2. QED
    BY <1>1, ClearedFirst

LEMMA StopInitialStep == ASSUME PoolInv, StopInitial PROVE PoolInv'
<1>1. /\ stopped' = stopped \cup Initial /\ shut' = shut \cup {"initial"}
      /\ ShutStep("stopInitial") /\ UNCHANGED <<active, count, scaler, pc>>
    BY DEF StopInitial, worker
<1>2. PoolTyped' /\ Decided'
    BY <1>1, PoolAssumption DEF PoolInv, PoolTyped, Decided
<1>3. Listed'
    BY <1>1 DEF PoolInv, Listed, Interrupted
<1>4. Closing'
    BY <1>1, ClosingStep
<1>5. QED
    BY <1>2, <1>3, <1>4 DEF PoolInv

LEMMA CloseStep == ASSUME PoolInv, CloseConnection PROVE PoolInv'
<1>1. ShutStep("close") /\ UNCHANGED <<active, count, stopped, scaler, pc, shut>>
    BY DEF CloseConnection, pool, worker
<1>2. PoolTyped' /\ Decided' /\ Listed'
    BY <1>1 DEF PoolInv, PoolTyped, Decided, Listed, Interrupted
<1>3. Closing'
    BY <1>1, ClosingStep
<1>4. QED
    BY <1>2, <1>3 DEF PoolInv

LEMMA StopActiveStep == ASSUME PoolInv, StopActive PROVE PoolInv'
<1>1. /\ stopped' = stopped \cup Range(active) /\ active' = <<>>
      /\ ShutStep("clear") /\ UNCHANGED <<count, scaler, pc, shut>>
    BY DEF StopActive, worker
<1>2. Range(active) \subseteq Workers /\ Range(<<>>) = {} /\ Distinct(<<>>) /\ Len(<<>>) = 0
    BY DEF PoolInv, PoolTyped, Range, Distinct
<1>3. PoolTyped' /\ Decided'
    BY <1>1, <1>2 DEF PoolInv, PoolTyped, Decided
<1>4. Len(active') <= count'
    BY <1>1, <1>2, Limits DEF PoolInv, PoolTyped
<1>5. Listed' /\ Initial \subseteq stopped'
    BY <1>1, <1>2, <1>4 DEF PoolInv, Listed, Interrupted
<1>6. Closing'
    BY <1>1, <1>5, ClosingStep
<1>7. QED
    BY <1>3, <1>5, <1>6 DEF PoolInv

LEMMA ShutScalingStep == ASSUME PoolInv, ShutScaling PROVE PoolInv'
<1>1. /\ shut' = shut \cup {"scaling"} /\ ShutStep("shutScaling")
      /\ UNCHANGED <<active, count, stopped, scaler, pc>>
    BY DEF ShutScaling, pool, worker
<1>2. PoolTyped' /\ Decided'
    BY <1>1 DEF PoolInv, PoolTyped, Decided
<1>3. Listed'
    BY <1>1 DEF PoolInv, Listed, Interrupted
<1>4. Closing'
    BY <1>1, ClosingStep
<1>5. QED
    BY <1>2, <1>3, <1>4 DEF PoolInv

LEMMA RunStep ==
    ASSUME PoolInv, NEW w \in Workers, Run(w)
    PROVE  PoolInv'
<1>1. PICK to \in Places : pc[w] # "ended" /\ pc' = [pc EXCEPT ![w] = to]
    BY DEF Run, ReadConnection, Lock, Connect, Subscribe, Refused, StopListening, End, Goto, Places
<1>2. UNCHANGED <<active, count, stopped, scaler, todo, shut>>
    BY DEF Run, ReadConnection, Lock, Connect, Subscribe, Refused, StopListening, pool, closing
<1>3. QED
    BY <1>1, <1>2, RunKeepsPool

LEMMA PoolStep == ASSUME PoolInv, [Next]_vars PROVE PoolInv'
<1>1. CASE \E n \in DOMAIN link : LoseConnection(n) \/ Recover(n)
    BY <1>1, PoolUnchanged DEF LoseConnection, Recover, pool, worker, closing
<1>2. CASE UNCHANGED vars
    BY <1>2, PoolUnchanged DEF vars, pool, worker, closing
<1>3. QED
    BY <1>1, <1>2, RunStep, AddStep, DecideStep, RemoveStep, StopInitialStep, CloseStep,
       StopActiveStep, ShutScalingStep DEF Next, Destroy

(***************************************************************************)
(* The connection.                                                         *)
(***************************************************************************)
LEMMA ClosedFinite ==
    ASSUME LinkTyped
    PROVE  /\ Len(link) \in Nat /\ DOMAIN link = 1 .. Len(link)
           /\ IsFiniteSet(Closed) /\ Cardinality(Closed) \in Nat
<1>1. Len(link) \in Nat /\ DOMAIN link = 1 .. Len(link)
    BY DEF LinkTyped
<1>2. IsFiniteSet(1 .. Len(link)) /\ Closed \subseteq 1 .. Len(link)
    BY <1>1, FS_Interval DEF Closed
<1>3. QED
    BY <1>1, <1>2, FS_Subset, FS_CardinalityType

\* Steps that leave the connections alone: none begins to connect, except by
\* itself and when the connection is not open.
LEMMA LinkKept ==
    ASSUME LinkInv, UNCHANGED <<connection, link, losses>>,
           pc \in [Workers -> Places], pc' \in [Workers -> Places],
           found' \in [Workers -> 0 .. Len(link)],
           refusals' \in Nat, losses + refusals' <= MaxFaults,
           \A w \in Workers : pc'[w] = "connecting" =>
              pc[w] = "connecting" \/ (~Open(connection) /\ LockFree /\ \A v \in Workers : v # w => pc'[v] = pc[v])
    PROVE  LinkInv'
<1>1. LinkTyped'
    BY DEF LinkInv, LinkTyped
<1>2. Closed' = Closed /\ (Open(connection)' <=> Open(connection))
    BY DEF Closed, Open
<1>3. \A v, w \in Workers : pc'[v] = "connecting" /\ pc'[w] = "connecting" => v = w
    BY DEF LinkInv, Charged, LockFree
<1>4. (\E w \in Workers : pc'[w] = "connecting") =>
         ~Open(connection) \/ \E w \in Workers : pc[w] = "connecting"
    OBVIOUS
<1>5. Charged'
    BY <1>2, <1>3, <1>4 DEF LinkInv, Charged
<1>6. QED
    BY <1>1, <1>5 DEF LinkInv

LEMMA ConnectLink ==
    ASSUME LinkInv, pc \in [Workers -> Places], NEW w \in Workers, Connect(w)
    PROVE  LinkInv'
<1>1. /\ pc[w] = "connecting" /\ pc' = [pc EXCEPT ![w] = "channel"]
      /\ link' = Append(link, "open") /\ connection' = Len(link')
      /\ found' = [found EXCEPT ![w] = connection']
      /\ UNCHANGED <<losses, refusals>>
    BY DEF Connect, Goto
<1>2. /\ Len(link) \in Nat /\ DOMAIN link = 1 .. Len(link)
      /\ link' \in Seq({"open", "lost", "closed"}) /\ Len(link') = Len(link) + 1
      /\ DOMAIN link' = 1 .. Len(link) + 1
      /\ link'[Len(link) + 1] = "open" /\ \A n \in 1 .. Len(link) : link'[n] = link[n]
    BY <1>1 DEF LinkInv, LinkTyped
<1>3. LinkTyped'
    BY <1>1, <1>2 DEF LinkInv, LinkTyped
<1>4. Closed' = Closed
  <2>1. \A n : n \in 1 .. Len(link) + 1 <=> n \in 1 .. Len(link) \/ n = Len(link) + 1
      BY <1>2
  <2>2. QED
      BY <1>2, <2>1 DEF Closed
<1>5. \A v \in Workers : pc'[v] # "connecting"
    BY <1>1 DEF LinkInv, Charged
<1>6. Open(connection)'
  <2>1. connection' = Len(link) + 1 /\ connection' # 0
      BY <1>1, <1>2
  <2>2. QED
      BY <1>2, <2>1 DEF Open
<1>7. Len(link') <= 1 + losses' + Cardinality(Closed)
  <2>1. Len(link) <= losses + Cardinality(Closed)
      BY <1>1 DEF LinkInv, Charged
  <2>2. losses \in Nat /\ Cardinality(Closed) \in Nat
      BY ClosedFinite DEF LinkInv, LinkTyped
  <2>3. QED
      BY <1>1, <1>2, <2>1, <2>2
<1>8. Charged'
    BY <1>4, <1>5, <1>6, <1>7 DEF Charged
<1>9. QED
    BY <1>3, <1>8 DEF LinkInv

LEMMA RunLink ==
    ASSUME PoolInv, LinkInv, NEW w \in Workers, Run(w)
    PROVE  LinkInv'
<1> USE DEF PoolInv, PoolTyped
<1>1. CASE Connect(w)
    BY <1>1, ConnectLink
<1>2. ASSUME NEW to \in Places \ {"connecting"}, pc' = [pc EXCEPT ![w] = to],
             found' \in [Workers -> 0 .. Len(link)], UNCHANGED <<connection, link, losses>>,
             refusals' \in Nat, losses + refusals' <= MaxFaults
      PROVE  LinkInv'
  <2>1. \A v \in Workers : pc'[v] = "connecting" => pc[v] = "connecting"
      BY <1>2
  <2>2. pc' \in [Workers -> Places]
      BY <1>2
  <2>3. QED
      BY <1>2, <2>1, <2>2, LinkKept
<1>3. Len(link) \in Nat /\ connection \in 0 .. Len(link) /\ found \in [Workers -> 0 .. Len(link)]
      /\ losses \in Nat /\ refusals \in Nat /\ losses + refusals <= MaxFaults
    BY DEF LinkInv, LinkTyped
<1>4. CASE ReadConnection(w)
  <2>1. UNCHANGED <<connection, link, losses, refusals>>
      BY <1>4 DEF ReadConnection, broker
  <2>2. found' \in [Workers -> 0 .. Len(link)]
      BY <1>3, <1>4 DEF ReadConnection
  <2>3. \E to \in {"channel", "lock"} : pc' = [pc EXCEPT ![w] = to]
      BY <1>4 DEF ReadConnection, Goto
  <2>4. QED
      BY <1>2, <1>3, <2>1, <2>2, <2>3 DEF Places
<1>5. CASE Lock(w)
  <2>1. UNCHANGED <<connection, link, losses, refusals>>
      BY <1>5 DEF Lock, broker
  <2>2. CASE Open(connection) /\ pc' = [pc EXCEPT ![w] = "channel"] /\ found' = [found EXCEPT ![w] = connection]
      BY <1>2, <1>3, <2>1, <2>2 DEF Places
  <2>3. CASE ~Open(connection) /\ pc' = [pc EXCEPT ![w] = "connecting"] /\ found' = found
    <3>1. LockFree
        BY <1>5 DEF Lock
    <3>2. pc' \in [Workers -> Places] /\ \A v \in Workers : v # w => pc'[v] = pc[v]
        BY <2>3 DEF Places
    <3>3. \A x \in Workers : pc'[x] = "connecting" =>
            pc[x] = "connecting" \/ (~Open(connection) /\ LockFree /\ \A v \in Workers : v # x => pc'[v] = pc[v])
        BY <2>3, <3>1, <3>2
    <3>4. QED
        BY <1>3, <2>1, <2>3, <3>2, <3>3, LinkKept
  <2>4. QED
      BY <1>5, <2>2, <2>3 DEF Lock, Goto
<1>6. CASE Subscribe(w) \/ Refused(w) \/ StopListening(w)
  <2>1. UNCHANGED <<connection, link, losses>>
      BY <1>6 DEF Subscribe, Refused, StopListening, broker
  <2>2. found' \in [Workers -> 0 .. Len(link)]
    <3>1. 0 \in 0 .. Len(link)
        BY <1>3
    <3>2. found' = found \/ found' = [found EXCEPT ![w] = 0]
        BY <1>6 DEF Subscribe, Refused, StopListening, End
    <3>3. QED
        BY <1>3, <3>1, <3>2
  <2>3. \E to \in {"listening", "ended"} : pc' = [pc EXCEPT ![w] = to]
      BY <1>6 DEF Subscribe, Refused, StopListening, End, Goto
  <2>4. refusals' \in Nat /\ losses + refusals' <= MaxFaults
    <3>1. CASE refusals' = refusals
        BY <1>3, <3>1
    <3>2. CASE losses + refusals < MaxFaults /\ refusals' = refusals + 1
        BY <1>3, <3>2, PoolAssumption
    <3>3. QED
        BY <1>6, <3>1, <3>2 DEF Subscribe, Refused, StopListening, broker
  <2>5. QED
      BY <1>2, <2>1, <2>2, <2>3, <2>4 DEF Places
<1>7. QED
    BY <1>1, <1>4, <1>5, <1>6 DEF Run

LEMMA CloseLink == ASSUME LinkInv, CloseConnection PROVE LinkInv'
<1>1. /\ link' = [n \in DOMAIN link |-> IF n = connection /\ Open(n) THEN "closed" ELSE link[n]]
      /\ UNCHANGED <<connection, losses, refusals, pc, found>>
    BY DEF CloseConnection, worker
<1>2. /\ Len(link) \in Nat /\ DOMAIN link = 1 .. Len(link)
      /\ link \in [1 .. Len(link) -> {"open", "lost", "closed"}]
    BY DEF LinkInv, LinkTyped
<1>3. link' \in [1 .. Len(link) -> {"open", "lost", "closed"}]
    BY <1>1, <1>2
<1>4. link' \in Seq({"open", "lost", "closed"}) /\ Len(link') = Len(link) /\ DOMAIN link' = DOMAIN link
    BY <1>2, <1>3
<1>5. LinkTyped'
    BY <1>1, <1>4 DEF LinkInv, LinkTyped
<1>6. CASE Open(connection)
  <2>1. connection \in DOMAIN link /\ connection \notin Closed
      BY <1>2, <1>6 DEF Open, LinkInv, LinkTyped, Closed
  <2>2. Closed' = Closed \cup {connection}
      BY <1>1, <1>4, <1>6, <2>1 DEF Closed
  <2>3. IsFiniteSet(Closed) /\ Cardinality(Closed) \in Nat
      BY ClosedFinite DEF LinkInv
  <2>4. Cardinality(Closed') = Cardinality(Closed) + 1
      BY <2>1, <2>2, <2>3, FS_AddElement
  <2>5. Len(link') <= losses' + Cardinality(Closed')
      BY <1>1, <1>2, <1>4, <2>3, <2>4 DEF LinkInv, Charged, LinkTyped
  <2>6. Len(link') <= 1 + losses' + Cardinality(Closed')
      BY <1>1, <1>2, <1>4, <2>3, <2>4, <2>5 DEF LinkInv, LinkTyped
  <2>7. Charged'
      BY <1>1, <2>5, <2>6 DEF LinkInv, Charged
  <2>8. QED
      BY <1>5, <2>7 DEF LinkInv
<1>7. CASE ~Open(connection)
  <2>1. Closed' = Closed /\ ~Open(connection)'
      BY <1>1, <1>2, <1>4, <1>7 DEF Closed, Open, LinkInv, LinkTyped
  <2>2. Charged'
      BY <1>1, <1>4, <1>7, <2>1 DEF LinkInv, Charged
  <2>3. QED
      BY <1>5, <2>2 DEF LinkInv
<1>8. QED
    BY <1>6, <1>7

LEMMA LoseLink ==
    ASSUME LinkInv, NEW n \in DOMAIN link, LoseConnection(n)
    PROVE  LinkInv'
<1>1. /\ losses + refusals < MaxFaults /\ losses' = losses + 1
      /\ link[n] = "open" /\ link' = [link EXCEPT ![n] = "lost"]
      /\ UNCHANGED <<connection, refusals, pc, found>>
    BY DEF LoseConnection, worker
<1>2. Len(link) \in Nat /\ DOMAIN link = 1 .. Len(link)
      /\ losses \in Nat /\ refusals \in Nat
    BY DEF LinkInv, LinkTyped
<1>3. link' \in Seq({"open", "lost", "closed"}) /\ Len(link') = Len(link) /\ DOMAIN link' = DOMAIN link
    BY <1>1, <1>2 DEF LinkInv, LinkTyped
<1>4. losses' + refusals' <= MaxFaults
    BY <1>1, <1>2, PoolAssumption
<1>5. LinkTyped'
    BY <1>1, <1>2, <1>3, <1>4 DEF LinkInv, LinkTyped
<1>6. Closed' = Closed
    BY <1>1, <1>3 DEF Closed
<1>7. Cardinality(Closed) \in Nat /\ Len(link) <= 1 + losses + Cardinality(Closed)
    BY ClosedFinite DEF LinkInv, Charged
<1>8. Len(link') <= losses' + Cardinality(Closed') /\ Len(link') <= 1 + losses' + Cardinality(Closed')
  <2>1. Len(link) <= losses + 1 + Cardinality(Closed) /\ Len(link) <= 1 + (losses + 1) + Cardinality(Closed)
      BY <1>2, <1>7
  <2>2. QED
      BY <1>1, <1>3, <1>6, <2>1
<1>9. Charged'
    BY <1>1, <1>8 DEF LinkInv, Charged
<1>10. QED
    BY <1>5, <1>9 DEF LinkInv

LEMMA RecoverLink ==
    ASSUME LinkInv, NEW n \in DOMAIN link, Recover(n)
    PROVE  LinkInv'
<1>1. /\ link[n] = "lost" /\ link' = [link EXCEPT ![n] = "open"]
      /\ UNCHANGED <<connection, losses, refusals, pc, found>>
    BY DEF Recover, worker
<1>2. link' \in Seq({"open", "lost", "closed"}) /\ Len(link') = Len(link) /\ DOMAIN link' = DOMAIN link
    BY <1>1 DEF LinkInv, LinkTyped
<1>3. LinkTyped'
    BY <1>1, <1>2 DEF LinkInv, LinkTyped
<1>4. Closed' = Closed
    BY <1>1, <1>2 DEF Closed
<1>5. Open(connection) => Open(connection)'
    BY <1>1, <1>2 DEF Open, LinkInv, LinkTyped
<1>6. Charged'
    BY <1>1, <1>2, <1>4, <1>5 DEF LinkInv, Charged
<1>7. QED
    BY <1>3, <1>6 DEF LinkInv

LEMMA LinkStep == ASSUME PoolInv, PoolInv', LinkInv, [Next]_vars PROVE LinkInv'
<1>1. ASSUME UNCHANGED <<connection, link, losses, refusals, found>>,
             \A w \in Workers : pc'[w] = "connecting" => pc[w] = "connecting"
      PROVE  LinkInv'
    BY <1>1, LinkKept DEF PoolInv, PoolTyped, LinkInv, LinkTyped
<1>2. ASSUME NEW w \in Workers, AddWorker(w) PROVE LinkInv'
  <2>1. UNCHANGED <<connection, link, losses, refusals, found>>
      BY <1>2 DEF AddWorker, broker
  <2>2. \A v \in Workers : pc'[v] = "connecting" => pc[v] = "connecting"
      BY <1>2 DEF AddWorker, PoolInv, PoolTyped
  <2>3. QED
      BY <1>1, <2>1, <2>2
<1>3. CASE Decide \/ RemoveWorker \/ StopInitial \/ StopActive \/ ShutScaling \/ UNCHANGED vars
    BY <1>1, <1>3 DEF Decide, RemoveWorker, StopInitial, StopActive, ShutScaling, vars, worker, broker
<1>4. QED
    BY <1>2, <1>3, RunLink, CloseLink, LoseLink, RecoverLink DEF Next, Destroy

-----------------------------------------------------------------------------
LEMMA InitInv == Init => IInv
<1> SUFFICES ASSUME Init PROVE IInv
    OBVIOUS
<1>1. PICK order \in [1 .. MinWorkers -> Initial] : Range(order) = Initial /\ active = order
    BY DEF Init
<1>2. /\ active \in Seq(Workers) /\ Len(active) = MinWorkers /\ DOMAIN active = 1 .. MinWorkers
    BY <1>1, Limits, PoolAssumption
<1>3. Distinct(active)
  <2>1. IsFiniteSet(1 .. MinWorkers) /\ Cardinality(1 .. MinWorkers) = MinWorkers
      BY FS_Interval, Limits
  <2>2. IsFiniteSet(Initial) /\ Cardinality(Initial) = MinWorkers
      BY PoolAssumption, FS_Subset DEF MinWorkers
  <2>3. active \in Surjection(1 .. MinWorkers, Initial)
      BY <1>1, <1>2 DEF Range, Surjection
  <2>4. active \in Injection(1 .. MinWorkers, Initial)
      BY <2>1, <2>2, <2>3, FS_SurjSameCardinalityImpliesInj
  <2>5. QED
      BY <1>2, <2>4 DEF Injection, IsInjective, Distinct
<1>4. PoolTyped
  <2>1. count \in MinWorkers .. MaxWorkers
      BY Limits DEF Init
  <2>2. pc \in [Workers -> Places]
      BY DEF Init, Places
  <2>3. QED
      BY <1>2, <1>3, <2>1, <2>2 DEF Init, PoolTyped
<1>5. Decided /\ Listed /\ Closing
  <2>1. Len(active) <= count
      BY <1>2, Limits DEF Init
  <2>2. todo \in Shutdowns /\ todo = SubSeq(todo, 0 + 1, 4)
    <3>1. todo \in Shutdowns /\ todo \in Seq(Tasks) /\ Len(todo) = 4
        BY Plans DEF Init
    <3>2. /\ SubSeq(todo, 0 + 1, 4) \in Seq(Tasks) /\ Len(SubSeq(todo, 0 + 1, 4)) = 4
          /\ \A i \in 1 .. 4 : SubSeq(todo, 0 + 1, 4)[i] = todo[i]
      <4>1. /\ SubSeq(todo, 0 + 1, 4) \in Seq(Tasks) /\ Len(SubSeq(todo, 0 + 1, 4)) = 4 - 0
            /\ \A i \in 1 .. (4 - 0) : SubSeq(todo, 0 + 1, 4)[i] = todo[0 + i]
          BY <3>1, 0 \in 0 .. 4, Rest, Zenon
      <4>2. 4 - 0 = 4 /\ \A i \in 1 .. 4 : 0 + i = i
          OBVIOUS
      <4>3. QED
          BY <4>1, <4>2, Zenon
    <3>3. QED
        BY <3>1, <3>2, SeqEqual
  <2>3. Closing
      BY <2>2 DEF Init, Closing
  <2>4. QED
      BY <1>1, <2>1, <2>3 DEF Init, Decided, Listed
<1>6. LinkTyped
    BY PoolAssumption DEF Init, LinkTyped
<1>7. Charged
  <2>1. Closed = {}
      BY DEF Init, Closed
  <2>2. QED
      BY <2>1, FS_EmptySet DEF Init, Charged
<1>8. QED
    BY <1>4, <1>5, <1>6, <1>7 DEF IInv, PoolInv, LinkInv

LEMMA NextStep == IInv /\ [Next]_vars => IInv'
BY PoolStep, LinkStep DEF IInv

(***************************************************************************)
(* Workers that go on are on the list, the list is within the count, and   *)
(* connections are accounted for.                                          *)
(***************************************************************************)
THEOREM InductiveInvariant == Spec => []IInv
BY InitInv, NextStep, PTL DEF Spec

(***************************************************************************)
(* Types; workerCount keeps to minWorkers .. maxWorkers.                   *)
(***************************************************************************)
THEOREM TypeInvariant == Spec => []TypeOK
<1>1. IInv => TypeOK
  <2> SUFFICES ASSUME IInv PROVE TypeOK
      OBVIOUS
  <2>1. active \in Seq(Workers) /\ Cardinality(Range(active)) = Len(active)
      BY RangeCardinality DEF IInv, PoolInv, PoolTyped
  <2>2. connection \in 0 .. Len(link)
      BY DEF IInv, LinkInv, LinkTyped
  <2>3. \E order \in Shutdowns, n \in 0 .. 4 : todo = SubSeq(order, n + 1, 4)
      BY DEF IInv, PoolInv, Closing
  <2>4. QED
      BY <2>1, <2>2, <2>3 DEF IInv, PoolInv, PoolTyped, LinkInv, LinkTyped, Places, TypeOK
<1>2. QED
    BY <1>1, InductiveInvariant, PTL

(***************************************************************************)
(* No worker goes on unlisted, or beyond workerCount.                      *)
(***************************************************************************)
THEOREM NoneStray == Spec => []NoStrayWorker
<1>1. IInv => NoStrayWorker
  <2> SUFFICES ASSUME IInv PROVE NoStrayWorker
      OBVIOUS
  <2> DEFINE unstopped == {w \in Alive \ stopped : ~Interrupted(w)}
  <2>1. unstopped \subseteq Range(active)
      BY DEF IInv, PoolInv, Listed, Alive
  <2>2. IsFiniteSet(Range(active)) /\ Cardinality(Range(active)) = Len(active) /\ Len(active) \in Nat
      BY RangeCardinality DEF IInv, PoolInv, PoolTyped
  <2>3. Cardinality(unstopped) <= Len(active) /\ Cardinality(unstopped) \in Nat
      BY <2>1, <2>2, FS_Subset, FS_CardinalityType
  <2>4. "scaling" \in shut => unstopped = {}
      BY InitialStopped DEF IInv, Interrupted, Alive
  <2>5. count \in Nat
      BY Limits DEF IInv, PoolInv, PoolTyped
  <2>6. Cardinality(unstopped) <= count
    <3>1. CASE "scaling" \in shut
        BY <2>4, <2>5, <3>1, FS_EmptySet
    <3>2. CASE "scaling" \notin shut
      <4>1. Len(active) <= count
          BY <3>2 DEF IInv, PoolInv, Listed
      <4> HIDE DEF unstopped
      <4>2. QED
          BY <2>2, <2>3, <2>5, <4>1
    <3>3. QED
        BY <3>1, <3>2
  <2>7. QED
      BY <2>1, <2>6 DEF NoStrayWorker
<1>2. QED
    BY <1>1, InductiveInvariant, PTL

(***************************************************************************)
(* Connections are made one at a time, and another only after a loss or    *)
(* the close.                                                              *)
(***************************************************************************)
THEOREM OneConnection == Spec => []ConnectionShared
<1>1. IInv => ConnectionShared
    BY DEF IInv, LinkInv, Charged, Closed, ConnectionShared
<1>2. QED
    BY <1>1, InductiveInvariant, PTL
=============================================================================
