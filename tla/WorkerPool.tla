------------------------------ MODULE WorkerPool ------------------------------
(***************************************************************************)
(* The pool of ConsumerWorkers of one consumer instance: ConsumerScaler    *)
(* adds and removes workers with the depth of the queues, the workers      *)
(* share the connection of ConsumerChannelManager, and at the end of the   *)
(* process the shutdown thread destroys ConsumerConfig and ConsumerScaler, *)
(* in either order, while a call of scale() may be under way.              *)
(*                                                                         *)
(* External: RabbitMQ and its client.  A connection that is lost is not    *)
(* open until the client has recovered it.                                 *)
(***************************************************************************)
EXTENDS Integers, Sequences, FiniteSets, Functions

CONSTANTS Workers,      \* worker objects; an ended one stands for a new one
          Initial,      \* those ConsumerConfig starts, minWorkers in number
          MaxWorkers,   \* chat.consumer.maxWorkers
          MaxFaults     \* bound on lost connections and refused calls

MinWorkers == Cardinality(Initial)

ASSUME PoolAssumption ==
    /\ IsFiniteSet(Workers) /\ Initial \subseteq Workers
    /\ MaxWorkers \in Nat /\ MaxWorkers >= MinWorkers
    /\ MaxFaults \in Nat

VARIABLES active,      \* activeWorkers
          count,       \* workerCount
          scaler,      \* what scale() has decided to do
          stopped,     \* workers whose running flag is false
          pc,          \* [Workers -> the next step of run()]
          found,       \* [Workers -> the connection got, 0 before]
          connection,  \* the field of ConsumerChannelManager, 0 for null
          link,        \* <<state of the first connection made, ...>>
          losses, refusals,  \* faults so far
          todo,        \* what the shutdown thread has yet to do
          shut         \* executors that were shut down

pool == <<active, count, stopped>>
worker == <<pc, found>>
broker == <<connection, link, losses, refusals>>
closing == <<todo, shut>>
vars == <<pool, scaler, worker, broker, closing>>

ConfigDestroy == <<"stopInitial", "close">>
ScalerDestroy == <<"clear", "shutScaling">>
Shutdowns == {ConfigDestroy \o ScalerDestroy, ScalerDestroy \o ConfigDestroy}
ShuttingDown == Len(todo) < Len(ConfigDestroy) + Len(ScalerDestroy)

Open(n) == n # 0 /\ link[n] = "open"

\* shutdownNow interrupts the workers of its executor, and rejects later ones.
Interrupted(w) == (IF w \in Initial THEN "initial" ELSE "scaling") \in shut

-----------------------------------------------------------------------------
(***************************************************************************)
(* ConsumerWorker.run                                                      *)
(***************************************************************************)
Goto(w, from, to) == pc[w] = from /\ pc' = [pc EXCEPT ![w] = to]

\* getOrCreateConnection without the lock.
ReadConnection(w) ==
    /\ Goto(w, "start", IF Open(connection) THEN "channel" ELSE "lock")
    /\ found' = [found EXCEPT ![w] = IF Open(connection) THEN connection ELSE 0]
    /\ UNCHANGED <<pool, scaler, broker, closing>>

LockFree == \A w \in Workers : pc[w] # "connecting"

\* Fault: the connection is not read again under the lock.
LockOnly(w) ==
    /\ LockFree
    /\ Goto(w, "lock", "connecting")
    /\ UNCHANGED <<pool, scaler, found, broker, closing>>

\* synchronized: reads the connection again, keeps the lock to connect.
Lock(w) ==
    /\ LockFree
    /\ \/ /\ Open(connection)
          /\ Goto(w, "lock", "channel")
          /\ found' = [found EXCEPT ![w] = connection]
       \/ /\ ~Open(connection)
          /\ Goto(w, "lock", "connecting")
          /\ UNCHANGED found
    /\ UNCHANGED <<pool, scaler, broker, closing>>

\* factory.newConnection
Connect(w) ==
    /\ Goto(w, "connecting", "channel")
    /\ link' = Append(link, "open")
    /\ connection' = Len(link')
    /\ found' = [found EXCEPT ![w] = connection']
    /\ UNCHANGED <<pool, scaler, losses, refusals, closing>>

\* An exception ends the worker, and nobody starts another.
End(w, from) == Goto(w, from, "ended") /\ found' = [found EXCEPT ![w] = 0]

\* createChannel, basicQos, registerConsumers
Subscribe(w) ==
    /\ \/ Open(found[w]) /\ Goto(w, "channel", "listening") /\ UNCHANGED found
       \/ ~Open(found[w]) /\ End(w, "channel")
    /\ UNCHANGED <<pool, scaler, broker, closing>>

Refused(w) ==
    /\ losses + refusals < MaxFaults /\ refusals' = refusals + 1
    /\ End(w, "connecting") \/ End(w, "channel")
    /\ UNCHANGED <<pool, scaler, connection, link, losses, closing>>

StopListening(w) ==
    /\ w \in stopped \/ Interrupted(w)
    /\ End(w, "listening")
    /\ UNCHANGED <<pool, scaler, broker, closing>>

Run(w) == ReadConnection(w) \/ Lock(w) \/ Connect(w) \/ Subscribe(w) \/ Refused(w)
            \/ StopListening(w)

-----------------------------------------------------------------------------
(***************************************************************************)
(* ConsumerScaler.scale, on one thread.  The depth is any number, so the   *)
(* decision depends on workerCount alone.                                  *)
(***************************************************************************)
\* Fault: one worker more than maxWorkers.
DecideAtMost ==
    /\ scaler = "idle"
    /\ \/ count <= MaxWorkers /\ scaler' = "add"
       \/ count > MinWorkers /\ scaler' = "remove"
    /\ UNCHANGED <<pool, worker, broker, closing>>

Decide ==
    /\ scaler = "idle"
    /\ \/ count < MaxWorkers /\ scaler' = "add"
       \/ count > MinWorkers /\ scaler' = "remove"
    /\ UNCHANGED <<pool, worker, broker, closing>>

\* addWorker: after shutdownNow submit throws and the count stays.
AddWorker(w) ==
    /\ scaler = "add" /\ scaler' = "idle"
    /\ w \notin Initial \cup Range(active) /\ pc[w] = "ended"
    /\ active' = Append(active, w) /\ stopped' = stopped \ {w}
    /\ IF "scaling" \in shut
       THEN UNCHANGED <<count, pc>>
       ELSE count' = count + 1 /\ pc' = [pc EXCEPT ![w] = "start"]
    /\ UNCHANGED <<found, broker, closing>>

\* Fault: the worker is taken off the list but not told to stop.
RemoveSilently ==
    /\ scaler = "remove" /\ scaler' = "idle"
    /\ IF active = <<>>
       THEN UNCHANGED pool
       ELSE /\ active' = SubSeq(active, 1, Len(active) - 1)
            /\ count' = count - 1 /\ UNCHANGED stopped
    /\ UNCHANGED <<worker, broker, closing>>

RemoveWorker ==
    /\ scaler = "remove" /\ scaler' = "idle"
    /\ IF active = <<>>
       THEN UNCHANGED pool
       ELSE /\ active' = SubSeq(active, 1, Len(active) - 1)
            /\ stopped' = stopped \cup {active[Len(active)]}
            /\ count' = count - 1
    /\ UNCHANGED <<worker, broker, closing>>

-----------------------------------------------------------------------------
(***************************************************************************)
(* The shutdown thread                                                     *)
(***************************************************************************)
ShutStep(step) == todo # <<>> /\ Head(todo) = step /\ todo' = Tail(todo)

\* The flags and the interrupts make the same workers end: one step.
StopInitial ==
    /\ ShutStep("stopInitial")
    /\ stopped' = stopped \cup Initial
    /\ shut' = shut \cup {"initial"}
    /\ UNCHANGED <<active, count, scaler, worker, broker>>

\* ConsumerChannelManager.close
CloseConnection ==
    /\ ShutStep("close")
    /\ link' = [n \in DOMAIN link |-> IF n = connection /\ Open(n) THEN "closed" ELSE link[n]]
    /\ UNCHANGED <<pool, scaler, worker, connection, losses, refusals, shut>>

\* ConsumerScaler.destroy, under its lock.
StopActive ==
    /\ ShutStep("clear")
    /\ stopped' = stopped \cup Range(active)
    /\ active' = <<>>
    /\ UNCHANGED <<count, scaler, worker, broker, shut>>

\* Fault: the workers are told to stop, their executor is left as it is.
LeaveScalingOpen ==
    /\ ShutStep("shutScaling")
    /\ UNCHANGED <<pool, scaler, worker, broker, shut>>

ShutScaling ==
    /\ ShutStep("shutScaling")
    /\ shut' = shut \cup {"scaling"}
    /\ UNCHANGED <<pool, scaler, worker, broker>>

Destroy == StopInitial \/ CloseConnection \/ StopActive \/ ShutScaling

-----------------------------------------------------------------------------
LoseConnection(n) ==
    /\ losses + refusals < MaxFaults /\ losses' = losses + 1
    /\ link[n] = "open" /\ link' = [link EXCEPT ![n] = "lost"]
    /\ UNCHANGED <<pool, scaler, worker, connection, refusals, closing>>

Recover(n) ==
    /\ link[n] = "lost" /\ link' = [link EXCEPT ![n] = "open"]
    /\ UNCHANGED <<pool, scaler, worker, connection, losses, refusals, closing>>

Init ==
    /\ \E order \in [1 .. MinWorkers -> Initial] : Range(order) = Initial /\ active = order
    /\ count = MinWorkers /\ scaler = "idle" /\ stopped = {}
    /\ pc = [w \in Workers |-> IF w \in Initial THEN "start" ELSE "ended"]
    /\ found = [w \in Workers |-> 0]
    /\ connection = 0 /\ link = <<>> /\ losses = 0 /\ refusals = 0
    /\ todo \in Shutdowns /\ shut = {}

Next ==
    \/ \E w \in Workers : Run(w) \/ AddWorker(w)
    \/ Decide \/ RemoveWorker \/ Destroy
    \/ \E n \in DOMAIN link : LoseConnection(n) \/ Recover(n)

\* Worker threads run, and a shutdown that has begun goes on.
Fairness ==
    /\ \A w \in Workers : WF_vars(Run(w))
    /\ WF_vars(ShuttingDown /\ Destroy)

Spec == Init /\ [][Next]_vars /\ Fairness

-----------------------------------------------------------------------------
Alive == {w \in Workers : pc[w] # "ended"}

TypeOK ==
    /\ active \in Seq(Workers) /\ Cardinality(Range(active)) = Len(active)
    /\ count \in MinWorkers .. MaxWorkers
    /\ scaler \in {"idle", "add", "remove"}
    /\ stopped \subseteq Workers
    /\ pc \in [Workers -> {"start", "lock", "connecting", "channel", "listening", "ended"}]
    /\ link \in Seq({"open", "lost", "closed"})
    /\ connection \in 0 .. Len(link) /\ found \in [Workers -> 0 .. Len(link)]
    /\ losses \in Nat /\ refusals \in Nat /\ losses + refusals <= MaxFaults
    /\ \E order \in Shutdowns, n \in 0 .. 4 : todo = SubSeq(order, n + 1, 4)
    /\ shut \subseteq {"initial", "scaling"}

(***************************************************************************)
(* No worker is forgotten: one that is neither told to stop nor            *)
(* interrupted is on the list that the next removal or the shutdown will   *)
(* stop, and there are no more of them than workerCount says -- whatever   *)
(* additions and removals overlap the shutdown.                            *)
(***************************************************************************)
NoStrayWorker ==
    LET unstopped == {w \in Alive \ stopped : ~Interrupted(w)}
    IN unstopped \subseteq Range(active) /\ Cardinality(unstopped) <= count

(***************************************************************************)
(* The workers share one connection: another is made only after a loss or  *)
(* after the close of the shutdown, although many workers find none at the *)
(* same time (getOrCreateConnection).                                      *)
(***************************************************************************)
ConnectionShared ==
    Len(link) <= 1 + losses + Cardinality({n \in DOMAIN link : link[n] = "closed"})

(***************************************************************************)
(* After the shutdown every worker ends, even one that scale() adds while  *)
(* it goes on, and no other starts.                                        *)
(***************************************************************************)
AllStop == <>[](ShuttingDown => Alive = {})
=============================================================================
