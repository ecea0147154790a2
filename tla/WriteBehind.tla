---------------------------- MODULE WriteBehind -----------------------------
(***************************************************************************)
(* The write-behind path of consumer-v3: BatchWriteBuffer, the pool of     *)
(* DatabaseWriter threads that drain it, DbCircuitBreaker, the two tables  *)
(* MessageRepository writes, and the shutdown in ConsumerConfig.destroy.   *)
(*                                                                         *)
(* A writer goes round                                                     *)
(*   loop -> poll -> drain -> writeBatchWithRetry -> loop                  *)
(* until the shutdown, then once through                                   *)
(*   flush -> writeBatchWithRetry -> done.                                 *)
(* writeBatchWithRetry starts at DbCircuitBreaker's "isOpen".              *)
(*                                                                         *)
(* The outcome of every JDBC call is the environment's choice.  The pool   *)
(* runs with autocommit, so a failed batch may leave any of its acceptable *)
(* rows committed.  The INSERT into messages refuses `Incomplete' messages *)
(* (a NOT NULL column is null) and `Oversized' ones (a VARCHAR is too      *)
(* short); messages_dlq has nullable columns of the same widths.           *)
(***************************************************************************)
EXTENDS DbCircuitBreaker, Sequences, FiniteSets

CONSTANTS Messages,    \* the ChatMessage objects handed to the buffer
          Incomplete,  \* those with a null in a NOT NULL column of messages
          Oversized,   \* those with a value wider than its column
          Capacity,    \* chat.db.bufferCapacity
          BatchSize,   \* chat.db.batchSize
          MaxRetries   \* chat.db.maxRetries

ASSUME WriteBehindAssumption ==
    /\ Incomplete \subseteq Messages
    /\ Oversized \subseteq Messages
    /\ Capacity \in Nat \ {0}
    /\ BatchSize \in Nat \ {0}
    /\ MaxRetries \in Nat

VARIABLES queue,     \* LinkedBlockingQueue of BatchWriteBuffer, head first
          offered,   \* messages for which offer was called
          dropped,   \* messages counted by droppedCount
          batch,     \* [Writers -> messages the writer holds]
          attempt,   \* [Writers -> retries already made for that batch]
          final,     \* [Writers -> the batch is the one flushed at shutdown]
          shutdown,  \* "up", "stopped" (running = false), "interrupted"
          messages,  \* rows of table messages
          dlq,       \* rows of table messages_dlq
          logged,    \* message ids printed on stderr
          late       \* history: messages offered after the shutdown began

buffer == <<queue, offered, dropped, late>>
tables == <<messages, dlq, logged>>
vars == <<breakerVars, buffer, batch, attempt, final, shutdown, tables>>

Queued == {queue[i] : i \in DOMAIN queue}
Held == UNION {batch[w] : w \in Writers}

WriterLabels ==
    BreakerLabels \cup {"loop", "poll", "drain", "flush", "bury", "done"}

(***************************************************************************)
(* BatchWriteBuffer.offer, called by the delivery callbacks.  They run on  *)
(* the RabbitMQ dispatch threads, which the shutdown does not wait for.    *)
(***************************************************************************)
\* Fault: a full queue takes one more.
EnqueueOneMore(m) ==
    /\ Len(queue) <= Capacity
    /\ queue' = Append(queue, m)
    /\ UNCHANGED dropped

Enqueue(m) ==
    /\ Len(queue) < Capacity
    /\ queue' = Append(queue, m)
    /\ UNCHANGED dropped

Drop(m) ==
    /\ Len(queue) = Capacity
    /\ dropped' = dropped \cup {m}
    /\ UNCHANGED queue

Offer(m) ==
    /\ m \notin offered
    /\ offered' = offered \cup {m}
    /\ late' = IF shutdown = "up" THEN late ELSE late \cup {m}
    /\ Enqueue(m) \/ Drop(m)
    /\ UNCHANGED <<breakerVars, batch, attempt, final, shutdown, tables>>

(***************************************************************************)
(* DatabaseWriter.run                                                      *)
(***************************************************************************)
\* Fault: only the interrupt ends the loop, the running flag is not read.
LoopUntilInterrupted(w) ==
    /\ Goto(w, "loop", IF shutdown # "interrupted" THEN "poll" ELSE "flush")
    /\ UNCHANGED <<breaker, buffer, batch, attempt, final, shutdown, tables>>

Loop(w) ==
    /\ Goto(w, "loop", IF shutdown = "up" THEN "poll" ELSE "flush")
    /\ UNCHANGED <<breaker, buffer, batch, attempt, final, shutdown, tables>>

\* queue.poll(flushIntervalMs): an interrupted thread gets InterruptedException
\* even when the queue has elements; otherwise the wait ends with the head of
\* the queue or, if the queue is empty, with a timeout.
PollInterrupted(w) ==
    /\ shutdown = "interrupted"
    /\ Goto(w, "poll", "flush")
    /\ UNCHANGED <<queue, batch>>

PollHead(w) ==
    /\ shutdown # "interrupted"
    /\ queue # <<>>
    /\ Goto(w, "poll", "drain")
    /\ batch' = [batch EXCEPT ![w] = {Head(queue)}]
    /\ queue' = Tail(queue)

PollTimeout(w) ==
    /\ shutdown # "interrupted"
    /\ queue = <<>>
    /\ Goto(w, "poll", "loop")
    /\ UNCHANGED <<queue, batch>>

Poll(w) ==
    /\ PollInterrupted(w) \/ PollHead(w) \/ PollTimeout(w)
    /\ UNCHANGED <<breaker, offered, dropped, late, attempt, final, shutdown, tables>>

\* queue.drainTo moves the first n messages into the writer's batch.
DrainTo(w, n) ==
    /\ batch' = [batch EXCEPT ![w] = @ \cup {queue[i] : i \in 1 .. n}]
    /\ queue' = SubSeq(queue, n + 1, Len(queue))
    /\ attempt' = [attempt EXCEPT ![w] = 0]
    /\ UNCHANGED <<offered, dropped, late>>

AtMost(n) == IF Len(queue) < n THEN Len(queue) ELSE n

Drain(w) ==
    /\ Goto(w, "drain", "isOpen")
    /\ DrainTo(w, AtMost(BatchSize - 1))
    /\ UNCHANGED <<breaker, final, shutdown, tables>>

\* Fault: the last drain waits for a first message too, so an interrupted
\* writer gets an exception instead of the rest of the queue.
FlushWithPoll(w) ==
    /\ Goto(w, "flush", IF queue = <<>> \/ shutdown = "interrupted" THEN "done" ELSE "isOpen")
    /\ DrainTo(w, IF shutdown = "interrupted" THEN 0 ELSE Len(queue))
    /\ final' = [final EXCEPT ![w] = TRUE]
    /\ UNCHANGED <<breaker, shutdown, tables>>

Flush(w) ==
    /\ Goto(w, "flush", IF queue = <<>> THEN "done" ELSE "isOpen")
    /\ DrainTo(w, Len(queue))
    /\ final' = [final EXCEPT ![w] = TRUE]
    /\ UNCHANGED <<breaker, shutdown, tables>>

(***************************************************************************)
(* MessageRepository.batchSave.  ON CONFLICT (message_id) DO NOTHING makes *)
(* the table a set: rows an earlier attempt left are not inserted again.   *)
(***************************************************************************)
Refused == Incomplete \cup Oversized

SaveOk(w) ==
    /\ batch[w] \cap Refused = {}
    /\ Goto(w, "save", "onSuccess")
    /\ messages' = messages \cup batch[w]

\* Fault: a batch that failed half way counts as saved.
SaveThrowsSwallowed(w) ==
    /\ Goto(w, "save", "onSuccess")
    /\ \E S \in SUBSET (batch[w] \ Refused) : messages' = messages \cup S

SaveThrows(w) ==
    /\ Goto(w, "save", "onFailure")
    /\ \E S \in SUBSET (batch[w] \ Refused) : messages' = messages \cup S

Save(w) ==
    /\ SaveOk(w) \/ SaveThrows(w)
    /\ UNCHANGED <<breaker, buffer, batch, attempt, final, shutdown, dlq, logged>>

(***************************************************************************)
(* The rest of DatabaseWriter.writeBatchWithRetry                          *)
(***************************************************************************)
BreakerCall(w) ==
    /\ BreakerStep(w)
    /\ UNCHANGED <<buffer, batch, attempt, final, shutdown, tables>>

\* Fault: the retries are not counted.
RetryUncounted(w) ==
    /\ attempt[w] < MaxRetries
    /\ shutdown # "interrupted"
    /\ Goto(w, "failed", "save")
    /\ UNCHANGED attempt

\* Before every further attempt the writer sleeps; an interrupted sleep, and a
\* batch that has used its attempts or met an open circuit, end in the DLQ.
Retry(w) ==
    /\ attempt[w] < MaxRetries
    /\ shutdown # "interrupted"
    /\ Goto(w, "failed", "save")
    /\ attempt' = [attempt EXCEPT ![w] = @ + 1]

GiveUpOn(w) ==
    /\ attempt[w] = MaxRetries \/ shutdown = "interrupted"
    /\ Goto(w, "failed", "bury")
    /\ UNCHANGED attempt

Refusal(w) == Goto(w, "refused", "bury") /\ UNCHANGED attempt

Decide(w) ==
    /\ Retry(w) \/ GiveUpOn(w) \/ Refusal(w)
    /\ UNCHANGED <<breaker, buffer, batch, final, shutdown, tables>>

\* Fault: a failing saveToDlq is ignored.
BuryQuietly(w) ==
    /\ pc[w] = "bury"
    /\ \E m \in batch[w] :
         /\ batch' = [batch EXCEPT ![w] = @ \ {m}]
         /\ dlq' = dlq \cup {m} \/ UNCHANGED dlq
    /\ UNCHANGED <<breakerVars, buffer, attempt, final, shutdown, messages, logged>>

\* sendToDlq, one message at a time; a failing saveToDlq leaves the message id
\* on stderr.  A failure is always possible, a success only without Oversized.
Bury(w) ==
    /\ pc[w] = "bury"
    /\ \E m \in batch[w] :
         /\ batch' = [batch EXCEPT ![w] = @ \ {m}]
         /\ \/ m \notin Oversized /\ dlq' = dlq \cup {m} /\ UNCHANGED logged
            \/ logged' = logged \cup {m} /\ UNCHANGED dlq
    /\ UNCHANGED <<breakerVars, buffer, attempt, final, shutdown, messages>>

\* writeBatchWithRetry returns: after a success, or with the batch buried.
Return(w) ==
    /\ \/ pc[w] = "succeeded"
       \/ pc[w] = "bury" /\ batch[w] = {}
    /\ Goto(w, pc[w], IF final[w] THEN "done" ELSE "loop")
    /\ batch' = [batch EXCEPT ![w] = {}]
    /\ UNCHANGED <<breaker, buffer, attempt, final, shutdown, tables>>

WriterStep(w) ==
    \/ Loop(w) \/ Poll(w) \/ Drain(w) \/ Flush(w)
    \/ BreakerCall(w) \/ Save(w) \/ Decide(w) \/ Bury(w) \/ Return(w)

(***************************************************************************)
(* ConsumerConfig.destroy: stop every writer, then interrupt the pool.     *)
(***************************************************************************)
Stop ==
    /\ \/ shutdown = "up" /\ shutdown' = "stopped"
       \/ shutdown = "stopped" /\ shutdown' = "interrupted"
    /\ UNCHANGED <<breakerVars, buffer, batch, attempt, final, tables>>

Tick == Cooldown /\ UNCHANGED <<buffer, batch, attempt, final, shutdown, tables>>

Init ==
    /\ pc = [w \in Writers |-> "loop"]
    /\ state = "CLOSED" /\ failures = 0 /\ cooled = TRUE
    /\ queue = <<>> /\ offered = {} /\ dropped = {} /\ late = {}
    /\ batch = [w \in Writers |-> {}]
    /\ attempt = [w \in Writers |-> 0]
    /\ final = [w \in Writers |-> FALSE]
    /\ shutdown = "up"
    /\ messages = {} /\ dlq = {} /\ logged = {}

Next ==
    \/ \E m \in Messages : Offer(m)
    \/ \E w \in Writers : WriterStep(w)
    \/ Stop
    \/ Tick

\* The threads of the writer pool are scheduled, JDBC calls return, polls and
\* sleeps end.  Nothing obliges a message to arrive or the process to stop.
Fairness == \A w \in Writers : WF_vars(WriterStep(w))

Spec == Init /\ [][Next]_vars /\ Fairness

-----------------------------------------------------------------------------
TypeOK ==
    /\ pc \in [Writers -> WriterLabels]
    /\ state \in {"CLOSED", "OPEN", "HALF_OPEN"}
    /\ failures \in Nat
    /\ cooled \in BOOLEAN
    /\ queue \in Seq(Messages)
    /\ Len(queue) <= Capacity
    /\ offered \subseteq Messages /\ dropped \subseteq Messages /\ late \subseteq Messages
    /\ batch \in [Writers -> SUBSET Messages]
    /\ attempt \in [Writers -> 0 .. MaxRetries]
    /\ final \in [Writers -> BOOLEAN]
    /\ shutdown \in {"up", "stopped", "interrupted"}
    /\ messages \subseteq Messages /\ dlq \subseteq Messages /\ logged \subseteq Messages

Settled == messages \cup dlq \cup logged

(***************************************************************************)
(* No message offered to the buffer vanishes: it was counted as dropped,   *)
(* or waits in the queue, or is in the hands of a writer, or has left a    *)
(* trace in messages, in messages_dlq or on stderr -- at every point of    *)
(* polls, partly committed batches, retries, an opening circuit, a failing *)
(* DLQ and a shutdown (DatabaseWriter.java:118 "not silently lost").       *)
(***************************************************************************)
NoSilentLoss == offered \subseteq dropped \cup Queued \cup Held \cup Settled

(***************************************************************************)
(* A writer that has returned from run leaves nothing behind in the buffer *)
(* that was there when the shutdown began: whatever remains was offered    *)
(* after it, although the writers empty the queue at different times.      *)
(***************************************************************************)
FlushedOnShutdown == (\E w \in Writers : pc[w] = "done") => Queued \subseteq late

(***************************************************************************)
(* Every accepted message gets out of memory -- into a table or onto       *)
(* stderr -- whatever the database does, unless it was offered after the   *)
(* shutdown began.                                                         *)
(***************************************************************************)
AcceptedSettles ==
    \A m \in Messages : m \in Queued \cup Held ~> m \in Settled \cup late

(***************************************************************************)
(* After the shutdown every writer thread returns: no circuit state, retry *)
(* loop or dead database keeps the pool alive.                             *)
(***************************************************************************)
WritersStop == shutdown # "up" ~> \A w \in Writers : pc[w] = "done"

(***************************************************************************)
(* The writers implement the promise of WriteBehindSink: a message leaves  *)
(* the queue and the batches only into the table it is then found in.      *)
(***************************************************************************)
Sink == INSTANCE WriteBehindSink
            WITH refused <- dropped, pending <- Queued \cup Held,
                 stored <- messages, dead <- dlq

ImplementsSink == Sink!SinkSpec

(***************************************************************************)
(* ConsumerConfig.java:170 and 174 -- "Stop consumer workers first (stop   *)
(* enqueuing)", "Stop DB writers (they flush remaining buffer on           *)
(* shutdown)": when every writer has returned the buffer is empty.         *)
(***************************************************************************)
BufferEmptyAfterShutdown == (\A w \in Writers : pc[w] = "done") => queue = <<>>
=============================================================================
