# ChatFlow: models, checks and proofs

TLA+ models of the chat system in this repository: `server-v2` (Java, takes
messages from WebSocket clients and publishes them to RabbitMQ) and
`consumer-v3` (Java, takes them from RabbitMQ, deduplicates them, writes them to
PostgreSQL behind a buffer and broadcasts them to WebSocket sessions). All paths
below are relative to
`server-v2/src/main/java/org/example/chatflow/v2/` or
`consumer-v3/src/main/java/org/example/chatflow/consumer/`. Beside the chat system
the repository holds a load test's report, a set of pages whose scripts are under
`jmeter/optimized-report/content/js/`; they share nothing with the servers and have
models of their own.

`PROJECT.json` says which lines of the code each definition stands for.

## 1. The system

```
 client --ws--> ChatWebSocketHandlerV2 --> QueuePublisher --> ChannelPool ==> RabbitMQ (room.1 .. room.20)
                                                                                  ||
      ConsumerScaler starts and stops                                             \/
                    ConsumerWorker: delivery callback, one at a time per channel
                      |  1. MessageDeduplicator (memory, or Redis for all instances)
                      |  2. BatchWriteBuffer.offer ----> DatabaseWriter x n --> MessageRepository
                      |  3. CacheService.onNewMessage        DbCircuitBreaker     messages / messages_dlq
                      |  4. RoomFanoutPublisher.publish --> [Redis pub/sub -->] RoomManager --ws--> client
                      |  5. basicAck / basicNack
```

| Part | State | Operations | What is hard |
|---|---|---|---|
| Chat session (`websocket/ChatWebSocketHandlerV2`) | NOT_JOINED, JOINED, LEFT per session | connect, text, close | the state moves before a publish that may fail |
| Queue publisher (`queue/QueuePublisher`) | circuit state, failure count, opening time: three atomics, no lock | `publish` with `guardCircuit`, `onPublishSuccess`, `onPublishFailure` | interleaving of many request threads; a confirm that is late; a call that ends without a report |
| Channel pool (`queue/ChannelPool`) | a blocking queue of channels | borrow, return | closed channels in circulation |
| Consumer worker (`queue/ConsumerWorker`) | none of its own; a delivery at a time | the delivery callback | redelivery, stale acks, a crash between two steps, a callback that outlives its channel |
| Deduplication (`dedup/*`) | claimed message ids, in memory or in Redis | `tryClaimFirstProcess` | a claim is not undone when processing fails; Redis may not answer |
| Write buffer (`database/BatchWriteBuffer`) | bounded queue, drop counter | offer, drain | full buffer |
| Database writers (`database/DatabaseWriter`) | a batch per thread, `running` | `run`, `writeBatchWithRetry`, `sendToDlq`, `stop` | partial commits, retries, interrupts at any point, the flush at shutdown |
| Database circuit (`database/DbCircuitBreaker`) | state, failures, opening time: three atomics, no lock | `isOpen`, `onSuccess`, `onFailure` | interleaving of the writers; ignored compare-and-set results |
| Tables (`database/MessageRepository`, `database/schema.sql`) | `messages`, `messages_dlq` | `batchSave`, `saveToDlq`, queries | a row that a table refuses fails its whole batch |
| Fan-out (`fanout/*`) | none | publish, `onMessage` | exceptions that are caught; Redis falls back to a local broadcast; no order between listener threads |
| Room registry (`websocket/RoomManager`) | room -> set of sessions, no lock | add, remove, broadcast | a set that is emptied, unmapped and replaced while others hold it; sessions that close under a sender |
| Query cache (`cache/CacheService`) | Caffeine caches, keys in Redis | read-through, invalidation | invalidation before the delayed write; stale puts |
| Worker pool (`queue/ConsumerScaler`) | active workers, a counter | scale, add, remove, destroy | a stopped worker's callbacks go on |
| Shutdown (`config/ConsumerConfig.destroy`) | - | stop and interrupt workers, then writers | nobody waits for anybody |
| Load-test report (`graph.js`, `dashboard-commons.js`, `dashboard.js`) | per graph: data, legend, plot, zoom, panel | open, close, toggle, zoom, refresh | data changed in place; refreshes from three places, in any order; one choice kept in five copies |

What makes each part correct:

- publisher: no channel is shared or leaked; a half-open circuit has a trial
  that will end it; the circuit recovers when the broker does;
- worker and deduplication: a message is processed once, and is not lost on its
  way from the broker to the buffer; nothing is redelivered for ever;
- write-behind: a message that was offered ends in a table, on stderr or in the
  count of drops, at every interleaving of writers, failures and shutdown;
- database circuit: it closes when the database is well and opens when it is not;
- registry: a session is in the set that broadcasts use exactly while it is
  connected; one sender at a time per session; a broadcast tries every member;
- cache: an entry is never older than its time to live allows;
- session protocol: the server's state follows what was published;
- report: a graph shows what its legend says, whatever was clicked before, and
  tables and graphs show the same samples.

## 2. Modules

| Module | Models | Used by |
|---|---|---|
| `DbCircuitBreaker` | `DbCircuitBreaker.java`, called by the least its callers do | `MCDbCircuitBreaker`, `WriteBehind` |
| `WriteBehindSink` | what the write-behind path promises, abstractly | `WriteBehind` (refinement) |
| `WriteBehind` | buffer, writers, circuit, tables, shutdown: `EXTENDS DbCircuitBreaker` and drives its actions from the real writer loop | `MCWriteBehind`, `WriteBehindProofs` |
| `WriteBehindProofs` | theorems about `WriteBehind` | - |
| `QueuePublisherProofs` | theorems about `QueuePublisher` | - |
| `ChatDeliveryProofs` | theorems about `ChatDelivery` and how it composes its parts | - |
| `QueuePublisher` | `QueuePublisher.publish`, its circuit, `ChannelPool` | `MCQueuePublisher` |
| `EffectivelyOnce` | what broker and consumers promise together, abstractly | `ConsumerPipeline` (refinement), `ChatDelivery` |
| `ConsumerPipeline` | the delivery callback on several instances, the broker's redelivery, deduplication, crashes | `MCConsumerPipeline` |
| `RoomManager` | the sessions of a room, `removeSession`, `addSession`, `broadcastToRoom` | `MCRoomManager` |
| `ChatSession` | the JOIN/TEXT/LEAVE protocol of `ChatWebSocketHandlerV2` around a publish with its outcomes | `ChatDelivery` |
| `RoomFanout` | publication through Redis, the fallback, the listener threads of each instance | `ChatDelivery` |
| `ChatDelivery` | the whole way of a message: composes `ChatSession`, `EffectivelyOnce` and `RoomFanout` | `MCChatDelivery`, `ChatDeliveryProofs` |
| `QueryCache` | `CacheService`, `MetricsApiController`, `StatsAggregator`, against delayed commits | `MCQueryCache` |
| `WorkerPool` | `ConsumerScaler`, `ConsumerChannelManager`, `ConsumerWorker.run`, the shutdown of workers | `MCWorkerPool` |
| `ConsumerPipelineProofs`, `RoomManagerProofs`, `QueryCacheProofs`, `WorkerPoolProofs`, `ReportGraphProofs` | theorems about the module they are named for | - |
| `ReportGraph` | a graph of the load-test report: refresh functions, legend, toggling, panel, zoom | `MCReportGraph` |
| `ReportTimes` | operators: the texts of a graph's times, `formatDuration` and `getTimeFormat` | `ReportGraph` |
| `ReportFilter` | operators: which samples the report's tables and graphs show | `ReportGraph` |

Conventions:

- A thread has a `pc`, the label of the next atomic operation of the code it is
  in; `Goto(t, from, to)` moves it. Code between two accesses to shared state is
  one action; each access to an atomic is an action of its own.
- Clocks are abstracted. A circuit has a boolean `cooled`, "now - openedAt >=
  cooldown": stamping the opening time falsifies it, and the action `Cooldown`
  makes it true at any later moment. Every order of stamps and expiries is
  covered, and no duration is assumed.
- The environment (JDBC, broker, Redis, containers) is nondeterministic: each
  call may succeed or throw wherever the code allows for it. Its actions are
  marked external in `PROJECT.json` when no code under `src/` performs them.
- An operator introduced by "Fault:" is not part of the model. It is a plausible
  bug in the definition that follows it; substituting it shows that a property
  can fail. `PROJECT.json` lists which fault breaks which property.

How the states correspond to the code:

- **DbCircuitBreaker.** `state`, `failures` and `cooled` are the three atomics.
  The labels follow the class line by line: `isOpen -> cooldown -> probe`,
  `onSuccess -> reset`, `onFailure -> restamp -> reopen` or `count -> stamp ->
  trip`. A trip stamps before its compare-and-set, as the code does.
- **WriteBehind.** `queue` is the `LinkedBlockingQueue`, `batch[w]` the list in a
  writer's hands (the order inside a batch never matters and is dropped),
  `attempt[w]` the loop variable, `shutdown` the phase of `destroy`: `stopped`
  after `stop()` on every writer, `interrupted` after `shutdownNow()`. A save
  either commits all rows or throws after any subset of the acceptable rows was
  committed. `Incomplete` and `Oversized` messages are those the constraints of
  `messages` refuse; `messages_dlq` refuses only the `Oversized` ones.
- **QueuePublisher.** The same style for `publish`, with `pool` as a FIFO queue
  of channels, `held[t]` as the local variable `channel`, and `open` as the set
  of channels that are open. Unlike the database circuit it stamps after its
  compare-and-set, rejects in `HALF_OPEN` and counts failures in `OPEN`.
- **ConsumerPipeline.** `msg[w]` is the delivery a worker's callback handles,
  `stale` the workers whose delivery the broker has already taken back,
  `claims` the key sets of Redis or of each process. The buffer's writers are
  one action, `Persist`: `WriteBehind` has the details. The invalidation of the
  cache between the offer and the fan-out changes no state of this module.
- **RoomManager.** `mapped` is the value of the map for the room, an object with
  an identity (`Objects`), `members[o]` its contents. `object[s]` and
  `iterated[b]` are the local variables `sessions` of the handlers and of a
  broadcast. The weakly consistent iterator of the concurrent set visits what
  stays and may or may not visit what comes or goes (`todo`, `visited`).

- **ChatSession.** `chatState[s]` is the session attribute, `handling[s]` the
  request that is in `publish` (the container handles a session's requests one
  after the other), `kind` and `reply` what was accepted and answered. `publish`
  has three outcomes: confirmed in time, given up, and given up although the frame
  is on its way (`late`), which then arrives in the queue after later messages.
  `QueuePublisher` has the mechanism.
- **RoomFanout.** `publishing` are the callbacks in `publish`, `listener` the
  threads that the listener container has started, `missed` the deliveries that
  Redis made while an instance was not subscribed, or that a crash took.
- **ChatDelivery.** What lies between the queue and the fan-out is not
  `ConsumerPipeline` again but `EffectivelyOnce`, which it implements: a message is
  `kept` until it is processed, processed once unless it is `exempt` (Redis did not
  answer the claim), and a crash may take what a process held (`lost`).
- **QueryCache.** The caches over the table `messages` and those over the
  materialized views are a kind each; an entry, an answer and a response are the
  set of messages counted. `stage[m]` follows the callback through `offer` and the
  two groups of evictions of `onNewMessage`; the commit comes at any time after
  the offer, or from another instance (`elsewhere`). `guarded` is a history: the
  messages that were readable when their cache was evicted and that no reader on
  its way lacked. Time-window keys: `Messages` are those of one window. The
  queries that the controller makes without a cache are the miss of a cache that
  nobody fills, and are not told apart. `REFRESH` of the five views is one step:
  `views` are the messages all of them count.
- **WorkerPool.** `active` and `count` are `activeWorkers` and `workerCount`,
  `scaler` what `scale` decided from a count it read without the lock; `link` lists
  the connections ever made with their state, `connection` is the field of
  `ConsumerChannelManager`. `todo` is what the shutdown thread has left: Spring may
  destroy `ConsumerConfig` before `ConsumerScaler` or after it.
- **ReportGraph.** The sixteen graphs of `graph.js` have a `refresh` function each,
  which differ in what `graph`, a set of features, says; no two graphs share state,
  so a behaviour is about one, any of them. `series` is `data.result.series`,
  `shifts` how often `fixTimeStamps` has moved its times; `checked`, `grey` and
  `dimmed` are the hidden boxes, the label colours and the swatches of the legend;
  `chart` what both plots were last given. An event handler runs to its end before
  the next: it is one action, with all it calls. What styles a chart (axis titles,
  colours, grids, tooltips) is left out.
  `settings` are the report's three settings with the samples they pick, arbitrary
  but fixed (this report's own filter nothing).
- **ReportTimes, ReportFilter.** A text is the set of its parts, a format the set of
  its fields; `RowShown` and `Prepared` are the two conditions as they are written.

## 3. Runs

`tlc -workers 2 -config X.cfg M` in this directory. Every run ends.

| Run | Checks | Result |
|---|---|---|
| `dbbreaker` | `ClosesAfterRecovery`; `OpensUnderFailure` | holds |
| `writebehind` | types and capacity; `NoSilentLoss`; `FlushedOnShutdown`; refinement `ImplementsSink`; `AcceptedSettles`; `WritersStop` | holds |
| `publisher` | types; `ChannelsExclusive`; `ChannelsAccounted`; `TrialInFlight`; `ReclosesWithOpenChannel`; `ClosedForGood` | holds |
| `publisher_poisoned` | `NoPermanentDowntime` (QueuePublisher.java:32) | violated |
| `pipeline` | types and capacity; `ProcessedOnce`; `NothingElseLost`; refinement `ImplementsEffectivelyOnce`; `LeavesBroker`; `EventuallySettled` | holds |
| `pipeline_orphan` | `AtLeastOnce` (ARCHITECTURE.md:208) | violated |
| `rooms` | types and held monitors; `OneSenderPerSession`; `GoneIsForgotten`; `NoEmptyRoomLeft`; `OpenMembersAttempted` | holds |
| `rooms_lost` | `ConnectedIsRegistered` (RoomManager.java:45) | violated |
| `delivery` | types; `Conversation`; `HeardOnce`; `EnqueuedIsHeard` | holds |
| `cache` | types; `ResponseReady`; `EvictedStaysFresh`; `SelfHeals` | holds |
| `workers` | types and bounds of the count; `NoStrayWorker`; `ConnectionShared`; `AllStop` | holds |
| `report` | `ShowsOneState` (types and six parts); `PreparedOnce`; `TimesReadable` | holds |

What the violated ones show, and where the code does it:

1. `publisher_poisoned`: `waitForConfirmsOrDie` closes the channel when it
   throws; `returnChannel` puts it back. When every channel of the pool has had
   its timeout, all trials fail on closed channels and the circuit never closes,
   although the broker is well. `ReclosesWithOpenChannel` shows the limit of the
   damage: one open channel is enough, because the pool is a FIFO queue.
2. `pipeline_orphan`: the claim precedes the processing and survives a crash of
   the process in Redis, so the redelivered message is acknowledged as a
   duplicate and never processed.
3. `rooms_lost`: `removeSession` unmaps whatever set the room has by then.

Known limits, met while modelling, that no run states:

- `onNewMessage` evicts when the message is received; the writer commits it later.
  Whoever reads in between, or has read and puts afterwards, leaves an entry without
  the message (`StrongConsistency` in `QueryCache` states what
  CACHING-OPTIMIZATION-REPORT.md:40 claims). `EvictedStaysFresh` shows what the
  eviction does achieve; it exempts the reader under way, whose old entry is for
  `SelfHeals`: it ends with the time to live.
- Several writes may go on in a half-open database circuit: `isOpen` answers false
  to every caller that reads HALF_OPEN, and to every caller whose cooldown is over
  whether or not it won the compare-and-set (DbCircuitBreaker.java:13 speaks of one).
- A trial whose payload cannot be serialised leaves the publisher's circuit half
  open for good, because the exception is thrown outside the block that reports
  to the circuit (QueuePublisher.java:118). `Unserialisable` switches such
  payloads on; the runs and `TrialAlwaysInFlight` are for FALSE.
- A message can be offered after the last writer's final drain and stay in the
  buffer (`BufferEmptyAfterShutdown` in `WriteBehind` states what the comments of
  `destroy` intend).
- The fan-out publishers catch the exception by which `broadcastToRoom` asks for a
  redelivery (RoomManager.java:87).
- A worker that RabbitMQ refuses ends but stays counted, and nothing replaces it. A
  worker added after `shutdownNow` is rejected but listed. A connection made after
  `ConsumerChannelManager.close`, or lost at that moment, is not closed. A worker
  stopped while its connection is lost does not close its channel.
- The response cache (30 s), the views and the caches of 10 s age one after the
  other, so an answer can be older than each of them; and the Redis level of
  `CacheService` is only deleted from, never read.
- A graph's menu works while its panel is closed. If its samples are shown or hidden
  before the panel is first opened, `toggleAll` draws the graph without fixing the
  times (graph.js:1349), and the opening leaves a graph that exists alone: `shifts`
  stays 0. `PreparedOnce` shows that the opposite, a second shift, cannot happen.
  "Hide all samples" finds no boxes to uncheck then, makes a legend with all of them
  checked, draws every series, and paints the labels grey: `LabelsAgree`, a part of
  `ShowsOneState`, shows that they stay inverted as one until all are toggled again,
  while boxes, swatches and chart agree.
- `duration %= 8640000` for a day of 86400000 ms (dashboard-commons.js:92): what is
  left of a duration after whole days loses every multiple of it. The comment above
  gives 20000100 as "45 min 20 sec 100 ms"; it is two multiples, 4 h 48 min, more.
  `TimesReadable` says for which durations the text is right: those whose rest after
  whole days is below 8640000, a day itself among them, and no others.

### Bounds

| Run | Bound | Why it is enough to be interesting |
|---|---|---|
| `dbbreaker` | 3 writers, threshold 2; the failure counter is not bounded by the model, it stops growing once the circuit is open | a failure counted without opening, a reset between two counts, a late report during another writer's trial |
| `writebehind` | 2 writers, 2 messages (a good one, an oversized one), capacity 1, batches of 2, 1 retry, threshold 2 | the buffer overflows, the flush at the shutdown makes a mixed batch, writers compete for the queue, one batch can open the circuit by itself, retries and burial occur; the safety properties are proved for every size |
| `publisher*` | 2 threads, 2 channels, threshold 2, 2 outages | a closed channel in front of an open one, an outage during the recovery from another; the failure counter is bounded by the outages |
| `pipeline*` | 2 instances with a worker each, 3 messages (ordinary, without id, malformed), capacity 1, 1 lost channel, 1 crash, 1 Redis fault | redelivery to the other instance while the first callback runs, then a crash |
| `rooms*` | 3 sessions, each connecting once, 2 broadcasts | a third session replaces the set that a second one emptied while the first still holds it |
| `delivery` | 1 session, 2 requests, 2 instances, 2 faults; a message without a claim is processed at most twice | two messages of a conversation, one of them late, refused or lost; every message is followed to both instances; a throwing publication on an instance that is not subscribed. Longer conversations (a TEXT after a LEAVE) are covered by the proofs, of every property but `EnqueuedIsHeard` |
| `cache` | 1 message, 2 requests (one default, one custom), 1 failed call | a reader under way passes an eviction, a refresh or a commit; two requests fill the caches at once; the message comes to this instance or to another |
| `workers` | 3 workers, 1 of them initial, at most 2 counted, 1 fault (a loss or a refusal) | scaling up, down and past the shutdown; two workers connect at once; a removed worker that has not ended yet when another is added |
| `report` | all graphs, 2 series, every setting with a filter that matches all, one or none, 2 ranges, 15 granularities on both sides of every threshold, a day and more among them, 6 starts | toggling before the first opening and after; one series on and one off while all are toggled; a zoom that another replaces, or a redraw; points on both sides of the end of a minute, an hour, a day. Finite without a bound on the events |

`Capacity`, `BatchSize`, `MaxRetries` and `FailureThreshold` are parameters of the
code; `MaxOutages`, `MaxChannelLosses`, `MaxCrashes`, `MaxRedisFaults`,
`MaxFaults` and `MaxRequests` bound the environment; `offers`, `shifts` and `legends` count up to 2, "several".

### Fairness

- *Threads run.* Weak fairness of a writer's, a publisher's and a callback's
  steps: they belong to executors that are never starved, and JDBC calls, confirm
  waits (5 s), polls and sleeps end.
- *Time passes.* Weak fairness of `Cooldown` where a liveness property needs it.
  `WriteBehind` does without.
- *Outages end.* Weak fairness of the broker's `Recover`; a property that depends
  on it says from when on the broker is well.
- *Clients keep sending.* Not assumed by the specification; `Publishing` is a
  hypothesis of the properties about the publisher's circuit. A thread that wants
  to publish may stay idle for ever otherwise.
- *The broker delivers.* Strong fairness of the delivery of each message: a
  prefetch above one keeps a poisoned message, which is requeued for ever, from
  holding up those behind it. No fairness for crashes, losses, arrivals, or the
  shutdown.
- *Metrics requests end and entries expire.* `QueryCache` assumes that a request
  under way goes on and that time passes for entries, response and views; not that
  a message is committed, a client asks, or the aggregator is enabled.
- *Workers run and a shutdown goes on.* `WorkerPool`; nothing makes `scale` be
  called, the connection be recovered or the shutdown begin.
- *The consumers work.* `ChatDelivery` assumes that a message in the queue is
  processed, a publication ends and a listener thread broadcasts: one condition
  for all of them, which the bound on repeated processing makes as strong as one for
  each. It does not assume that a client sends or that a subscription comes back.

`CHECK_DEADLOCK FALSE` is set where the system may stop: after a shutdown
(`writebehind`, `workers`), and when every message has been dealt with
(`pipeline*`, `delivery`). `ReportGraph` claims no liveness and assumes no fairness: a
page waits for its reader.

## 4. Proofs

`tlapm M.tla` checks the proofs of a module. They hold for any number of writers,
messages, threads, channels, sessions, workers, instances and faults, and any
capacity, batch size, number of retries and threshold, and of the load-test report for any
series, filters, ranges, granularities and starting times. They rest on the named
assumptions of the modules alone (`BreakerAssumption`, `WriteBehindAssumption`,
`PublisherAssumption`, `PipelineAssumption`, `RoomAssumption`, `CacheAssumption`,
`PoolAssumption`, `SessionAssumption`, `FaultAssumption`, `GraphAssumption`): the constants have the types and the
ranges the code gives them.

What `Append`, `Tail` and `SubSeq` do to the set of a queue's elements is stated as
lemmas in the module that needs it.

`WriteBehindProofs`:

- `TypeInvariant`: `Spec => []TypeOK`. The steps of the circuit are typed once,
  in `BreakerStepTyped`.
- `InductiveInvariant`: `Spec => []IInv`. `NoSilentLoss` is not inductive: from a
  state in which two writers hold the same message, or one is in the queue and in
  a batch, settling it would take it away from somebody. `IInv` adds
  - `Emptied`, a writer outside `writeBatchWithRetry` holds nothing, without which
    `poll` would overwrite a batch;
  - `Saved`, from `onSuccess` to the return what it holds is in `messages`, without
    which the return would drop rows nobody saved;
  - `Exclusive`, a message is in one place at most;
  - `Traced`, `offered` is the union of dropped, queued, held and settled.
- `NothingLost` (`NoSilentLoss`) follows from `Traced`.
- `FlushesOnShutdown` (`FlushedOnShutdown`), from `IInv` and `Flushed`: a writer
  flushes only once the shutdown has begun, and what is queued after its last
  empty drain was offered after that.
- `Implementation`: `Spec => ImplementsSink`. The pending messages of
  `WriteBehindSink` are those queued or held. `Take` steps stutter; the release
  of a batch settles exactly its messages because of `Exclusive`; a return after a
  success settles nothing unsaved because of `Saved`.
- `HalfOpenIsTried`: no half-open circuit is left to itself. The circuit does not say
  whose trial is on, and a late failure of another writer ends it, so the theorem asks
  for some writer that has still to report. It is the invariant under
  `ClosesAfterRecovery`, which the run checks. `HalfOpenIsTriedByAnyCaller` says the
  same of `BreakerSpec`, the circuit under callers that come at any time.

`QueuePublisherProofs`:

- `TypeInvariant`, together with `Held`: a call holds a channel exactly between the
  borrow and the return.
- `NoSharedChannel` (`ChannelsExclusive`) and `NoChannelLost`
  (`ChannelsAccounted`), from `ChannelInvariant`: only `Borrow` and `Return` touch
  the pool, and each moves one channel.
- `TrialAlwaysInFlight` (`TrialInFlight`), under `Unserialisable = FALSE`: the
  label of the trial moves along `Trial`, and the step that leaves it leaves
  `HALF_OPEN`. Without the hypothesis it is false, see the known limits.

`ChatDeliveryProofs`:

- `ConversationKept` (`Conversation`), for any number of sessions, requests,
  instances and faults. `Conversation` is not
  inductive; `IInv` adds where a message can be (`Placed`: in publish, late or in
  the queue, in one of them only, and never with a number the session has not
  reached), that nothing is queued twice (`Distinct`), and what the state of the
  session says of the requests it has accepted (`Accepted`: without it a second
  JOIN, or a TEXT after a LEAVE, could follow). A message appended by a confirm is
  the session's latest, so it comes after all that were acknowledged; one that
  arrives late is not acknowledged and may come anywhere.
- `TypeInvariant` and `BroadcastOnce` (`HeardOnce`: not twice and not never, with the
  exceptions it names), from `DeliveryInv`, which adds `Brokered`, the broker has just
  what is in the room queue and lets go nothing that is neither processed nor lost;
  `Started`, only what is processed is published, delivered or broadcast; and `Single`,
  a claimed message whose publication did not throw is published by one instance at
  most, to instances none of which has it yet, and who is about to broadcast it has not
  done so. Without `Single` a second publication could repeat a broadcast.
- `Composition`: `Spec => SessionSpec /\ Once!OnceSpec`. Every step shows the session a
  step of `ChatSession` or a stutter, and the broker one of `EffectivelyOnce`, which
  `ConsumerPipeline` implements; a crash of an instance must be shown to take nothing
  the broker has not, which is `Started`.
- `NothingRefused`: the composition does not stop the session either. What publish has
  in hand or has given up is not at the broker yet, so an arrival is always taken.

`ConsumerPipelineProofs`, whose `IInv` has the types (`Typed`, `Bounded`) and

- `Single`, a callback handles one message; `Traced`, a claim, and a callback about to
  fan out or acknowledge, rest on an offer that is made or due. Without it an ack, or
  a duplicate that is dropped, could take the only copy.
- `Kept`, a message is ready, owed by a callback, about to be offered, or done:
  `NothingLost` (`NothingElseLost`) follows from it.
- `Counted`, what is done was offered, or taken by a crash; and `Protected`, with
  claims in Redis a callback that is about to offer a claimable message holds its
  claim alone and is the first. `OnceProcessed` (`ProcessedOnce`) is not inductive
  without it: two callbacks could be about to offer.
- `Refinement`: `SharedDedup => (Spec => ImplementsEffectivelyOnce)`. `Offer` is the
  abstract processing, the step that acknowledges the release, `Crash` the crash; the
  rest stutters. `Protected` makes an offer the first, `Kept` justifies the release.

`RoomManagerProofs`, for any number of sessions and broadcasts:

- `Numbered`: the set objects are numbered as they are created, at most one for each
  session that came, so that a new one is in nobody's hands. `RoomAssumption` says
  that the sessions are finitely many, so that there are as many numbers, and that
  `None` is no session, no broadcast and no number.
- `Forgotten`: a session whose removal is done is in no set but abandoned ones, which
  are not mapped; it gives `RemovedIsForgotten` (`GoneIsForgotten`).
  `Attended`: the mapped set has a member, or a handler on its way that will add to it
  or look at it; it gives `RoomEntryGoes` (`NoEmptyRoomLeft`).
- `Exclusive`: a broadcast that sends holds the session's monitor, the others do not;
  `MonitorExcludes` (`OneSenderPerSession`). `Tried`: a session that was visited was
  attempted, is closed, or is the one at hand, and a broadcast that ended leaves no
  member to do; `BroadcastIsComplete` (`OpenMembersAttempted`).

`QueryCacheProofs`: `ResponseInv`, a request about to write the expiry has written
the response, gives `ResponseThere` (`ResponseReady`). `FreshInv`, no entry and no
result that a reader is about to put lacks a guarded message, gives `EvictionLasts`
(`EvictedStaysFresh`); the readers' part is what makes it inductive.

`WorkerPoolProofs`: `Decided` ties what `scale` decided to the count (it is the only
writer, so the limit it read still holds); `Listed` ties list, count and flags;
`Closing` says which tasks of the shutdown are over. Their conjunction gives
`NoneStray` (`NoStrayWorker`). `LinkTyped` and `Charged`, one worker connects at a
time, and every connection but an open one is accounted for by a loss or by the
close, give `OneConnection` (`ConnectionShared`).

`ReportGraphProofs`. `GraphInv` is `ShowsOneState` with

- `Filtered`: the series are all of them, or what `prepareSeries` leaves, and the latter
  once there is a legend (`PreparedTwice`: a second call finds nothing to remove). A
  graph that gives up without series has no legend then, without which a toggle after
  the legend was made could leave chart and boxes apart;
- `FirstTime`: times are shifted with the first chart or never, and nothing is drawn
  before document.ready; `Marked`: an arrow has a class, or closing would not turn it.

The proof splits it into `Drawn`, which `RefreshKeeps` shows for the first refresh, for a
redraw and for one that gives up, and `Around`, the panel and the labels' colour. It gives
`OneStateShown` (`ShowsOneState`) and `DataPreparedOnce` (`PreparedOnce`).
`TimesAreReadable` (`TimesReadable`) rests on arithmetic alone: two points that agree in
a larger unit differ in the next smaller one that is written (`DaysApart` to
`SecondsApart`), the counts of the units add up to the whole days and the folded rest (`CountAddsUp`),
and that is the duration just when the rest is below the fold (`FoldedRest`).

Only model-checked: all liveness (`ClosesAfterRecovery`, `OpensUnderFailure`,
`AcceptedSettles`, `WritersStop`, `ReclosesWithOpenChannel`, `ClosedForGood`,
`LeavesBroker`, `EventuallySettled`, `EnqueuedIsHeard`, `SelfHeals`, `AllStop`),
which is out of reach of the prover. Every invariant and every refinement that a
passing run checks is proved. No module uses a RECURSIVE operator or needs induction over data.

## 5. Not modelled

- Of the load-test report: chart options that only style, `Math.round10`, the PNG
  export, the tables' cells, headers and sorting, the pie chart, the page of custom
  graphs (it has none), and the libraries it ships (`hashtable.js`,
  `curvedLines.js`, `jquery.cookie.js`, `jquery.flot.stack.js`, flot, jQuery,
  bootstrap), which are third-party code.
- The direct fan-out publisher beyond its outcome; which clients of a room a
  broadcast that throws has served (`RoomManager` follows one that does not).
- The monitoring and health endpoints and the cache's hit counters: they read
  counters and change nothing. `QueueSetup` and the Spring configuration run once.
- `RoomManager.isDuplicate`, `MessageRepository.save`, `roomSessions` of the
  sending side: nothing reads or calls them.
- The Redis keys of `CacheService`, which the code deletes and never writes.
- The expiry of a deduplication claim (24 hours), the format of messages, the
  routing of a room id outside 1..20 (the broker confirms and drops it).
- SQL queries, schema beyond the constraints of the two message tables,
  deployment scripts and JMeter plans.

## 6. Plan

Done, in this order, the most important behaviour first: `DbCircuitBreaker`,
`WriteBehindSink`, `WriteBehind` (composes the two), `QueuePublisher`,
`ConsumerPipeline`, `RoomManager`; then `QueryCache`, `WorkerPool`,
`EffectivelyOnce` with the refinement of `ConsumerPipeline`, `ChatSession`,
`RoomFanout` and their composition `ChatDelivery`;
then the load-test report's `ReportGraph`, `ReportTimes` and `ReportFilter`.

Theorems: those of section 4 are proved, in the order of the modules: every invariant
and every refinement that a run checks. Left to prove: the invariants under the other
liveness properties, as `HalfOpenIsTried` is for the circuit of the database
(who waits for whom in `WorkerPool` and `ConsumerPipeline`, which reader can still put
an old entry in `QueryCache`). What cannot be proved and what is not modelled is listed
in sections 4 and 5, with the reasons.
