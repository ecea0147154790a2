------------------------------ MODULE QueryCache ------------------------------
(***************************************************************************)
(* The read path of one consumer instance: the in-process caches of        *)
(* CacheService, the response cache of MetricsApiController and the        *)
(* materialized views, against messages that are invalidated when they     *)
(* are received and committed some time later by the write-behind path.    *)
(*                                                                         *)
(* The ten caches fall into two kinds: those over the table messages and   *)
(* those over the materialized views.  A cached answer is the set of       *)
(* messages it has counted.  Some caches have the window of the query in   *)
(* their key: Messages are then the messages of one room or user and one   *)
(* window.                                                                 *)
(*                                                                         *)
(* The L2 of CacheService does not appear: the code deletes Redis keys but *)
(* never reads or writes one.                                              *)
(***************************************************************************)
EXTENDS Integers

CONSTANTS Messages,   \* the messages the queries are about
          Requests,   \* request threads of GET /api/metrics
          Custom,     \* those whose requests have parameters of their own
          MaxFaults,  \* bound on failed database calls
          None        \* no entry, no response

ASSUME CacheAssumption ==
    /\ Custom \subseteq Requests
    /\ MaxFaults \in Nat
    /\ \A S \in SUBSET Messages : None # S

VARIABLES stage,      \* [Messages -> not received, being evicted for, done]
          rows,       \* the table messages
          views,      \* the messages the materialized views have counted
          viewsOld,   \* lastRefreshedAt is null or more than 30 s ago
          L1,         \* [Kinds -> cached answer]
          response,   \* cachedResponse: the messages all its answers count
          fresh,      \* now < cacheExpiryMs
          pc,         \* [Requests -> the next step of metrics()]
          at,         \* [Requests -> the query under way]
          answer,     \* [Requests -> its result]
          got,        \* [Requests -> the messages all answers so far count]
          faults,     \* failed database calls so far
          guarded     \* history: [Kinds -> messages no entry may lack]

database == <<rows, views, viewsOld>>
cache == <<L1, guarded>>
responseCache == <<response, fresh>>
request == <<pc, at, answer, got>>
vars == <<stage, database, cache, responseCache, request, faults>>

Kinds == {"table", "views"}

Source(kind) == IF kind = "views" THEN views ELSE rows

Fault == faults < MaxFaults /\ faults' = faults + 1

-----------------------------------------------------------------------------
(***************************************************************************)
(* The write path: ConsumerWorker offers a message to the write buffer,    *)
(* then evicts; a writer commits it at any time after the offer.  A        *)
(* message received elsewhere is committed by another instance, and no     *)
(* cache of this one is evicted for it.                                    *)
(***************************************************************************)
Offer(m) ==
    /\ stage[m] = "waiting"
    /\ stage' = [stage EXCEPT ![m] = "table"]
    /\ UNCHANGED <<database, cache, responseCache, request, faults>>

Commit(m) ==
    /\ stage[m] # "waiting" /\ m \notin rows
    /\ rows' = rows \cup {m}
    /\ UNCHANGED <<stage, views, viewsOld, cache, responseCache, request, faults>>

\* Fault: the caches over the views are left alone.
EvictTablesOnly(kind) == L1' = IF kind = "table" THEN [L1 EXCEPT ![kind] = None] ELSE L1

Evict(kind) == L1' = [L1 EXCEPT ![kind] = None]

\* Messages that can be read and that no result on its way into the cache lacks.
Guarded(kind) ==
    {m \in Source(kind) :
        \A r \in Requests : pc[r] = "put" /\ at[r] = kind => m \in answer[r]}

\* onNewMessage: room, user and total caches, then the aggregates.
OnNewMessage(m) ==
    LET kind == stage[m]
    IN /\ kind \in Kinds
       /\ Evict(kind)
       /\ guarded' = [guarded EXCEPT ![kind] = @ \cup Guarded(kind)]
       /\ stage' = [stage EXCEPT ![m] = IF kind = "table" THEN "views" ELSE "done"]
       /\ UNCHANGED <<database, responseCache, request, faults>>

\* expireAfterWrite, or maximumSize.
Expire(kind) ==
    /\ L1[kind] # None
    /\ L1' = [L1 EXCEPT ![kind] = None]
    /\ UNCHANGED <<stage, database, guarded, responseCache, request, faults>>

-----------------------------------------------------------------------------
(***************************************************************************)
(* MetricsApiController.metrics()                                          *)
(***************************************************************************)
Goto(r, from, to) == pc[r] = from /\ pc' = [pc EXCEPT ![r] = to]

\* Fault: the expiry time is not looked at.
ServeCachedForEver(r) ==
    /\ Goto(r, "idle", "answer")
    /\ r \notin Custom /\ response # None
    /\ got' = [got EXCEPT ![r] = response]
    /\ UNCHANGED <<stage, database, cache, responseCache, at, answer, faults>>

\* The expiry time is read before the response, which is never unset: reading
\* both at once serves the same response or an older one.
ServeCached(r) ==
    /\ Goto(r, "idle", "answer")
    /\ r \notin Custom /\ fresh /\ response # None
    /\ got' = [got EXCEPT ![r] = response]
    /\ UNCHANGED <<stage, database, cache, responseCache, at, answer, faults>>

Recompute(r) ==
    /\ Goto(r, "idle", "refresh")
    /\ r \in Custom \/ ~fresh \/ response = None
    /\ UNCHANGED <<stage, database, cache, responseCache, at, answer, got, faults>>

\* On-demand refresh when the scheduled one is old; a failure is only logged.
\* lastRefreshedAt stays as it is.
Refresh(r) ==
    /\ Goto(r, "refresh", "look up")
    /\ \/ viewsOld /\ views' = rows /\ UNCHANGED faults
       \/ viewsOld /\ Fault /\ UNCHANGED views
       \/ ~viewsOld /\ UNCHANGED <<views, faults>>
    /\ UNCHANGED <<stage, rows, viewsOld, cache, responseCache, at, answer, got>>

\* An answer goes into the response; the queries on the views come last.
TakeAnswer(r, from, counted) ==
    /\ Goto(r, from, IF at[r] = "table" THEN "look up" ELSE "respond")
    /\ at' = [at EXCEPT ![r] = IF @ = "table" THEN "views" ELSE "table"]
    /\ got' = [got EXCEPT ![r] = @ \cap counted]

Hit(r) ==
    /\ L1[at[r]] # None
    /\ TakeAnswer(r, "look up", L1[at[r]])
    /\ UNCHANGED <<stage, database, cache, responseCache, answer, faults>>

Miss(r) ==
    /\ L1[at[r]] = None
    /\ Goto(r, "look up", "query")
    /\ UNCHANGED <<stage, database, cache, responseCache, at, answer, got, faults>>

\* Fault: a query that counts nothing answers null.
QueryNull(r) ==
    /\ Goto(r, "query", "put")
    /\ answer' = [answer EXCEPT ![r] = IF Source(at[r]) = {} THEN None ELSE Source(at[r])]
    /\ UNCHANGED <<stage, database, cache, responseCache, at, got, faults>>

Query(r) ==
    /\ Goto(r, "query", "put")
    /\ answer' = [answer EXCEPT ![r] = Source(at[r])]
    /\ UNCHANGED <<stage, database, cache, responseCache, at, got, faults>>

Put(r) ==
    /\ TakeAnswer(r, "put", answer[r])
    /\ L1' = [L1 EXCEPT ![at[r]] = answer[r]]
    /\ answer' = [answer EXCEPT ![r] = {}]
    /\ UNCHANGED <<stage, database, guarded, responseCache, faults>>

\* A query throws: the request fails.
Fail(r) ==
    /\ Goto(r, "query", "idle")
    /\ Fault
    /\ at' = [at EXCEPT ![r] = "table"]
    /\ got' = [got EXCEPT ![r] = Messages]
    /\ UNCHANGED <<stage, database, cache, responseCache, answer>>

\* Fault: the expiry time is set before the response.
RespondLate(r) ==
    /\ \/ Goto(r, "respond", "expiry") /\ fresh' = (fresh \/ r \notin Custom) /\ UNCHANGED response
       \/ /\ Goto(r, "expiry", "answer")
          /\ response' = (IF r \in Custom THEN response ELSE got[r])
          /\ UNCHANGED fresh
    /\ UNCHANGED <<stage, database, cache, at, answer, got, faults>>

\* A default request fills the response cache: cachedResponse, cacheExpiryMs.
Respond(r) ==
    /\ \/ Goto(r, "respond", "answer") /\ r \in Custom /\ UNCHANGED responseCache
       \/ /\ Goto(r, "respond", "expiry") /\ r \notin Custom
          /\ response' = got[r] /\ UNCHANGED fresh
       \/ Goto(r, "expiry", "answer") /\ fresh' = TRUE /\ UNCHANGED response
    /\ UNCHANGED <<stage, database, cache, at, answer, got, faults>>

Answer(r) ==
    /\ Goto(r, "answer", "idle")
    /\ got' = [got EXCEPT ![r] = Messages]
    /\ UNCHANGED <<stage, database, cache, responseCache, at, answer, faults>>

Metrics(r) ==
    \/ Refresh(r) \/ Hit(r) \/ Miss(r) \/ Query(r) \/ Put(r) \/ Fail(r)
    \/ Respond(r) \/ Answer(r)

-----------------------------------------------------------------------------
\* StatsAggregator.refreshStats, where it is enabled.
RefreshStats ==
    /\ \/ views' = rows /\ viewsOld' = FALSE /\ UNCHANGED faults
       \/ Fault /\ UNCHANGED <<views, viewsOld>>
    /\ UNCHANGED <<stage, rows, cache, responseCache, request>>

\* Time passes: 30 s since the scheduled refresh, since the response.
ViewsAge ==
    /\ ~viewsOld /\ viewsOld' = TRUE
    /\ UNCHANGED <<stage, rows, views, cache, responseCache, request, faults>>

ResponseExpires ==
    /\ fresh /\ fresh' = FALSE
    /\ UNCHANGED <<stage, database, cache, response, request, faults>>

Init ==
    /\ stage \in [Messages -> {"waiting", "elsewhere"}]
    /\ rows = {} /\ views = {} /\ viewsOld = TRUE
    /\ L1 = [k \in Kinds |-> None] /\ guarded = [k \in Kinds |-> {}]
    /\ response = None /\ fresh = FALSE
    /\ pc = [r \in Requests |-> "idle"] /\ at = [r \in Requests |-> "table"]
    /\ answer = [r \in Requests |-> {}] /\ got = [r \in Requests |-> Messages]
    /\ faults = 0

Next ==
    \/ \E m \in Messages : Offer(m) \/ OnNewMessage(m) \/ Commit(m)
    \/ \E kind \in Kinds : Expire(kind)
    \/ \E r \in Requests : ServeCached(r) \/ Recompute(r) \/ Metrics(r)
    \/ RefreshStats \/ ViewsAge \/ ResponseExpires

\* Request threads run and time passes.  Nothing makes a message come, a
\* writer commit, a client ask or the aggregator be enabled.
Fairness ==
    /\ \A r \in Requests : WF_vars(Metrics(r))
    /\ \A kind \in Kinds : WF_vars(Expire(kind))
    /\ WF_vars(ViewsAge) /\ WF_vars(ResponseExpires)

Spec == Init /\ [][Next]_vars /\ Fairness

-----------------------------------------------------------------------------
Labels == {"idle", "refresh", "look up", "query", "put", "respond", "expiry", "answer"}

Answers == {None} \cup SUBSET Messages

TypeOK ==
    /\ stage \in [Messages -> Kinds \cup {"waiting", "elsewhere", "done"}]
    /\ views \subseteq rows /\ rows \subseteq Messages
    /\ viewsOld \in BOOLEAN /\ fresh \in BOOLEAN
    /\ L1 \in [Kinds -> Answers] /\ guarded \in [Kinds -> SUBSET Messages]
    /\ response \in Answers
    /\ pc \in [Requests -> Labels] /\ at \in [Requests -> Kinds]
    /\ answer \in [Requests -> SUBSET Messages] /\ got \in [Requests -> SUBSET Messages]
    /\ faults \in 0 .. MaxFaults

(***************************************************************************)
(* While the expiry time lies ahead there is a response to serve: requests *)
(* that race to fill the response cache never leave the two apart.         *)
(***************************************************************************)
ResponseReady == fresh => response # None

(***************************************************************************)
(* Event-driven invalidation: once onNewMessage has evicted a cache, no    *)
(* entry of it lacks a message that could be read at that moment, unless   *)
(* it comes from a reader that had queried before and put its result after *)
(* the eviction.                                                           *)
(***************************************************************************)
EvictedStaysFresh ==
    \A kind \in Kinds : L1[kind] # None => guarded[kind] \subseteq L1[kind]

(***************************************************************************)
(* `stale data self-heals even if an invalidation event is missed'         *)
(* (CacheService): when no more messages are committed, entries and        *)
(* answers that lack one disappear for good, through the entries' expiry,  *)
(* the response's and the on-demand refresh.                               *)
(***************************************************************************)
SelfHeals ==
    <>[](/\ \A kind \in Kinds : L1[kind] # None => L1[kind] = rows
         /\ \A r \in Requests : pc[r] = "answer" => got[r] = rows)

(***************************************************************************)
(* CACHING-OPTIMIZATION-REPORT.md:40 -- `strong consistency for the hot    *)
(* path (new messages invalidate immediately)': no entry over the table    *)
(* lacks a committed message whose invalidation is complete.  It does not  *)
(* hold: the eviction comes first, and a reader under way puts after it.   *)
(***************************************************************************)
StrongConsistency ==
    \A m \in rows :
        stage[m] = "done" /\ L1["table"] # None => m \in L1["table"]
=============================================================================
