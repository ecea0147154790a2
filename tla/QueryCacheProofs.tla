---------------------------- MODULE QueryCacheProofs ----------------------------
(***************************************************************************)
(* Theorems about QueryCache, for any messages, request threads and number *)
(* of failed database calls.                                               *)
(***************************************************************************)
EXTENDS QueryCache, TLAPS

\* Who is about to set the expiry time has set the response.
ResponseInv ==
    /\ fresh => response # None
    /\ \A r \in Requests : pc[r] = "expiry" => response # None

\* Messages guarded against have been readable ever since: neither an entry nor
\* a result that a reader is about to put lacks one.
FreshInv ==
    \A kind \in Kinds :
        /\ guarded[kind] \subseteq Source(kind)
        /\ L1[kind] # None => guarded[kind] \subseteq L1[kind]
        /\ \A r \in Requests : pc[r] = "put" /\ at[r] = kind => guarded[kind] \subseteq answer[r]

IInv == TypeOK /\ ResponseInv /\ FreshInv

-----------------------------------------------------------------------------
LEMMA InitInv == Init => IInv
<1> SUFFICES ASSUME Init PROVE IInv
    OBVIOUS
<1>1. TypeOK
  <2>1. stage \in [Messages -> Kinds \cup {"waiting", "elsewhere", "done"}]
      BY DEF Init
  <2>2. faults \in 0 .. MaxFaults
      BY CacheAssumption DEF Init
  <2>3. QED
      BY <2>1, <2>2 DEF Init, TypeOK, Kinds, Labels, Answers
<1>2. ResponseInv /\ FreshInv
    BY DEF Init, ResponseInv, FreshInv, Kinds
<1>3. QED
    BY <1>1, <1>2 DEF IInv

LEMMA FaultBound == ASSUME TypeOK, Fault PROVE faults' \in 0 .. MaxFaults
BY CacheAssumption DEF TypeOK, Fault

(***************************************************************************)
(* The write path and time.                                                *)
(***************************************************************************)
LEMMA CommitStep == ASSUME IInv, NEW m \in Messages, Commit(m) PROVE IInv'
<1>1. /\ rows' = rows \cup {m}
      /\ UNCHANGED <<stage, views, viewsOld, L1, guarded, response, fresh, pc, at, answer, got, faults>>
    BY DEF Commit, cache, responseCache, request
<1>2. TypeOK'
    BY <1>1 DEF IInv, TypeOK
<1>3. ResponseInv' /\ FreshInv'
    BY <1>1 DEF IInv, ResponseInv, FreshInv, Source
<1>4. QED
    BY <1>2, <1>3 DEF IInv

LEMMA EvictStep == ASSUME IInv, NEW m \in Messages, OnNewMessage(m) PROVE IInv'
<1> DEFINE kind == stage[m]
<1>1. /\ kind \in Kinds
      /\ L1' = [L1 EXCEPT ![kind] = None]
      /\ guarded' = [guarded EXCEPT ![kind] = @ \cup Guarded(kind)]
      /\ stage' = [stage EXCEPT ![m] = IF kind = "table" THEN "views" ELSE "done"]
      /\ UNCHANGED <<rows, views, viewsOld, response, fresh, pc, at, answer, got, faults>>
    BY DEF OnNewMessage, Evict, database, responseCache, request
<1>2. Guarded(kind) \subseteq Source(kind) /\ Source(kind) \subseteq Messages
    BY DEF Guarded, Source, IInv, TypeOK
<1>3. \A r \in Requests : pc[r] = "put" /\ at[r] = kind => Guarded(kind) \subseteq answer[r]
    BY DEF Guarded
<1> HIDE DEF kind
<1>4. TypeOK'
    BY <1>1, <1>2 DEF IInv, TypeOK, Kinds, Answers
<1>5. ResponseInv'
    BY <1>1 DEF IInv, ResponseInv
<1>6. FreshInv'
    BY <1>1, <1>2, <1>3 DEF IInv, TypeOK, FreshInv, Source
<1>7. QED
    BY <1>4, <1>5, <1>6 DEF IInv

LEMMA WritePathStep ==
    ASSUME IInv,
           (\E m \in Messages : Offer(m)) \/ (\E kind \in Kinds : Expire(kind))
             \/ ViewsAge \/ ResponseExpires
    PROVE  IInv'
<1>1. UNCHANGED <<rows, views, guarded, response, pc, at, answer, got, faults>>
    BY DEF Offer, Expire, ViewsAge, ResponseExpires, database, cache, responseCache, request
<1>2. stage' \in [Messages -> Kinds \cup {"waiting", "elsewhere", "done"}]
    BY DEF Offer, Expire, ViewsAge, ResponseExpires, IInv, TypeOK, Kinds
<1>3. L1' \in [Kinds -> Answers] /\ \A kind \in Kinds : L1'[kind] # None => L1'[kind] = L1[kind]
    BY DEF Offer, Expire, ViewsAge, ResponseExpires, cache, IInv, TypeOK, Answers
<1>4. viewsOld' \in BOOLEAN /\ fresh' \in BOOLEAN /\ (fresh' => fresh)
  <2>1. viewsOld' \in {viewsOld, TRUE} /\ fresh' \in {fresh, FALSE}
      BY DEF Offer, Expire, ViewsAge, ResponseExpires, database, responseCache
  <2>2. viewsOld' \in BOOLEAN
      BY <2>1, Zenon DEF IInv, TypeOK
  <2>3. fresh' = fresh \/ fresh' = FALSE
      BY <2>1
  <2>4. fresh' \in BOOLEAN
      BY <2>3, Zenon DEF IInv, TypeOK
  <2>5. fresh' => fresh
      BY <2>3, Zenon
  <2>6. QED
      BY <2>2, <2>4, <2>5
<1>5. TypeOK'
    BY <1>1, <1>2, <1>3, <1>4 DEF IInv, TypeOK
<1>6. ResponseInv'
    BY <1>1, <1>4 DEF IInv, ResponseInv
<1>7. FreshInv'
    BY <1>1, <1>3 DEF IInv, FreshInv, Source
<1>8. QED
    BY <1>5, <1>6, <1>7 DEF IInv

(***************************************************************************)
(* A refresh of the views, scheduled or on demand: views only grow.        *)
(***************************************************************************)
LEMMA RefreshStep ==
    ASSUME IInv, RefreshStats \/ \E r \in Requests : Refresh(r)
    PROVE  IInv'
<1>1. /\ views' \in {views, rows} /\ viewsOld' \in BOOLEAN /\ faults' \in 0 .. MaxFaults
      /\ UNCHANGED <<stage, rows, L1, guarded, response, fresh, at, answer, got>>
  <2>1. views' \in {views, rows} /\ UNCHANGED <<stage, rows, L1, guarded, response, fresh, at, answer, got>>
      BY DEF RefreshStats, Refresh, cache, responseCache, request
  <2>2. viewsOld' \in BOOLEAN
      BY Zenon DEF RefreshStats, Refresh, IInv, TypeOK
  <2>3. faults' \in 0 .. MaxFaults
      BY FaultBound DEF RefreshStats, Refresh, IInv, TypeOK
  <2>4. QED
      BY <2>1, <2>2, <2>3
<1>2. /\ pc' \in [Requests -> Labels]
      /\ \A r \in Requests : pc'[r] \in {pc[r], "look up"}
    BY DEF RefreshStats, Refresh, Goto, request, IInv, TypeOK, Labels
<1>3. TypeOK'
    BY <1>1, <1>2 DEF IInv, TypeOK
<1>4. ResponseInv'
    BY <1>1, <1>2 DEF IInv, ResponseInv
<1>5. FreshInv'
    BY <1>1, <1>2 DEF IInv, TypeOK, FreshInv, Source
<1>6. QED
    BY <1>3, <1>4, <1>5 DEF IInv

(***************************************************************************)
(* The steps of a request.                                                 *)
(***************************************************************************)
\* Those that move a request and write no cache, nor come to "put" or "expiry".
LEMMA QuietStep ==
    ASSUME IInv, NEW r \in Requests, NEW to \in Labels \ {"put", "expiry"},
           pc' = [pc EXCEPT ![r] = to],
           at' \in [Requests -> Kinds], \A x \in Requests : x # r => at'[x] = at[x],
           got' \in [Requests -> SUBSET Messages], faults' \in 0 .. MaxFaults,
           UNCHANGED <<stage, rows, views, viewsOld, L1, guarded, response, fresh, answer>>
    PROVE  IInv'
<1>1. TypeOK'
    BY DEF IInv, TypeOK
<1>2. ResponseInv'
    BY DEF IInv, TypeOK, ResponseInv
<1>3. FreshInv'
    BY DEF IInv, TypeOK, FreshInv, Source
<1>4. QED
    BY <1>1, <1>2, <1>3 DEF IInv

LEMMA NextQuery ==
    ASSUME IInv, NEW r \in Requests, NEW from, NEW counted, counted \subseteq Messages,
           TakeAnswer(r, from, counted)
    PROVE  /\ \E to \in {"look up", "respond"} : pc' = [pc EXCEPT ![r] = to]
           /\ at' \in [Requests -> Kinds] /\ \A x \in Requests : x # r => at'[x] = at[x]
           /\ got' \in [Requests -> SUBSET Messages]
BY DEF TakeAnswer, Goto, IInv, TypeOK, Kinds

LEMMA ServeStep ==
    ASSUME IInv, NEW r \in Requests, ServeCached(r) \/ Recompute(r) \/ Miss(r) \/ Fail(r) \/ Answer(r)
    PROVE  IInv'
<1>1. PICK to \in Labels \ {"put", "expiry"} : pc' = [pc EXCEPT ![r] = to]
    BY DEF ServeCached, Recompute, Miss, Fail, Answer, Goto, Labels
<1>2. /\ at' \in [Requests -> Kinds] /\ \A x \in Requests : x # r => at'[x] = at[x]
      /\ faults' \in 0 .. MaxFaults
      /\ UNCHANGED <<stage, rows, views, viewsOld, L1, guarded, response, fresh, answer>>
  <2>1. at' = at \/ at' = [at EXCEPT ![r] = "table"]
      BY DEF ServeCached, Recompute, Miss, Fail, Answer
  <2>2. faults' \in 0 .. MaxFaults
      BY FaultBound DEF ServeCached, Recompute, Miss, Fail, Answer, IInv, TypeOK
  <2>3. UNCHANGED <<stage, rows, views, viewsOld, L1, guarded, response, fresh, answer>>
      BY DEF ServeCached, Recompute, Miss, Fail, Answer, database, cache, responseCache
  <2>4. QED
      BY <2>1, <2>2, <2>3 DEF IInv, TypeOK, Kinds
<1>3. got' \in [Requests -> SUBSET Messages]
    BY DEF ServeCached, Recompute, Miss, Fail, Answer, IInv, TypeOK, Answers
<1>4. QED
    BY <1>1, <1>2, <1>3, QuietStep

LEMMA HitStep == ASSUME IInv, NEW r \in Requests, Hit(r) PROVE IInv'
<1>1. L1[at[r]] \subseteq Messages /\ TakeAnswer(r, "look up", L1[at[r]])
    BY DEF Hit, IInv, TypeOK, Answers
<1>2. UNCHANGED <<stage, rows, views, viewsOld, L1, guarded, response, fresh, answer, faults>>
    BY DEF Hit, database, cache, responseCache
<1>3. faults' \in 0 .. MaxFaults
    BY <1>2 DEF IInv, TypeOK
<1>4. QED
    BY <1>1, <1>2, <1>3, NextQuery, QuietStep DEF Labels

LEMMA QueryStep == ASSUME IInv, NEW r \in Requests, Query(r) PROVE IInv'
<1>1. /\ pc' = [pc EXCEPT ![r] = "put"] /\ answer' = [answer EXCEPT ![r] = Source(at[r])]
      /\ UNCHANGED <<stage, rows, views, viewsOld, L1, guarded, response, fresh, at, got, faults>>
    BY DEF Query, Goto, database, cache, responseCache
<1>2. Source(at[r]) \subseteq Messages
    BY DEF Source, IInv, TypeOK
<1>3. TypeOK'
    BY <1>1, <1>2 DEF IInv, TypeOK, Labels
<1>4. ResponseInv'
    BY <1>1 DEF IInv, TypeOK, ResponseInv
<1>5. FreshInv'
  <2>1. \A kind \in Kinds : Source(kind)' = Source(kind)
      BY <1>1 DEF Source
  <2>2. QED
      BY <1>1, <2>1 DEF IInv, TypeOK, FreshInv
<1>6. QED
    BY <1>3, <1>4, <1>5 DEF IInv

LEMMA PutStep == ASSUME IInv, NEW r \in Requests, Put(r) PROVE IInv'
<1>1. /\ pc[r] = "put" /\ answer[r] \subseteq Messages /\ TakeAnswer(r, "put", answer[r])
      /\ L1' = [L1 EXCEPT ![at[r]] = answer[r]] /\ answer' = [answer EXCEPT ![r] = {}]
      /\ UNCHANGED <<stage, rows, views, viewsOld, guarded, response, fresh, faults>>
    BY DEF Put, TakeAnswer, Goto, database, responseCache, IInv, TypeOK
<1>2. PICK to \in {"look up", "respond"} : pc' = [pc EXCEPT ![r] = to]
    BY <1>1, NextQuery
<1>3. /\ at' \in [Requests -> Kinds] /\ \A x \in Requests : x # r => at'[x] = at[x]
      /\ got' \in [Requests -> SUBSET Messages]
    BY <1>1, NextQuery
<1>4. TypeOK'
    BY <1>1, <1>2, <1>3 DEF IInv, TypeOK, Labels, Answers
<1>5. ResponseInv'
    BY <1>1, <1>2 DEF IInv, TypeOK, ResponseInv
<1>6. FreshInv'
  <2>1. \A kind \in Kinds : Source(kind)' = Source(kind)
      BY <1>1 DEF Source
  <2>2. \A x \in Requests : pc'[x] = "put" => x # r /\ pc[x] = "put" /\ answer'[x] = answer[x] /\ at'[x] = at[x]
      BY <1>1, <1>2, <1>3 DEF IInv, TypeOK
  <2>3. at[r] \in Kinds /\ guarded[at[r]] \subseteq answer[r]
      BY <1>1 DEF IInv, TypeOK, FreshInv
  <2>4. \A kind \in Kinds : L1'[kind] # None => guarded[kind] \subseteq L1'[kind]
      BY <1>1, <2>3 DEF IInv, TypeOK, FreshInv
  <2>5. \A kind \in Kinds : guarded'[kind] \subseteq Source(kind)'
      BY <1>1, <2>1 DEF IInv, FreshInv
  <2>6. \A kind \in Kinds : \A x \in Requests :
           pc'[x] = "put" /\ at'[x] = kind => guarded'[kind] \subseteq answer'[x]
      BY <1>1, <2>2 DEF IInv, FreshInv
  <2>7. QED
      BY <1>1, <2>4, <2>5, <2>6 DEF FreshInv
<1>7. QED
    BY <1>4, <1>5, <1>6 DEF IInv

LEMMA RespondStep == ASSUME IInv, NEW r \in Requests, Respond(r) PROVE IInv'
<1>1. UNCHANGED <<stage, rows, views, viewsOld, L1, guarded, at, answer, got, faults>>
    BY DEF Respond, database, cache
<1>2. PICK to \in {"answer", "expiry"} : pc' = [pc EXCEPT ![r] = to]
    BY DEF Respond, Goto
<1>3. /\ response' \in Answers /\ fresh' \in BOOLEAN
      /\ response # None => response' # None
      /\ fresh' \/ to = "expiry" => response' # None
  <2>1. got[r] \in Answers /\ got[r] # None
      BY CacheAssumption DEF IInv, TypeOK, Answers
  <2>2. pc'[r] = to
      BY <1>2 DEF IInv, TypeOK
  <2>3. CASE pc'[r] = "answer" /\ UNCHANGED responseCache
      BY <2>2, <2>3 DEF responseCache, IInv, TypeOK, ResponseInv
  <2>4. CASE response' = got[r] /\ UNCHANGED fresh
      BY <2>1, <2>4 DEF IInv, TypeOK
  <2>5. CASE pc[r] = "expiry" /\ fresh' = TRUE /\ UNCHANGED response
      BY <2>5 DEF IInv, TypeOK, ResponseInv
  <2>6. QED
      BY <2>3, <2>4, <2>5 DEF Respond, Goto, IInv, TypeOK
<1>4. TypeOK'
    BY <1>1, <1>2, <1>3 DEF IInv, TypeOK, Labels
<1>5. ResponseInv'
    BY <1>2, <1>3 DEF IInv, TypeOK, ResponseInv
<1>6. FreshInv'
    BY <1>1, <1>2 DEF IInv, TypeOK, FreshInv, Source
<1>7. QED
    BY <1>4, <1>5, <1>6 DEF IInv

LEMMA NextStep == IInv /\ [Next]_vars => IInv'
<1> SUFFICES ASSUME IInv, [Next]_vars PROVE IInv'
    OBVIOUS
<1>1. ASSUME NEW r \in Requests, ServeCached(r) \/ Recompute(r) \/ Metrics(r) PROVE IInv'
    BY <1>1, RefreshStep, ServeStep, HitStep, QueryStep, PutStep, RespondStep DEF Metrics
<1>2. CASE UNCHANGED vars
    BY <1>2 DEF vars, database, cache, responseCache, request, IInv, TypeOK, ResponseInv, FreshInv, Source
<1>3. QED
    BY <1>1, <1>2, CommitStep, EvictStep, WritePathStep, RefreshStep DEF Next

(***************************************************************************)
(* Neither an entry nor a result on its way into a cache lacks a message   *)
(* guarded against; the expiry time is set after the response.             *)
(***************************************************************************)
THEOREM InductiveInvariant == Spec => []IInv
BY InitInv, NextStep, PTL DEF Spec

(***************************************************************************)
(* Types; the views never count a message the table has not.               *)
(***************************************************************************)
THEOREM TypeInvariant == Spec => []TypeOK
<1>1. IInv => TypeOK
    BY DEF IInv
<1>2. QED
    BY <1>1, InductiveInvariant, PTL

(***************************************************************************)
(* There is a response whenever the expiry time lies ahead.                *)
(***************************************************************************)
THEOREM ResponseThere == Spec => []ResponseReady
<1>1. IInv => ResponseReady
    BY DEF IInv, ResponseInv, ResponseReady
<1>2. QED
    BY <1>1, InductiveInvariant, PTL

(***************************************************************************)
(* Readers that queried after an eviction, or before the message could be  *)
(* read, never undo it.                                                    *)
(***************************************************************************)
THEOREM EvictionLasts == Spec => []EvictedStaysFresh
<1>1. IInv => EvictedStaysFresh
    BY DEF IInv, FreshInv, EvictedStaysFresh
<1>2. QED
    BY <1>1, InductiveInvariant, PTL
=============================================================================
