-------------------------- MODULE DbCircuitBreaker --------------------------
(***************************************************************************)
(* The circuit breaker of the write-behind path (consumer-v3,              *)
(* database/DbCircuitBreaker.java), shared by every DatabaseWriter thread. *)
(* It has no lock: state, failures and openedAt are three separate atomics,*)
(* so every read, write and compare-and-set of one of them is an action of *)
(* its own here and the steps of several writers interleave freely.        *)
(*                                                                         *)
(* pc[w] is the atomic operation writer w performs next.  The clock is     *)
(* abstracted to `cooled', "now - openedAt >= cooldownMs": stamping        *)
(* openedAt falsifies it and the passing of time makes it true.            *)
(*                                                                         *)
(* The calls are driven here by the least that DatabaseWriter does: ask    *)
(* isOpen, try to save, report the result, and after a failure either try  *)
(* again without asking (a retry) or ask again (the next batch).           *)
(* WriteBehind extends this module with the real writer loop.              *)
(***************************************************************************)
EXTENDS Integers

CONSTANTS Writers,          \* the DatabaseWriter threads
          FailureThreshold  \* failures that open the circuit

ASSUME BreakerAssumption == FailureThreshold \in Nat \ {0}

VARIABLES pc,        \* [Writers -> the next operation of the writer]
          state,     \* CLOSED, OPEN or HALF_OPEN
          failures,  \* AtomicInteger failures
          cooled     \* the cooldown since openedAt has elapsed

breaker == <<state, failures, cooled>>
breakerVars == <<pc, breaker>>

BreakerLabels ==
    {"isOpen", "cooldown", "probe", "refused", "save", "onSuccess", "reset",
     "succeeded", "onFailure", "restamp", "reopen", "count", "stamp", "trip",
     "failed"}

\* Writer w performs the operation labelled `from' and is at `to' after it.
Goto(w, from, to) == pc[w] = from /\ pc' = [pc EXCEPT ![w] = to]

(***************************************************************************)
(* boolean isOpen(): "refused" is the answer true, "save" the answer false.*)
(***************************************************************************)
ReadState(w) ==
    /\ Goto(w, "isOpen", IF state = "OPEN" THEN "cooldown" ELSE "save")
    /\ UNCHANGED breaker

ReadCooldown(w) ==
    /\ Goto(w, "cooldown", IF cooled THEN "probe" ELSE "refused")
    /\ UNCHANGED breaker

\* The result of the compare-and-set is not looked at: the writer proceeds.
Probe(w) ==
    /\ Goto(w, "probe", "save")
    /\ state' = IF state = "OPEN" THEN "HALF_OPEN" ELSE state
    /\ UNCHANGED <<failures, cooled>>

IsOpen(w) == ReadState(w) \/ ReadCooldown(w) \/ Probe(w)

(***************************************************************************)
(* void onSuccess()                                                        *)
(***************************************************************************)
\* Fault: the circuit is closed by a compare-and-set that expects OPEN.
CloseOnlyIfOpen(w) ==
    /\ Goto(w, "onSuccess", "reset")
    /\ state' = IF state = "OPEN" THEN "CLOSED" ELSE state
    /\ UNCHANGED <<failures, cooled>>

Close(w) ==
    /\ Goto(w, "onSuccess", "reset")
    /\ state' = "CLOSED"
    /\ UNCHANGED <<failures, cooled>>

ResetFailures(w) ==
    /\ Goto(w, "reset", "succeeded")
    /\ failures' = 0
    /\ UNCHANGED <<state, cooled>>

OnSuccess(w) == Close(w) \/ ResetFailures(w)

(***************************************************************************)
(* void onFailure()                                                        *)
(***************************************************************************)
Classify(w) ==
    /\ Goto(w, "onFailure", CASE state = "HALF_OPEN" -> "restamp"
                              [] state = "CLOSED"    -> "count"
                              [] state = "OPEN"      -> "failed")
    /\ UNCHANGED breaker

Stamp(w) ==
    /\ \/ Goto(w, "restamp", "reopen")
       \/ Goto(w, "stamp", "trip")
    /\ cooled' = FALSE
    /\ UNCHANGED <<state, failures>>

\* Fault: the circuit is reopened by a compare-and-set that expects CLOSED.
ReopenIfClosed(w) ==
    /\ Goto(w, "reopen", "failed")
    /\ state' = IF state = "CLOSED" THEN "OPEN" ELSE state
    /\ UNCHANGED <<failures, cooled>>

Reopen(w) ==
    /\ Goto(w, "reopen", "failed")
    /\ state' = "OPEN"
    /\ UNCHANGED <<failures, cooled>>

Count(w) ==
    /\ failures' = failures + 1
    /\ Goto(w, "count", IF failures' >= FailureThreshold THEN "stamp" ELSE "failed")
    /\ UNCHANGED <<state, cooled>>

Trip(w) ==
    /\ Goto(w, "trip", "failed")
    /\ state' = IF state = "CLOSED" THEN "OPEN" ELSE state
    /\ UNCHANGED <<failures, cooled>>

OnFailure(w) == Classify(w) \/ Stamp(w) \/ Reopen(w) \/ Count(w) \/ Trip(w)

BreakerStep(w) == IsOpen(w) \/ OnSuccess(w) \/ OnFailure(w)

\* Time passes: cooldownMs after openedAt.
Cooldown ==
    /\ ~cooled
    /\ cooled' = TRUE
    /\ UNCHANGED <<pc, state, failures>>

(***************************************************************************)
(* The callers, reduced to their calls.                                    *)
(***************************************************************************)
SaveSucceeds(w) == Goto(w, "save", "onSuccess") /\ UNCHANGED breaker
SaveFails(w)    == Goto(w, "save", "onFailure") /\ UNCHANGED breaker

NextCall(w) ==
    /\ \/ \E from \in {"refused", "succeeded", "failed"} : Goto(w, from, "isOpen")
       \/ Goto(w, "failed", "save")
    /\ UNCHANGED breaker

BreakerInit ==
    /\ pc = [w \in Writers |-> "isOpen"]
    /\ state = "CLOSED"
    /\ failures = 0
    /\ cooled = TRUE   \* openedAt is 0 until the circuit first opens

CallerStep(w) == BreakerStep(w) \/ SaveSucceeds(w) \/ SaveFails(w) \/ NextCall(w)

BreakerNext == Cooldown \/ \E w \in Writers : CallerStep(w)

\* Writer threads are scheduled and the clock advances.
BreakerFairness == WF_breakerVars(Cooldown) /\ \A w \in Writers : WF_breakerVars(CallerStep(w))

BreakerSpec == BreakerInit /\ [][BreakerNext]_breakerVars /\ BreakerFairness

-----------------------------------------------------------------------------
(***************************************************************************)
(* Once the database accepts every write again, the circuit closes and     *)
(* stays closed, whatever races between late failures, late successes and  *)
(* trial writes left behind in the three atomics.                          *)
(***************************************************************************)
ClosesAfterRecovery ==
    <>[][\A w \in Writers : ~SaveFails(w)]_breakerVars => <>[](state = "CLOSED")

(***************************************************************************)
(* While the database rejects every write, the circuit does not stay       *)
(* closed or half open: it is open again and again, so batches are diverted*)
(* from the dead database (lost increments and ignored compare-and-sets    *)
(* may delay this, never prevent it).                                      *)
(***************************************************************************)
OpensUnderFailure ==
    <>[][\A w \in Writers : ~SaveSucceeds(w)]_breakerVars => []<>(state = "OPEN")
=============================================================================
