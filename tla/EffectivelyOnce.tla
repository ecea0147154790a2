--------------------------- MODULE EffectivelyOnce ---------------------------
(***************************************************************************)
(* What the broker and the consumers promise together: `at-least-once +    *)
(* dedup = effectively-once' (ARCHITECTURE.md), with the exceptions spelt  *)
(* out.  A message is kept until it has been processed, and processed      *)
(* once -- except that a crash may lose what a process held, and that a    *)
(* message without a claim to its name may be processed again.             *)
(***************************************************************************)
EXTENDS Naturals

CONSTANT Messages

VARIABLES state,   \* [Messages -> whether somebody still owes its processing]
          times,   \* [Messages -> how often it was processed, 2 means several]
          exempt,  \* messages that no claim protects
          lost     \* messages that a crash took out of a process

onceVars == <<state, times, exempt, lost>>

Arrive(m) ==
    /\ state[m] = "absent"
    /\ state' = [state EXCEPT ![m] = "kept"]
    /\ UNCHANGED <<times, exempt, lost>>

Exempt(m) ==
    /\ state[m] = "kept"
    /\ exempt' = exempt \cup {m}
    /\ UNCHANGED <<state, times, lost>>

\* Fault: a redelivered message is processed like a new one.
ProcessAgain(m) ==
    /\ state[m] = "kept"
    /\ times' = [times EXCEPT ![m] = IF @ < 2 THEN @ + 1 ELSE 2]
    /\ UNCHANGED <<state, exempt, lost>>

Process(m) ==
    /\ state[m] = "kept"
    /\ m \in exempt \/ times[m] = 0
    /\ times' = [times EXCEPT ![m] = IF @ < 2 THEN @ + 1 ELSE 2]
    /\ UNCHANGED <<state, exempt, lost>>

\* Of the messages let go, each was processed or is lost.
LetGo(released) ==
    /\ \A m \in released : state[m] = "kept" /\ (times[m] > 0 \/ m \in lost')
    /\ state' = [m \in Messages |-> IF m \in released THEN "gone" ELSE state[m]]

Release(m) == lost' = lost /\ LetGo({m}) /\ UNCHANGED <<times, exempt>>

Crash ==
    \E held, released \in SUBSET {m \in Messages : state[m] # "absent"} :
        lost' = lost \cup held /\ LetGo(released) /\ UNCHANGED <<times, exempt>>

OnceInit ==
    /\ state \in [Messages -> {"absent", "kept"}]
    /\ times = [m \in Messages |-> 0]
    /\ exempt \in SUBSET Messages /\ lost = {}

OnceNext ==
    \/ \E m \in Messages : Arrive(m) \/ Exempt(m) \/ Process(m) \/ Release(m)
    \/ Crash

OnceSpec == OnceInit /\ [][OnceNext]_onceVars
=============================================================================
