CONSTANTS
    Messages = {m1}
    Requests = {r1, r2}
    Custom = {r2}
    MaxFaults = 1
    None = {none}
SPECIFICATION Spec
INVARIANTS TypeOK ResponseReady EvictedStaysFresh
PROPERTIES SelfHeals
