CONSTANTS
    Sessions = {s1}
    MaxRequests = 2
    Instances = {i1, i2}
    MaxFaults = 2
SPECIFICATION Spec
INVARIANTS TypeOK Conversation HeardOnce
PROPERTIES EnqueuedIsHeard
CHECK_DEADLOCK FALSE
