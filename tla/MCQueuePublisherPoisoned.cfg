CONSTANTS
    Threads = {t1, t2}
    Channels = {c1, c2}
    None = None
    FailureThreshold = 2
    MaxOutages = 2
    Unserialisable = FALSE
SPECIFICATION Spec
PROPERTY NoPermanentDowntime
