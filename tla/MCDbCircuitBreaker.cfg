CONSTANTS
    Writers = {w1, w2, w3}
    FailureThreshold = 2
SPECIFICATION BreakerSpec
PROPERTIES ClosesAfterRecovery OpensUnderFailure
