\* Two messages, so that the failures of one open the breaker for the other.
CONSTANTS
    Messages = {m1, m2}
    MaxAttempts = 3
    HasDlq = TRUE
    Prefetch = 2
    MaxFaults = 1
    FailureThreshold = 2
    SuccessThreshold = 1
    CooldownMs = 1
SPECIFICATION FairSpec
CHECK_DEADLOCK FALSE
INVARIANTS
    TypeOK
    AtMostOneCopy
    Conserved
    CallsBounded
PROPERTIES
    EveryMessageSettles
