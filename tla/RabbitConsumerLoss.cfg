\* One message and one lost connection.
CONSTANTS
    Messages = {m1}
    MaxAttempts = 2
    HasDlq = TRUE
    Prefetch = 2
    MaxFaults = 1
    FailureThreshold = 2
    SuccessThreshold = 1
    CooldownMs = 1
SPECIFICATION Spec
CHECK_DEADLOCK FALSE
INVARIANTS
    NothingLost
