\* Three callers: two late calls can meet the probe of a third one.
CONSTANTS
    Calls = {c1, c2, c3}
    FailureThreshold = 2
    SuccessThreshold = 2
    CooldownMs = 2
SPECIFICATION FairSpec
INVARIANTS
    TypeOK
    NeverLate
    CoolsDownFirst
PROPERTIES
    NeverEarly
    OpenIsNotForever
