\* Two callers and two writers: a slow fill and a slow set can both come after
\* the delete of a newer value; version 1 is one without a value.
CONSTANTS
    Callers = {c1, c2}
    Writers = {w1, w2}
    TtlSeconds = 2
    EmptyVersions = {1}
    MaxWrites = 2
    MaxFaults = 1
SPECIFICATION FairSpec
INVARIANTS
    TypeOK
    NothingOlderAfterQuietDelete
PROPERTIES
    StaleExpires
