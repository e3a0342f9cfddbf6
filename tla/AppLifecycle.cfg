\* The program calls close() twice, a signal once; a request outlives the drain.
CONSTANTS
    Instances = 2
    Jobs = 2
    Requests = {r1}
    Probes = {p1}
    Closers = {program, again, signal}
    Signals = {signal}
SPECIFICATION FairSpec
CHECK_DEADLOCK FALSE
INVARIANTS
    TypeOK
    OrderlyShutdown
    ReleasedUnlessHookThrew
PROPERTIES
    CloseSettles
