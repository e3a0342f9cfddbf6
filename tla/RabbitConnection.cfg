\* One loss and two rejected set-ups: enough for two overlapping loops and for
\* a connection left behind whose close event hits the healthy one.
CONSTANTS
    Publishers = {p1}
    Setups = 2
    RetryLimits = {0, 2}
    MaxDrops = 1
    MaxRejects = 2
SPECIFICATION FairSpec
CHECK_DEADLOCK FALSE
INVARIANTS
    TypeOK
    CurrentIsOpen
PROPERTIES
    Reconnects
    LoopsStop
    AwaitedChannelArrives
