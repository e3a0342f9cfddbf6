\* A limit of one hit in a window of two ticks, and time for two windows: the
\* third hit shows whether the edge between them gives anything away.
CONSTANTS
    create = create
    feed = feed
    ping = ping
    Requests = {create, feed, ping}
    RouteOf <- MCRouteOf
    Key = key
    HeartbeatMs = 1
    MaxHits = 1
    WindowMs = 2
    SecondMs = 2
    MaxTime = 2
SPECIFICATION FairSpec
CHECK_DEADLOCK FALSE
INVARIANTS
    TypeOK
    AtMostTwiceTheLimit
    HandlerWasAdmitted
    AnswersAreReal
PROPERTIES
    RequestsAreAnswered
