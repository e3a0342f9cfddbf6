\* One event stream whose source sends nothing after the client has gone.
CONSTANTS
    create = create
    feed = feed
    ping = ping
    Requests = {feed}
    RouteOf <- MCRouteOf
    Key = key
    HeartbeatMs = 1
    MaxHits = 1
    WindowMs = 2
    SecondMs = 2
    MaxTime = 1
SPECIFICATION FairSpec
CHECK_DEADLOCK FALSE
PROPERTIES
    DisconnectReleases
