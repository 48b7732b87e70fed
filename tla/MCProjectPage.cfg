CONSTANTS
    p1 = p1
    p2 = p2
    v1 = v1
    v2 = v2
    FirstDevices <- MCFirstDevices
    Vehicles = {v1, v2}
    Projects = {p1, p2}
    NoProject = NoProject
    Undefined = Undefined
    CAPACITY = 2
    MAX_ALERTS = 1
    MAX_FEED_ROWS = 2
    FirstDelay = 2
    DelayCap = 3
    MaxInstances = 2
    MaxRequests = 3
    MaxFrames = 3
    MaxDrops = 1
SPECIFICATION FairSpec
INVARIANTS
    OneSocket
    RingKeepsNewest
    FollowsDevices
    OtherProjectOnlyAfterJump
PROPERTIES
    ImplementsLiveContract
    FeedFromCurrentDevices
    FrameShown
    Reconnects
CHECK_DEADLOCK FALSE
