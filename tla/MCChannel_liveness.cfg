CONSTANTS
    r1 = r1
    r2 = r2
    c1 = c1
    Null = Null
    Requests = {r1, r2}
    SegmentRequests = {}
    Channels = {c1}
    MaxPending = 1
SPECIFICATION Spec
PROPERTIES
    StoppedViewerLeaves
    AbandonedChannelStops
    PoolForgetsTheDead
CHECK_DEADLOCK FALSE
