CONSTANTS
    Readers = {r1, r2}
    Keys = {k}
    MaxFiles = 3
    MaxPackets = 4
    Steps = {0, 1}
    MaxTime = 3
    Chunk = 1
    MuxBuffer = 2
    InitSize = 2
    Growth = 2
    SizeLimit = 10
    SegmentMs = 1
SPECIFICATION Spec
INVARIANTS
    TypeOK
    NoMissedBroadcast
    CurrentIsCached
    OneWriteIsDelivered
CHECK_DEADLOCK FALSE
