CONSTANTS
    r1 = r1
    r2 = r2
    h1 = h1
    c1 = c1
    c2 = c2
    Null = Null
    Requests = {r1, r2, h1}
    SegmentRequests = {h1}
    Channels = {c1, c2}
    MaxPending = 1
SPECIFICATION Spec
SYMMETRY Symmetry
INVARIANTS
    TypeOK
    StartedIsRunning
    NoStrandedViewer
    ExitTimeMeansDrained
    ViewerlessIsIdle
    IdleMeansNoInputOrOutput
CONSTRAINT SegmentInOneChannel
PROPERTY KillOnlyDrained
CHECK_DEADLOCK FALSE
