CONSTANTS
    Cids = {2, 320}
    Lengths = {0, 2, 4}
    ChunkSizes = {1, 2}
    Deltas = {0, 2}
    Extended = 3
    Wrap = 5
    MaxMessages = 3
    MaxWire = 1
SPECIFICATION Spec
INVARIANTS
    TypeOK
    ReceivedIsSent
CHECK_DEADLOCK FALSE
