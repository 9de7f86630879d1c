CONSTANTS
    v1 = v1
    v2 = v2
    Null = Null
    Viewers = {v1, v2}
    HeaderLen = 1
    Totals = {2, 4, 5}
    Lengths = {Null, 1, 2, 3}
    ResponseSize = 4
    CacheSize = 3
    AvioSize = 3
    MuxSize = 3
SPECIFICATION Spec
SYMMETRY Symmetry
CONSTRAINT SecondOfShort
INVARIANTS
    TypeOK
    ViewersGetARun
    NothingLostOnTheWay
    MuxIsDrained
CHECK_DEADLOCK FALSE
