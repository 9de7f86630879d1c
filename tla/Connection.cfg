CONSTANTS
    Conns = {c1, c2}
SPECIFICATION Spec
INVARIANTS
    TypeOK
    StopMeansHandlerOver
    OpenWhileUsed
PROPERTIES
    GoneIsClosed
    OutputEndsConnection
CHECK_DEADLOCK FALSE
