CONSTANTS
    Coros = {c1, c2}
    Socks = {l, s}
    Listener = l
    MaxChunks = 1
SPECIFICATION Spec
INVARIANTS
    TypeOK
    ConditionsAreTheWaiters
    WaiterIsWatched
PROPERTY ReadyIsServed
