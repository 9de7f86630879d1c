CONSTANTS
    Conns = {c1}
SPECIFICATION Spec
INVARIANT ErrorGoesToCoroutine
CHECK_DEADLOCK FALSE
