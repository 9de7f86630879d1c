CONSTANTS
    Size = 4
    Byte = {0, 1}
    Null = Null
    Widths = {1, 2}
SPECIFICATION Spec
INVARIANTS
    TypeOK
    AreasFit
PROPERTY QueueSpec
