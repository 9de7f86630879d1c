CONSTANTS
    Packets <- MCPackets
    Tails <- MCTails
    Tables <- MCTables
SPECIFICATION Spec
INVARIANTS
    TypeOK
    CommandIsUnderstood
    SizeIsWritten
CHECK_DEADLOCK FALSE
