CONSTANTS
    Asks <- MCAsks
    BuffSize = 25
SPECIFICATION FairSpec
INVARIANT TypeOK
PROPERTIES
    WholeRequestIsUnderstood
    NoEarlyAnswer
    WholeRequestIsServed
    ParseEnds
CHECK_DEADLOCK FALSE
