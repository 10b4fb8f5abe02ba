CONSTANTS
    Capacity = 3
    Chunks = 6
SPECIFICATION FairSpec
INVARIANTS
    ClosedIsWoken
PROPERTIES
    CloseEndsIteration
    HelperEndEndsIteration
CHECK_DEADLOCK FALSE
