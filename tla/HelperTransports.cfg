CONSTANTS
    Stalls = TRUE
SPECIFICATION HelperSpec
INVARIANTS
    Amd64LeavesQuiet
    ZeroIsEarned
PROPERTIES
    OneContract
    ToldToStopEnds
CHECK_DEADLOCK FALSE
