CONSTANTS
    r1 = r1
    r2 = r2
    Viewers = {r1, r2}
    Main = Main
    None = None
    Exits = {"silent"}
    Shutdown = FALSE
    Mixes <- MCMixes
    AppIdle = {60}
    Requested = {5, 120}
SPECIFICATION BridgeFairSpec
PROPERTIES
    StopsAfterLast
CHECK_DEADLOCK FALSE
