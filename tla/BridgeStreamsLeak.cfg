CONSTANTS
    r1 = r1
    r2 = r2
    Viewers = {r1, r2}
    Main = Main
    None = None
    Exits = {"silent"}
    Shutdown = FALSE
    Mixes <- MCOne
    AppIdle = {60}
    Requested = {5, 120}
SPECIFICATION BridgeSpec
INVARIANTS
    NeverLeaksSubscription
CHECK_DEADLOCK FALSE
