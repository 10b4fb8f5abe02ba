CONSTANTS
    Viewers = {v1, v2}
    Main = Main
    None = None
    Exits = {"clean", "silent"}
    Shutdown = TRUE
SPECIFICATION FairSpec
INVARIANTS
    TypeOK
    Consistent
    NoOrphan
    NoSilentDrop
PROPERTIES
    SharedSpec
    IdleHelperStops
CHECK_DEADLOCK FALSE
