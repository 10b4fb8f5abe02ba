CONSTANTS
    Tokens = {t1, t2}
    Cameras = {cabin, barn}
    AppIdle = {60}
    Idle = {5, 30, 120}
SPECIFICATION EntrySpec
INVARIANTS
    TimeoutIsTheEntrys
PROPERTIES
    AcceptedLoads
CHECK_DEADLOCK FALSE
