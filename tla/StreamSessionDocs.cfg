\* What the repository says and the code does not do. TLC stops at the first of
\* these; remove the one it has reported to see the next.
CONSTANTS
    Viewers = {v1, v2}
    Main = Main
    None = None
    Exits = {"silent"}
    Shutdown = FALSE
SPECIFICATION Spec
INVARIANTS
    CacheFromCurrentHelper
PROPERTIES
    IdleStopSparesViewers
    OnlyLatestTimerStops
CHECK_DEADLOCK FALSE
