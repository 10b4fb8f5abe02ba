\* What the repository says and the code does not do. TLC stops at the first of
\* these; remove the one it has reported to see the next.
CONSTANTS
    Tokens = {t1, t2}
    Cameras = {cabin, barn}
    AppIdle = {60}
    Idle = {5, 30, 120}
SPECIFICATION EntrySpec
INVARIANTS
    TimeoutIsKept
PROPERTIES
    RefusedForCause
CHECK_DEADLOCK FALSE
