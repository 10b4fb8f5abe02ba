\* What the repository says and the code does not do. TLC stops at the first of
\* these; remove the one it has reported to see the next.
CONSTANTS
    Stalls = TRUE
SPECIFICATION Spec
INVARIANTS
    TermDisconnects
    CaughtTermDisconnects
    StatusIsKnown
CHECK_DEADLOCK FALSE
