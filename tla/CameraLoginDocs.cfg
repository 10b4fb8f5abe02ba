\* What the repository says and the code does not do. TLC stops at the first of
\* these; remove the one it has reported to see the next.
CONSTANTS
    Others = 2
SPECIFICATION Spec
INVARIANTS
    AcceptedIsRight
    IndexNamesTheCredential
CHECK_DEADLOCK FALSE
