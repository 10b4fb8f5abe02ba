CONSTANTS
    q1 = q1
    Requests = {q1}
SPECIFICATION Spec
INVARIANTS
    StillNeverWakes
CHECK_DEADLOCK FALSE
