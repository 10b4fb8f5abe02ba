CONSTANTS
    Others = 2
SPECIFICATION Spec
INVARIANTS
    InSync
    OutcomesAreTrue
    VerdictIsTrue
CHECK_DEADLOCK FALSE
