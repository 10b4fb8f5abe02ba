CONSTANTS
    Capacity = 2
    Chunks = 5
SPECIFICATION Spec
INVARIANTS
    DropsOnlyOlder
CHECK_DEADLOCK FALSE
