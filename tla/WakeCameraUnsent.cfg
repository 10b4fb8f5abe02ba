CONSTANT Ports = {32320, 12320}
SPECIFICATION WakeSpec
INVARIANT FailedMeansUnsent
CHECK_DEADLOCK FALSE
