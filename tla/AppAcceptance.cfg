CONSTANTS
    Attempts = 3
    Capacity = 2
    Ports = {32320, 12320}
SPECIFICATION AppSpec
INVARIANTS
    CameraReadyIsEarned
    RequestedWasSent
    AttemptLeavesNothing
    PassedMeansClean
PROPERTIES
    StopExits
CHECK_DEADLOCK FALSE
