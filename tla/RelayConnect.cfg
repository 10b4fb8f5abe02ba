CONSTANTS
    r1 = r1
    r2 = r2
    Relays = {r1, r2}
    NatPorts = {0, 1}
    None = None
SPECIFICATION FairSpec
INVARIANTS
    PeerIsTheRelay
    BoundIsReleased
PROPERTIES
    Connects
CHECK_DEADLOCK FALSE
