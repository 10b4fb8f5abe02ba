CONSTANTS
    r1 = r1
    r2 = r2
    Relays = {r1, r2}
    NatPorts = {0, 1}
    None = None
SPECIFICATION Spec
INVARIANTS
    BindingIsClosed
CHECK_DEADLOCK FALSE
