SPECIFICATION Spec
CONSTANTS
    Conns = {c1, c2, c3}
    None = None
INVARIANTS
    RegistrationInv
PROPERTIES
    KillClosesAll
    StopCompletes
CHECK_DEADLOCK FALSE
