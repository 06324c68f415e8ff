SPECIFICATION Spec
CONSTANTS
    c1 = c1
    c2 = c2
    Conns = {c1, c2}
    PoolSize = 2
    Scripts <- TwoClients
    LoggedIn = {c1}
    Leavers = {c2}
    None = None
INVARIANTS
    OutputInv
    QueuedHasWriter
PROPERTIES
    ReceiptCloses
    
    StopEnds
CHECK_DEADLOCK FALSE
