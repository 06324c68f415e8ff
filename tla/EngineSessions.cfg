SPECIFICATION Spec
CONSTANTS
    Names = {a, b}
    Passwords = {p, q}
    Conns = {c1, c2}
    SubIds = {"0", "1"}
    ServerTopic = ServerTopic
    None = None
    MaxQueue = 1
    MaxMentions = 1
INVARIANTS
    
    
    
    HeldOnlyUnauthorized
    
PROPERTIES
    OnlyOwnerChangesSubscriptions
    PostCompletes
    
