SPECIFICATION Spec
CONSTANTS
    Names = {a, b}
    Passwords = {p}
    Conns = {c1, c2}
    SubIds = {"0", "1", "2"}
    ServerTopic = ServerTopic
    None = None
    MaxQueue = 1
    MaxMentions = 1
SYMMETRY Symmetry
INVARIANTS
    TypeOK
    SubscriberHoldsId
    SelfFollow
    WalkCoversSubscribers
    SubscriberGetsOneCopy
