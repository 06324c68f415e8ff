SPECIFICATION TokenizerSpec
CONSTANTS
    f1 = f1
    f2 = f2
    f3 = f3
    Frames = {f1, f2, f3}
    Wide = {}
    Sent <- ThreeFrames
    PoolSize = 3

    
PROPERTIES
    AllHandedOut
