CONSTANTS
    N = 3
    HLen = 2
    RLen = 1
    BufLen = 4
    BodyMax = 3
    Kinds = {"cmd", "data", "key", "nosync"}
    Positions = {0, 2, 3, 4, 5, 6, 7, 8, 10}
SPECIFICATION FairSpec
INVARIANTS
    FramesIntact
    
PROPERTIES
    
    ImplementsFrameService
CHECK_DEADLOCK FALSE
