CONSTANTS
    Ifs = {e0, e1}
    Devs = {e0, e1, lo}
    Names = {e0, e1, lo, xx}
    NoName = NoName
    Slots = {s2}
    ValidSlots = {s2, s3}
    Addrs = {1, 2}
    NoRoute = NoRoute
    Ports = {5000, 5001}
    Absent = Absent
    Bad = Bad
    Empty = Empty
    None = None
    MaxReqs = 2
    MaxEnds = 1
    MaxUpdates = 1
    Chs = {0, 2}
    ByteValues = {1, 2, 127, 200, 255, 256}
    WordValues = {0, 1, 2048, 3125, 6250, 8192, 40000, 70000}
    FixedBws = {20000000}
    MaxSets = 2
    MaxThreads = 2
    MaxFd = 3
    SizeAsked = 2
    SplitAt = 1
    BlockSizes = {1, 2}
    Bound = 2
    Files = {"f1", "f2"}
    MaxSize = 3
    Chunk = 2
    MaxGets = 2
    MaxEdits = 2
SPECIFICATION MCSpec
CHECK_DEADLOCK FALSE

    
    
    
    
PROPERTIES
    RequestSteps
    SendEnds
