CONSTANTS
    Clients = {a, b, c}
    Chans = {0}
    Chips = {1, 2}
    Slots = 2
    NoClient = NoClient
    SClients = {1, 2, 4}
    SHosts = {"x", "y"}
    SIds = {"a", "b"}
    SPresent = {"a"}
    SMaxCmd = 5
    SMaxProbes = 0
    BMaxCells = 3
    BStreams = {"a", "b"}
    BLenMax = 2
    BMaxFrames = 4
    BMaxVec = 1
    BMaxKeys = 3
    BBlocks = 1
    GMaxCells = 6
    GLenMax = 3
    GHdr = 2
    GSearch = 2
SPECIFICATION MCSpec
SYMMETRY Symmetry
INVARIANTS
    ReadersSound
    ServedOnce
    SubsSound
    BlockSound
    
PROPERTIES
    FilesKept
    DispatchEnds
