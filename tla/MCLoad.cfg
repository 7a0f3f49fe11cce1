CONSTANTS
    Clients = {a, b}
    Slots = {0, 1}
    Cards = {1}
    Nums = {1, 2}
    LinkSlots = {1}
    MaxLen = 2
    MaxLoad = 3
    MaxCount = 1
    MaxHurt = 1
    NFds = 4
    ChipNum = 1
    ChipLoads = 2
    CardLen = 1
    CardFds = 3
SPECIFICATION MCSpec
CHECK_DEADLOCK FALSE
SYMMETRY Symmetry
INVARIANTS
    OwnBytes
    FdsSound
    LoadingIsTrue
    ShownIsLoaded
