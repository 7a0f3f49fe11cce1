CONSTANTS
    Clients = {1, 2}
    Prios = {0}
    Busy = {0}
    MaxRound = 1
    MaxCmd = 2
    MaxConn = 2
    NoClient = 0
    Chips = {513, 514, 1281, 1283}
    Funcs = {0, 1, 255}
    Ports = {0, 3}
    MaxSubs = 2
    Names = {"a", "b"}
    Slots = {0, 1, 2}
    MaxThreads = 4
SPECIFICATION MCSpec
INVARIANTS
    KeysExact
    
PROPERTIES
    WaitsEnd
    PumpServes
