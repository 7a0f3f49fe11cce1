CONSTANTS
    Clients = {1, 2}
    Prios = {0, 1}
    MaxRound = 2
    MaxCmd = 2
    MaxConn = 2
    Busy = {0}
    NoClient = 0
SPECIFICATION Spec
INVARIANTS
    CountSound
    BlockHeld
PROPERTIES
    NoRepeats
CHECK_DEADLOCK FALSE
