CONSTANTS
    Fds = {"a", "b"}
    EdgeFds = {"b"}
    MaxEvents = 2
    MaxOps = 4
    MaxSignals = 1
SPECIFICATION MCSpec
CHECK_DEADLOCK FALSE
INVARIANTS
    EventsSound
PROPERTIES
    EventsServed
    
    HttpEnds
