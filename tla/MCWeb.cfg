CONSTANTS
    Plain = {"1"}
    Dotted = {"f.x"}
    MaxRequests = 2
SPECIFICATION MCSpec
CHECK_DEADLOCK FALSE
INVARIANTS
    RequestRight
