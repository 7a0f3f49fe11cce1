SPECIFICATION Spec
CONSTANTS
    MaxTry = 1
    BootRounds = 3
    MaxLoad = 2
    Seconds = 2
    MaxBytes = 3
INVARIANT
    ClearsOnlyCleared
