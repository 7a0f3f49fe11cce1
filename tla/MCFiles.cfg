CONSTANTS
    MaxFiles = 3
    WaitTicks = 2
    MaxFires = 3
    MaxTry = 1
    BootRounds = 3
    MaxLoad = 2
    Seconds = 2
    MaxBytes = 2
SPECIFICATION MCSpec
INVARIANTS
    NotifySound
    StatusSound

    
