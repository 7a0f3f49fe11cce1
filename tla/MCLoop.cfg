CONSTANTS
    Timers = {t1, t2, t3}
    Delays = {1, 3}
    Starts = {999500}
    Ticks = {700, 1001}
    MaxNow = 1001510
    StreamBuf = 3
    Few = 2
    Writes = {1, 5}
    SndBuf = 2
    MaxSent = 4
    MaxWritten = 11
    MaxIn = 5
    BufLen = 3
    MaxPost = 1
    FileLen = 2
    MaxProbes = 2
SPECIFICATION MCSpec
INVARIANTS
    TimersSound
    StreamSound
    
PROPERTIES
    TimersInTime
