SPECIFICATION FairSpec
CONSTANTS
    a = a b = b c = c
    Idle = idle
    NoThread = NoThread
    Threads = {idle, a, b}
    NPrio = 3
    Waits = {w}
    PrioWaits = {}
    Slice <- MCSlice
    Prios <- MCEqual
    MaxTime = 2
    MaxLock = 1
    Ops = {"yield", "sleep", "tick"}
PROPERTIES SleepEnds RoundRobin
