SPECIFICATION SpecDelete
CONSTANTS
    a = a b = b
    Idle = idle
    NoThread = NoThread
    Threads = {idle, a, b}
    NPrio = 3
    Waits = {w}
    PrioWaits = {}
    Slice <- MCSlice
    Prios <- MCPrios
    MaxTime = 2
    MaxLock = 1
    Ops = {"create", "delete", "sleep", "tick"}
INVARIANT ClosedOffReadyTable
