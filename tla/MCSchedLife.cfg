SPECIFICATION Spec
CONSTANTS
    a = a b = b c = c
    Idle = idle
    NoThread = NoThread
    Threads = {idle, a, b}
    NPrio = 3
    Waits = {w}
    PrioWaits = {}
    Slice <- MCSlice
    Prios <- MCPrios
    MaxTime = 1
    MaxLock = 1
    Ops = {"create", "exit", "delete", "priority", "suspend", "resume", "isrresume", "ipc", "sleep", "tick"}
SYMMETRY SymAB
INVARIANTS TypeOK   LinkedOnce FreedUnused
