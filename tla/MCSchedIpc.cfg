SPECIFICATION Spec
CONSTANTS
    a = a b = b c = c
    Idle = idle
    NoThread = NoThread
    Threads = {idle, a, b, c}
    NPrio = 3
    Waits = {w}
    PrioWaits = {w}
    Slice <- MCSlice
    Prios <- MCFixed
    MaxTime = 1
    MaxLock = 1
    Ops = {"yield", "sleep", "ipc", "isripc", "lock", "detach", "reset", "tick"}
SYMMETRY SymBC
INVARIANTS TimeoutFindsSuspended ContextIntact HighestRuns SleeperHasTimer DrainFindsWaiter
PROPERTY LockKeepsThread
