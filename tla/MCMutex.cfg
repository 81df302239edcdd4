SPECIFICATION BoundedSpec
CONSTANTS
    a = a b = b c = c
    m1 = m1 m2 = m2
    Idle = idle
    NoThread = NoThread
    Threads = {idle, a, b, c}
    NPrio = 4
    Waits = {m1, m2}
    PrioWaits = {m1, m2}
    BasePrio <- MCBase
    MaxHold = 2
    Ceilings = {1}
SYMMETRY SymMutex
INVARIANTS TypeOK Ownership TakeTellsOwner RestoredWithoutTimeout Inherited WaitersSorted
