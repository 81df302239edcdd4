SPECIFICATION Spec
CONSTANTS
    Works = {u, v}
    Delayed = {u}
    NoWork = NoWork
    Callers = {c, d}
    Once = TRUE
INVARIANTS TypeOK WorkerAwake CancelHolds TimerAssertions
PROPERTIES WorkExecuted CancelSyncReturns
