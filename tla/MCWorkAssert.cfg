SPECIFICATION Spec
CONSTANTS
    Works = {u, v}
    Delayed = {u}
    NoWork = NoWork
    Callers = {c, d}
    Once = FALSE
INVARIANT HandlerHasQueue
