SPECIFICATION Spec
CONSTANTS
    Timers = {x, y}
    Periodic = {x}
    NoTimer = NoTimer
    TickMax = 7
    MaxTime = 2
    MaxLate = 2
    MaxSlip = 1
INVARIANT SuspendedWithoutTimer
