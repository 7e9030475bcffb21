SPECIFICATION Spec
CONSTANTS
    TicksPerSecond = 100
    None = None
    MaxClock <- MCShortClock
    MaxTicks = 0
    MaxErrors = 0
INVARIANTS
    FaultlessIsComplete
CHECK_DEADLOCK FALSE
