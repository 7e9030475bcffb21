SPECIFICATION Spec
CONSTANTS
    TicksPerSecond = 100
    None = None
    MaxClock <- MCMaxClock
    MaxTicks <- MCMaxTicks
    MaxErrors = 1
INVARIANTS
    SmoothedFanoutWithinPhase
CHECK_DEADLOCK FALSE
