SPECIFICATION Spec
CONSTANTS
    TicksPerSecond = 100
    None = None
    MaxClock <- MCMaxClock
    MaxTicks <- MCMaxTicks
    MaxErrors <- MCMaxErrors
INVARIANTS
    AverageIsWholeWindow
    PhasesReachTheReport
    SmoothedWithinPhase
CHECK_DEADLOCK FALSE
