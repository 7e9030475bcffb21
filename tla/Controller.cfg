SPECIFICATION FairSpec
CONSTANTS
    StartupAttempts <- MCStartupAttempts
    MaxTicks <- MCMaxTicks
    MaxFailures <- MCMaxFailures
INVARIANTS
    SuccessIsEarned
    WorkEndsBeforeShutdown
    AcknowledgedIsPersisted
PROPERTIES
    RunReturns
