SPECIFICATION ProfileSpec
CONSTANTS
    MaxCount = 4
    KernelFrames = {"0x0_[k]"}
    UnresolvedFrames = {"0x0_[k]"}
    MaxRuns = 3
    MaxPrepares = 2
    Foldings <- MCFoldings
INVARIANTS
    RenderedIsOneCapture
    PreparedIsAccepted
    CaptureStaysUsable
    ProfileCountsAgree
CHECK_DEADLOCK FALSE
