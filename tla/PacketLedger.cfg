SPECIFICATION Spec
CONSTANTS
    audio = audio
    video = video
    other = other
    Streams <- MCStreams
    Foreign <- MCForeign
    Packets <- MCPackets
    Warmup = 1
    MaxFaults = 1
INVARIANTS
    CursorIsLeastUnseen
    Conservation
    CountersMatchHistory
PROPERTY ImplementsAudit
CHECK_DEADLOCK FALSE
