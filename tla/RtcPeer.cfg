SPECIFICATION Spec
CONSTANTS
    Offsets <- MCOffsets
    SettleTime = 1
    StartLead = 1
    PacketTimeout = 1
    DrainLimit = 2
    Target = 2
    MaxPackets = 3
    MaxOther = 2
    MaxStall = 2
    None = None
INVARIANTS
    ReadsInOrder
    TimersAreServed
PROPERTIES
    PacketsFollowTimeline
    PollMissesNothing
    PeerEnds
CHECK_DEADLOCK FALSE
