SPECIFICATION FairSpec
CONSTANTS
    PeerCount = 3
    AudioPublishers = 1
    VideoPublishers = 2
    BatchDelay = 50
    RequestTimeout = 5000
    MaxFaults <- MCMaxFaults
    None = None
INVARIANTS
    CountMeansContent
    LoadPeersAreNegotiated
    EveryWaitIsServed
PROPERTIES
    TransportIsKept
    RoomEnds
