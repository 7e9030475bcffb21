SPECIFICATION FairSpec
CONSTANTS
    r1 = r1
    r2 = r2
    p1 = p1
    p2 = p2
    p3 = p3
    None = None
    Rooms <- MCRooms
    Peers <- MCPeers
    Room <- MCRoom
    Work <- MCWork
    MaxFailures = 2
INVARIANTS
    OneOrigin
    PhasesComeOneByOne
    SuccessHidesNothing
PROPERTIES
    MediaInsidePhase
    ImplementsLockstep
    RunEnds
