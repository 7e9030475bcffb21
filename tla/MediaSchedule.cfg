SPECIFICATION MediaSpec
CONSTANTS
    AudioRate = 50
    VideoRate = 30
    KeyframeInterval = 60
    Fragments <- MCFragments
    MaxOffered = 100000000
    MaxDeliveries = 1000000000
    Candidates <- MCScenarios
    AudioInterval = 20000
    VideoInterval = 33333
    WarmupPackets = 5
    WarmupFrames = 2
INVARIANTS
    OfferIsPlan
    NumberingIsExpected
    TurnsWithinTarget
PROPERTIES
    TurnsInOrder
CHECK_DEADLOCK FALSE
