SPECIFICATION ComparisonSpec
CONSTANTS
    AudioRate = 50
    VideoRate = 30
    KeyframeInterval = 60
    Fragments <- MCFragments
    MaxOffered = 100000000
    MaxDeliveries = 1000000000
    Candidates <- MCCandidates
    Compared <- MCCompared
    MaxPerSide = 3
    MaxDefects = 2
    None = None
INVARIANTS
    PlanIsExpectation
    StreamsAreTold
    KeyTellsScenariosApart
    VerdictsAreEarned
    DashboardsAreTables
CHECK_DEADLOCK FALSE
