SPECIFICATION MCSpec
CONSTANTS
    Node = {0, 1, 2}
    Self = 1
    Subscriber = {proposer, learner}
    FdCap = 2
    TrustCap = 1
    Bound = 2
    MaxTimeout = 2
CHECK_DEADLOCK FALSE
INVARIANTS
    SuspicionsReachLd
    TrustReachesSubscribers
PROPERTIES
    AllExecuted
    LeaderSettles
    RelbcAllLearn
    AllPublished
    ReconfigEnds
    HoldsEnd
    ReplacerActivates
    CommittedExecuted
    AllEnd
