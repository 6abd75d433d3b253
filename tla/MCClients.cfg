SPECIFICATION MCSpec
CONSTANTS
    Replica = {r1, r2}
    Nobody = Nobody
    BatchMaxSize = 2
    MaxSeq = 3
    MaxBreaks = 2
    MaxLost = 1
    MaxTrusts = 1
    Client = {"a"}
    MaxRequests = 2
    MaxConnections = 2
    MaxFrames = 2
SYMMETRY Symmetry
CHECK_DEADLOCK FALSE
INVARIANTS
    ExecutedAsSent
    FirstInOrder
    FlagsHaveOwner
