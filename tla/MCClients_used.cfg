SPECIFICATION MCSpec
CONSTANTS
    Replica = {r1}
    Nobody = Nobody
    BatchMaxSize = 1
    MaxSeq = 1
    MaxBreaks = 0
    MaxLost = 0
    MaxTrusts = 0
    Client = {"a"}
    MaxRequests = 2
    MaxConnections = 1
    MaxFrames = 2
CHECK_DEADLOCK FALSE
INVARIANT UsedByOne
