SPECIFICATION MCSpec
CONSTANTS
    Processor = {p1, p2}
    SlotID = {1, 2}
    MaxRound = 2
    Acceptor = {a1, a2, a3}
    NumLearners = 2
    NumProposers = 2
    ChanSize = 1
    MaxSlot = 3
    Alpha = 2
    QueueSize = 2
    UintSize = 16
    MaxRequests = 2
    Reports = {}
    MaxVRnd = 0
    Clients <- MCClients
    MaxSeq = 1
    MaxBatch = 2
    BatchMaxReq = 2
CHECK_DEADLOCK FALSE
INVARIANT InOrder
