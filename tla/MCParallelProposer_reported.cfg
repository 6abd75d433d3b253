SPECIFICATION Spec
CONSTANTS
    Acceptor = {a1, a2, a3}
    NumProcessors = 2
    Alpha = 2
    QueueSize = 2
    UintSize = 16
    MaxSlot = 2
    MaxRequests = 2
    MaxRound = 2
    Reports = {1}
    MaxVRnd = 2
SYMMETRY Symmetry
INVARIANT ReportedProposed
