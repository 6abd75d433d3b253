SPECIFICATION Spec
CONSTANTS
    v1 = v1
    v2 = v2
    a1 = a1
    a2 = a2
    a3 = a3
    Proposer = {0, 1}
    Acceptor = {a1, a2, a3}
    Learner = {}
    Value = {v1, v2}
    None = None
    MaxSlot = 1
    MaxRnd <- ThreeRounds
    Requests <- OneRequestEach
    Alpha = 1
    ResendThreshold = 1
    MaxQueue = 1
SYMMETRY Symmetry
CHECK_DEADLOCK FALSE
INVARIANTS
    ChosenUnique
    PromiseComplete
    ResendsOwnAccepts
