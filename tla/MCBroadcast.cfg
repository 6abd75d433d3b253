SPECIFICATION PartsSpec
CONSTANTS
    Replica = {r0, r1, r2, r3}
    Publisher = r0
    Faulty = {r0}
    Stopped = {}
    Learner = {}
    Republish = FALSE
    Value = {v, w}
    None = None
    AuthLearner = {r1, r2}
    MaxForward = 2
    Alpha = 3
    Total = 6
    Width = 4
SYMMETRY Symmetry
CHECK_DEADLOCK FALSE
INVARIANTS
    Agreement
    AuthbcAgrees
    WaitsForAll
