SPECIFICATION Spec
CONSTANTS
    Alpha = 3
    MaxConfig = 2
    Replica = {r1, r2, r3}
    Leader = r1
    MaxSlot = 8
    Overlap = TRUE
    FailReplica = {r1, r2}
    FailLeader = r1
    FailMaxSlot = 7
    MayFail = TRUE
    Msg = {m1, m2, m3, m4}
    None = None
    Subscriber = {s1, s2, s3}
    MaxHold = 3
    a = a
    b = b
    c = c
    d = d
    e = e
    Node = {a, b, c, d, e}
    Pid <- MCPid
    Original = {a, b, c}
    Commands <- MCCommands
CHECK_DEADLOCK FALSE
INVARIANTS
    OneConfigPerSlot
    SameConfig
    AruCountsSlots
    EachInOnePlace
    HeldDuringChange
    OldEpochStopped
    OneEpochRuns
