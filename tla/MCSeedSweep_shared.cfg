SPECIFICATION Spec
CONSTANTS
    a1 = a1
    a2 = a2
    a3 = a3
    n1 = n1
    n2 = n2
    n3 = n3
    n4 = n4
    NoRecord = NoRecord
    SameAsSelf <- NoSelf
    Second = 1
    GroupOf <- OneGroupEach
    MaxAnswer = 2
    MaxServed = 3
    CycleFloor = 1
    CycleCeiling = 3
    FreshFactor = 3
    FailLimit = 2
    MaxFails = 2
    MaxQueue = 2
    MaxPeers = 2
    Origin = 1
    Addr <- TwoAddr
    Admissible <- TwoAddr
    Heard <- NoHeard
    Id <- OneId
    IdOf <- SharedId
    Answering <- OneAnswers
    Visitors <- NoVisits
    InitialBooks <- AllHearsay
    Faults <- NoFaults
    Period = 3
    DialCost = 1
    MaxOutbound = 2
    Wait = 5
    MaxTime = 8
INVARIANTS ServedWereReached
CHECK_DEADLOCK FALSE
