SPECIFICATION Spec
CONSTANTS
    a1 = a1
    a2 = a2
    a3 = a3
    n1 = n1
    n2 = n2
    n3 = n3
    n4 = n4
    NoRecord = NoRecord
    SameAsSelf <- NoSelf
    Second = 1
    GroupOf <- OneGroupEach
    MaxAnswer = 2
    MaxServed = 3
    CycleFloor = 1
    CycleCeiling = 3
    FreshFactor = 3
    Addr <- TwoAddr
    Admissible <- TwoAddr
    Id <- TwoIds
    IdOf <- OwnIds
    Answering <- OneAnswers
    Visitors <- OtherVisits
    Heard <- BothHeard
    InitialBooks <- HearsayOrProof
    Faults <- NoLeaving
    MaxPeers = 1
    Period = 1
    DialCost = 1
    MaxOutbound = 1
    Wait = 0
    FailLimit = 2
    MaxFails = 2
    Origin = 1
    MaxTime = 3
    MaxQueue = 2
INVARIANTS TypeOK ServedWereReached ConnectedUnblamed
CHECK_DEADLOCK FALSE
