SPECIFICATION Spec
CONSTANTS
    a1 = a1
    a2 = a2
    a3 = a3
    n1 = n1
    n2 = n2
    n3 = n3
    n4 = n4
    NoRecord = NoRecord
    SameAsSelf <- NoSelf
    Second = 1
    GroupOf <- OneGroupEach
    MaxAnswer = 2
    MaxServed = 3
    CycleFloor = 1
    CycleCeiling = 3
    FreshFactor = 3
    Addr <- TwoAddr
    Admissible <- TwoAddr
    Id <- ThreeIds
    IdOf <- OwnIds
    Answering <- TwoAddr
    Visitors <- StrangerVisits
    Heard <- AnyHeard
    InitialBooks <- HearsayOrProof
    Faults <- PunctualFaults
    MaxPeers = 2
    Period = 0
    DialCost = 1
    MaxOutbound = 1
    Wait = 1
    FailLimit = 2
    MaxFails = 2
    Origin = 1
    MaxTime = 4
    MaxQueue = 1
INVARIANTS KnownAreTried NoneOverstays
CHECK_DEADLOCK FALSE
