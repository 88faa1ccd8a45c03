SPECIFICATION Spec
CONSTANTS
    a1 = a1
    a2 = a2
    a3 = a3
    n1 = n1
    n2 = n2
    n3 = n3
    n4 = n4
    NoRecord = NoRecord
    SameAsSelf <- NoSelf
    Second = 1
    GroupOf <- TwoGroups
    MaxAnswer = 2
    MaxServed = 3
    CycleFloor = 1
    CycleCeiling = 3
    FreshFactor = 3
    Addr <- ThreeAddr
    Admissible <- ThreeAddr
    Id <- FourIds
    IdOf <- ThreeOwnIds
    Answering <- ThreeAddr
    Visitors <- NoVisits
    Heard <- ThreeHeard
    InitialBooks <- AllHearsay
    Faults <- NodeFaults
    MaxPeers = 3
    Period = 4
    DialCost = 2
    MaxOutbound = 2
    Wait = 7
    FailLimit = 3
    MaxFails = 3
    Origin = 1
    MaxTime = 9
    MaxQueue = 2
INVARIANTS AnswersAreSpread FailuresWereDialled OutboundWithinLimit QueueWithinPeriod
CHECK_DEADLOCK FALSE
