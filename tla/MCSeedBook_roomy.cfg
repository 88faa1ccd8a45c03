SPECIFICATION FairSpec
CONSTANTS
    a1 = a1
    a2 = a2
    a3 = a3
    bad = bad
    self = self
    SameAsSelf = {}
    NoRecord = NoRecord
    Missing = Missing
    Corrupt = Corrupt
    Addr <- RoomyAddr
    Admissible <- RoomyAddr
    Savers <- BothSavers
    InitialFiles <- RoomyFiles
    MaxPeers = 2
    Second = 1
    MaxTime = 1
    MaxFails = 1
    MaxLearned = 2
INVARIANT DroppedStayDropped
PROPERTY SuccessReachesDisk
CHECK_DEADLOCK FALSE
