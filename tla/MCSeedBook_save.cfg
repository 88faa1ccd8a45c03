SPECIFICATION Spec
CONSTANTS
    a1 = a1
    a2 = a2
    a3 = a3
    bad = bad
    self = self
    SameAsSelf <- MCSameAsSelf
    NoRecord = NoRecord
    Missing = Missing
    Corrupt = Corrupt
    Addr <- SaveAddr
    Admissible <- SaveAddr
    Savers <- BothSavers
    InitialFiles <- SaveFiles
    MaxPeers = 1
    Second = 1
    MaxTime = 2
    MaxFails = 1
    MaxLearned = 2
INVARIANTS CleanIsSaved SaveInvariant
PROPERTY ImplementsDurable
SYMMETRY SaveSymmetry
CHECK_DEADLOCK FALSE
