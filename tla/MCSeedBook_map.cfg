SPECIFICATION Spec
CONSTANTS
    a1 = a1
    a2 = a2
    a3 = a3
    bad = bad
    self = self
    SameAsSelf <- MCSameAsSelf
    NoRecord = NoRecord
    Missing = Missing
    Corrupt = Corrupt
    Addr <- MCAddr
    Admissible <- MCAdmissible
    Savers <- NoSavers
    InitialFiles <- MCInitialFiles
    MaxPeers = 2
    Second = 2
    MaxTime = 4
    MaxLearned = 2
    MaxFails = 2
INVARIANTS TypeOK OnlyAdmissible
PROPERTIES ReachedLeaveLast HearsayKeepsCeiling
SYMMETRY MCSymmetry
CHECK_DEADLOCK FALSE
