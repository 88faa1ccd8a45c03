SPECIFICATION FairSpec
CONSTANTS
    i1 = i1
    i2 = i2
    None = None
    Ids <- TwoIds
INVARIANTS FailureReleases ServingListens HomeIsOneStack
PROPERTIES ShutdownSaves SignalEnds
