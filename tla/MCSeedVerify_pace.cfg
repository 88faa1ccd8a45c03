SPECIFICATION FairSpec
CONSTANTS
    a1 = a1
    a2 = a2
    Addr <- TwoAddr
    Own = {}
    Callers = {}
    Doubtful = {}
    Batches <- OneBatch
    w1 = w1
    w2 = w2
    r1 = r1
    NoVerdict = NoVerdict
    Worker <- OneWorker
    Receiver <- OneReceiver
    Period = 4
    Margin = 2
    BackoffCap = 1
    BackoffMaxShift = 1
    QueuePerWorker = 1
    DialCost = 1
INVARIANTS ServedIsRejudged SweepIsDrained
CHECK_DEADLOCK FALSE
PROPERTY StopReturns
