SPECIFICATION Spec
CONSTANTS
    a1 = a1
    a2 = a2
    Addr <- OneAddr
    Own = {}
    Callers <- OneAddr
    Doubtful <- OneAddr
    Batches <- OneBatch
    w1 = w1
    w2 = w2
    r1 = r1
    NoVerdict = NoVerdict
    Worker <- TwoWorkers
    Receiver <- OneReceiver
    Period = 8
    Margin = 2
    BackoffCap = 1
    BackoffMaxShift = 1
    QueuePerWorker = 1
    DialCost = 1
INVARIANT WaitOutlivesPurge
CHECK_DEADLOCK FALSE
