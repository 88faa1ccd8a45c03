SPECIFICATION Spec
CONSTANTS
    p1 = p1
    r1 = r1
    r2 = r2
    Id <- MCPeers
    Talkative <- MCPeers
    Requests <- MCRequests
    AnswerWindow = 1
    MinServeInterval = 2
    ExplorationWindow = 2
    ProvableBatch = 1
    MaxVisits = 2
    MaxOwed = 1
    MaxTime = 3
INVARIANTS TypeOK OneAnswerPerRequest PendingIsUnanswered LearnedWithinShare
PROPERTIES GapWithinVisit
SYMMETRY Symmetry
CHECK_DEADLOCK FALSE
