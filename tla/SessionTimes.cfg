SPECIFICATION FairSpec
CONSTANTS
    s1 = s1
    s2 = s2
    p1 = p1
    Blank = Blank
    TooLong = TooLong
    Networks <- OneNetwork
    Built <- BothTransports
    Faults <- NoFaults
    IdleLimit = 1
    SessionLimit = 2
    JoinLimit = 3
    SettleTime = 1
    PrescanLimit = 2
    TeardownLimit = 1
    MaxSessions = 1
INVARIANTS
    ReturnMeansJoined
PROPERTIES
    StopEndsRoutine
    RunReturns
