SPECIFICATION Spec
CONSTANTS
    s1 = s1
    s2 = s2
    p1 = p1
    Blank = Blank
    TooLong = TooLong
    Networks <- OneNetwork
    Built <- BothTransports
    Faults <- NoFaults
    IdleLimit = 0
    SessionLimit = 1
    JoinLimit = 2
    SettleTime = 1
    PrescanLimit = 3
    TeardownLimit = 1
    MaxSessions = 1
INVARIANTS
    ReturnMeansJoined
