SPECIFICATION Spec
CONSTANTS
    s1 = s1
    s2 = s2
    p1 = p1
    Blank = Blank
    TooLong = TooLong
    Networks <- WithLongPassphrase
    Built <- BothTransports
    Faults <- AllFaults
    IdleLimit = 1
    SessionLimit = 3
    JoinLimit = 1
    SettleTime = 1
    PrescanLimit = 1
    TeardownLimit = 1
    MaxSessions = 1
INVARIANTS
    TypeOK
    ArbitrationInv
    CleanReturn
