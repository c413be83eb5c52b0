SPECIFICATION Spec
CONSTANTS
    s1 = s1
    s2 = s2
    p1 = p1
    Blank = Blank
    TooLong = TooLong
    Networks <- WithOpenNetwork
    Faults <- AllFaults
    SessionLimit = 4
    JoinLimit = 1
    SettleTime = 1
    PrescanLimit = 1
    TeardownLimit = 1
    MaxSessions = 2
PROPERTIES
    KeepsContract
