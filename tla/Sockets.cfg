SPECIFICATION FairSpec
CONSTANTS
    Fds = {0, 1, 2}
    MaxSessions = 2
    MaxCancels = 1
INVARIANTS
    TypeOK
    SlotsNameOwn
    TakesWhatItShut
    LiveUntilStopped
    NothingLeft
PROPERTIES
    AppKeepsItsSockets
    StopEndsWorkers
CHECK_DEADLOCK FALSE
