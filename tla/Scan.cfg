SPECIFICATION FairSpec
CONSTANTS
    Built = {"BLE", "SOFTAP"}
    MaxAps = 2
    Rescans = 2
    ScanTimeout = 2
    PrescanWait = 3
    MaxRequests = 3
INVARIANTS
    TypeOK
    WakeupArmed
    ListIsOfRequest
    PassesBounded
PROPERTIES
    AnnouncedListStays
    ScanEnds
