SPECIFICATION WireSpec
CONSTANTS
    Word = 16384
    Word64 = 1048576
    Digits = 3
    KeyLen = 2
    MaxAps = 20
    Messages <- MessagesDef
    Raw <- RawDef
    Aps <- ApsDef
    Requests <- RequestsDef
    HdrCap = 11
    Chunk = 3
    BodyCap = 3
    Sendable <- SendableDef
    MaxRequests = 2
INVARIANTS
    RoundTrip
    ViewsInside
    PageIsOfTheList
    EveryApOnce
    BodyIsOwn
    HandledOnce
    KeepsInStep
PROPERTIES
    AlwaysEnds
    HandlesAll
CHECK_DEADLOCK FALSE
