SPECIFICATION FairSpec
CONSTANTS
    Phones = {p1, p2}
    NoPhone = NoPhone
    MaxFaults = 4
INVARIANTS
    TypeOK
    InStep
    ReadyIsProven
    ContextIsHolders
PROPERTIES
    Recovers
