SPECIFICATION Spec
CONSTANTS
    Calls <- MCCalls
    Wanted <- MCWanted
    NoHead = NoHead
    MaxPublished = 3
    MaxEdits = 1
    MaxFaults = 3
INVARIANTS
    TypeOK
    FilterKept
PROPERTIES
    NothingLost
    InSync
