SPECIFICATION FairSpec
CONSTANTS
    Callers = {c1, c2, c3}
    Nobody = Nobody
    Pause = 1
    MaxTtl = 1
INVARIANTS
    TypeOK
    OneTokenizer
    ExpiryLag
PROPERTIES
    PacedReleases
    NoWastedLogin
    EveryCallEnds
