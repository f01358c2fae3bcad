SPECIFICATION Spec
CONSTANTS
    NServices = 3
    MaxN = 4
    MaxRuns = 3
CHECK_DEADLOCK FALSE
INVARIANTS
    GoesOnOnlyWhenSeenUp
    SuccessMeansInitialized
    CredentialsFit
    CleanRunSucceeds
PROPERTIES
    InitializedOnceIfSeen
    RunEnds
