SPECIFICATION Spec
CONSTANTS
    NServices = 1
    MaxN = 2
    MaxRuns = 2
CHECK_DEADLOCK FALSE
PROPERTY
    InitializedOnce
