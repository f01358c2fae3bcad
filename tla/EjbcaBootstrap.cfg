SPECIFICATION Spec
CONSTANTS
    MaxTasks = 2
    MaxEpoch = 2
CHECK_DEADLOCK FALSE
INVARIANT
    TypeOK
PROPERTIES
    CleanRunCompletes
    KeystoreCurrent
