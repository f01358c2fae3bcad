SPECIFICATION Spec
CONSTANTS
    MaxTasks = 2
    MaxEpoch = 1
CHECK_DEADLOCK FALSE
PROPERTY
    AlreadyBootstrapped
