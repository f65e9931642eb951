SPECIFICATION SemaphoreSpec
CONSTANTS
    Thread <- MCThread
    Value = 1
    MaxCalls = 4
INVARIANTS
    Accounted
    NoLostWakeup
PROPERTIES
    ImplementsCounting
CHECK_DEADLOCK FALSE
