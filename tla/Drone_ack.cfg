SPECIFICATION DroneSpec
CONSTANTS
    SemCount = 1
    Codes <- MCCodes
    MaxSeq = 255
    MaxCommands = 3
INVARIANTS
    SuccessIsAnswered
CHECK_DEADLOCK FALSE
