SPECIFICATION Spec
CONSTANTS
    HeaderSize = 12
    CrcSize = 4
    BlockSize = 16
    LengthMod = 1024
    MaxFrames = 1
    MaxFaults = 0
    Lengths <- MCLongLengths
CHECK_DEADLOCK FALSE
INVARIANT FaultlessLineKeepsUp
