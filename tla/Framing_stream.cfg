SPECIFICATION Spec
CONSTANTS
    HeaderSize = 12
    CrcSize = 4
    BlockSize = 16
    LengthMod = 1024
    MaxFrames = 3
    MaxFaults = 2
    Lengths <- MCLengths
CHECK_DEADLOCK FALSE
INVARIANTS TypeOK DeliveredAsSent DamagedNeverDelivered FaultlessLineKeepsUp
