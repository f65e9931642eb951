SPECIFICATION SerialSpec
CONSTANTS
    Thread <- MCThread
    Main = "main"
    Platforms <- MCPlatforms
    None = None
    Calls <- MCCalls
    MaxCalls <- MCMaxCalls
    Size = 2
    MaxIn = 3
    Eol = {1}
    OutCap = 1
    MaxFd = 2
INVARIANTS
    SerialTypeOK
    ReadContiguous
    WriteContiguous
    NoFalseDisconnect
    OneDescriptor
    SettingsApplied
    NoDeadlock
CHECK_DEADLOCK FALSE
