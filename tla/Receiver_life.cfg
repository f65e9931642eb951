SPECIFICATION ReceiverSpec
CONSTANTS
    Worker <- MCWorker
    None = None
    MaxRequests = 2
    MaxCalls = 1
INVARIANTS
    ReceiverTypeOK
    NoThrowInUse
    RequestsKept
    HandlerAsMet
    CurrentState
    NothingUsedAfterDelete
PROPERTIES
    RequestsRun
    ShutdownEnds
CHECK_DEADLOCK FALSE
