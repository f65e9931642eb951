\* Two callers send two requests over sessions 1 and 2.
CONSTANTS
    None = None
    Caller = {c1, c2}
    MaxSession = 2
    SeqMod = 3
    MaxAcks = 1
    Session = {1, 2}
    Req = {r1, r2}
    Data = {r1, r2}
    SeqNum = {0, 1, 2}
    Tries = {1, 2}
    WantsAck = {r1, r2}
    WantsFail = {r1, r2}
SPECIFICATION FairLinkLayerSpec
INVARIANTS
    LinkLayerTypeOK
    SentOnlyRegistered
    TransmittedOnce
    RefusedNeverSent
PROPERTIES
    ImplementsSession
    CallEndsWritten
