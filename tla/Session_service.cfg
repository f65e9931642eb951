\* Two sessions share the receive thread and the requests.
CONSTANTS
    r1 = r1
    r2 = r2
    r3 = r3
    None = None
    Session = {s1, s2}
    Req = {r1, r3}
    Data = {d1}
    SeqNum = {1}
    Tries = {2}
    WantsAck <- MCWantsAck
    WantsFail <- MCWantsFail
SPECIFICATION FairSessionSpec
\* Every request may be over and every session destroyed.
CHECK_DEADLOCK FALSE
PROPERTIES
    ImplementsService
    EveryRequestAnswered
    SessionFreed
    BusyDestroyReturns
