\* ~Session while the waiting thread is blocked.
CONSTANTS
    r1 = r1
    r2 = r2
    r3 = r3
    None = None
    Session = {s1}
    Req = {r1}
    Data = {d1}
    SeqNum = {1}
    Tries = {1, 2}
    WantsAck <- MCWantsAck
    WantsFail <- MCWantsFail
SPECIFICATION FairSessionSpec
\* Every request may be over and every session destroyed.
CHECK_DEADLOCK FALSE
PROPERTIES
    DestroyReturns
