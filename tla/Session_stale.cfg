\* A reply of one request reaches the next one.
CONSTANTS
    r1 = r1
    r2 = r2
    r3 = r3
    None = None
    Session = {s1}
    Req = {r1, r2}
    Data = {d1}
    SeqNum = {0, 1}
    Tries = {1, 2}
    WantsAck <- MCWantsAck
    WantsFail <- MCWantsFail
SPECIFICATION SessionSpec
\* Every request may be over and every session destroyed.
CHECK_DEADLOCK FALSE
INVARIANTS
    AckMatches
