CONSTANTS
    None = None
    Caller = {c1}
    MaxSession = 2
    SeqMod = 4
    MaxAcks = 2
    Session = {1, 2}
    Req = {r1, r2, r3}
    Data = {r1, r2, r3}
    SeqNum = {0, 1, 2, 3}
    Tries = {1}
    WantsAck = {r1, r2, r3}
    WantsFail = {r1, r2, r3}
SPECIFICATION LinkLayerSpec
SYMMETRY RequestSymmetry
INVARIANTS
    AckAnswersUnlessLate
    SeqDistinct
