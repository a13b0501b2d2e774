SPECIFICATION FairSpec
PROPERTIES ImplementsQueue SendReturns
CONSTANTS
    Receivers = {r1, r2}
    r1 = r1
    r2 = r2
    NBits = 2
    RING_SIZE = 1
    CursorMod = 32
    MaxPos = 2
    MaxEpoch = 2
    MayDie = FALSE
