SPECIFICATION Spec
INVARIANTS TypeOK UnreadKept IntactDelivery
SYMMETRY Symmetry
CONSTANTS
    Receivers = {r1, r2}
    r1 = r1
    r2 = r2
    NBits = 2
    RING_SIZE = 2
    CursorMod = 32
    MaxPos = 4
    MaxEpoch = 0
    MayDie = TRUE
