SPECIFICATION RpSpec
INVARIANT HoldsBit
CONSTANTS
    Procs = {p1, p2, p3}
    p1 = p1
    p2 = p2
    p3 = p3
    NBits = 2
    Reused = {}
    MaxLives = 1
    MayDie = FALSE
    MayLeave = TRUE
    MayEvict = FALSE
