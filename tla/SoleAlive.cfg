SPECIFICATION SoleSpec
INVARIANT OneSender
CONSTANTS
    Endpoints = {p1, p2, p3}
    SoleProcs = {p1, p2, p3}
    p1 = p1
    p2 = p2
    p3 = p3
    ProcOf <- Alone
    SoleLives = 1
    SoleMayDie = FALSE
