SPECIFICATION Spec
CONSTANTS
    Workers = {w1, w2}
    Users = {u1, u2}
    Devices = {d1, d2}
    Kinds = {"departure", "flight", "morning", "activity", "budget", "message"}
    NoUser = NoUser
    Nobody = Nobody
    Audience <- MCAudience
    Mishaps <- MCMishaps
SYMMETRY Symmetry
INVARIANTS
    ToldOnce
    NoPushLost
    EventIsTold
CHECK_DEADLOCK FALSE
