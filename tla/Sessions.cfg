SPECIFICATION FairSpec
CONSTANTS
    Devices = {d1, d2}
    Active = {d1}
    Slots = {s1, s2}
    MaxTokens = 3
    MaxMishaps = 1
    NoToken = NoToken
    Logout = Logout
    Nobody = Nobody
INVARIANTS
    TypeOK
    EndedStaysEnded
    ReuseNeedsCause
PROPERTIES
    DeadSessionEnds
CHECK_DEADLOCK FALSE
