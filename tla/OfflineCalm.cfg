SPECIFICATION FairSpec
CONSTANTS
    Repositories = {activity, home}
    Replays = {r1}
    Calm = TRUE
    MaxOps = 3
    MaxFlights = 1
    MaxFaults = 1
INVARIANTS Kept InOrder
PROPERTIES Drains
