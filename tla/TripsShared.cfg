SPECIFICATION FairSpec
CONSTANTS
    Trips = {t1}
    Guests = {g1, g2}
    Owner = Owner
    Shared = {t1}
    Booked = {}
    Dates = {0, 1, 2}
    NoReq = NoReq
    Limit = 1
    MaxDay = 2
    MaxMishaps = 1
INVARIANTS
    AtMostTwice
    ListsWhatOpens
PROPERTIES
    SeatsAreGranted
    EndedTripCloses
CHECK_DEADLOCK FALSE
