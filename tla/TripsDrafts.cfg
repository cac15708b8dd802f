SPECIFICATION FairSpec
CONSTANTS
    Trips = {t1, t2}
    Guests = {g1}
    Owner = Owner
    Shared = {t1}
    Booked = {t2}
    Dates = {1}
    NoReq = NoReq
    Limit = 1
    MaxDay = 1
    MaxMishaps = 0
INVARIANTS
    TicketKeepsTrip
PROPERTIES
    DraftsAreCollected
CHECK_DEADLOCK FALSE
