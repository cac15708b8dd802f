SPECIFICATION FairSpec
CONSTANTS
    Subs = {s1}
    Readers = {r1}
    Null = Null
    MaxPeriods = 2
    MaxEvents = 4
    MaxStray = 2
    MaxAdminWrites = 1
INVARIANTS
    TypeOK
    ServedWhilePaid
    LeftoverExpires
    PaidUserHealed
PROPERTIES
    PremiumEnds
CHECK_DEADLOCK FALSE
