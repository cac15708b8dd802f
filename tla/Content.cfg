SPECIFICATION Spec
CONSTANTS
    Stays = {s1}
    Flights = {f1}
    Acts = {a1}
    Bags = {b1}
    Lines = {l1, l2}
    Authors = {u1}
    Prices = {2}
    NoRow = NoRow
    NoId = NoId
    MaxStaff = 1
SYMMETRY LineSymmetry
INVARIANTS
    SummaryAddsUp
    LinksResolve
PROPERTIES
    FrozenOnceClosed
CHECK_DEADLOCK FALSE
