SPECIFICATION FairSpec
CONSTANTS
    Intents = {i1}
    Workers = {w1}
    Amount = 2
    Production = TRUE
    OperatorActs = FALSE
    Attempts = 3
    MaxDeclines = 1
    MaxFaults = 1
INVARIANTS
    TypeOK
    StatusIsBacked
    TicketBeforeCharge
    RefundReconciles
PROPERTIES
    OneBookOrders
    AuthorizedLeaves
    PendingEnds
CHECK_DEADLOCK FALSE
