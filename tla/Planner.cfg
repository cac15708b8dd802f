SPECIFICATION Spec
CONSTANTS
    Requests <- MCRequests
    Callers <- MCCallers
    Asks <- MCAsks
    Limit = 1
    Models = 2
    Months = 2
    FailureThreshold = 2
    Revocations = 1
INVARIANTS
    WithinQuota
    NeverOvercharged
    DraftAsSaid
PROPERTIES
    RequestsEnd
    CircuitCloses
CHECK_DEADLOCK FALSE
