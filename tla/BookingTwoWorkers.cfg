SPECIFICATION Spec
CONSTANTS
    Intents = {i1}
    Workers = {w1, w2}
    Amount = 2
    Production = TRUE
    OperatorActs = FALSE
    Attempts = 1
    MaxDeclines = 0
    MaxFaults = 0
SYMMETRY WorkerSymmetry
INVARIANTS
    ClaimsAreBacked
PROPERTIES
    AppliedOnce
    PromiseKept
CHECK_DEADLOCK FALSE
