SPECIFICATION FairSpec
CONSTANTS
    Intents = {i1}
    Workers = {w1}
    Amount = 2
    Production = FALSE
    OperatorActs = TRUE
    Attempts = 2
    MaxDeclines = 1
    MaxFaults = 0
PROPERTIES
    AuthorizedLeaves
CHECK_DEADLOCK FALSE
