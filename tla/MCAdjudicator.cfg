CONSTANTS
    Runs <- MCRuns
    ItemOrder <- MCItemOrder
    Contexts <- MCContexts
    VerdictStates <- MCVerdictStates
    Sources <- MCSources
    Wires <- MCWires
    ListMax = 1
    Backoffs = 1
    MaxEdits = 1
    Statuses <- MCStatuses
SPECIFICATION AdjudicatorFairSpec
INVARIANTS
    AdjudicatorTypeOK
    InjectionIsMarked
    RubricIsAnswered
PROPERTIES
    ReplayIsFaithful
    EventuallyAdjudicated
CHECK_DEADLOCK FALSE
