CONSTANTS
    Window = 1
    MaxRequests = 2
    MaxBuckets = 2
    MaxSends = 3
    Bodies <- MCBodies
    Plans <- MCPlans
    Cases <- MCCases
    ExternalJobs <- MCExternalJobs
    NoCred = "none"
    RetryWindow = 1
    MaxUpsets = 1
SPECIFICATION ServiceFairSpec
INVARIANTS
    ServiceTypeOK
    TurnsInOrder
    FreeWasPaid
    ChargedIsServable
    PaidIsRecoverable
    AnswerIsTheSettlement
    NothingLeftBehind
PROPERTIES
    EvictsOnlyWhenFull
    EveryRequestEnds
CHECK_DEADLOCK FALSE
