SPECIFICATION FairSpec
CONSTANTS
    Sas = {sa}
    NoSa = NoSa
    MayExpire = TRUE
    ExternalJobs <- NoJobs
    Flows = {f1}
    MaxVisits = 2
    MaxForms = 2
    MaxFaults = 2
    CacheMax = 1
    MaxViews = 1
INVARIANTS
    WalletTypeOK
    ShownIsTrue
    DoneStepsAreTrue
    OneEscrowPerVisit
    OneCasePerJob
PROPERTY EventuallyServed
CHECK_DEADLOCK FALSE
