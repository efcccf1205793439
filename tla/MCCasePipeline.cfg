CONSTANTS
    NoMaterial = NoMaterial
    Rubric <- MCRubric
    Evidence <- MCEvidence
    NoPurchase = NoPurchase
    NoTx = NoTx
    ZeroAddress = "zero"
    ModuleIds <- MCModuleIds
    Addresses <- MCAddresses
    Module = "us-msb"
    Answers <- MCAnswers
    Balances <- MCBalances
    QuotedPrice = 1000
    Budget = 5000
    Rates <- MCRates
    SettlementTxs = {t1, t2}
    Configs <- MCConfigs
    Deployments <- MCDeployments
    Settlements <- MCSettlements
    OtherSas <- MCOtherSas
    Policies <- MCPolicies
SPECIFICATION PipelineSpec
INVARIANTS
    PipelineTypeOK
    GrayIsNeverSilent
    RejectedOnlyWhenPolicyAloneEscalates
    CompletedMeansAttested
    PaidMeansModulePassed
    NothingPastARedLine
    BooksMatchMoney
CHECK_DEADLOCK FALSE
