SPECIFICATION GovSpec
CONSTANTS
    v1 = v1
    v2 = v2
    ZeroAddr = zero
    Addr = {v1, v2}
    Candidates = {v1, v2}
    Signers = {v1, v2}
    Amounts = {10}
    Stakes = {11}
    CommissionRates = {1}
    SlashRequests = {}
    ParamChanges <- GovParamChanges
    InitParams <- GovParams
    InitWallet <- GovWallet
    CELR_DECIMAL = 10
    MAX_UNDELEGATION_ENTRIES = 1
    SLASH_FACTOR_DECIMAL = 1
    COMMISSION_RATE_BASE = 1
    SlashCaps = {}
    AdminOps = {}
    MaxBlock = 2
    Votes = {"Yes", "No"}
    MaxProposals = 2
INVARIANTS GovSolvency
PROPERTIES ParamsChangeByStake ProposalsSettle
