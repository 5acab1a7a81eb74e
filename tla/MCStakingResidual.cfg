SPECIFICATION Spec
CONSTANTS
    v1 = v1
    v2 = v2
    v3 = v3
    d1 = d1
    ZeroAddr = zero
    Addr = {v1}
    Candidates = {v1}
    Signers = {v1}
    Amounts = {10, 17}
    Stakes = {20}
    CommissionRates = {0}
    SlashRequests <- SoloSlashes
    ParamChanges = {}
    InitParams <- SoloParams
    InitWallet <- SoloWallet
    CELR_DECIMAL = 10
    MAX_UNDELEGATION_ENTRIES = 2
    SLASH_FACTOR_DECIMAL = 10
    COMMISSION_RATE_BASE = 1
    SlashCaps = {}
    AdminOps = {}
    MaxBlock = 3
PROPERTY DelegationBuysShares
