SPECIFICATION Spec
CONSTANTS
    v1 = v1
    v2 = v2
    v3 = v3
    d1 = d1
    ZeroAddr = zero
    Addr = {v1, d1}
    Candidates = {v1}
    Signers = {v1}
    Amounts = {10, 12}
    Stakes = {10}
    CommissionRates = {0}
    SlashRequests <- AccountingSlashes
    ParamChanges = {}
    InitParams <- AccountingParams
    InitWallet <- AccountingWallet
    CELR_DECIMAL = 10
    MAX_UNDELEGATION_ENTRIES = 2
    SLASH_FACTOR_DECIMAL = 10
    COMMISSION_RATE_BASE = 1
    SlashCaps = {0}
    AdminOps = {"pause", "drain"}
    MaxBlock = 3
INVARIANTS TypeOK Solvency BondedTokensExact SharesExact BondedHasMinimum
PROPERTIES UnbondingDelay NoLossWithoutSlash
