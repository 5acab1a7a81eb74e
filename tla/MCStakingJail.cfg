SPECIFICATION Spec
CONSTANTS
    v1 = v1
    v2 = v2
    v3 = v3
    d1 = d1
    ZeroAddr = zero
    Addr = {v1}
    Candidates = {v1}
    Signers = {v1}
    Amounts = {}
    Stakes = {12, 15}
    CommissionRates = {0}
    SlashRequests <- JailSlashes
    ParamChanges = {}
    InitParams <- SoloParams
    InitWallet <- SoloWallet
    CELR_DECIMAL = 10
    MAX_UNDELEGATION_ENTRIES = 2
    SLASH_FACTOR_DECIMAL = 10
    COMMISSION_RATE_BASE = 1
    SlashCaps = {}
    AdminOps = {}
    MaxBlock = 3
INVARIANT NoBondDuringJail
