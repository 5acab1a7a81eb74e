SPECIFICATION Spec
CONSTANTS
    v1 = v1
    v2 = v2
    v3 = v3
    d1 = d1
    ZeroAddr = zero
    Addr = {v1, v2, v3}
    Candidates = {v1, v2, v3}
    Signers = {v1, v2, v3, zero}
    Amounts = {13}
    Stakes = {10, 12}
    CommissionRates = {0}
    SlashRequests <- BondingSlashes
    ParamChanges <- BondingParamChanges
    InitParams <- BondingParams
    InitWallet <- BondingWallet
    CELR_DECIMAL = 10
    MAX_UNDELEGATION_ENTRIES = 1
    SLASH_FACTOR_DECIMAL = 10
    COMMISSION_RATE_BASE = 1
    SlashCaps = {}
    AdminOps = {}
    MaxBlock = 1
INVARIANTS BondedListExact SignerRegistry QuorumIntersection
