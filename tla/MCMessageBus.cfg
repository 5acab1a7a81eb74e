SPECIFICATION BusSpec
CONSTANTS
    token = token
    app = app
    NoTransfer = NoTransfer
    NoToken = NoToken
    Tokens = {token}
    SignerAddr = {1}
    SignerSets <- InstalledSets
    Updates = {}
    TRIGGER_WINDOW = 2
    NoticePeriods = {}
    SignerOps = {}
    MaxSigs = 0
    MAX_INT = 99
    MaxTime = 2
    Relays <- RelayRequests
    Withdrawals <- WithdrawRequests
    Sends = {}
    LiquidityAmounts = {5}
    GasNeeded <- GasUse
    Wraps = {}
    GasValues = {}
    Lengths = {}
    Periods = {}
    Limits = {}
    GovernorOps = {}
    Deployed <- AtDeployment
    MaxAdds = 1
    Messages <- SignedMessages
    NativeValues = {0, 1}
    Fees = {3}
    MinFee = 2
    FeeAccounts = {app}
    MaxDepth = 2
    MaxFees = 3
INVARIANTS BusTypeOK StatusExact TokensFirst FeesCovered
CHECK_DEADLOCK FALSE
