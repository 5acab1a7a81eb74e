SPECIFICATION BridgeSpec
CONSTANTS
    weth = weth
    alice = alice
    bob = bob
    NoTransfer = NoTransfer
    NoToken = NoToken
    Tokens = {weth}
    SignerAddr = {1, 2, 3}
    SignerSets <- InstalledSets
    Updates <- SignedUpdates
    TRIGGER_WINDOW = 2
    NoticePeriods = {}
    SignerOps = {}
    MaxSigs = 0
    MAX_INT = 99
    MaxTime = 4
    Relays <- RelayRequests
    Withdrawals <- WithdrawRequests
    Sends <- UserSends
    LiquidityAmounts = {4}
    GasNeeded <- GasUse
    Wraps = {weth}
    GasValues = {0}
    Lengths = {3}
    Periods = {0}
    Limits = {4}
    GovernorOps = {"cap", "pause", "minAdd", "threshold"}
    Deployed <- AtDeployment
    MaxAdds = 1
INVARIANTS ExactlyOnce VolumeCapped
PROPERTIES LargeTransfersWait DelayedArePaid PoolKeepsPromise
CHECK_DEADLOCK FALSE
