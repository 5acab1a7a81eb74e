SPECIFICATION FairRFQSpec
CONSTANTS
    weth = weth
    dai = dai
    src = src
    dst = dst
    user = user
    provider = provider
    safe = safe
    Chains = {src, dst}
    Tokens = {weth}
    NoToken = NoToken
    Accounts = {user, provider, safe}
    NoAccount = NoAccount
    Quotes <- SwapQuotes
    GasNeeded <- GasUse
    Settings <- Changes
    AllowedSigners <- Registered
    PERCENT = 10
    InitContract <- AtDeployment
    MaxTime = 4
INVARIANTS RfqTypeOK SwapOrRefund FundsCovered
PROPERTIES DepositsSettle
CHECK_DEADLOCK FALSE
