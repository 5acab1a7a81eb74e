SPECIFICATION RFQSpec
CONSTANTS
    weth = weth
    dai = dai
    src = src
    dst = dst
    user = user
    provider = provider
    safe = safe
    Chains = {src, dst}
    Tokens = {weth, dai}
    NoToken = NoToken
    Accounts = {user, provider, safe}
    NoAccount = NoAccount
    Quotes <- DaiQuotes
    GasNeeded <- GasUse
    Settings = {}
    AllowedSigners <- Registered
    PERCENT = 10
    InitContract <- AtDeployment
    MaxTime = 4
PROPERTY ReleaseInSrcToken
CHECK_DEADLOCK FALSE
