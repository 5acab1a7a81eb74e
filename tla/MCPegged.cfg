SPECIFICATION PegSpec
CONSTANTS
    usd = usd
    alice = alice
    bob = bob
    NoTransfer = NoTransfer
    Token = usd
    Accounts = {alice, bob}
    Deposits <- UserDeposits
    Burns <- UserBurns
    GasNeeded <- GasUse
    Settings <- Changes
    Supplies = {3}
    Caps = {3}
    OtherMints = {3}
    InitContract <- AtDeployment
    InitBridges <- Books
    MaxTime = 4
INVARIANTS PegTypeOK Backing HoldersBacked SuppliesExact
PROPERTIES VaultKeepsPromise
CHECK_DEADLOCK FALSE
