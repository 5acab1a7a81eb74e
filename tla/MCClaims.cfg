SPECIFICATION ClaimsSpec
CONSTANTS
    SignerAddr = {1, 2, 3, 4}
    SignerSets <- InstalledSets
    Updates <- SignedUpdates
    TRIGGER_WINDOW = 2
    NoticePeriods = {1, 2}
    SignerOps = {"notify"}
    MaxSigs = 3
    MAX_INT = 99
    MaxTime = 5
    ClaimContracts = {"StakingReward", "SGN", "FarmingRewards"}
    Recipients = {"alice"}
    RewardTokens = {"celr", "bonus"}
    CELR = "celr"
    ValidatorSets <- Validators
    MaxTotal = 2
    MaxClaims = 2
    MaxPool = 1
INVARIANTS VerificationExact UpdatesInOrder PaidAsSigned
PROPERTIES ResetNeedsNotice RewardsArrive
CHECK_DEADLOCK FALSE
