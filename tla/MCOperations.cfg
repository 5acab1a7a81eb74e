SPECIFICATION Spec

CONSTANTS
    Deployer = "deployer"
    ZeroAddress = "zero"
    SentinelAddress = "Sentinel0"
    GovAddress = "gov"
    Accounts <- MCAccounts
    MinActivePeriod = 1
    MaxActivePeriod = 3
    Envs <- MCEnvs
    Sessions <- MCSessions
    MaxRuns = 2
    MaxCrashes = 1
    MaxTime = 2
    MaxProposals = 2

INVARIANT RelaxedExact
PROPERTIES OwnerPowersByVote FinishedMeansSet DeploymentsWired
CHECK_DEADLOCK FALSE
