---------------------------- MODULE DeployScripts ----------------------------
(***************************************************************************)
(* The deployment scripts (deploy/), one definition for each: the steps it *)
(* goes through for an environment and the deployment records it finds.    *)
(* The arguments of a contract are the environment's values, each a list,  *)
(* and the addresses of contracts deployed before it.                      *)
(***************************************************************************)
EXTENDS Scripts

\* deploy(name, args): reuses the recorded contract when it was created from
\* the same arguments.
DeployWith(name, args) ==
    <<[op |-> "deploy", name |-> name, contract |-> name, args |-> args, keep |-> FALSE]>>

Deploy(env, name, vars) ==
    IF \E i \in DOMAIN vars : vars[i] \notin DOMAIN env THEN Throw
    ELSE DeployWith(name, [i \in DOMAIN vars |-> env[vars[i]]])

Verify(name) == <<[op |-> "verify", name |-> name]>>

\* The proxy deployments: the admin contract, made once; the implementation;
\* and the proxy, whose init runs when it is created and never again.
AdminName == "DefaultProxyAdmin"
ImplementationOf(name) == name \o "_Implementation"
ProxyOf(name) == name \o "_Proxy"

Upgradable(env, name, vars, initVars, owner) ==
    IF \E i \in DOMAIN (vars \o initVars) : (vars \o initVars)[i] \notin DOMAIN env THEN Throw
    ELSE <<[op |-> "deploy", name |-> AdminName, contract |-> "ProxyAdmin",
            args |-> <<<<owner>>>>, keep |-> TRUE],
           [op |-> "deploy", name |-> ImplementationOf(name), contract |-> name,
            args |-> [i \in DOMAIN vars |-> env[vars[i]]], keep |-> FALSE],
           [op |-> "proxy", name |-> name, contract |-> name,
            init |-> [i \in DOMAIN initVars |-> env[initVars[i]]]]>>

\* The value of a variable an earlier step has needed too.
Value(env, x) == IF x \in DOMAIN env THEN env[x] ELSE <<>>

\* The recorded address of a deployment the script has just awaited.
Recorded(store, name) == <<IF name \in DOMAIN store THEN store[name] ELSE ZeroAddress>>

-----------------------------------------------------------------------------
(* core, sentinel, governed-owner *)

DeploySGNStaking(env, store) ==
    Deploy(env, "Staking",
           <<"CELR", "PROPOSAL_DEPOSIT", "VOTING_PERIOD", "UNBONDING_PERIOD",
             "MAX_VALIDATOR_NUM", "MIN_VALIDATOR_TOKENS", "MIN_SELF_DELEGATION",
             "ADVANCE_NOTICE_PERIOD", "VALIDATOR_BOND_INTERVAL", "MAX_SLASH_FACTOR">>)
    \o DeployWith("SGN", <<Recorded(store, "Staking")>>)
    \o DeployWith("StakingReward", <<Recorded(store, "Staking")>>)
    \o DeployWith("Govern", <<Recorded(store, "Staking"), Value(env, "CELR"),
                              Recorded(store, "StakingReward")>>)
    \o DeployWith("Viewer", <<Recorded(store, "Staking")>>)

DeploySentinel(env) ==
    Upgradable(env, "Sentinel",
               <<"SENTINEL_GUARDS", "SENTINEL_PAUSERS", "SENTINEL_GOVERNORS">>,
               <<"SENTINEL_GUARDS", "SENTINEL_PAUSERS", "SENTINEL_GOVERNORS">>,
               IF IsSet(env, "PROXY_ADMIN_OWNER") THEN First(env, "PROXY_ADMIN_OWNER")
               ELSE Deployer)
    \o Verify(ImplementationOf("Sentinel"))

DeployGovernedOwner(env, store) ==
    Deploy(env, "GovernedOwnerProxy", <<"GOVERNANCE_INITIALIZER">>)
    \o Verify("GovernedOwnerProxy")
    \o (IF {"GOVERNANCE_VOTERS", "GOVERNANCE_POWERS", "GOVERNANCE_ACTIVE_PERIOD",
            "GOVERNANCE_QUORUM_THRESHOLD", "GOVERNANCE_FAST_PASS_THRESHOLD"}
           \subseteq DOMAIN env
        THEN DeployWith("SimpleGovernance",
                <<env.GOVERNANCE_VOTERS, env.GOVERNANCE_POWERS,
                  Recorded(store, "GovernedOwnerProxy"), env.GOVERNANCE_ACTIVE_PERIOD,
                  env.GOVERNANCE_QUORUM_THRESHOLD, env.GOVERNANCE_FAST_PASS_THRESHOLD>>)
        ELSE Throw)
    \o Verify("SimpleGovernance")

DeployMessageBusOwner(env) ==
    Deploy(env, "MessageBusOwner", <<"GOVERNANCE_VOTERS", "GOVERNANCE_POWERS",
                                     "GOVERNANCE_ACTIVE_PERIOD",
                                     "GOVERNANCE_QUORUM_THRESHOLD">>)
    \o Verify("MessageBusOwner")

-----------------------------------------------------------------------------
(* message *)

BusAddresses == <<"MESSAGE_BUS_LIQUIDITY_BRIDGE", "MESSAGE_BUS_PEG_BRIDGE",
                  "MESSAGE_BUS_PEG_VAULT", "MESSAGE_BUS_PEG_BRIDGE_V2",
                  "MESSAGE_BUS_PEG_VAULT_V2">>

DeployMessageBusInit(env) ==
    Upgradable(env, "MessageBus", <<"MESSAGE_BUS_SIGS_VERIFIER">> \o BusAddresses,
               BusAddresses, Deployer)
    \o Verify(ImplementationOf("MessageBus"))

DeployMessageBus(env) ==
    Deploy(env, "MessageBus", <<"MESSAGE_BUS_SIGS_VERIFIER">> \o BusAddresses)
    \o Verify("MessageBus")

DeployTransferSwap(env) ==
    Deploy(env, "TransferSwap", <<"CC_SWAP_MSG_BUS", "CC_SWAP_DEX", "CC_SWAP_BRIDGE",
                                  "CC_SWAP_BRIDGE_TOKEN", "CC_SWAP_NATIVE_WRAP">>)

DeployNFTBridge(env) ==
    Upgradable(env, "NFTBridge", <<"MSG_BUS_ADDR">>, <<"MSG_BUS_ADDR">>, Deployer)

DeployPegNFT(env) == Deploy(env, "PegNFT", <<"NFT_NAME", "NFT_SYM", "NFT_BRIDGE_ADDR">>)
DeployOrigNFT(env) == Deploy(env, "OrigNFT", <<"NFT_NAME", "NFT_SYM">>)
DeployMCNNFT(env) == Deploy(env, "MCNNFT", <<"NFT_NAME", "NFT_SYM", "NFT_BRIDGE_ADDR">>)
DeployMsgTest(env) == Deploy(env, "MsgTest", <<"MESSAGE_BUS_ADDR">>)
DeployRFQ(env) == Deploy(env, "RFQ", <<"MESSAGE_BUS_ADDR">>)
DeployAdapter(env) == Deploy(env, "MessageReceiverAdapter", <<"MESSAGE_BUS_ADDR">>)

-----------------------------------------------------------------------------
(* liquidity-bridge, pegged-bridge, circle-usdc *)

DeployBridge(env) == Deploy(env, "Bridge", <<>>) \o Verify("Bridge")

DeployFarmingRewards(env) ==
    Deploy(env, "FarmingRewards", <<"FARMING_REWARDS_SIGS_VERIFIER">>)
    \o Verify("FarmingRewards")

DeployOriginalTokenVault(env) ==
    Deploy(env, "OriginalTokenVault", <<"ORIGINAL_TOKEN_VAULT_SIGS_VERIFIER">>)

DeployPeggedTokenBridge(env) ==
    Deploy(env, "PeggedTokenBridge", <<"PEGGED_TOKEN_BRIDGE_SIGS_VERIFIER">>)

DeployOriginalTokenVaultV2(env) ==
    Deploy(env, "OriginalTokenVaultV2", <<"ORIGINAL_TOKEN_VAULT_SIGS_VERIFIER">>)
    \o Verify("OriginalTokenVaultV2")

DeployPeggedTokenBridgeV2(env) ==
    Deploy(env, "PeggedTokenBridgeV2", <<"PEGGED_TOKEN_BRIDGE_SIGS_VERIFIER">>)
    \o Verify("PeggedTokenBridgeV2")

DeployPeggedBrc20Bridge(env) ==
    Deploy(env, "PeggedBrc20Bridge", <<"PEGGED_BRC20_BRIDGE_MINTER">>)
    \o Verify("PeggedBrc20Bridge")

DeployPeggedNativeTokenBridge(env) ==
    Deploy(env, "PeggedNativeTokenBridge", <<"PEGGED_TOKEN_BRIDGE_SIGS_VERIFIER">>)
    \o Verify("PeggedNativeTokenBridge")

DeployCircleBridgeProxy(env) ==
    Deploy(env, "CircleBridgeProxy", <<"CIRCLE_BRIDGE", "CIRCLE_BRIDGE_FEE_COLLECTOR">>)

DeployCircleBridgeProxyV2(env) ==
    Deploy(env, "CircleBridgeProxyV2", <<"CIRCLE_BRIDGE", "CIRCLE_BRIDGE_FEE_COLLECTOR">>)

-----------------------------------------------------------------------------
(* pegged-bridge/tokens *)

DeploySingleBridgeToken(env) ==
    Deploy(env, "SingleBridgeToken",
           <<"SINGLE_BRIDGE_TOKEN_NAME", "SINGLE_BRIDGE_TOKEN_SYMBOL",
             "SINGLE_BRIDGE_TOKEN_DECIMALS", "SINGLE_BRIDGE_TOKEN_BRIDGE">>)

DeploySingleBridgeTokenPermit(env) ==
    Deploy(env, "SingleBridgeTokenPermit",
           <<"SINGLE_BRIDGE_TOKEN_PERMIT_NAME", "SINGLE_BRIDGE_TOKEN_PERMIT_SYMBOL",
             "SINGLE_BRIDGE_TOKEN_PERMIT_DECIMALS", "SINGLE_BRIDGE_TOKEN_PERMIT_BRIDGE">>)

DeployMultiBridgeToken(env) ==
    Deploy(env, "MultiBridgeToken",
           <<"MULTI_BRIDGE_TOKEN_NAME", "MULTI_BRIDGE_TOKEN_SYMBOL",
             "MULTI_BRIDGE_TOKEN_DECIMALS">>)
    \o Verify("MultiBridgeToken")

DeployMultiBridgeTokenPermit(env) ==
    Deploy(env, "MultiBridgeTokenPermit",
           <<"MULTI_BRIDGE_TOKEN_PERMIT_NAME", "MULTI_BRIDGE_TOKEN_PERMIT_SYMBOL",
             "MULTI_BRIDGE_TOKEN_PERMIT_DECIMALS">>)

CanonicalToken == <<"MINT_SWAP_CANONICAL_TOKEN_NAME", "MINT_SWAP_CANONICAL_TOKEN_SYMBOL",
                    "MINT_SWAP_CANONICAL_TOKEN_DECIMALS">>

DeployMintSwapCanonicalToken(env) ==
    Deploy(env, "MintSwapCanonicalToken", CanonicalToken) \o Verify("MintSwapCanonicalToken")

\* The symbol and the decimals are those of another token's variables.
DeployMintSwapCanonicalTokenPermit(env) ==
    Deploy(env, "MintSwapCanonicalTokenPermit",
           <<"MINT_SWAP_CANONICAL_TOKEN_PERMIT_NAME", "MULTI_BRIDGE_TOKEN_PERMIT_SYMBOL",
             "MULTI_BRIDGE_TOKEN_PERMIT_DECIMALS">>)

DeployMintSwapCanonicalTokenUpgradable(env) ==
    Upgradable(env, "MintSwapCanonicalTokenUpgradable", CanonicalToken,
               SubSeq(CanonicalToken, 1, 2), Deployer)

DeployMintSwapCanonicalTokenUpgradableFreezable(env) ==
    Upgradable(env, "MintSwapCanonicalTokenUpgradableFreezable", CanonicalToken,
               SubSeq(CanonicalToken, 1, 2), Deployer)

DeployMintSwapCanonicalTokenFreezable(env) ==
    Deploy(env, "MintSwapCanonicalTokenFreezable", CanonicalToken)

DeployWrappedBridgeToken(env) ==
    Deploy(env, "WrappedBridgeToken",
           <<"WRAPPED_BRIDGE_TOKEN_NAME", "WRAPPED_BRIDGE_TOKEN_SYMBOL",
             "WRAPPED_BRIDGE_TOKEN_BRIDGE", "WRAPPED_BRIDGE_TOKEN_CANONICAL">>)
    \o Verify("WrappedBridgeToken")

DeployIntermediaryBridgeToken(env) ==
    Deploy(env, "IntermediaryBridgeToken",
           <<"INTERMEDIARY_BRIDGE_TOKEN_NAME", "INTERMEDIARY_BRIDGE_TOKEN_SYMBOL",
             "INTERMEDIARY_BRIDGE_TOKEN_BRIDGE", "INTERMEDIARY_BRIDGE_TOKEN_CANONICAL">>)
    \o Verify("IntermediaryBridgeToken")

DeployIntermediaryOriginalToken(env) ==
    Deploy(env, "IntermediaryOriginalToken",
           <<"INTERMEDIARY_ORIGINAL_TOKEN_NAME", "INTERMEDIARY_ORIGINAL_TOKEN_SYMBOL",
             "INTERMEDIARY_ORIGINAL_TOKEN_BRIDGES", "INTERMEDIARY_ORIGINAL_TOKEN_CANONICAL">>)
    \o Verify("IntermediaryOriginalToken")

DeployCircleBridgeToken(env) ==
    Deploy(env, "CircleBridgeToken",
           <<"CIRCLE_BRIDGE_TOKEN_NAME", "CIRCLE_BRIDGE_TOKEN_SYMBOL",
             "CIRCLE_BRIDGE_TOKEN_BRIDGE", "CIRCLE_BRIDGE_TOKEN_CANONICAL",
             "CIRCLE_BRIDGE_TOKEN_ORIG_CHAIN_ID">>)
    \o Verify("CircleBridgeToken")

DeployFraxBridgeToken(env) ==
    Deploy(env, "FraxBridgeToken",
           <<"FRAX_BRIDGE_TOKEN_NAME", "FRAX_BRIDGE_TOKEN_SYMBOL",
             "FRAX_BRIDGE_TOKEN_BRIDGE", "FRAX_BRIDGE_TOKEN_CANONICAL">>)
    \o Verify("FraxBridgeToken")

DeployMaiBridgeToken(env) ==
    Deploy(env, "MaiBridgeToken",
           <<"MAI_BRIDGE_TOKEN_NAME", "MAI_BRIDGE_TOKEN_SYMBOL", "MAI_BRIDGE_TOKEN_BRIDGE",
             "MAI_BRIDGE_TOKEN_HUB">>)

DeployOntologyBridgeToken(env) ==
    Deploy(env, "OntologyBridgeToken",
           <<"ONTOLOGY_BRIDGE_TOKEN_NAME", "ONTOLOGY_BRIDGE_TOKEN_SYMBOL",
             "ONTOLOGY_BRIDGE_TOKEN_BRIDGE", "ONTOLOGY_BRIDGE_TOKEN_WRAPPER",
             "ONTOLOGY_BRIDGE_TOKEN_CANONICAL">>)

DeployRestrictedMultiBridgeTokenOwner(env) ==
    Deploy(env, "RestrictedMultiBridgeTokenOwner",
           <<"RESTRICTED_MULTI_BRIDGE_TOKEN_OWNER_TOKEN",
             "RESTRICTED_MULTI_BRIDGE_TOKEN_OWNER_BRIDGE">>)

-----------------------------------------------------------------------------
(* miscs *)

DeployTestToken(env) ==
    Deploy(env, "MintableERC20", <<"TEST_TOKEN_NAME", "TEST_TOKEN_SYMBOL",
                                   "TEST_TOKEN_DECIMALS", "TEST_TOKEN_SUPPLY">>)
    \o Verify("MintableERC20")

DeployFaucet(env) == Deploy(env, "Faucet", <<>>)
DeployDummySwap(env) == DeployWith("DummySwap", <<<<50000>>>>)
DeployWithdrawInbox(env) == Deploy(env, "WithdrawInbox", <<>>) \o Verify("WithdrawInbox")
DeployContractAsLP(env) == Deploy(env, "ContractAsLP", <<"BRIDGE", "WITHDRAW_INBOX">>)
DeployContractAsSender(env) == Deploy(env, "ContractAsSender", <<>>)
DeployTransferAgent(env) == Deploy(env, "TransferAgent", <<>>)

DeployDefaultProxyAdmin(env) ==
    IF "PROXY_ADMIN_OWNER" \notin DOMAIN env THEN Throw
    ELSE <<[op |-> "deploy", name |-> AdminName, contract |-> "ProxyAdmin",
            args |-> <<env.PROXY_ADMIN_OWNER>>, keep |-> FALSE]>>
         \o Verify(AdminName)
-----------------------------------------------------------------------------
(* The jobs, named after their tags *)

DeployJobs ==
    {"SGNStaking", "Sentinel", "GovernedOwner", "MessageBusOwner",
     "MessageBusInit", "MessageBus", "TransferSwap", "NFTBridge", "PegNFT",
     "OrigNFT", "MCNNFT", "MsgTest", "RFQ", "Adapter", "Bridge", "FarmingRewards",
     "OriginalTokenVault", "PeggedTokenBridge", "OriginalTokenVaultV2",
     "PeggedTokenBridgeV2", "PeggedBrc20Bridge", "PeggedNativeTokenBridge",
     "CircleBridgeProxy", "CircleBridgeProxyV2", "SingleBridgeToken",
     "SingleBridgeTokenPermit", "MultiBridgeToken", "MultiBridgeTokenPermit",
     "MintSwapCanonicalToken", "MintSwapCanonicalTokenPermit",
     "MintSwapCanonicalTokenUpgradable",
     "MintSwapCanonicalTokenUpgradableFreezable",
     "MintSwapCanonicalTokenFreezable", "WrappedBridgeToken",
     "IntermediaryBridgeToken", "IntermediaryOriginalToken", "CircleBridgeToken",
     "FraxBridgeToken", "MaiBridgeToken", "OntologyBridgeToken",
     "RestrictedMultiBridgeTokenOwner", "TestToken", "Faucet", "DummySwap",
     "WithdrawInbox", "ContractAsLP", "ContractAsSender", "TransferAgent",
     "DefaultProxyAdmin"}

DeployProgram(job, env, store) ==
    CASE job = "SGNStaking" -> DeploySGNStaking(env, store)
      [] job = "Sentinel" -> DeploySentinel(env)
      [] job = "GovernedOwner" -> DeployGovernedOwner(env, store)
      [] job = "MessageBusOwner" -> DeployMessageBusOwner(env)
      [] job = "MessageBusInit" -> DeployMessageBusInit(env)
      [] job = "MessageBus" -> DeployMessageBus(env)
      [] job = "TransferSwap" -> DeployTransferSwap(env)
      [] job = "NFTBridge" -> DeployNFTBridge(env)
      [] job = "PegNFT" -> DeployPegNFT(env)
      [] job = "OrigNFT" -> DeployOrigNFT(env)
      [] job = "MCNNFT" -> DeployMCNNFT(env)
      [] job = "MsgTest" -> DeployMsgTest(env)
      [] job = "RFQ" -> DeployRFQ(env)
      [] job = "Adapter" -> DeployAdapter(env)
      [] job = "Bridge" -> DeployBridge(env)
      [] job = "FarmingRewards" -> DeployFarmingRewards(env)
      [] job = "OriginalTokenVault" -> DeployOriginalTokenVault(env)
      [] job = "PeggedTokenBridge" -> DeployPeggedTokenBridge(env)
      [] job = "OriginalTokenVaultV2" -> DeployOriginalTokenVaultV2(env)
      [] job = "PeggedTokenBridgeV2" -> DeployPeggedTokenBridgeV2(env)
      [] job = "PeggedBrc20Bridge" -> DeployPeggedBrc20Bridge(env)
      [] job = "PeggedNativeTokenBridge" -> DeployPeggedNativeTokenBridge(env)
      [] job = "CircleBridgeProxy" -> DeployCircleBridgeProxy(env)
      [] job = "CircleBridgeProxyV2" -> DeployCircleBridgeProxyV2(env)
      [] job = "SingleBridgeToken" -> DeploySingleBridgeToken(env)
      [] job = "SingleBridgeTokenPermit" -> DeploySingleBridgeTokenPermit(env)
      [] job = "MultiBridgeToken" -> DeployMultiBridgeToken(env)
      [] job = "MultiBridgeTokenPermit" -> DeployMultiBridgeTokenPermit(env)
      [] job = "MintSwapCanonicalToken" -> DeployMintSwapCanonicalToken(env)
      [] job = "MintSwapCanonicalTokenPermit" -> DeployMintSwapCanonicalTokenPermit(env)
      [] job = "MintSwapCanonicalTokenUpgradable" -> DeployMintSwapCanonicalTokenUpgradable(env)
      [] job = "MintSwapCanonicalTokenUpgradableFreezable" -> DeployMintSwapCanonicalTokenUpgradableFreezable(env)
      [] job = "MintSwapCanonicalTokenFreezable" -> DeployMintSwapCanonicalTokenFreezable(env)
      [] job = "WrappedBridgeToken" -> DeployWrappedBridgeToken(env)
      [] job = "IntermediaryBridgeToken" -> DeployIntermediaryBridgeToken(env)
      [] job = "IntermediaryOriginalToken" -> DeployIntermediaryOriginalToken(env)
      [] job = "CircleBridgeToken" -> DeployCircleBridgeToken(env)
      [] job = "FraxBridgeToken" -> DeployFraxBridgeToken(env)
      [] job = "MaiBridgeToken" -> DeployMaiBridgeToken(env)
      [] job = "OntologyBridgeToken" -> DeployOntologyBridgeToken(env)
      [] job = "RestrictedMultiBridgeTokenOwner" -> DeployRestrictedMultiBridgeTokenOwner(env)
      [] job = "TestToken" -> DeployTestToken(env)
      [] job = "Faucet" -> DeployFaucet(env)
      [] job = "DummySwap" -> DeployDummySwap(env)
      [] job = "WithdrawInbox" -> DeployWithdrawInbox(env)
      [] job = "ContractAsLP" -> DeployContractAsLP(env)
      [] job = "ContractAsSender" -> DeployContractAsSender(env)
      [] job = "TransferAgent" -> DeployTransferAgent(env)
      [] job = "DefaultProxyAdmin" -> DeployDefaultProxyAdmin(env)
=============================================================================
