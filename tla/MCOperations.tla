---------------------------- MODULE MCOperations ----------------------------
(***************************************************************************)
(* Small instances of Operations: one session for each way the scripts and *)
(* the people meet, and one for each deployment script.                    *)
(***************************************************************************)
EXTENDS Operations

MCAccounts == {"deployer", "gov", "alice", "bob", "carol"}

-----------------------------------------------------------------------------
(* Environments *)

NoVars == [x \in {} |-> <<>>]

\* set_basics.ts: everything set; a second try with one list left empty, pairs
\* of different lengths, another delay and no pausers to add twice.
BasicsEnv ==
    [BRIDGE |-> <<"Bridge0">>, BRIDGE_PAUSERS |-> <<"alice">>, BRIDGE_GOVERNORS |-> <<"bob">>,
     BRIDGE_DELAY_PERIOD |-> <<5>>, BRIDGE_EPOCH_LENGTH |-> <<10>>,
     BRIDGE_MINIMAL_MAX_SLIPPAGE |-> <<3>>, BRIDGE_WETH |-> <<"weth">>]

BasicsAgain ==
    [BasicsEnv EXCEPT !.BRIDGE_PAUSERS = <<>>, !.BRIDGE_GOVERNORS = <<>>,
                      !.BRIDGE_DELAY_PERIOD = <<7>>, !.BRIDGE_EPOCH_LENGTH = <<>>]

PegBasicsEnv ==
    [PEGGED_TOKEN_BRIDGE |-> <<"PeggedNativeTokenBridge0">>,
     PEGGED_TOKEN_BRIDGE_PAUSERS |-> <<"alice", "bob">>,
     PEGGED_TOKEN_BRIDGE_GOVERNORS |-> <<>>,
     PEGGED_TOKEN_BRIDGE_DELAY_PERIOD |-> <<5>>, PEGGED_TOKEN_BRIDGE_EPOCH_LENGTH |-> <<10>>,
     PEGGED_TOKEN_BRIDGE_NATIVE_VAULT |-> <<"vault">>,
     ORIGINAL_TOKEN_VAULT |-> <<"OriginalTokenVault0">>,
     ORIGINAL_TOKEN_VAULT_PAUSERS |-> <<"alice">>, ORIGINAL_TOKEN_VAULT_GOVERNORS |-> <<"bob">>,
     ORIGINAL_TOKEN_VAULT_DELAY_PERIOD |-> <<5>>, ORIGINAL_TOKEN_VAULT_EPOCH_LENGTH |-> <<10>>,
     ORIGINAL_TOKEN_VAULT_WETH |-> <<"weth">>]

AppBasicsEnv ==
    [MESSAGE_BUS |-> <<"MessageBus0">>, MESSAGE_BUS_LIQUIDITY_BRIDGE |-> <<"Bridge0">>,
     MESSAGE_BUS_PEG_VAULT |-> <<"v">>, MESSAGE_BUS_PEG_BRIDGE |-> <<"b">>,
     MESSAGE_BUS_PEG_VAULT_V2 |-> <<"v2">>, MESSAGE_BUS_PEG_BRIDGE_V2 |-> <<"b2">>,
     RFQ_ADDR |-> <<"RFQ0">>, RFQ_PAUSERS |-> <<>>, RFQ_GOVERNORS |-> <<"bob">>,
     RFQ_REMOTE_CHAINS |-> <<"1", "2">>, RFQ_REMOTE_RFQS |-> <<"r1", "r2">>,
     RFQ_FEE_CHAINS |-> <<"0", "1", "0">>, RFQ_FEE_PERCS |-> <<4, 5, 6>>,
     RFQ_TREASURE_ADDR |-> <<"treasury">>, RFQ_NATIVE_WRAP |-> <<"weth">>]

\* A zero address, a fee that is too large, a list of one against an empty one
\* and a variable that is missing.
AppBasicsBad ==
    [AppBasicsEnv EXCEPT !.MESSAGE_BUS_LIQUIDITY_BRIDGE = <<>>, !.MESSAGE_BUS_PEG_VAULT = <<"zero">>]
AppBasicsFee ==
    [AppBasicsEnv EXCEPT !.RFQ_GOVERNORS = <<>>, !.RFQ_REMOTE_CHAINS = <<>>, !.RFQ_FEE_PERCS = <<4, 5, 1000000>>]
AppBasicsPairs ==
    [AppBasicsEnv EXCEPT !.RFQ_GOVERNORS = <<>>, !.RFQ_REMOTE_RFQS = <<"r1">>,
                         !.RFQ_FEE_CHAINS = <<"1">>, !.RFQ_FEE_PERCS = <<>>]
AppBasicsMissing ==
    [x \in DOMAIN AppBasicsEnv \ {"RFQ_PAUSERS"} |-> AppBasicsEnv[x]]

\* set_limits.ts, directly and through the Sentinel.
LimitsEnv ==
    [SENTINEL |-> <<"Sentinel0">>, BRIDGE |-> <<"Bridge0">>,
     BRIDGE_LIMIT_TOKENS |-> <<"usdc", "weth">>, BRIDGE_LIMIT_DECIMALS |-> <<0, 1>>,
     BRIDGE_LIMIT_MIN_ADDS |-> <<1, 1>>, BRIDGE_LIMIT_MIN_SENDS |-> <<2, 2>>,
     BRIDGE_LIMIT_MAX_SENDS |-> <<8, 8>>, BRIDGE_LIMIT_EPOCH_VOLUME_CAPS |-> <<9, 9>>,
     BRIDGE_LIMIT_DELAY_THRESHOLDS |-> <<3>>]

VaultLimitsEnv ==
    [SENTINEL |-> <<"Sentinel0">>, ORIGINAL_TOKEN_VAULT |-> <<"OriginalTokenVault0">>,
     ORIGINAL_TOKEN_VAULT_LIMIT_TOKENS |-> <<"usdc">>, ORIGINAL_TOKEN_VAULT_LIMIT_DECIMALS |-> <<>>,
     ORIGINAL_TOKEN_VAULT_LIMIT_MIN_DEPOSITS |-> <<1>>,
     ORIGINAL_TOKEN_VAULT_LIMIT_MAX_DEPOSITS |-> <<7>>,
     ORIGINAL_TOKEN_VAULT_LIMIT_DELAY_THRESHOLDS |-> <<2>>,
     PEGGED_TOKEN_BRIDGE |-> <<"PeggedTokenBridge0">>,
     PEGGED_TOKEN_BRIDGE_LIMIT_TOKENS |-> <<"usdc", "usdc">>,
     PEGGED_TOKEN_BRIDGE_LIMIT_DECIMALS |-> <<1, 0>>,
     PEGGED_TOKEN_BRIDGE_LIMIT_MIN_BURNS |-> <<1, 2>>,
     PEGGED_TOKEN_BRIDGE_LIMIT_MAX_BURNS |-> <<6, 6>>,
     PEGGED_TOKEN_BRIDGE_LIMIT_EPOCH_VOLUME_CAPS |-> <<5, 5>>]

NoDecimals ==
    [x \in DOMAIN LimitsEnv \ {"BRIDGE_LIMIT_DECIMALS"} |-> LimitsEnv[x]]

OneTokenMore == [LimitsEnv EXCEPT !.BRIDGE_LIMIT_TOKENS = <<"usdc">>]

\* What tightens the limits of LimitsEnv, so that a guarded Sentinel relays it;
\* and what tightens some of them only.
TighterEnv ==
    [SENTINEL |-> <<"Sentinel0">>, BRIDGE |-> <<"Bridge0">>,
     BRIDGE_LIMIT_TOKENS |-> <<"usdc">>, BRIDGE_LIMIT_DECIMALS |-> <<0>>,
     BRIDGE_LIMIT_MIN_SENDS |-> <<3>>, BRIDGE_LIMIT_MAX_SENDS |-> <<7>>]
MixedEnv == [TighterEnv EXCEPT !.BRIDGE_LIMIT_MIN_SENDS = <<4>>, !.BRIDGE_LIMIT_MAX_SENDS = <<9>>]

HandOverEnv ==
    [TRANSFER_OWNERSHIP_CONTRACT |-> <<"Bridge0">>, TRANSFER_OWNERSHIP_NEW_OWNER |-> <<"gov">>,
     BRIDGE |-> <<"Bridge0">>, BRIDGE_PAUSERS |-> <<"alice">>, BRIDGE_GOVERNORS |-> <<>>,
     BRIDGE_SIGNERS |-> <<"s1", "s2">>, BRIDGE_POWERS |-> <<1, 2>>]

InitGovEnv == [GOVERNED_OWNER_PROXY |-> <<"GovernedOwnerProxy0">>, SIMPLE_GOVERNANCE |-> <<"gov">>]

CapEnv ==
    [MINT_SWAP_CANONICAL_TOKEN |-> <<"MintSwapCanonicalToken0">>,
     MINT_SWAP_CANONICAL_TOKEN_BRIDGE |-> <<"Bridge0">>, MINT_SWAP_CANONICAL_TOKEN_CAP |-> <<9>>]
NoCap == [x \in DOMAIN CapEnv \ {"MINT_SWAP_CANONICAL_TOKEN_CAP"} |-> CapEnv[x]]

OasysEnv ==
    [PEGGED_TOKEN_BRIDGE |-> <<"PeggedTokenBridgeV20">>,
     OASYS_TOKEN_FACTORY |-> <<"L1StandardERC20Factory0">>,
     OASYS_FACTORY_TOKEN_NAME |-> <<"name">>, OASYS_FACTORY_TOKEN_SYMBOL |-> <<"symbol">>,
     OASYS_FACTORY_SPELLED_AS_LOGGED |-> <<TRUE>>]
OasysLowerCase == [OasysEnv EXCEPT !.OASYS_FACTORY_SPELLED_AS_LOGGED = <<FALSE>>]

\* The deployments: every variable any of them reads, with one value, then with
\* another; and without some.
AddressVars ==
    {"CELR", "MESSAGE_BUS_SIGS_VERIFIER", "MESSAGE_BUS_LIQUIDITY_BRIDGE",
     "MESSAGE_BUS_PEG_BRIDGE", "MESSAGE_BUS_PEG_VAULT", "MESSAGE_BUS_PEG_BRIDGE_V2",
     "MESSAGE_BUS_PEG_VAULT_V2", "CC_SWAP_MSG_BUS", "CC_SWAP_DEX", "CC_SWAP_BRIDGE",
     "CC_SWAP_BRIDGE_TOKEN", "CC_SWAP_NATIVE_WRAP", "MSG_BUS_ADDR", "NFT_BRIDGE_ADDR",
     "NFT_NAME", "NFT_SYM", "MESSAGE_BUS_ADDR", "FARMING_REWARDS_SIGS_VERIFIER",
     "ORIGINAL_TOKEN_VAULT_SIGS_VERIFIER", "PEGGED_TOKEN_BRIDGE_SIGS_VERIFIER",
     "PEGGED_BRC20_BRIDGE_MINTER", "CIRCLE_BRIDGE", "CIRCLE_BRIDGE_FEE_COLLECTOR", "BRIDGE",
     "WITHDRAW_INBOX", "RESTRICTED_MULTI_BRIDGE_TOKEN_OWNER_TOKEN",
     "RESTRICTED_MULTI_BRIDGE_TOKEN_OWNER_BRIDGE"}
    \cup {token \o field : token \in
            {"SINGLE_BRIDGE_TOKEN", "SINGLE_BRIDGE_TOKEN_PERMIT", "MULTI_BRIDGE_TOKEN",
             "MULTI_BRIDGE_TOKEN_PERMIT", "MINT_SWAP_CANONICAL_TOKEN",
             "MINT_SWAP_CANONICAL_TOKEN_PERMIT", "WRAPPED_BRIDGE_TOKEN",
             "INTERMEDIARY_BRIDGE_TOKEN", "INTERMEDIARY_ORIGINAL_TOKEN",
             "CIRCLE_BRIDGE_TOKEN", "FRAX_BRIDGE_TOKEN", "MAI_BRIDGE_TOKEN",
             "ONTOLOGY_BRIDGE_TOKEN", "TEST_TOKEN"},
            field \in {"_NAME", "_SYMBOL", "_BRIDGE", "_BRIDGES", "_CANONICAL", "_WRAPPER", "_HUB"}}

NumberVars ==
    {"PROPOSAL_DEPOSIT", "VOTING_PERIOD", "UNBONDING_PERIOD", "MAX_VALIDATOR_NUM",
     "MIN_VALIDATOR_TOKENS", "MIN_SELF_DELEGATION", "ADVANCE_NOTICE_PERIOD",
     "VALIDATOR_BOND_INTERVAL", "MAX_SLASH_FACTOR", "TEST_TOKEN_SUPPLY",
     "CIRCLE_BRIDGE_TOKEN_ORIG_CHAIN_ID", "SINGLE_BRIDGE_TOKEN_DECIMALS",
     "SINGLE_BRIDGE_TOKEN_PERMIT_DECIMALS", "MULTI_BRIDGE_TOKEN_DECIMALS",
     "MULTI_BRIDGE_TOKEN_PERMIT_DECIMALS", "MINT_SWAP_CANONICAL_TOKEN_DECIMALS",
     "TEST_TOKEN_DECIMALS"}

DeployEnv(address, number) ==
    [x \in AddressVars |-> <<address>>] @@ [x \in NumberVars |-> <<number>>]
    @@ [SENTINEL_GUARDS |-> <<address, "bob">>, SENTINEL_PAUSERS |-> <<address>>,
        SENTINEL_GOVERNORS |-> <<address>>, GOVERNANCE_INITIALIZER |-> <<address>>,
        GOVERNANCE_VOTERS |-> <<"alice", "bob">>, GOVERNANCE_POWERS |-> <<number, 1>>,
        GOVERNANCE_ACTIVE_PERIOD |-> <<2>>, GOVERNANCE_QUORUM_THRESHOLD |-> <<60>>,
        GOVERNANCE_FAST_PASS_THRESHOLD |-> <<40>>, PROXY_ADMIN_OWNER |-> <<"deployer">>]

DeployFirst == DeployEnv("a1", 1)
DeployChanged == DeployEnv("a2", 2)

\* A voter without power, an admin the deployer does not control, and variables
\* that are not set.
DeployInvalid ==
    [x \in DOMAIN DeployFirst \ {"MAX_SLASH_FACTOR", "NFT_NAME", "GOVERNANCE_FAST_PASS_THRESHOLD"} |->
        IF x = "GOVERNANCE_POWERS" THEN <<0, 1>>
        ELSE IF x = "PROXY_ADMIN_OWNER" THEN <<"bob">> ELSE DeployFirst[x]]

MCEnvs ==
    [none |-> NoVars, basics |-> BasicsEnv, basicsAgain |-> BasicsAgain,
     pegBasics |-> PegBasicsEnv, appBasics |-> AppBasicsEnv, appBad |-> AppBasicsBad,
     appFee |-> AppBasicsFee, appPairs |-> AppBasicsPairs, appMissing |-> AppBasicsMissing,
     limits |-> LimitsEnv, vaultLimits |-> VaultLimitsEnv, noDecimals |-> NoDecimals,
     oneTokenMore |-> OneTokenMore, tighter |-> TighterEnv, mixed |-> MixedEnv,
     handOver |-> HandOverEnv, initGov |-> InitGovEnv, cap |-> CapEnv, noCap |-> NoCap,
     oasys |-> OasysEnv, oasysLowerCase |-> OasysLowerCase,
     first |-> DeployFirst, changed |-> DeployChanged, invalid |-> DeployInvalid]

-----------------------------------------------------------------------------
(* Sessions *)

Moves(froms, calls) == [from : froms, call : calls]

NoSettings == [x \in {} |-> 0]

\* Nothing deployed, nobody about.
Bare ==
    [preset |-> NoVars, owner |-> "deployer", settings |-> NoSettings, store |-> NoVars,
     guards |-> <<>>, pausers |-> <<>>, governors |-> <<>>,
     powers |-> [a \in {"alice"} |-> 1], proxies |-> {}, period |-> 1, quorum |-> 60,
     fastPass |-> 40, jobs |-> {}, moves |-> {}, proposals |-> {}]

Built(names) == [n \in names |-> <<>>]

DeploySession(job) ==
    [Bare EXCEPT !.jobs = {<<job, "first">>, <<job, "changed">>, <<job, "invalid">>}]

\* The Sentinel is guarded by two guards, the first of whom is the deployer.
Guarded ==
    [Bare EXCEPT !.preset = Built({"Sentinel", "Bridge", "OriginalTokenVault"}),
                 !.guards = <<"deployer", "alice">>, !.pausers = <<"bob">>,
                 !.governors = <<"deployer", "bob">>]

Threshold2(add, remove, threshold) ==
    [Call("Sentinel0", "updateGuards", add, remove) EXCEPT !.target = "Sentinel0"]
    @@ [threshold |-> threshold]

SentinelMove(method, keys, values) == Call("Sentinel0", method, keys, values)

Relayed(method, keys, values) == [Call("Bridge0", method, keys, values) EXCEPT !.to = "Sentinel0"]

GuardsSession ==
    [Guarded EXCEPT
        !.jobs = {<<"sentinel_guard", "tighter">>, <<"sentinel_relax", "tighter">>,
                  <<"sentinel_relax", "none">>},
        !.moves = Moves({"alice", "bob"}, {SentinelMove("guard", <<>>, <<>>),
                                           SentinelMove("relax", <<>>, <<>>)})
            \cup Moves({"deployer"},
                    {Threshold2(<<"carol">>, <<"alice">>, 1), Threshold2(<<"bob", "alice">>, <<>>, 2),
                     Threshold2(<<>>, <<"deployer", "carol">>, 0), Threshold2(<<>>, <<>>, 1),
                     Threshold2(<<"alice">>, <<"alice">>, 2)})
            \cup Moves({"bob"}, {SentinelMove("pause", <<"Bridge0", "OriginalTokenVault0">>, <<>>),
                                 SentinelMove("unpause", <<"Bridge0">>, <<>>)})]

SentinelLimitsSession ==
    [Guarded EXCEPT
        !.settings = <<"Bridge0", "setMaxSend", "usdc">> :> 8
                     @@ <<"Bridge0", "setMinSend", "usdc">> :> 2,
        !.jobs = {<<"sentinel_set_limits", "tighter">>, <<"sentinel_set_limits", "mixed">>},
        !.moves = Moves({"alice"}, {SentinelMove("relax", <<>>, <<>>)})
            \cup Moves({"deployer"}, {SentinelMove("relax", <<>>, <<>>),
                                     SentinelMove("guard", <<>>, <<>>)})
            \cup Moves({"bob"}, {Relayed("setMaxSend", <<"usdc">>, <<6>>),
                                 Relayed("setEpochLength", <<Only>>, <<5>>),
                                 Relayed("setMinimalMaxSlippage", <<Only>>, <<5>>),
                                 SentinelMove("renounceGovernor", <<"bob">>, <<>>)})]

SentinelRolesSession ==
    [Guarded EXCEPT
        !.guards = <<>>,
        !.jobs = {<<"sentinel_set_limits", "tighter">>},
        !.moves = Moves({"deployer"},
                    {SentinelMove("addGovernors", <<"alice">>, <<>>),
                     SentinelMove("removeGovernors", <<"alice", "deployer">>, <<>>),
                     SentinelMove("addPausers", <<"alice">>, <<"PauseOnly">>),
                     SentinelMove("setPausers", <<"bob">>, <<"PauseOnly">>),
                     SentinelMove("removePausers", <<"bob">>, <<>>),
                     Call("Bridge0", "removePauser", <<"Sentinel0">>, <<>>)})
            \cup Moves({"alice", "bob"}, {SentinelMove("pause", <<"Bridge0">>, <<>>),
                                          SentinelMove("unpause", <<"Bridge0">>, <<>>)})]

DirectLimitsSession ==
    [Bare EXCEPT
        !.preset = Built({"Sentinel", "Bridge", "OriginalTokenVault", "PeggedTokenBridge"}),
        !.jobs = {<<"set_limits", "limits">>, <<"set_limits", "vaultLimits">>,
                  <<"set_limits", "noDecimals">>, <<"set_limits", "oneTokenMore">>},
        !.governors = <<"bob">>,
        !.moves = Moves({"bob"}, {Relayed("setMaxSend", <<"usdc">>, <<6>>)})
            \cup Moves({"deployer"}, {Call("Bridge0", "renounceGovernor", <<"deployer">>, <<>>)})]

SentinelDirectSession ==
    [Bare EXCEPT
        !.preset = Built({"Sentinel", "Bridge", "OriginalTokenVault", "PeggedTokenBridge"}),
        !.governors = <<"deployer">>,
        !.jobs = {<<"sentinel_set_limits", "limits">>, <<"sentinel_set_limits", "vaultLimits">>,
                  <<"sentinel_set_limits", "noDecimals">>, <<"sentinel_set_limits", "none">>},
        !.moves = Moves({"deployer"}, {Scalar("Sentinel0", "transferOwnership", "alice")})]

BasicsSession ==
    [Bare EXCEPT
        !.preset = Built({"Bridge"}),
        !.jobs = {<<"set_basics", "basics">>, <<"set_basics", "basicsAgain">>},
        !.moves = Moves({"bob"}, {Scalar("Bridge0", "setDelayPeriod", 6)})
            \cup Moves({"alice"}, {Call("Bridge0", "pause", <<>>, <<>>),
                                   Call("Bridge0", "renouncePauser", <<"alice">>, <<>>)})]

PegBasicsSession ==
    [Bare EXCEPT
        !.preset = Built({"PeggedNativeTokenBridge", "OriginalTokenVault"}),
        !.jobs = {<<"set_basics", "pegBasics">>}]

AppBasicsSession ==
    [Bare EXCEPT
        !.preset = Built({"MessageBus", "RFQ"}),
        !.jobs = {<<"set_basics", e>> :
                    e \in {"appBasics", "appBad", "appFee", "appPairs", "appMissing"}}]

SmallScriptsSession ==
    [Bare EXCEPT
        !.preset = [MintSwapCanonicalToken |-> <<>>, MessageBus |-> <<>>,
                    GovernedOwnerProxy |-> <<<<"deployer">>>>],
        !.store = [MessageBus_Proxy |-> "MessageBus0"],
        !.jobs = {<<"update_bridge_supply_cap", "cap">>, <<"update_bridge_supply_cap", "noCap">>,
                  <<"update_bridge_supply_cap", "none">>, <<"set_msg_fee", "none">>,
                  <<"init_governed_owner", "initGov">>},
        !.moves = Moves({"deployer"}, {Scalar("MessageBus0", "transferOwnership", "alice")})]

OasysSession ==
    [Bare EXCEPT
        !.preset = Built({"L1StandardERC20Factory"}),
        !.jobs = {<<"oasys_token_factory", "oasys">>, <<"oasys_token_factory", "oasysLowerCase">>}]

NoProxySession == [Bare EXCEPT !.jobs = {<<"set_msg_fee", "none">>, <<"set_basics", "none">>,
                                         <<"init_governed_owner", "none">>,
                                         <<"transfer_ownership", "none">>,
                                         <<"reset_signers", "none">>,
                                         <<"sentinel_guard", "none">>}]

\* The bridge is handed over to the governance while proposals about it, and
\* scripts of the deployer, are under way.
HandOverSession ==
    [Bare EXCEPT
        !.preset = [Bridge |-> <<>>, GovernedOwnerProxy |-> <<<<"deployer">>>>],
        !.settings = <<"GovernedOwnerProxy0", "initGov", Only>> :> "gov",
        !.powers = [a \in {"alice", "carol"} |-> IF a = "carol" THEN 2 ELSE 1],
        !.quorum = 70,
        !.proxies = {"GovernedOwnerProxy0"},
        !.jobs = {<<"transfer_ownership", "handOver">>, <<"reset_signers", "handOver">>,
                  <<"set_basics", "handOver">>},
        !.proposals = {Call("Bridge0", "resetSigners", <<"s3">>, <<1>>)}]

\* The governance owns the bridge, and changes itself.
GovernedSession ==
    [Bare EXCEPT
        !.preset = Built({"Bridge"}), !.owner = "gov",
        !.powers = [a \in {"alice", "bob", "carol"} |-> 1],
        !.quorum = 70,
        !.proposals = {Scalar("Bridge0", "setWrap", "weth"),
                       Call("gov", "voters", <<"carol", "alice">>, <<0, 3>>),
                       Call("gov", "params", <<"FastPassThreshold">>, <<80>>),
                       Call("gov", "params", <<"QuorumThreshold">>, <<50>>)}]

MoreGovernedSession ==
    [Bare EXCEPT
        !.preset = [Bridge |-> <<>>, GovernedOwnerProxy |-> <<<<"deployer">>>>],
        !.owner = "gov",
        !.settings = <<"GovernedOwnerProxy0", "initGov", Only>> :> "gov",
        !.powers = [a \in {"alice", "bob"} |-> IF a = "alice" THEN 2 ELSE 1],
        !.proxies = {"GovernedOwnerProxy0"},
        !.proposals = {Call("Bridge0", "notifyResetSigners", <<>>, <<>>),
                       Call("Bridge0", "addPauser", <<"carol">>, <<>>),
                       Call("gov", "proxies", <<"GovernedOwnerProxy0">>, <<FALSE>>),
                       Call("gov", "params", <<"ActivePeriod">>, <<2>>),
                       Call("gov", "transfer", <<"alice">>, <<1>>)},
        !.moves = Moves({"deployer"}, {Call("Bridge0", "removePauser", <<"alice">>, <<>>),
                                       Call("Bridge0", "removeGovernor", <<"deployer">>, <<>>)})]

MCSessions ==
    [guards |-> GuardsSession, sentinelLimits |-> SentinelLimitsSession,
     sentinelRoles |-> SentinelRolesSession, directLimits |-> DirectLimitsSession,
     sentinelDirect |-> SentinelDirectSession, basics |-> BasicsSession,
     pegBasics |-> PegBasicsSession, appBasics |-> AppBasicsSession,
     smallScripts |-> SmallScriptsSession, oasys |-> OasysSession, noProxy |-> NoProxySession,
     handOver |-> HandOverSession, governed |-> GovernedSession,
     moreGoverned |-> MoreGovernedSession]
    @@ [job \in {"deploy " \o j : j \in DeployJobs} |->
            DeploySession(CHOOSE j \in DeployJobs : job = "deploy " \o j)]
=============================================================================
