------------------------------ MODULE Scripts ------------------------------
(***************************************************************************)
(* The scripts the operator runs on deployed contracts (scripts/ and       *)
(* scripts/sentinel/), each as the sequence of steps it goes through for a *)
(* given environment.  A step waits for one call to be mined, sends one    *)
(* without waiting, reads a deployment record, looks for a log, or throws. *)
(* Operations.tla runs the steps against the contracts.                    *)
(*                                                                         *)
(* The environment maps the variables that are set to the sequence of      *)
(* their comma-separated parts; a variable set to the empty string has     *)
(* none.                                                                   *)
(***************************************************************************)
EXTENDS Admin

IsSet(env, x) == x \in DOMAIN env /\ env[x] # <<>>
First(env, x) == env[x][1]

Throw == <<[op |-> "throw"]>>

\* An awaited call whose gas is estimated first, so that one that would revert
\* is never sent.
Do(call) == <<[op |-> "call", call |-> call, estimated |-> TRUE]>>

\* An awaited call with a gas limit of its own: it is sent whatever it will do.
DoUnestimated(call) == <<[op |-> "call", call |-> call, estimated |-> FALSE]>>

\* A call that is sent, and whose receipt nobody waits for.
Send(call) == <<[op |-> "send", call |-> call, estimated |-> TRUE]>>

SetIf(env, x, to, method) ==
    IF IsSet(env, x) THEN Do(Scalar(to, method, First(env, x))) ELSE <<>>

\* One transaction for each account of a list.  The list is split before it is
\* looked at: leaving the variable out throws, leaving it empty adds nobody.
AddEach(env, x, to, method) ==
    IF x \notin DOMAIN env THEN Throw
    ELSE FlattenSeq([i \in DOMAIN env[x] |-> Do(Call(to, method, <<env[x][i]>>, <<>>))])

\* Two parallel lists: skipped in silence unless they have the same length, and
\* an empty one counts as one empty part.
SetPairs(env, keys, values, to, method) ==
    IF {keys, values} \subseteq DOMAIN env /\ env[keys] = <<>> THEN <<>>
    ELSE IF ~({keys, values} \subseteq DOMAIN env) THEN Throw
    ELSE IF env[values] = <<>> THEN IF Len(env[keys]) = 1 THEN Throw ELSE <<>>
    ELSE IF Len(env[keys]) = Len(env[values])
         THEN Do(Call(to, method, env[keys], env[values])) ELSE <<>>

-----------------------------------------------------------------------------
(* set_basics.ts *)

BridgeBasics(env) ==
    LET bridge == First(env, "BRIDGE") IN
    IF ~IsSet(env, "BRIDGE") THEN <<>>
    ELSE AddEach(env, "BRIDGE_PAUSERS", bridge, "addPauser")
         \o AddEach(env, "BRIDGE_GOVERNORS", bridge, "addGovernor")
         \o SetIf(env, "BRIDGE_DELAY_PERIOD", bridge, "setDelayPeriod")
         \o SetIf(env, "BRIDGE_EPOCH_LENGTH", bridge, "setEpochLength")
         \o SetIf(env, "BRIDGE_MINIMAL_MAX_SLIPPAGE", bridge, "setMinimalMaxSlippage")
         \o SetIf(env, "BRIDGE_WETH", bridge, "setWrap")

PeggedTokenBridgeBasics(env) ==
    LET peg == First(env, "PEGGED_TOKEN_BRIDGE") IN
    IF ~IsSet(env, "PEGGED_TOKEN_BRIDGE") THEN <<>>
    ELSE AddEach(env, "PEGGED_TOKEN_BRIDGE_PAUSERS", peg, "addPauser")
         \o AddEach(env, "PEGGED_TOKEN_BRIDGE_GOVERNORS", peg, "addGovernor")
         \o SetIf(env, "PEGGED_TOKEN_BRIDGE_DELAY_PERIOD", peg, "setDelayPeriod")
         \o SetIf(env, "PEGGED_TOKEN_BRIDGE_EPOCH_LENGTH", peg, "setEpochLength")

PeggedNativeTokenBridgeBasics(env) ==
    IF ~IsSet(env, "PEGGED_TOKEN_BRIDGE") THEN <<>>
    ELSE SetIf(env, "PEGGED_TOKEN_BRIDGE_NATIVE_VAULT", First(env, "PEGGED_TOKEN_BRIDGE"),
               "setNativeVault")

OriginalTokenVaultBasics(env) ==
    LET vault == First(env, "ORIGINAL_TOKEN_VAULT") IN
    IF ~IsSet(env, "ORIGINAL_TOKEN_VAULT") THEN <<>>
    ELSE AddEach(env, "ORIGINAL_TOKEN_VAULT_PAUSERS", vault, "addPauser")
         \o AddEach(env, "ORIGINAL_TOKEN_VAULT_GOVERNORS", vault, "addGovernor")
         \o SetIf(env, "ORIGINAL_TOKEN_VAULT_DELAY_PERIOD", vault, "setDelayPeriod")
         \o SetIf(env, "ORIGINAL_TOKEN_VAULT_EPOCH_LENGTH", vault, "setEpochLength")
         \o SetIf(env, "ORIGINAL_TOKEN_VAULT_WETH", vault, "setWrap")

MessageBusBasics(env) ==
    LET bus == First(env, "MESSAGE_BUS") IN
    IF ~IsSet(env, "MESSAGE_BUS") THEN <<>>
    ELSE SetIf(env, "MESSAGE_BUS_LIQUIDITY_BRIDGE", bus, "setLiquidityBridge")
         \o SetIf(env, "MESSAGE_BUS_PEG_VAULT", bus, "setPegVault")
         \o SetIf(env, "MESSAGE_BUS_PEG_BRIDGE", bus, "setPegBridge")
         \o SetIf(env, "MESSAGE_BUS_PEG_VAULT_V2", bus, "setPegVaultV2")
         \o SetIf(env, "MESSAGE_BUS_PEG_BRIDGE_V2", bus, "setPegBridgeV2")

RFQBasics(env) ==
    LET rfq == First(env, "RFQ_ADDR") IN
    IF ~IsSet(env, "RFQ_ADDR") THEN <<>>
    ELSE AddEach(env, "RFQ_PAUSERS", rfq, "addPauser")
         \o AddEach(env, "RFQ_GOVERNORS", rfq, "addGovernor")
         \o SetPairs(env, "RFQ_REMOTE_CHAINS", "RFQ_REMOTE_RFQS", rfq, "setRemoteRfqContracts")
         \o SetPairs(env, "RFQ_FEE_CHAINS", "RFQ_FEE_PERCS", rfq, "setFeePerc")
         \o SetIf(env, "RFQ_TREASURE_ADDR", rfq, "setTreasuryAddr")
         \o SetIf(env, "RFQ_NATIVE_WRAP", rfq, "setNativeWrap")

SetBasics(env) ==
    BridgeBasics(env)
    \o OriginalTokenVaultBasics(env)
    \o PeggedTokenBridgeBasics(env)
    \o MessageBusBasics(env)
    \o PeggedNativeTokenBridgeBasics(env)
    \o RFQBasics(env)

-----------------------------------------------------------------------------
(* set_limits.ts *)

\* parseUnits: a limit is written in whole tokens and scaled by the decimals.
ParseUnits(values, decimals) == [i \in DOMAIN values |-> values[i] * 10^decimals[i]]

\* The decimals of the tokens; the empty string splits into one part, and the
\* number an empty string converts to is zero.
Decimals(env, x) == IF env[x] = <<>> THEN <<0>> ELSE env[x]

\* Skipped in silence unless there is a limit for each of the decimals.
SetLimitIfSpecified(env, x, to, method, tokens, decimals) ==
    IF IsSet(env, x) /\ Len(env[x]) = Len(decimals)
    THEN Do(Call(to, method, tokens, ParseUnits(env[x], decimals))) ELSE <<>>

\* What setting the limits of one contract goes through: names are the variables
\* with its address, its tokens and their decimals, limits the variables with
\* the limits and the methods that set them, in order.
LimitsOf(env, names, limits) ==
    IF ~(IsSet(env, names[1]) /\ IsSet(env, names[2])) THEN <<>>
    ELSE IF names[3] \notin DOMAIN env THEN Throw
    ELSE FlattenSeq([i \in DOMAIN limits |->
            SetLimitIfSpecified(env, limits[i][1], First(env, names[1]), limits[i][2],
                                env[names[2]], Decimals(env, names[3]))])

BridgeLimits(env) ==
    LimitsOf(env, <<"BRIDGE", "BRIDGE_LIMIT_TOKENS", "BRIDGE_LIMIT_DECIMALS">>,
        <<<<"BRIDGE_LIMIT_MIN_ADDS", "setMinAdd">>,
          <<"BRIDGE_LIMIT_MIN_SENDS", "setMinSend">>,
          <<"BRIDGE_LIMIT_MAX_SENDS", "setMaxSend">>,
          <<"BRIDGE_LIMIT_EPOCH_VOLUME_CAPS", "setEpochVolumeCaps">>,
          <<"BRIDGE_LIMIT_DELAY_THRESHOLDS", "setDelayThresholds">>>>)

OriginalTokenVaultLimits(env) ==
    LimitsOf(env, <<"ORIGINAL_TOKEN_VAULT", "ORIGINAL_TOKEN_VAULT_LIMIT_TOKENS",
                    "ORIGINAL_TOKEN_VAULT_LIMIT_DECIMALS">>,
        <<<<"ORIGINAL_TOKEN_VAULT_LIMIT_MIN_DEPOSITS", "setMinDeposit">>,
          <<"ORIGINAL_TOKEN_VAULT_LIMIT_MAX_DEPOSITS", "setMaxDeposit">>,
          <<"ORIGINAL_TOKEN_VAULT_LIMIT_EPOCH_VOLUME_CAPS", "setEpochVolumeCaps">>,
          <<"ORIGINAL_TOKEN_VAULT_LIMIT_DELAY_THRESHOLDS", "setDelayThresholds">>>>)

PeggedTokenBridgeLimits(env) ==
    LimitsOf(env, <<"PEGGED_TOKEN_BRIDGE", "PEGGED_TOKEN_BRIDGE_LIMIT_TOKENS",
                    "PEGGED_TOKEN_BRIDGE_LIMIT_DECIMALS">>,
        <<<<"PEGGED_TOKEN_BRIDGE_LIMIT_MIN_BURNS", "setMinBurn">>,
          <<"PEGGED_TOKEN_BRIDGE_LIMIT_MAX_BURNS", "setMaxBurn">>,
          <<"PEGGED_TOKEN_BRIDGE_LIMIT_EPOCH_VOLUME_CAPS", "setEpochVolumeCaps">>,
          <<"PEGGED_TOKEN_BRIDGE_LIMIT_DELAY_THRESHOLDS", "setDelayThresholds">>>>)

SetLimits(env) ==
    BridgeLimits(env) \o OriginalTokenVaultLimits(env) \o PeggedTokenBridgeLimits(env)

-----------------------------------------------------------------------------
(* sentinel/: the same limits through the Sentinel, and the guards' switch *)

\* The script for the Sentinel reads the same variables and makes the same calls
\* in the same order, each sent to the Sentinel with the contract as its target.
ThroughSentinel(env, program) ==
    [i \in DOMAIN program |->
        IF program[i].op = "throw" THEN program[i]
        ELSE [program[i] EXCEPT !.call.to = First(env, "SENTINEL")]]

SentinelBridgeLimits(env) == ThroughSentinel(env, BridgeLimits(env))
SentinelOriginalTokenVaultLimits(env) == ThroughSentinel(env, OriginalTokenVaultLimits(env))
SentinelPeggedTokenBridgeLimits(env) == ThroughSentinel(env, PeggedTokenBridgeLimits(env))

SentinelSetLimits(env) ==
    IF ~IsSet(env, "SENTINEL") THEN <<>>
    ELSE SentinelBridgeLimits(env)
         \o SentinelOriginalTokenVaultLimits(env)
         \o SentinelPeggedTokenBridgeLimits(env)

SentinelGuard(env) ==
    IF ~IsSet(env, "SENTINEL") THEN <<>>
    ELSE Do(Call(First(env, "SENTINEL"), "guard", <<>>, <<>>))

SentinelRelax(env) ==
    IF ~IsSet(env, "SENTINEL") THEN <<>>
    ELSE Do(Call(First(env, "SENTINEL"), "relax", <<>>, <<>>))

-----------------------------------------------------------------------------
(* The scripts that do one thing *)

InitGovernedOwner(env) ==
    IF ~(IsSet(env, "GOVERNED_OWNER_PROXY") /\ IsSet(env, "SIMPLE_GOVERNANCE")) THEN <<>>
    ELSE Do(Scalar(First(env, "GOVERNED_OWNER_PROXY"), "initGov",
                   First(env, "SIMPLE_GOVERNANCE")))

TransferContractOwnership(env) ==
    IF ~(IsSet(env, "TRANSFER_OWNERSHIP_CONTRACT")
         /\ IsSet(env, "TRANSFER_OWNERSHIP_NEW_OWNER")) THEN <<>>
    ELSE Do(Scalar(First(env, "TRANSFER_OWNERSHIP_CONTRACT"), "transferOwnership",
                   First(env, "TRANSFER_OWNERSHIP_NEW_OWNER")))

\* The notice is commented out in the script.
ResetBridgeSigners(env) ==
    IF ~IsSet(env, "BRIDGE") THEN <<>>
    ELSE IF ~(IsSet(env, "BRIDGE_SIGNERS") /\ IsSet(env, "BRIDGE_POWERS")) THEN Throw
    ELSE Do(Call(First(env, "BRIDGE"), "resetSigners", env.BRIDGE_SIGNERS, env.BRIDGE_POWERS))

UpdateBridgeSupplyCap(env) ==
    IF ~(IsSet(env, "MINT_SWAP_CANONICAL_TOKEN")
         /\ IsSet(env, "MINT_SWAP_CANONICAL_TOKEN_BRIDGE")) THEN <<>>
    ELSE IF ~IsSet(env, "MINT_SWAP_CANONICAL_TOKEN_CAP") THEN Throw
    ELSE Do(Call(First(env, "MINT_SWAP_CANONICAL_TOKEN"), "updateBridgeSupplyCap",
                 <<First(env, "MINT_SWAP_CANONICAL_TOKEN_BRIDGE")>>,
                 <<First(env, "MINT_SWAP_CANONICAL_TOKEN_CAP")>>))

\* set_msg_fee.ts takes the bus from the deployment records and sends both fees
\* without awaiting their receipts.  The fees, in units of 10^12 wei.
SetMsgFees(store) ==
    IF "MessageBus_Proxy" \notin DOMAIN store THEN Throw
    ELSE Send(Scalar(store["MessageBus_Proxy"], "setFeeBase", 1400))
         \o Send(Scalar(store["MessageBus_Proxy"], "setFeePerByte", 14))

\* oasys_token_factory.ts: the token is the one in the log of the creation, if
\* the factory's address is spelled in the environment as it is in the log.
CreateOasysToken(env, created) ==
    IF ~({"OASYS_TOKEN_FACTORY", "OASYS_FACTORY_TOKEN_NAME", "OASYS_FACTORY_TOKEN_SYMBOL"}
         \subseteq DOMAIN env) THEN Throw
    ELSE DoUnestimated(Call(First(env, "OASYS_TOKEN_FACTORY"), "createStandardERC20",
                            env.OASYS_FACTORY_TOKEN_NAME, env.OASYS_FACTORY_TOKEN_SYMBOL))
         \o <<[op |-> "findlog", exact |-> env.OASYS_FACTORY_SPELLED_AS_LOGGED[1]]>>
         \o (IF ~IsSet(env, "PEGGED_TOKEN_BRIDGE") THEN Throw
             ELSE DoUnestimated(Call(created, "grantRole",
                                     <<First(env, "PEGGED_TOKEN_BRIDGE")>>, <<"minter">>)))

-----------------------------------------------------------------------------
ScriptJobs ==
    {"set_basics", "set_limits", "sentinel_set_limits", "sentinel_guard", "sentinel_relax",
     "init_governed_owner", "transfer_ownership", "reset_signers",
     "update_bridge_supply_cap", "set_msg_fee", "oasys_token_factory"}

ScriptProgram(job, env, store, created) ==
    CASE job = "set_basics" -> SetBasics(env)
      [] job = "set_limits" -> SetLimits(env)
      [] job = "sentinel_set_limits" -> SentinelSetLimits(env)
      [] job = "sentinel_guard" -> SentinelGuard(env)
      [] job = "sentinel_relax" -> SentinelRelax(env)
      [] job = "init_governed_owner" -> InitGovernedOwner(env)
      [] job = "transfer_ownership" -> TransferContractOwnership(env)
      [] job = "reset_signers" -> ResetBridgeSigners(env)
      [] job = "update_bridge_supply_cap" -> UpdateBridgeSupplyCap(env)
      [] job = "set_msg_fee" -> SetMsgFees(store)
      [] job = "oasys_token_factory" -> CreateOasysToken(env, created)

=============================================================================
