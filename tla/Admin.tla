------------------------------- MODULE Admin -------------------------------
(***************************************************************************)
(* The administrative face of the deployed contracts: who owns each of     *)
(* them, who its pausers and governors are, and the parameters its owner   *)
(* or a governor may set (Ownable.sol, Pauser.sol, Governor.sol and the    *)
(* setters of the bridges, the vaults, the message bus and RFQ).           *)
(*                                                                         *)
(* A call is a record naming the contract it is sent to, the contract it   *)
(* is about (another one only when it goes through the Sentinel), the      *)
(* method and its arguments: a setter takes parallel arrays of keys and    *)
(* values, and a scalar setter one value under the key Only.  Each method  *)
(* is an action whose guard is what the contract requires, so a call       *)
(* reverts exactly where its action is not enabled.                        *)
(***************************************************************************)
EXTENDS Integers, SequencesExt

CONSTANTS Deployer, ZeroAddress

VARIABLES contracts,  \* address |-> what was created there, and from what
          access,     \* address |-> owner, pausers, governors, paused
          settings    \* <<address, setter, key>> |-> value, once it was set

adminVars == <<contracts, access, settings>>

Only == "only"

Call(to, method, keys, values) ==
    [to |-> to, target |-> to, method |-> method, keys |-> keys, values |-> values]

Scalar(to, method, value) == Call(to, method, <<Only>>, <<value>>)

\* A mapping with one more entry, or another value for one it has.
WithEntry(f, key, value) ==
    [x \in DOMAIN f \cup {key} |-> IF x = key THEN value ELSE f[x]]

\* The number held by a setting: zero until it was set.
Current(address, method, key) ==
    IF <<address, method, key>> \in DOMAIN settings
    THEN settings[<<address, method, key>>] ELSE 0

-----------------------------------------------------------------------------
(* The contracts *)

PauserContracts ==
    {"Bridge", "OriginalTokenVault", "OriginalTokenVaultV2", "PeggedTokenBridge",
     "PeggedTokenBridgeV2", "PeggedNativeTokenBridge", "PeggedBrc20Bridge", "RFQ",
     "NFTBridge", "MCNNFT", "Staking", "SGN", "StakingReward", "FarmingRewards",
     "ContractAsLP", "ContractAsSender", "CircleBridgeProxy", "CircleBridgeProxyV2"}

GovernorContracts ==
    {"Bridge", "OriginalTokenVault", "OriginalTokenVaultV2", "PeggedTokenBridge",
     "PeggedTokenBridgeV2", "PeggedNativeTokenBridge", "PeggedBrc20Bridge", "RFQ",
     "CircleBridgeProxy", "CircleBridgeProxyV2"}

SafeguardSetters ==
    {"setDelayPeriod", "setDelayThresholds", "setEpochLength", "setEpochVolumeCaps"}

GovernorSetters(name) ==
    CASE name = "Bridge" ->
            SafeguardSetters \cup {"setMinAdd", "setMinSend", "setMaxSend",
                                   "setMinimalMaxSlippage", "setNativeTokenTransferGas"}
      [] name \in {"OriginalTokenVault", "OriginalTokenVaultV2"} ->
            SafeguardSetters \cup {"setMinDeposit", "setMaxDeposit",
                                   "setNativeTokenTransferGas"}
      [] name \in {"PeggedTokenBridge", "PeggedTokenBridgeV2", "PeggedNativeTokenBridge"} ->
            SafeguardSetters \cup {"setMinBurn", "setMaxBurn"}
      [] name = "RFQ" -> {"setFeePerc"}
      [] OTHER -> {}

BusSetters ==
    {"setLiquidityBridge", "setPegBridge", "setPegVault", "setPegBridgeV2", "setPegVaultV2"}

OwnerSetters(name) ==
    CASE name \in {"Bridge", "OriginalTokenVault", "OriginalTokenVaultV2"} -> {"setWrap"}
      [] name = "PeggedNativeTokenBridge" -> {"setNativeVault"}
      [] name = "MessageBus" -> BusSetters \cup {"setFeeBase", "setFeePerByte"}
      [] name = "RFQ" -> {"setRemoteRfqContracts", "setTreasuryAddr", "setNativeWrap"}
      [] name \in {"MintSwapCanonicalToken", "MultiBridgeToken"} -> {"updateBridgeSupplyCap"}
      [] name = "L1StandardERC20" -> {"grantRole"}
      [] OTHER -> {}

NameOf(address) == contracts[address].name

\* The address of the next contract created under a name.
NextAddress(name) ==
    name \o ToString(Cardinality({a \in DOMAIN contracts : NameOf(a) = name}))

\* Nothing is ever created at an address in use.
Unused(address) == address \notin DOMAIN access

\* What a constructor grants its caller: ownership and, where the contract has
\* them, both roles.
ConstructorAccess(name, creator) ==
    [owner |-> creator,
     pausers |-> IF name \in PauserContracts THEN {creator} ELSE {},
     governors |-> IF name \in GovernorContracts THEN {creator} ELSE {},
     paused |-> FALSE]

\* A proxy holds none of what its implementation's constructor stored: init
\* sets the owner and nothing else.
InitAccess(creator) ==
    [owner |-> creator, pausers |-> {}, governors |-> {}, paused |-> FALSE]

-----------------------------------------------------------------------------
(* Ownable, Pauser and Governor *)

OnlyOwner(from, address) ==
    address \in DOMAIN access /\ access[address].owner = from

HasPausers(address) == address \in DOMAIN access /\ NameOf(address) \in PauserContracts
HasGovernors(address) == address \in DOMAIN access /\ NameOf(address) \in GovernorContracts

TransferOwnership(from, call) ==
    /\ call.method = "transferOwnership"
    /\ OnlyOwner(from, call.target)
    /\ call.values[1] # ZeroAddress
    /\ access' = [access EXCEPT ![call.target].owner = call.values[1]]
    /\ UNCHANGED <<contracts, settings>>

AddPauser(from, call) ==
    /\ call.method = "addPauser"
    /\ HasPausers(call.target) /\ OnlyOwner(from, call.target)
    /\ call.keys[1] \notin access[call.target].pausers
    /\ access' = [access EXCEPT ![call.target].pausers = @ \cup {call.keys[1]}]
    /\ UNCHANGED <<contracts, settings>>

RemovePauser(from, call) ==
    /\ \/ call.method = "removePauser" /\ OnlyOwner(from, call.target)
       \/ call.method = "renouncePauser" /\ call.keys[1] = from
    /\ HasPausers(call.target)
    /\ call.keys[1] \in access[call.target].pausers
    /\ access' = [access EXCEPT ![call.target].pausers = @ \ {call.keys[1]}]
    /\ UNCHANGED <<contracts, settings>>

AddGovernor(from, call) ==
    /\ call.method = "addGovernor"
    /\ HasGovernors(call.target) /\ OnlyOwner(from, call.target)
    /\ call.keys[1] \notin access[call.target].governors
    /\ access' = [access EXCEPT ![call.target].governors = @ \cup {call.keys[1]}]
    /\ UNCHANGED <<contracts, settings>>

RemoveGovernor(from, call) ==
    /\ \/ call.method = "removeGovernor" /\ OnlyOwner(from, call.target)
       \/ call.method = "renounceGovernor" /\ call.keys[1] = from
    /\ HasGovernors(call.target)
    /\ call.keys[1] \in access[call.target].governors
    /\ access' = [access EXCEPT ![call.target].governors = @ \ {call.keys[1]}]
    /\ UNCHANGED <<contracts, settings>>

\* Whether pause (or unpause, when paused is FALSE) goes through at an address.
CanPause(from, address, paused) ==
    /\ HasPausers(address)
    /\ from \in access[address].pausers
    /\ access[address].paused # paused

Pause(from, call) ==
    /\ call.method \in {"pause", "unpause"}
    /\ CanPause(from, call.target, call.method = "pause")
    /\ access' = [access EXCEPT ![call.target].paused = (call.method = "pause")]
    /\ UNCHANGED <<contracts, settings>>

-----------------------------------------------------------------------------
(* The setters *)

MayCall(from, call) ==
    /\ call.target \in DOMAIN access
    /\ \/ /\ call.method \in GovernorSetters(NameOf(call.target))
          /\ from \in access[call.target].governors
       \/ /\ call.method \in OwnerSetters(NameOf(call.target))
          /\ OnlyOwner(from, call.target)

Acceptable(call) ==
    /\ Len(call.keys) = Len(call.values)
    /\ call.method = "setFeePerc" =>
           \A i \in DOMAIN call.values : call.values[i] < 1000000
    /\ call.method \in BusSetters => call.values[1] # ZeroAddress

\* What the loop over the arrays leaves behind: the last value given to a key.
Written(call) ==
    LET places == {<<call.target, call.method, call.keys[i]>> : i \in DOMAIN call.keys}
        last(key) == CHOOSE i \in DOMAIN call.keys :
                         /\ call.keys[i] = key
                         /\ \A j \in DOMAIN call.keys : call.keys[j] = key => j <= i
    IN  [k \in DOMAIN settings \cup places |->
            IF k \in places THEN call.values[last(k[3])] ELSE settings[k]]

Set(from, call) ==
    /\ MayCall(from, call)
    /\ Acceptable(call)
    /\ settings' = Written(call)
    /\ UNCHANGED <<contracts, access>>

\* Resetting the signers of a bridge uses up the notice: the first reset needs
\* none, each later one a new notifyResetSigners.  The notice period is zero until
\* the owner raises it, which no script does (Signers.tla has the periods).
NotifyResetSigners(from, call) ==
    /\ call.method = "notifyResetSigners"
    /\ OnlyOwner(from, call.target) /\ NameOf(call.target) = "Bridge"
    /\ settings' = WithEntry(settings, <<call.target, "resetTime", Only>>, "noticed")
    /\ UNCHANGED <<contracts, access>>

ResetSigners(from, call) ==
    LET resetTime == <<call.target, "resetTime", Only>>
        reset == <<call.target, "resetSigners", Only>>
    IN
    /\ call.method = "resetSigners"
    /\ OnlyOwner(from, call.target) /\ NameOf(call.target) = "Bridge"
    /\ resetTime \in DOMAIN settings => settings[resetTime] = "noticed"
    /\ Len(call.keys) = Len(call.values)
    /\ settings' = WithEntry(WithEntry(settings, reset, <<call.keys, call.values>>),
                             resetTime, "never")
    /\ UNCHANGED <<contracts, access>>

\* The initializer of a GovernedOwnerProxy names its governance, once.
InitGov(from, call) ==
    LET gov == <<call.target, "initGov", Only>> IN
    /\ call.method = "initGov"
    /\ call.target \in DOMAIN contracts /\ NameOf(call.target) = "GovernedOwnerProxy"
    /\ <<from>> = contracts[call.target].args[1]
    /\ gov \notin DOMAIN settings
    /\ settings' = WithEntry(settings, gov, call.values[1])
    /\ UNCHANGED <<contracts, access>>

\* The L1StandardERC20Factory of Oasys: anybody may create a token and is its admin.
CreateStandardERC20(from, call) ==
    LET token == NextAddress("L1StandardERC20") IN
    /\ call.method = "createStandardERC20"
    /\ call.target \in DOMAIN contracts /\ NameOf(call.target) = "L1StandardERC20Factory"
    /\ Unused(token)
    /\ contracts' = WithEntry(contracts, token,
            [name |-> "L1StandardERC20", args |-> <<call.keys, call.values>>,
             impl |-> ZeroAddress, init |-> <<>>, admin |-> ZeroAddress])
    /\ access' = WithEntry(access, token, ConstructorAccess("L1StandardERC20", from))
    /\ UNCHANGED settings

\* A call made by an account or a contract, on a contract other than the Sentinel.
AdminCall(from, call) ==
    \/ TransferOwnership(from, call)
    \/ AddPauser(from, call)
    \/ RemovePauser(from, call)
    \/ AddGovernor(from, call)
    \/ RemoveGovernor(from, call)
    \/ Pause(from, call)
    \/ Set(from, call)
    \/ NotifyResetSigners(from, call)
    \/ ResetSigners(from, call)
    \/ InitGov(from, call)
    \/ CreateStandardERC20(from, call)
=============================================================================
