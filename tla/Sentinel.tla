------------------------------ MODULE Sentinel ------------------------------
(***************************************************************************)
(* The Sentinel contract (Guard.sol, GuardedPauser.sol,                    *)
(* GuardedGovernor.sol).  It is made a governor and a pauser of the        *)
(* bridges and relays its own governors' and pausers' calls to them.       *)
(* Unless enough guards have relaxed, a governor may only tighten a limit  *)
(* and nobody may unpause.  Whether enough have is cached in relaxed,      *)
(* which every change of the guards must refresh.                          *)
(***************************************************************************)
EXTENDS Admin

CONSTANTS SentinelAddress,
          Accounts          \* the accounts that may be given a role; no other has a state

VARIABLES guards,            \* the array of guards
          guardStates,       \* account |-> None, Guarded or Relaxed
          numRelaxedGuards,
          relaxThreshold,
          relaxed,           \* cached: enough guards have relaxed
          pauserRoles,       \* account |-> None, Full or PauseOnly
          governors

guardVars == <<guards, guardStates, numRelaxedGuards, relaxThreshold, relaxed>>
sentinelVars == <<guardVars, pauserRoles, governors>>

InitSentinel(guardList, pauserList, governorList) ==
    /\ guards = guardList
    /\ guardStates = [a \in Accounts |-> IF a \in ToSet(guardList) THEN "Guarded" ELSE "None"]
    /\ numRelaxedGuards = 0
    /\ relaxThreshold = Len(guardList)
    /\ relaxed = (Len(guardList) = 0)
    /\ pauserRoles = [a \in Accounts |-> IF a \in ToSet(pauserList) THEN "Full" ELSE "None"]
    /\ governors = ToSet(governorList)

-----------------------------------------------------------------------------
(* Guard *)

\* The list of guards a loop of _removeGuard and _addGuard calls works on;
\* ok is FALSE once one of the calls has reverted.
GuardList == [ok |-> TRUE, guards |-> guards, states |-> guardStates, num |-> numRelaxedGuards]

SwapAndPop(seq, i) == Front([seq EXCEPT ![i] = Last(seq)])

\* Mutant: a guard removed while relaxed goes on being counted.
RemoveGuardStillCounted(list, account) ==
    IF ~list.ok \/ list.states[account] = "None" THEN [list EXCEPT !.ok = FALSE]
    ELSE [list EXCEPT
            !.guards = SwapAndPop(@, CHOOSE i \in DOMAIN @ : @[i] = account),
            !.states[account] = "None"]

RemoveGuard(list, account) ==
    IF ~list.ok \/ list.states[account] = "None" THEN [list EXCEPT !.ok = FALSE]
    ELSE [list EXCEPT
            !.num = IF list.states[account] = "Relaxed" THEN @ - 1 ELSE @,
            !.guards = SwapAndPop(@, CHOOSE i \in DOMAIN @ :
                                        /\ @[i] = account
                                        /\ \A j \in 1..(i - 1) : @[j] # account),
            !.states[account] = "None"]

AddGuard(list, account) ==
    IF ~list.ok \/ list.states[account] # "None" THEN [list EXCEPT !.ok = FALSE]
    ELSE [list EXCEPT !.guards = Append(@, account), !.states[account] = "Guarded"]

UpdateRelaxed(num, threshold) == relaxed' = (num >= threshold)

Guard(from, call) ==
    /\ call.method = "guard"
    /\ from \in Accounts /\ guardStates[from] = "Relaxed"
    /\ guardStates' = [guardStates EXCEPT ![from] = "Guarded"]
    /\ numRelaxedGuards' = numRelaxedGuards - 1
    /\ UpdateRelaxed(numRelaxedGuards', relaxThreshold)
    /\ UNCHANGED <<guards, relaxThreshold, pauserRoles, governors, adminVars>>

Relax(from, call) ==
    /\ call.method = "relax"
    /\ from \in Accounts /\ guardStates[from] = "Guarded"
    /\ guardStates' = [guardStates EXCEPT ![from] = "Relaxed"]
    /\ numRelaxedGuards' = numRelaxedGuards + 1
    /\ UpdateRelaxed(numRelaxedGuards', relaxThreshold)
    /\ UNCHANGED <<guards, relaxThreshold, pauserRoles, governors, adminVars>>

\* updateGuards(add, remove, threshold); setRelaxThreshold is the case where
\* both lists are empty.
UpdateGuards(from, call) ==
    LET removed == FoldLeft(RemoveGuard, GuardList, call.values)
        updated == FoldLeft(AddGuard, removed, call.keys)
    IN  /\ call.method \in {"updateGuards", "setRelaxThreshold"}
        /\ OnlyOwner(from, SentinelAddress)
        /\ {call.keys, call.values} \subseteq Seq(Accounts)
        /\ updated.ok
        /\ call.threshold <= Len(updated.guards)
        /\ guards' = updated.guards
        /\ guardStates' = updated.states
        /\ numRelaxedGuards' = updated.num
        /\ relaxThreshold' = call.threshold
        /\ UpdateRelaxed(updated.num, call.threshold)
        /\ UNCHANGED <<pauserRoles, governors, adminVars>>

-----------------------------------------------------------------------------
(* GuardedPauser *)

\* One or several targets: some must go through, and a target that fails is
\* passed over.
PauseTargets(from, call) ==
    LET pausing == call.method = "pause"
        through == {a \in ToSet(call.keys) : CanPause(SentinelAddress, a, pausing)}
    IN  /\ call.method \in {"pause", "unpause"}
        /\ IF pausing THEN pauserRoles[from] # "None"
           ELSE pauserRoles[from] = "Full" /\ relaxed
        /\ through # {}
        /\ access' = [a \in DOMAIN access |->
                        IF a \in through THEN [access[a] EXCEPT !.paused = pausing]
                        ELSE access[a]]
        /\ UNCHANGED <<contracts, settings, sentinelVars>>

\* A list with the same account twice would revert; the lists have none.
UpdatePausers(from, call) ==
    LET known == call.method # "addPausers"
    IN  /\ call.method \in {"addPausers", "removePausers", "setPausers"}
        /\ OnlyOwner(from, SentinelAddress)
        /\ \A i \in DOMAIN call.keys : (pauserRoles[call.keys[i]] # "None") = known
        /\ pauserRoles' = [a \in Accounts |->
                IF a \notin ToSet(call.keys) THEN pauserRoles[a]
                ELSE IF call.method = "removePausers" THEN "None"
                ELSE call.values[CHOOSE i \in DOMAIN call.keys : call.keys[i] = a]]
        /\ UNCHANGED <<guardVars, governors, adminVars>>

-----------------------------------------------------------------------------
(* GuardedGovernor *)

AddSentinelGovernors(from, call) ==
    /\ call.method = "addGovernors"
    /\ OnlyOwner(from, SentinelAddress)
    /\ ToSet(call.keys) \cap governors = {}
    /\ governors' = governors \cup ToSet(call.keys)
    /\ UNCHANGED <<guardVars, pauserRoles, adminVars>>

RemoveSentinelGovernors(from, call) ==
    /\ \/ call.method = "removeGovernors" /\ OnlyOwner(from, SentinelAddress)
       \/ call.method = "renounceGovernor" /\ call.keys = <<from>>
    /\ ToSet(call.keys) \subseteq governors
    /\ governors' = governors \ ToSet(call.keys)
    /\ UNCHANGED <<guardVars, pauserRoles, adminVars>>

RaisedOnly == {"setDelayPeriod", "setDelayThresholds", "setEpochLength", "setMinAdd",
               "setMinSend", "setMinDeposit", "setMinBurn"}
LoweredOnly == {"setEpochVolumeCaps", "setMaxSend", "setMaxDeposit", "setMaxBurn"}
Unguarded == {"setNativeTokenTransferGas", "setMinimalMaxSlippage"}

\* The comparison a setter makes for its i-th key while the Sentinel is guarded.
Tightens(call, i) ==
    LET current == Current(call.target, call.method, call.keys[i]) IN
    /\ i \in DOMAIN call.values
    /\ \/ call.method \in RaisedOnly /\ call.values[i] > current
       \/ call.method \in LoweredOnly /\ call.values[i] < current
       \/ call.method \in Unguarded

RelaySet(from, call) ==
    /\ call.method \in RaisedOnly \cup LoweredOnly \cup Unguarded
    /\ from \in governors
    /\ relaxed \/ \A i \in DOMAIN call.keys : Tightens(call, i)
    /\ Set(SentinelAddress, call)
    /\ UNCHANGED sentinelVars

-----------------------------------------------------------------------------
SentinelCall(from, call) ==
    \/ Guard(from, call)
    \/ Relax(from, call)
    \/ UpdateGuards(from, call)
    \/ PauseTargets(from, call)
    \/ UpdatePausers(from, call)
    \/ AddSentinelGovernors(from, call)
    \/ RemoveSentinelGovernors(from, call)
    \/ RelaySet(from, call)
    \/ call.target = SentinelAddress /\ TransferOwnership(from, call) /\ UNCHANGED sentinelVars

\* A transaction of an account, or a message call of a contract.
ContractCall(from, call) ==
    \/ call.to = SentinelAddress /\ SentinelCall(from, call)
    \/ call.to # SentinelAddress /\ AdminCall(from, call) /\ UNCHANGED sentinelVars

-----------------------------------------------------------------------------
\* What the Sentinel caches is what its guards say: the array lists each guard
\* once and exactly the accounts with a state, the counter counts the relaxed
\* ones, and relaxed compares it with a threshold that can be reached.  Every
\* path that changes a guard, the counter or the threshold has to refresh it.
RelaxedExact ==
    /\ IsInjective(guards)
    /\ ToSet(guards) = {a \in Accounts : guardStates[a] # "None"}
    /\ numRelaxedGuards = Cardinality({a \in Accounts : guardStates[a] = "Relaxed"})
    /\ relaxThreshold <= Len(guards)
    /\ relaxed = (numRelaxedGuards >= relaxThreshold)
=============================================================================
