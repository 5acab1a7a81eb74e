------------------------------- MODULE Claims -------------------------------
(***************************************************************************)
(* The pools paid out on signed cumulative totals                          *)
(* (contracts/staking/StakingReward.sol, contracts/staking/SGN.sol,        *)
(* contracts/liquidity-bridge/FarmingRewards.sol).  The SGN signs, for a   *)
(* recipient, how much of each token it has earned since the beginning;    *)
(* the contract pays the difference to what it has paid.  Signed totals    *)
(* are public for ever: they are submitted late, again and out of order,   *)
(* while the signers change, the pool runs dry, and the owner drains it.   *)
(*                                                                         *)
(* StakingReward and SGN ask the validators bonded in Staking;             *)
(* FarmingRewards asks the signers of the Bridge (Signers.tla), whose      *)
(* updates and resets go on in between.  A behaviour follows one of the    *)
(* three, or with none the signers alone.                                  *)
(***************************************************************************)
EXTENDS Signers, FiniteSetsExt

CONSTANTS
    ClaimContracts,  \* those of the three contracts that are followed
    Recipients, RewardTokens,
    CELR,            \* the token StakingReward pays
    ValidatorSets,   \* the bonded validators, by signer their tokens
    MaxTotal,        \* bound on a signed total
    MaxClaims,       \* bound on the claims signed
    MaxPool          \* bound on what a pool holds of a token

ASSUME ClaimsAssumption ==
    /\ ClaimContracts \subseteq {"StakingReward", "SGN", "FarmingRewards"}
    /\ CELR \in RewardTokens
    /\ \A v \in ValidatorSets : v \in [DOMAIN v -> Nat] /\ DOMAIN v \subseteq SignerAddr
    /\ MaxTotal \in Nat /\ MaxClaims \in Nat /\ MaxPool \in Nat

VARIABLES
    contract,       \* the contract this behaviour follows
    bonded,         \* the bonded validators in Staking
    claims,         \* the claims signed, in the order the SGN signed them
    claimed,        \* claimedRewardAmounts, withdrawnAmts
    pool,           \* the contract's balances
    paused,
    received        \* history: what each recipient has been paid

poolVars == <<claimed, pool, paused, received>>
claimVars == <<contract, bonded, claims, poolVars>>
allVars == <<now, signerVars, claimVars>>

Amounts == [Recipients -> [RewardTokens -> Nat]]
Nothing == [r \in Recipients |-> [t \in RewardTokens |-> 0]]

ClaimsInit ==
    /\ SignersInit
    /\ contract \in ClaimContracts \cup {"none"}
    /\ bonded \in ValidatorSets
    /\ claims = <<>> /\ claimed = Nothing /\ received = Nothing
    /\ pool = [t \in RewardTokens |-> 0]
    /\ paused = FALSE

-----------------------------------------------------------------------------
(* Verifying *)

\* Staking.verifySignatures: bonded validators with a quorum of the bonded tokens.
SignedByValidators(signing) ==
    SumFunctionOnSet(bonded, signing \cap DOMAIN bonded) >= Quorum(bonded)

Verified(claim) ==
    IF contract = "FarmingRewards" THEN SignedByQuorum(claim.signing)
    ELSE SignedByValidators(claim.signing)

-----------------------------------------------------------------------------
(* The SGN and Staking, as far as the pools see them *)

\* What the SGN has last signed for a recipient and a token; totals never fall.
SignedTotal(r, t) ==
    Max({0} \cup {claims[i].amounts[t] :
                    i \in {j \in DOMAIN claims : /\ claims[j].recipient = r
                                                 /\ t \in DOMAIN claims[j].amounts}})

\* StakingReward and SGN pay one token per claim, FarmingRewards several.
ClaimTokens ==
    CASE contract = "StakingReward" -> {{CELR}}
      [] contract = "SGN" -> {{t} : t \in RewardTokens}
      [] OTHER -> SUBSET RewardTokens \ {{}}

SignClaim ==
    /\ contract # "none" /\ Len(claims) < MaxClaims
    /\ \E r \in Recipients, tokens \in ClaimTokens :
       \E amounts \in [tokens -> 1..MaxTotal] :
          /\ \A t \in tokens : amounts[t] >= SignedTotal(r, t)
          /\ claims' = Append(claims,
                [recipient |-> r, amounts |-> amounts,
                 signing |-> IF contract = "FarmingRewards" THEN DOMAIN ss ELSE DOMAIN bonded])
    /\ UNCHANGED <<now, signerVars, contract, bonded, poolVars>>

\* Validators bond and unbond (Staking.tla).
ValidatorsChange ==
    /\ contract \in {"StakingReward", "SGN"}
    /\ \E validators \in ValidatorSets : bonded' = validators
    /\ UNCHANGED <<now, signerVars, contract, claims, poolVars>>

-----------------------------------------------------------------------------
(* The pool *)

\* Mutant: a claim with one token that has nothing new is refused.
Accepted_AllNew(claim) ==
    \A t \in DOMAIN claim.amounts : claim.amounts[t] > claimed[claim.recipient][t]

\* claimReward, withdraw, claimRewards.  A total below what was paid underflows,
\* in any one token, and reverts them all; so does a pool that is short.
Accepted(claim) ==
    LET r == claim.recipient IN
    /\ \A t \in DOMAIN claim.amounts : claim.amounts[t] >= claimed[r][t]
    /\ \E t \in DOMAIN claim.amounts : claim.amounts[t] > claimed[r][t]

\* Mutant: the whole total is paid, not what is new in it.
NewReward_Total(claim, t) == claim.amounts[t]

NewReward(claim, t) == claim.amounts[t] - claimed[claim.recipient][t]

Claim(claim) ==
    LET r == claim.recipient IN
    /\ ~paused
    /\ Verified(claim)
    /\ Accepted(claim)
    /\ \A t \in DOMAIN claim.amounts : NewReward(claim, t) <= pool[t]
    /\ claimed' = [claimed EXCEPT ![r] = [t \in RewardTokens |->
            IF t \in DOMAIN claim.amounts THEN claim.amounts[t] ELSE @[t]]]
    /\ received' = [received EXCEPT ![r] = [t \in RewardTokens |->
            @[t] + (IF t \in DOMAIN claim.amounts THEN NewReward(claim, t) ELSE 0)]]
    /\ pool' = [t \in RewardTokens |->
            pool[t] - (IF t \in DOMAIN claim.amounts THEN NewReward(claim, t) ELSE 0)]
    /\ UNCHANGED <<now, signerVars, contract, bonded, claims, paused>>

\* contributeToRewardPool, SGN.deposit.
Contribute(t) ==
    /\ contract # "none" /\ ~paused
    /\ t = CELR \/ contract # "StakingReward"
    /\ pool[t] < MaxPool
    /\ pool' = [pool EXCEPT ![t] = @ + 1]
    /\ UNCHANGED <<now, signerVars, contract, bonded, claims, claimed, paused, received>>

DrainToken(t, amount) ==
    /\ paused
    /\ amount <= pool[t]
    /\ pool' = [pool EXCEPT ![t] = @ - amount]
    /\ UNCHANGED <<now, signerVars, contract, bonded, claims, claimed, paused, received>>

SetPaused ==
    /\ contract # "none"
    /\ paused' = ~paused
    /\ UNCHANGED <<now, signerVars, contract, bonded, claims, claimed, pool, received>>

-----------------------------------------------------------------------------
\* All that the Bridge's signers may do, with no pool to follow; what changes
\* them, while FarmingRewards is followed.  StakingReward and SGN have no part in it.
BridgeSteps ==
    /\ contract = "none" /\ (SignersStep \/ Tick)
    /\ UNCHANGED claimVars

SignersChange ==
    /\ contract = "FarmingRewards"
    /\ \/ \E u \in Updates : UpdateSigners(u, DOMAIN ss)
       \/ \E s \in SignerSets : ResetSigners(s)
    /\ UNCHANGED claimVars

SubmitClaim == \E i \in DOMAIN claims : Claim(claims[i])

ClaimsNext ==
    \/ BridgeSteps
    \/ SignersChange
    \/ SignClaim
    \/ ValidatorsChange
    \/ SubmitClaim
    \/ \E t \in RewardTokens : Contribute(t)
    \/ \E t \in RewardTokens, amount \in 1..MaxPool : DrainToken(t, amount)
    \/ SetPaused

\* The last claim signed for a recipient.
Latest(r) ==
    {claims[i] : i \in {Max({j \in DOMAIN claims : claims[j].recipient = r} \cup {0})} \ {0}}

\* Whoever is owed something submits the last claim again and again.
ClaimsSpec ==
    /\ ClaimsInit /\ [][ClaimsNext]_allVars
    /\ \A r \in Recipients : WF_allVars(\E claim \in Latest(r) : Claim(claim))

-----------------------------------------------------------------------------
(* Properties *)

\* Whatever is submitted in whatever order and however often, a recipient has
\* been paid what the contract has on record, token by token, and that is a
\* total a quorum has signed, never the sum of two claims nor a part of one.
PaidAsSigned ==
    /\ received = claimed
    /\ \A r \in Recipients, t \in RewardTokens :
          claimed[r][t] > 0 =>
             \E i \in DOMAIN claims : /\ claims[i].recipient = r
                                      /\ t \in DOMAIN claims[i].amounts
                                      /\ claims[i].amounts[t] = claimed[r][t]

\* What is owed under a claim the contract could pay.
Payable(claim) ==
    /\ ~paused /\ Verified(claim)
    /\ \E t \in DOMAIN claim.amounts : received[claim.recipient][t] < claim.amounts[t]
    /\ \A t \in DOMAIN claim.amounts :
          claim.amounts[t] - received[claim.recipient][t] <= pool[t]

\* A recipient whose last claim could be paid gets it in the end, or it stops
\* being payable: no claim submitted before, by whomever, locks the later one
\* out, also when the two name different tokens.
RewardsArrive ==
    \A r \in Recipients : []<>(\A claim \in Latest(r) : ~Payable(claim))
=============================================================================
