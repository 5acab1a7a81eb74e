----------------------------- MODULE MCStaking -----------------------------
(* Small instances of Staking for TLC. *)
EXTENDS Staking, TLC

CONSTANTS v1, v2, v3, d1

Param(bonded, interval, minTokens, maxSlash) ==
    [ProposalDeposit |-> 0, VotingPeriod |-> 0, UnbondingPeriod |-> 2,
     MaxBondedValidators |-> bonded, MinValidatorTokens |-> minTokens,
     MinSelfDelegation |-> 10, AdvanceNoticePeriod |-> 1,
     ValidatorBondInterval |-> interval, MaxSlashFactor |-> maxSlash]

\* One validator and one delegator: shares, queues and slashing.
AccountingParams == Param(1, 1, 12, 1)
AccountingWallet == v1 :> 10 @@ d1 :> 12
AccountingSlashes ==
    {[validator |-> v1, nonce |-> 1, slashFactor |-> 1, jailPeriod |-> 0,
      expireTime |-> 3, collectors |-> <<[account |-> d1, amount |-> 1],
                                         [account |-> ZeroAddr, amount |-> 1]>>],
     [validator |-> v1, nonce |-> 2, slashFactor |-> 1, jailPeriod |-> 1,
      expireTime |-> 2, collectors |-> <<>>]}

\* Three validators of 10, 10 and 10 or 12 tokens for three bonded slots, then
\* two: with 12, v3 and either of the others are a quorum of three, and v3
\* replaces one of them when there are two slots.  Slashed to 11 and jailed, v3
\* lowers its minimum and comes back in the same way.
BondingParams == [Param(3, 0, 10, 1) EXCEPT !.UnbondingPeriod = 1]
BondingParamChanges == {<<"MaxBondedValidators", 2>>}
BondingWallet == v1 :> 10 @@ v2 :> 10 @@ v3 :> 12
BondingSlashes ==
    {[validator |-> v3, nonce |-> 1, slashFactor |-> 1, jailPeriod |-> 1,
      expireTime |-> 3, collectors |-> <<>>]}

\* A single validator, slashed by a tenth once, with or without a jail term.
SoloParams == Param(1, 0, 10, 1)
SoloWallet == v1 :> 20
JailSlashes == {[validator |-> v1, nonce |-> 1, slashFactor |-> 0, jailPeriod |-> 3,
                 expireTime |-> 2, collectors |-> <<>>]}
SoloSlashes == {[validator |-> v1, nonce |-> 1, slashFactor |-> 1, jailPeriod |-> 0,
                 expireTime |-> 2, collectors |-> <<>>]}
=============================================================================
