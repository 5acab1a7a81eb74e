------------------------------ MODULE MCGovern ------------------------------
(* A small instance of Govern on top of Staking, with the owner's operations. *)
EXTENDS Govern, TLC

CONSTANTS v1, v2

GovParams ==
    [ProposalDeposit |-> 1, VotingPeriod |-> 1, UnbondingPeriod |-> 1,
     MaxBondedValidators |-> 2, MinValidatorTokens |-> 10, MinSelfDelegation |-> 10,
     AdvanceNoticePeriod |-> 1, ValidatorBondInterval |-> 0, MaxSlashFactor |-> 0]

GovParamChanges == {<<"MaxBondedValidators", 1>>, <<"ProposalDeposit", 0>>}
GovWallet == v1 :> 13 @@ v2 :> 11
=============================================================================
