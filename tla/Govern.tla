------------------------------- MODULE Govern -------------------------------
(***************************************************************************)
(* Parameter governance by stake vote (contracts/staking/Govern.sol), as   *)
(* the gov contract of Staking: it reads the validators' statuses, tokens  *)
(* and parameters while Staking keeps moving, and sets parameters there.   *)
(***************************************************************************)
EXTENDS Staking

CONSTANTS
    Votes,          \* votes validators cast
    MaxProposals    \* bound on the number of proposals

VARIABLES
    proposals,      \* the proposals so far; the next id is their number
    govBalance,     \* CELR owned by the Govern contract
    govForfeiture,
    govCollected    \* CELR sent to the collector

govVars == <<proposals, govBalance, govForfeiture, govCollected>>
allVars == <<vars, govVars>>

VoteOption == {"Null", "Yes", "Abstain", "No"}

ASSUME GovernAssumption == Votes \subseteq VoteOption

ParamProposal == [proposer : Addr, deposit : Nat, voteDeadline : Nat, name : ParamName,
                  newValue : Nat, status : {"Voting", "Closed"}, votes : [Addr -> VoteOption]]

GovInit == Init /\ proposals = <<>> /\ govBalance = 0 /\ govForfeiture = 0 /\ govCollected = 0

\* Staking as it is when governance changes the wallet w or the params p only.
StakingKeeps == UNCHANGED <<block, paused, accounts, signerVals, nextBondBlock, slashNonces,
                            forfeiture, balance, drained, history>>

CreateParamProposal(proposer, name, value) ==
    /\ Len(proposals) < MaxProposals
    /\ params.ProposalDeposit <= wallet[proposer]
    /\ proposals' = Append(proposals,
           [proposer |-> proposer, deposit |-> params.ProposalDeposit,
            voteDeadline |-> block + params.VotingPeriod, name |-> name, newValue |-> value,
            status |-> "Voting", votes |-> [v \in Addr |-> "Null"]])
    /\ wallet' = [wallet EXCEPT ![proposer] = @ - params.ProposalDeposit]
    /\ govBalance' = govBalance + params.ProposalDeposit
    /\ UNCHANGED <<govForfeiture, govCollected, params>> /\ StakingKeeps

VoteParam(v, id, vote) ==
    /\ validators[v].status = "Bonded"
    /\ proposals[id].status = "Voting"
    /\ block < proposals[id].voteDeadline
    /\ proposals[id].votes[v] = "Null"
    /\ vote # "Null"
    /\ proposals' = [proposals EXCEPT ![id].votes[v] = vote]
    /\ UNCHANGED <<vars, govBalance, govForfeiture, govCollected>>

\* Stake is counted when the proposal is confirmed, over the validators bonded then.
BondedValidatorsTokens(S) == SumFunctionOnSet([v \in Addr |-> validators[v].tokens], S)

\* Mutant: the quorum is taken of the stake that has voted.
Passed_OfVoters(id) ==
    LET voters == {v \in BondedSet : proposals[id].votes[v] # "Null"}
    IN  BondedValidatorsTokens({v \in voters : proposals[id].votes[v] = "Yes"})
          >= QuorumTokens(BondedValidatorsTokens(voters))

Passed(id) ==
    LET bonded == {bondedValAddrs[i] : i \in 1..Len(bondedValAddrs)}
    IN  BondedValidatorsTokens({v \in bonded : proposals[id].votes[v] = "Yes"})
          >= QuorumTokens(BondedValidatorsTokens(bonded))

\* Mutant: the deposit is returned whatever the outcome.
ConfirmParamProposal_AlwaysRefunds(id) ==
    LET p == proposals[id]
    IN  /\ p.status = "Voting"
        /\ block >= p.voteDeadline
        /\ proposals' = [proposals EXCEPT ![id].status = "Closed"]
        /\ govBalance' = govBalance - p.deposit
        /\ wallet' = [wallet EXCEPT ![p.proposer] = @ + p.deposit]
        /\ params' = IF Passed(id) THEN [params EXCEPT ![p.name] = p.newValue] ELSE params
        /\ govForfeiture' = IF Passed(id) THEN govForfeiture ELSE govForfeiture + p.deposit
        /\ UNCHANGED govCollected /\ StakingKeeps

\* Mutant: a proposal that has not passed is left open.
ConfirmParamProposal_PassedOnly(id) ==
    LET p == proposals[id]
    IN  /\ p.status = "Voting"
        /\ block >= p.voteDeadline
        /\ Passed(id)
        /\ proposals' = [proposals EXCEPT ![id].status = "Closed"]
        /\ p.name = "MaxBondedValidators" => Len(bondedValAddrs) <= p.newValue
        /\ params' = [params EXCEPT ![p.name] = p.newValue]
        /\ p.deposit <= govBalance
        /\ govBalance' = govBalance - p.deposit
        /\ wallet' = [wallet EXCEPT ![p.proposer] = @ + p.deposit]
        /\ UNCHANGED <<govForfeiture, govCollected>> /\ StakingKeeps

\* A passed proposal that Staking.setParamValue rejects cannot be confirmed.
ConfirmParamProposal(id) ==
    LET p == proposals[id]
    IN  /\ p.status = "Voting"
        /\ block >= p.voteDeadline
        /\ proposals' = [proposals EXCEPT ![id].status = "Closed"]
        /\ IF Passed(id)
           THEN /\ p.name = "MaxBondedValidators" => Len(bondedValAddrs) <= p.newValue
                /\ params' = [params EXCEPT ![p.name] = p.newValue]
                /\ p.deposit <= govBalance
                /\ govBalance' = govBalance - p.deposit
                /\ wallet' = [wallet EXCEPT ![p.proposer] = @ + p.deposit]
                /\ UNCHANGED govForfeiture
           ELSE /\ govForfeiture' = govForfeiture + p.deposit
                /\ UNCHANGED <<params, wallet, govBalance>>
        /\ UNCHANGED govCollected /\ StakingKeeps

CollectGovForfeiture ==
    /\ govForfeiture > 0
    /\ govForfeiture <= govBalance
    /\ govBalance' = govBalance - govForfeiture
    /\ govCollected' = govCollected + govForfeiture
    /\ govForfeiture' = 0
    /\ UNCHANGED <<vars, proposals>>

GovNext ==
    \/ StakingStep /\ UNCHANGED govVars
    \/ \E a \in Addr, c \in ParamChanges : CreateParamProposal(a, c[1], c[2])
    \/ \E v \in Addr, id \in DOMAIN proposals, vote \in Votes : VoteParam(v, id, vote)
    \/ \E id \in DOMAIN proposals : ConfirmParamProposal(id)
    \/ CollectGovForfeiture

\* Blocks keep coming, and a proposer that wants the deposit back keeps calling
\* confirmParamProposal, which anyone may call.
GovFairness ==
    /\ WF_allVars(NextBlock /\ UNCHANGED govVars)
    /\ \A id \in 1..MaxProposals : WF_allVars(id \in DOMAIN proposals /\ ConfirmParamProposal(id))

GovSpec == GovInit /\ [][GovNext]_allVars /\ GovFairness
-----------------------------------------------------------------------------
(* Properties. *)

\* The contract owns the deposits still at stake and the forfeited ones, while
\* the deposit parameter itself may change under an open proposal.
GovSolvency ==
    govBalance = govForfeiture
        + SumFunctionOnSet([id \in DOMAIN proposals |-> proposals[id].deposit],
                           {id \in DOMAIN proposals : proposals[id].status = "Voting"})

\* A parameter changes only with more than two thirds of the bonded stake behind
\* the change, counting only validators that are bonded when it takes effect
\* (the slash cap, which the owner may also set, apart).
ChangedByStake ==
    \A name \in ParamName \ {"MaxSlashFactor"} : params'[name] # params[name] =>
        \E id \in DOMAIN proposals :
            /\ proposals[id].name = name /\ proposals[id].newValue = params'[name]
            /\ proposals[id].status = "Voting" /\ proposals'[id].status = "Closed"
            /\ 3 * BondedValidatorsTokens({v \in BondedSet : proposals[id].votes[v] = "Yes"})
                  > 2 * bondedTokens

ParamsChangeByStake == [][ChangedByStake]_allVars

\* Staking refuses what id asks for: fewer bonded slots than bonded validators.
RefusedByStaking(id) ==
    /\ proposals[id].name = "MaxBondedValidators"
    /\ Passed(id)
    /\ Len(bondedValAddrs) > proposals[id].newValue

\* From any moment on every proposal is settled after its deadline, and its deposit
\* leaves the contract's books, or staking refuses it (again): one that was
\* refused is settled when validators or the votes' stake have left.
ProposalsSettle ==
    \A id \in 1..MaxProposals :
        (id \in DOMAIN proposals /\ proposals[id].voteDeadline <= MaxBlock)
            ~> (/\ id \in DOMAIN proposals
                /\ \/ proposals[id].status = "Closed"
                   \/ block >= proposals[id].voteDeadline /\ RefusedByStaking(id))

=============================================================================
