---------------------------- MODULE GovernProofs ----------------------------
(***************************************************************************)
(* Theorems about Govern, for every value of its constants: deposits, what *)
(* a vote must have behind it, and that all that is proved of Staking      *)
(* under arbitrary parameter changes holds under the votes of Govern.      *)
(***************************************************************************)
EXTENDS Govern, StakingProofs

-----------------------------------------------------------------------------
(* Types *)

GovTypeOK ==
    /\ proposals \in Seq(ParamProposal)
    /\ govBalance \in Nat /\ govForfeiture \in Nat /\ govCollected \in Nat

LEMMA ProposalTyped ==
    ASSUME TypeOK, GovTypeOK, NEW id \in DOMAIN proposals
    PROVE  /\ Len(proposals) \in Nat /\ id \in 1..Len(proposals)
           /\ proposals[id] \in ParamProposal
           /\ proposals[id].deposit \in Nat /\ proposals[id].proposer \in Addr
           /\ proposals[id].name \in ParamName /\ proposals[id].newValue \in Nat
           /\ proposals[id].status \in {"Voting", "Closed"}
           /\ proposals[id].votes \in [Addr -> VoteOption]
<1>1. Len(proposals) \in Nat /\ id \in 1..Len(proposals)
  BY LenProperties DEF GovTypeOK
<1>2. proposals[id] \in ParamProposal
  BY <1>1, ElementOfSeq DEF GovTypeOK
<1> QED
  BY <1>1, <1>2 DEF ParamProposal

\* A proposal closes, and nothing else of it changes.
LEMMA CloseProposal ==
    ASSUME TypeOK, GovTypeOK, NEW id \in DOMAIN proposals,
           proposals' = [proposals EXCEPT ![id].status = "Closed"]
    PROVE  /\ proposals' \in Seq(ParamProposal) /\ Len(proposals') = Len(proposals)
           /\ proposals'[id].status = "Closed" /\ proposals'[id].deposit = proposals[id].deposit
           /\ \A i \in 1..Len(proposals) : i # id => proposals'[i] = proposals[i]
<1> DEFINE closed == [proposals[id] EXCEPT !.status = "Closed"]
<1>1. proposals[id] \in ParamProposal /\ id \in 1..Len(proposals) /\ Len(proposals) \in Nat
  BY ProposalTyped
<1>2. /\ closed \in ParamProposal /\ closed.status = "Closed"
      /\ closed.deposit = proposals[id].deposit
  BY <1>1 DEF ParamProposal
<1>3. proposals' = [proposals EXCEPT ![id] = closed]
  OBVIOUS
<1> HIDE DEF closed
<1>4. proposals' \in Seq(ParamProposal) /\ Len(proposals') = Len(proposals)
  BY <1>1, <1>2, <1>3, ExceptSeq DEF GovTypeOK
<1>5. /\ proposals'[id] = closed
      /\ \A i \in 1..Len(proposals) : i # id => proposals'[i] = proposals[i]
  BY <1>1, <1>3, LenProperties DEF GovTypeOK
<1> QED
  BY <1>2, <1>4, <1>5

\* A vote is entered, and neither status nor deposit changes.
LEMMA EnterVote ==
    ASSUME TypeOK, GovTypeOK, NEW id \in DOMAIN proposals, NEW v \in Addr, NEW vote \in VoteOption,
           proposals' = [proposals EXCEPT ![id].votes[v] = vote]
    PROVE  /\ proposals' \in Seq(ParamProposal) /\ Len(proposals') = Len(proposals)
           /\ \A i \in 1..Len(proposals) : /\ proposals'[i].status = proposals[i].status
                                           /\ proposals'[i].deposit = proposals[i].deposit
<1> DEFINE votes == [proposals[id].votes EXCEPT ![v] = vote]
           voted == [proposals[id] EXCEPT !.votes = votes]
<1>1. /\ proposals[id] \in ParamProposal /\ id \in 1..Len(proposals) /\ Len(proposals) \in Nat
      /\ proposals[id].votes \in [Addr -> VoteOption]
  BY ProposalTyped
<1>2. votes \in [Addr -> VoteOption]
  BY <1>1
<1>3. proposals' = [proposals EXCEPT ![id] = voted]
  OBVIOUS
<1> HIDE DEF votes
<1>4. /\ voted \in ParamProposal /\ voted.status = proposals[id].status
      /\ voted.deposit = proposals[id].deposit
  BY <1>1, <1>2 DEF ParamProposal
<1> HIDE DEF voted
<1>5. proposals' \in Seq(ParamProposal) /\ Len(proposals') = Len(proposals)
  BY <1>1, <1>3, <1>4, ExceptSeq DEF GovTypeOK
<1>6. /\ proposals'[id] = voted
      /\ \A i \in 1..Len(proposals) : i # id => proposals'[i] = proposals[i]
  BY <1>1, <1>3, LenProperties DEF GovTypeOK
<1> QED
  BY <1>4, <1>5, <1>6

\* Before a step and after it.
Typed == TypeOK /\ GovTypeOK

\* The contract's types hold from step to step.
LEMMA GovTypeInit == GovInit => Typed
BY TypeInit, EmptySeq DEF GovInit, GovTypeOK, Typed

\* What governance leaves of Staking.
LEMMA StakingKeepsType ==
    ASSUME TypeOK, StakingKeeps, wallet' \in [Addr -> Nat], params' \in [ParamName -> Nat]
    PROVE  TypeOK'
BY DEF TypeOK, StakingKeeps, accounts, history

LEMMA CreateProposalType ==
    ASSUME Typed, NEW a \in Addr, NEW c \in ParamChanges, CreateParamProposal(a, c[1], c[2])
    PROVE  Typed'
<1> DEFINE new == [proposer |-> a, deposit |-> params.ProposalDeposit,
                   voteDeadline |-> block + params.VotingPeriod, name |-> c[1],
                   newValue |-> c[2], status |-> "Voting", votes |-> [v \in Addr |-> "Null"]]
<1>1. c[1] \in ParamName /\ c[2] \in Nat
  BY StakingAssumption
<1>2. /\ params.ProposalDeposit \in Nat /\ params.VotingPeriod \in Nat /\ block \in Nat
      /\ wallet[a] \in Nat
  BY DEF Typed, TypeOK, ParamName
<1>3. new \in ParamProposal
  BY <1>1, <1>2 DEF ParamProposal, VoteOption
<1>4. proposals' = Append(proposals, new)
  BY DEF CreateParamProposal
<1> HIDE DEF new
<1>5. proposals' \in Seq(ParamProposal)
  BY <1>3, <1>4, AppendProperties DEF Typed, GovTypeOK
<1>6. /\ params.ProposalDeposit <= wallet[a] /\ StakingKeeps /\ UNCHANGED params
      /\ wallet' = [wallet EXCEPT ![a] = @ - params.ProposalDeposit]
      /\ govBalance' = govBalance + params.ProposalDeposit
      /\ UNCHANGED <<govForfeiture, govCollected>>
  BY DEF CreateParamProposal
<1>7. wallet[a] - params.ProposalDeposit \in Nat
  BY <1>2, <1>6
<1>8. wallet' \in [Addr -> Nat] /\ params' \in [ParamName -> Nat]
  BY <1>6, <1>7 DEF Typed, TypeOK
<1>9. TypeOK'
  BY <1>6, <1>8, StakingKeepsType DEF Typed
<1> QED
  BY <1>2, <1>5, <1>6, <1>9 DEF Typed, GovTypeOK

LEMMA VoteParamType ==
    ASSUME Typed, NEW v \in Addr, NEW id \in DOMAIN proposals, NEW vote \in Votes,
           VoteParam(v, id, vote)
    PROVE  Typed'
<1>1. UNCHANGED <<vars, govBalance, govForfeiture, govCollected>>
  BY DEF VoteParam
<1>2. TypeOK'
  BY <1>1 DEF vars, Typed, TypeOK
<1>3. proposals' \in Seq(ParamProposal)
  BY EnterVote, GovernAssumption DEF Typed, VoteParam
<1> QED
  BY <1>1, <1>2, <1>3 DEF Typed, GovTypeOK

\* The two ways a proposal is settled.
LEMMA ConfirmSettles ==
    ASSUME Typed, NEW id \in DOMAIN proposals, ConfirmParamProposal(id)
    PROVE  /\ proposals[id].status = "Voting"
           /\ proposals' = [proposals EXCEPT ![id].status = "Closed"]
           /\ StakingKeeps /\ UNCHANGED govCollected
           /\ \/ /\ Passed(id)
                 /\ proposals[id].name = "MaxBondedValidators"
                      => Len(bondedValAddrs) <= proposals[id].newValue
                 /\ params' = [params EXCEPT ![proposals[id].name] = proposals[id].newValue]
                 /\ proposals[id].deposit <= govBalance
                 /\ govBalance' = govBalance - proposals[id].deposit
                 /\ wallet' = [wallet EXCEPT ![proposals[id].proposer]
                                                 = @ + proposals[id].deposit]
                 /\ UNCHANGED govForfeiture
              \/ /\ govForfeiture' = govForfeiture + proposals[id].deposit
                 /\ UNCHANGED <<params, wallet, govBalance>>
BY DEF ConfirmParamProposal

LEMMA ConfirmProposalType ==
    ASSUME Typed, NEW id \in DOMAIN proposals, ConfirmParamProposal(id)
    PROVE  Typed'
<1> DEFINE deposit == proposals[id].deposit
           value == proposals[id].newValue
           name == proposals[id].name
           who == proposals[id].proposer
<1>1. deposit \in Nat /\ who \in Addr /\ name \in ParamName /\ value \in Nat
  BY ProposalTyped DEF Typed
<1>2. /\ proposals' = [proposals EXCEPT ![id].status = "Closed"]
      /\ StakingKeeps /\ UNCHANGED govCollected
      /\ \/ /\ params' = [params EXCEPT ![name] = value]
            /\ deposit <= govBalance /\ govBalance' = govBalance - deposit
            /\ wallet' = [wallet EXCEPT ![who] = @ + deposit]
            /\ UNCHANGED govForfeiture
         \/ /\ govForfeiture' = govForfeiture + deposit
            /\ UNCHANGED <<params, wallet, govBalance>>
  BY ConfirmSettles
<1>3. proposals' \in Seq(ParamProposal)
  BY <1>2, CloseProposal DEF Typed
<1> HIDE DEF deposit, value, name, who
<1>4. wallet' \in [Addr -> Nat] /\ params' \in [ParamName -> Nat]
  <2>1. /\ wallet \in [Addr -> Nat] /\ params \in [ParamName -> Nat]
        /\ wallet[who] + deposit \in Nat
    BY <1>1 DEF Typed, TypeOK
  <2> DEFINE refunded == wallet[who] + deposit
  <2>2. CASE UNCHANGED <<params, wallet>>
    BY <2>1, <2>2
  <2>3. CASE /\ params' = [params EXCEPT ![name] = value]
             /\ wallet' = [wallet EXCEPT ![who] = refunded]
    <3> HIDE DEF refunded
    <3>1. refunded \in Nat
      BY <2>1 DEF refunded
    <3>2. params' \in [ParamName -> Nat]
      BY <1>1, <2>1, <2>3
    <3> QED
      BY <1>1, <2>1, <2>3, <3>1, <3>2
  <2> QED
    BY <1>2, <2>2, <2>3
<1>5. TypeOK'
  BY <1>2, <1>4, StakingKeepsType DEF Typed
<1>6. govBalance' \in Nat /\ govForfeiture' \in Nat /\ govCollected' \in Nat
  BY <1>1, <1>2 DEF Typed, GovTypeOK
<1> QED
  BY <1>3, <1>5, <1>6 DEF Typed, GovTypeOK

LEMMA GovTypeStep ==
    ASSUME Typed, [GovNext]_allVars
    PROVE  Typed'
<1>1. CASE StakingStep /\ UNCHANGED govVars
  <2>1. TypeOK'
    BY <1>1, TypeStep DEF Typed, Next
  <2> QED
    BY <1>1, <2>1 DEF Typed, GovTypeOK, govVars
<1>2. CASE CollectGovForfeiture
  <2>1. TypeOK'
    BY <1>2 DEF CollectGovForfeiture, vars, Typed, TypeOK
  <2>2. GovTypeOK'
    BY <1>2 DEF CollectGovForfeiture, Typed, GovTypeOK
  <2> QED
    BY <2>1, <2>2 DEF Typed
<1>3. CASE UNCHANGED allVars
  <2>1. TypeOK'
    BY <1>3 DEF allVars, vars, Typed, TypeOK
  <2> QED
    BY <1>3, <2>1 DEF allVars, govVars, Typed, GovTypeOK
<1> QED
  BY <1>1, <1>2, <1>3, CreateProposalType, VoteParamType, ConfirmProposalType DEF GovNext

\* Deposits, forfeits and proposals keep their types, and so does all of Staking.
THEOREM GovTypeCorrect == GovSpec => [](TypeOK /\ GovTypeOK)
<1>1. GovInit => Typed
  BY GovTypeInit
<1>2. Typed /\ [GovNext]_allVars => Typed'
  BY GovTypeStep
<1>3. GovSpec => []Typed
  BY <1>1, <1>2, PTL DEF GovSpec
<1> QED
  BY <1>3 DEF Typed

-----------------------------------------------------------------------------
(* What is proved of Staking under any parameter change holds under votes *)

StakingInv == /\ BondedListExact /\ BondedTokensExact /\ Solvency
              /\ SharesExact /\ SignerRegistry

\* What every step of Govern does to Staking, besides the wallets.
StakingUntouched == /\ Untouched /\ Kept /\ signerVals' = signerVals
                    /\ Len(bondedValAddrs) <= params'.MaxBondedValidators

LEMMA UntouchedByGovern ==
    ASSUME Typed, BondedListExact,
           UNCHANGED <<accounts, signerVals, balance, drained, forfeiture>>,
           Len(bondedValAddrs) <= params'.MaxBondedValidators
    PROVE  StakingUntouched
<1>1. UNCHANGED <<validators, delegators, bondedTokens, bondedValAddrs, signerVals>>
  BY DEF accounts
<1>2. UNCHANGED Held
  BY DEF Held
<1>3. Untouched
  BY <1>1, <1>2, RestUntouched
<1> QED
  BY <1>1, <1>3 DEF StakingUntouched, Kept, Same

\* Only a vote changes a limit, and Staking refuses one below the bonded number.
LEMMA GovernStepUntouched ==
    ASSUME Typed, BondedListExact, [GovNext]_allVars, ~StakingStep
    PROVE  StakingUntouched
<1>1. Len(bondedValAddrs) <= params.MaxBondedValidators
  BY DEF BondedListExact
<1>2. CASE UNCHANGED params /\ StakingKeeps
  BY <1>1, <1>2, UntouchedByGovern DEF StakingKeeps
<1>3. CASE UNCHANGED vars
  BY <1>1, <1>3, UntouchedByGovern DEF vars, accounts
<1>4. ASSUME NEW id \in DOMAIN proposals, ConfirmParamProposal(id), params' # params
      PROVE  StakingUntouched
  <2> DEFINE value == proposals[id].newValue
             name == proposals[id].name
  <2>1. name \in ParamName
    BY ProposalTyped DEF Typed
  <2>2. /\ name = "MaxBondedValidators" => Len(bondedValAddrs) <= value
        /\ params' = [params EXCEPT ![name] = value]
        /\ StakingKeeps
    BY <1>4, ConfirmSettles
  <2> HIDE DEF value, name
  <2>3. params \in [ParamName -> Nat] /\ "MaxBondedValidators" \in ParamName
    BY DEF Typed, TypeOK, ParamName
  <2>4. params'["MaxBondedValidators"]
          = IF name = "MaxBondedValidators" THEN value ELSE params["MaxBondedValidators"]
    BY <2>1, <2>2, <2>3
  <2>5. Len(bondedValAddrs) <= params'.MaxBondedValidators
    BY <1>1, <2>2, <2>4
  <2> QED
    BY <2>2, <2>5, UntouchedByGovern DEF StakingKeeps
<1>5. CASE \E id \in DOMAIN proposals : ConfirmParamProposal(id)
  BY <1>2, <1>4, <1>5, ConfirmSettles
<1>6. CASE \E a \in Addr, c \in ParamChanges : CreateParamProposal(a, c[1], c[2])
  BY <1>2, <1>6 DEF CreateParamProposal
<1>7. CASE \/ \E v \in Addr, id \in DOMAIN proposals, vote \in Votes : VoteParam(v, id, vote)
           \/ CollectGovForfeiture \/ UNCHANGED allVars
  BY <1>3, <1>7 DEF VoteParam, CollectGovForfeiture, allVars
<1> QED
  BY <1>5, <1>6, <1>7 DEF GovNext

LEMMA UntouchedKeepsInv ==
    ASSUME TypeOK, TypeOK', StakingInv, StakingUntouched
    PROVE  StakingInv'
<1>1. BooksStep
  BY DEF StakingUntouched, BooksStep
<1>2. Solvency' /\ BondedTokensExact' /\ SharesExact'
  BY <1>1, SolvencyStep, BondedTokensStep, SharesStep DEF StakingInv
<1>3. SignerRegistry'
  BY QuietKeepsRegistry DEF StakingInv, StakingUntouched, Quiet
<1>4. BondedListExact'
  <2>1. Matched /\ bondedValAddrs' = bondedValAddrs
    BY DEF StakingInv, StakingUntouched, Kept, BondedListExact, Matched
  <2>2. Matched'
    BY <2>1, SameBondedKeepsMatched DEF StakingUntouched, Kept, Same
  <2>3. Len(bondedValAddrs') <= params'.MaxBondedValidators
    BY <2>1 DEF StakingUntouched
  <2> QED
    BY <2>2, <2>3 DEF Matched, BondedListExact
<1> QED
  BY <1>2, <1>3, <1>4 DEF StakingInv

LEMMA StakingStepKeepsInv ==
    ASSUME TypeOK, TypeOK', StakingInv, StakingStep
    PROVE  StakingInv'
<1>1. [Next]_vars
  BY DEF Next
<1>2. BondedListExact'
  BY <1>1, BondedListStep DEF StakingInv
<1>3. BooksStep
  BY <1>1, StepBooks DEF StakingInv
<1>4. Solvency' /\ BondedTokensExact' /\ SharesExact'
  BY <1>3, SolvencyStep, BondedTokensStep, SharesStep DEF StakingInv
<1>5. SignerRegistry'
  BY <1>1, StepEffect, InitializeKeepsRegistry, UpdateSignerKeepsRegistry, QuietKeepsRegistry
     DEF StakingInv
<1> QED
  BY <1>2, <1>4, <1>5 DEF StakingInv

LEMMA StakingInvInit == Init => StakingInv
<1> SUFFICES ASSUME Init PROVE StakingInv
  OBVIOUS
<1>1. bondedValAddrs = <<>> /\ Len(bondedValAddrs) = 0
  BY EmptySeq DEF Init
<1>2. params.MaxBondedValidators \in Nat
  BY StakingAssumption DEF Init, ParamName
<1>3. \A v \in Addr : validators[v].status = "Null"
  BY DEF Init, NullValidator
<1>4. BondedListExact
  BY <1>1, <1>2, <1>3 DEF BondedListExact, IsBonded
<1>5. SignerRegistry
  BY DEF Init, NullValidator, SignerRegistry
<1> QED
  BY <1>4, <1>5, BooksInit DEF StakingInv

\* Whatever the votes change, the staking contract owes what it owns, counts its
\* bonded stake and its shares exactly, and keeps its bonded set and its signers.
THEOREM StakingInvCorrect == GovSpec => []StakingInv
<1>1. GovInit => StakingInv
  BY StakingInvInit DEF GovInit
<1>2. Typed /\ Typed' /\ StakingInv /\ [GovNext]_allVars => StakingInv'
  BY GovernStepUntouched, UntouchedKeepsInv, StakingStepKeepsInv DEF Typed, StakingInv
<1>3. GovSpec => []Typed
  BY GovTypeCorrect DEF Typed
<1> QED
  BY <1>1, <1>2, <1>3, PTL DEF GovSpec

\* Conflicting messages still need a third of the stake to sign twice.
THEOREM GovQuorumCorrect == GovSpec => []QuorumIntersection
<1>1. TypeOK /\ StakingInv => QuorumIntersection
  BY QuorumsMeet DEF StakingInv
<1> QED
  BY <1>1, GovTypeCorrect, StakingInvCorrect, PTL

-----------------------------------------------------------------------------
(* Deposits *)

\* What the contract owes for a proposal, while it is open.
Pending == [id \in 1..Len(proposals) |->
               IF proposals[id].status = "Voting" THEN proposals[id].deposit ELSE 0]

\* The deposits at stake, summed over all proposals instead of the open ones.
PendingTotals ==
    /\ Len(proposals) \in Nat
    /\ \A id \in 1..Len(proposals) : Pending[id] \in Nat
    /\ govBalance \in Nat /\ govForfeiture \in Nat
    /\ SumFunctionOnSet(Pending, 1..Len(proposals)) \in Nat
    /\ GovSolvency <=> govBalance = govForfeiture + SumFunctionOnSet(Pending, 1..Len(proposals))

LEMMA PendingSum == Typed => PendingTotals
<1> SUFFICES ASSUME Typed PROVE PendingTotals
  OBVIOUS
<1> DEFINE all == 1..Len(proposals)
           open == {id \in all : proposals[id].status = "Voting"}
           f == [id \in all |-> proposals[id].deposit]
           g == Pending
<1>1. /\ Len(proposals) \in Nat /\ all = DOMAIN proposals /\ IsFiniteSet(all)
      /\ govBalance \in Nat /\ govForfeiture \in Nat
  BY LenProperties, FS_Interval DEF Typed, GovTypeOK
<1>2. \A id \in all : proposals[id].deposit \in Nat
  BY <1>1, ProposalTyped DEF Typed
<1>3. /\ \A id \in all : f[id] \in Int /\ g[id] \in Nat
      /\ \A id \in open : f[id] = g[id] /\ g[id] \in Int
      /\ \A id \in all \ open : g[id] = 0
  BY <1>2 DEF Pending
<1>4. open \in SUBSET all
  OBVIOUS
<1>5. GovSolvency <=> govBalance = govForfeiture + SumFunctionOnSet(f, open)
  BY <1>1 DEF GovSolvency
<1> HIDE DEF all, open, f, g
<1>6. IsFiniteSet(open)
  BY <1>1, <1>4, FS_Subset
<1>7. SumFunctionOnSet(f, open) = SumFunctionOnSet(g, open)
  BY <1>3, <1>6, SumSame
<1>8. SumFunctionOnSet(g, all) = SumFunctionOnSet(g, open)
  BY <1>1, <1>3, <1>4, SumNonzero
<1>9. SumFunctionOnSet(g, all) \in Nat
  BY <1>1, <1>3, SumNat
<1>10. /\ GovSolvency <=> govBalance = govForfeiture + SumFunctionOnSet(g, all)
       /\ \A id \in all : g[id] \in Nat
  BY <1>3, <1>5, <1>7, <1>8
<1> QED
  BY <1>1, <1>9, <1>10 DEF PendingTotals, g, all

LEMMA PendingSumNext == Typed' => PendingTotals'
BY PendingSum, PTL

\* A new proposal is the last one.
LEMMA AddProposal ==
    ASSUME Typed, NEW new, proposals' = Append(proposals, new)
    PROVE  /\ Len(proposals') = Len(proposals) + 1 /\ proposals'[Len(proposals) + 1] = new
           /\ \A i \in 1..Len(proposals) : proposals'[i] = proposals[i]
BY AppendProperties DEF Typed, GovTypeOK

\* The step opens a proposal, closes one, or leaves each as open as it was.
Opened(deposit) ==
    /\ Len(proposals') = Len(proposals) + 1 /\ Pending'[Len(proposals) + 1] = deposit
    /\ \A i \in 1..Len(proposals) : Pending'[i] = Pending[i]
    /\ govBalance' = govBalance + deposit /\ govForfeiture' = govForfeiture
Settled(id) ==
    /\ Len(proposals') = Len(proposals) /\ Pending'[id] = 0
    /\ \A i \in 1..Len(proposals) : i # id => Pending'[i] = Pending[i]
    /\ govBalance' - govForfeiture' = govBalance - govForfeiture - Pending[id]
AsOpen ==
    /\ Len(proposals') = Len(proposals)
    /\ \A i \in 1..Len(proposals) : Pending'[i] = Pending[i]
    /\ govBalance' - govForfeiture' = govBalance - govForfeiture

LEMMA PendingStep ==
    ASSUME Typed, Typed', GovSolvency
    PROVE  /\ \A deposit \in Nat : Opened(deposit) => GovSolvency'
           /\ \A id \in 1..Len(proposals) : Settled(id) => GovSolvency'
           /\ AsOpen => GovSolvency'
<1> DEFINE n == Len(proposals)
           all == 1..n
           f == Pending
           g == Pending'
           was == SumFunctionOnSet(f, all)
           now == SumFunctionOnSet(g, 1..Len(proposals'))
<1>1. /\ n \in Nat /\ govBalance \in Nat /\ govForfeiture \in Nat /\ was \in Nat
      /\ govBalance = govForfeiture + was
      /\ \A id \in all : f[id] \in Nat /\ f[id] \in Int
  BY PendingSum DEF PendingTotals
<1>2. /\ govBalance' \in Nat /\ govForfeiture' \in Nat /\ now \in Nat
      /\ govBalance' = govForfeiture' + now => GovSolvency'
      /\ \A id \in 1..Len(proposals') : g[id] \in Nat /\ g[id] \in Int
  BY PendingSumNext DEF PendingTotals
<1> HIDE DEF n, f, g
<1>3. IsFiniteSet(all) /\ n + 1 \notin all /\ all \cup {n + 1} = 1..(n + 1)
  <2>1. n \in Int /\ 1 \in Int
    BY <1>1
  <2>2. IsFiniteSet(all)
    BY <2>1, FS_Interval
  <2>3. n + 1 \notin all /\ all \cup {n + 1} = 1..(n + 1)
    BY <1>1
  <2> QED
    BY <2>2, <2>3
<1>4. ASSUME NEW d \in Nat, Len(proposals') = n + 1, g[n + 1] = d,
             \A i \in all : g[i] = f[i], govBalance' = govBalance + d,
             govForfeiture' = govForfeiture
      PROVE  GovSolvency'
  <2>1. \A x \in all \cup {n + 1} : g[x] \in Int
    BY <1>2, <1>3, <1>4
  <2>2. now = SumFunctionOnSet(g, all \cup {n + 1})
    BY <1>3, <1>4
  <2> HIDE DEF all
  <2>3. now = g[n + 1] + SumFunctionOnSet(g, all)
    BY <1>3, <2>1, <2>2, SumAdd
  <2>4. SumFunctionOnSet(g, all) = SumFunctionOnSet(f, all)
    BY <1>3, <1>4, SumSame
  <2> HIDE DEF now
  <2>5. now = d + was
    BY <1>4, <2>3, <2>4
  <2> HIDE DEF was
  <2>6. govBalance' = govForfeiture' + now
    BY <1>1, <1>2, <1>4, <2>5
  <2> QED
    BY <1>2, <2>6
<1>5. ASSUME NEW id \in all, Len(proposals') = n, g[id] = 0,
             \A i \in all : i # id => g[i] = f[i],
             govBalance' - govForfeiture' = govBalance - govForfeiture - f[id]
      PROVE  GovSolvency'
  <2>1. /\ \A x \in all : f[x] \in Int /\ g[x] \in Int
        /\ \A x \in all \ {id} : f[x] = g[x]
    BY <1>1, <1>2, <1>5
  <2>2. now = SumFunctionOnSet(g, all)
    BY <1>5
  <2> HIDE DEF all
  <2>3. now = SumFunctionOnSet(f, all) - f[id] + g[id]
    BY <1>3, <2>1, <2>2, SumChange
  <2> HIDE DEF now
  <2>4. now = was - f[id] /\ f[id] \in Int
    BY <1>5, <2>1, <2>3, <1>1
  <2> HIDE DEF was
  <2>5. govBalance' = govForfeiture' + now
    BY <1>1, <1>2, <1>5, <2>4
  <2> QED
    BY <1>2, <2>5
<1>6. ASSUME Len(proposals') = n, \A i \in all : g[i] = f[i],
             govBalance' - govForfeiture' = govBalance - govForfeiture
      PROVE  GovSolvency'
  <2>1. now = SumFunctionOnSet(g, all)
    BY <1>6
  <2> HIDE DEF all
  <2>2. now = was
    BY <1>3, <1>6, <2>1, SumSame
  <2> HIDE DEF now, was
  <2>3. was \in Int /\ govBalance' \in Int /\ govForfeiture' \in Int
    BY <1>1, <1>2
  <2>4. govBalance - govForfeiture = was
    BY <1>1
  <2>5. govBalance' - govForfeiture' = was
    BY <1>6, <2>4
  <2>6. \A x, y, z \in Int : x - y = z => x = y + z
    OBVIOUS
  <2>7. govBalance' = govForfeiture' + was
    BY <2>3, <2>5, <2>6
  <2> QED
    BY <1>2, <2>2, <2>7
<1>7. ASSUME NEW deposit \in Nat, Opened(deposit)
      PROVE  GovSolvency'
  BY <1>4, <1>7 DEF Opened, n, f, g
<1>8. ASSUME NEW id \in all, Settled(id)
      PROVE  GovSolvency'
  BY <1>5, <1>8 DEF Settled, n, f, g
<1>9. ASSUME AsOpen
      PROVE  GovSolvency'
  BY <1>6, <1>9 DEF AsOpen, n, f, g
<1> HIDE DEF was, now
<1> QED
  BY <1>7, <1>8, <1>9 DEF n

LEMMA GovSolvencyStep ==
    ASSUME Typed, Typed', GovSolvency, [GovNext]_allVars
    PROVE  GovSolvency'
<1> DEFINE n == Len(proposals)
<1>1. n \in Nat /\ govBalance \in Nat /\ govForfeiture \in Nat
  BY LenProperties DEF Typed, GovTypeOK
<1>2. CASE UNCHANGED govVars
  BY <1>2 DEF govVars, GovSolvency
<1>3. ASSUME NEW a \in Addr, NEW c \in ParamChanges, CreateParamProposal(a, c[1], c[2])
      PROVE  GovSolvency'
  <2> DEFINE new == [proposer |-> a, deposit |-> params.ProposalDeposit,
                     voteDeadline |-> block + params.VotingPeriod, name |-> c[1],
                     newValue |-> c[2], status |-> "Voting", votes |-> [v \in Addr |-> "Null"]]
  <2>1. /\ proposals' = Append(proposals, new)
        /\ govBalance' = govBalance + params.ProposalDeposit /\ govForfeiture' = govForfeiture
    BY <1>3 DEF CreateParamProposal
  <2>2. new.status = "Voting" /\ new.deposit = params.ProposalDeposit
    OBVIOUS
  <2> HIDE DEF new
  <2>3. /\ Len(proposals') = n + 1 /\ proposals'[n + 1] = new
        /\ \A i \in 1..n : proposals'[i] = proposals[i]
    BY <2>1, AddProposal
  <2>4. n + 1 \in 1..(n + 1) /\ \A i \in 1..n : i \in 1..(n + 1)
    BY <1>1
  <2>5. /\ Pending'[n + 1] = params.ProposalDeposit
        /\ \A i \in 1..n : Pending'[i] = Pending[i]
    BY <2>2, <2>3, <2>4 DEF Pending
  <2>6. params.ProposalDeposit \in Nat
    BY DEF Typed, TypeOK, ParamName
  <2> QED
    BY <2>1, <2>3, <2>5, <2>6, PendingStep DEF Opened
<1>4. ASSUME NEW v \in Addr, NEW id \in DOMAIN proposals, NEW vote \in Votes,
             VoteParam(v, id, vote)
      PROVE  GovSolvency'
  <2>1. /\ proposals' = [proposals EXCEPT ![id].votes[v] = vote]
        /\ govBalance' = govBalance /\ govForfeiture' = govForfeiture
    BY <1>4 DEF VoteParam
  <2>2. /\ Len(proposals') = n
        /\ \A i \in 1..n : /\ proposals'[i].status = proposals[i].status
                           /\ proposals'[i].deposit = proposals[i].deposit
    BY <2>1, EnterVote, GovernAssumption DEF Typed
  <2>3. \A i \in 1..n : Pending'[i] = Pending[i]
    BY <2>2 DEF Pending
  <2> QED
    BY <1>1, <2>1, <2>2, <2>3, PendingStep DEF AsOpen
<1>5. ASSUME NEW id \in DOMAIN proposals, ConfirmParamProposal(id)
      PROVE  GovSolvency'
  <2> DEFINE deposit == proposals[id].deposit
  <2>1. id \in 1..n /\ deposit \in Nat
    BY ProposalTyped DEF Typed
  <2>2. /\ proposals[id].status = "Voting"
        /\ proposals' = [proposals EXCEPT ![id].status = "Closed"]
        /\ \/ govBalance' = govBalance - deposit /\ govForfeiture' = govForfeiture
           \/ govForfeiture' = govForfeiture + deposit /\ govBalance' = govBalance
    BY <1>5, ConfirmSettles
  <2>3. /\ Len(proposals') = n /\ proposals'[id].status = "Closed"
        /\ \A i \in 1..n : i # id => proposals'[i] = proposals[i]
    BY <2>2, CloseProposal DEF Typed
  <2>4. /\ Pending'[id] = 0 /\ Pending[id] = deposit
        /\ \A i \in 1..n : i # id => Pending'[i] = Pending[i]
    BY <2>1, <2>2, <2>3 DEF Pending
  <2> HIDE DEF deposit
  <2>5. govBalance' - govForfeiture' = govBalance - govForfeiture - Pending[id]
    BY <1>1, <2>1, <2>2, <2>4
  <2> QED
    BY <2>1, <2>3, <2>4, <2>5, PendingStep DEF Settled
<1>6. CASE CollectGovForfeiture
  <2>1. /\ proposals' = proposals /\ govForfeiture' = 0
        /\ govBalance' = govBalance - govForfeiture
    BY <1>6 DEF CollectGovForfeiture
  <2>2. govBalance' - govForfeiture' = govBalance - govForfeiture
    BY <1>1, <2>1
  <2>3. Len(proposals') = n /\ \A i \in 1..n : Pending'[i] = Pending[i]
    BY <2>1 DEF Pending
  <2> QED
    BY <2>2, <2>3, PendingStep DEF AsOpen
<1> QED
  BY <1>2, <1>3, <1>4, <1>5, <1>6 DEF GovNext, allVars

\* The contract owns the deposits still at stake and the forfeited ones, whatever
\* votes do to the deposit parameter while proposals are open.
THEOREM GovSolvencyCorrect == GovSpec => []GovSolvency
<1>1. GovInit => GovSolvency
  <2> SUFFICES ASSUME GovInit PROVE GovSolvency
    OBVIOUS
  <2>1. Typed
    BY GovTypeInit
  <2>2. proposals = <<>> /\ Len(proposals) = 0 /\ govBalance = 0 /\ govForfeiture = 0
    BY EmptySeq DEF GovInit
  <2>3. 1..Len(proposals) = {}
    BY <2>2
  <2>4. SumFunctionOnSet(Pending, 1..Len(proposals)) = 0
    BY <2>3, SumEmpty
  <2> QED
    BY <2>1, <2>2, <2>4, PendingSum DEF PendingTotals
<1>2. Typed /\ Typed' /\ GovSolvency /\ [GovNext]_allVars => GovSolvency'
  BY GovSolvencyStep
<1>3. GovSpec => []Typed
  BY GovTypeCorrect DEF Typed
<1> QED
  BY <1>1, <1>2, <1>3, PTL DEF GovSpec

-----------------------------------------------------------------------------
(* What a change must have behind it *)

\* The array confirmParamProposal walks holds the bonded validators.
LEMMA CountedAreBonded ==
    ASSUME TypeOK, BondedListExact
    PROVE  {bondedValAddrs[i] : i \in 1..Len(bondedValAddrs)} = BondedSet
<1>1. \A i \in 1..Len(bondedValAddrs) : bondedValAddrs[i] \in Addr
  BY ElementOfSeq DEF TypeOK
<1> QED
  BY <1>1 DEF BondedListExact, IsBonded, BondedSet

\* A quorum is more than two thirds.
LEMMA QuorumIsMost ==
    ASSUME NEW total \in Nat, NEW yes \in Nat, yes >= QuorumTokens(total)
    PROVE  3 * yes > 2 * total
<1> DEFINE third == (total * 2) \div 3
<1>1. third \in Int /\ total * 2 < 3 * (third + 1)
  OBVIOUS
<1>2. yes >= third + 1
  BY DEF QuorumTokens
<1> HIDE DEF third
<1> QED
  BY <1>1, <1>2

LEMMA PassedByStake ==
    ASSUME Typed, StakingInv, NEW id \in DOMAIN proposals, Passed(id)
    PROVE  3 * BondedValidatorsTokens({v \in BondedSet : proposals[id].votes[v] = "Yes"})
             > 2 * bondedTokens
<1> DEFINE inFavour == {v \in BondedSet : proposals[id].votes[v] = "Yes"}
           f == [v \in Addr |-> validators[v].tokens]
<1>1. BondedValidatorsTokens(inFavour) >= QuorumTokens(BondedValidatorsTokens(BondedSet))
  BY CountedAreBonded DEF Passed, Typed, StakingInv
<1>2. BondedValidatorsTokens(BondedSet) = bondedTokens
  BY DEF StakingInv, BondedTokensExact, BondedValidatorsTokens
<1>3. bondedTokens \in Nat
  BY DEF Typed, TypeOK
<1>4. BondedValidatorsTokens(inFavour) \in Nat
  <2>1. inFavour \in SUBSET Addr /\ IsFiniteSet(inFavour)
    BY FS_Subset, StakingAssumption DEF BondedSet
  <2>2. \A v \in inFavour : f[v] \in Nat
    BY <2>1, AccountTyped DEF Typed
  <2> HIDE DEF inFavour
  <2> QED
    BY <2>1, <2>2, SumNat DEF BondedValidatorsTokens
<1> HIDE DEF inFavour
<1>5. BondedValidatorsTokens(inFavour) >= QuorumTokens(bondedTokens)
  BY <1>1, <1>2
<1>6. 3 * BondedValidatorsTokens(inFavour) > 2 * bondedTokens
  BY <1>3, <1>4, <1>5, QuorumIsMost
<1> QED
  BY <1>6 DEF inFavour

LEMMA ChangedByStakeStep ==
    ASSUME Typed, StakingInv, [GovNext]_allVars
    PROVE  ChangedByStake
<1> SUFFICES ASSUME NEW name \in ParamName \ {"MaxSlashFactor"}, params'[name] # params[name]
             PROVE  \E id \in DOMAIN proposals :
                /\ proposals[id].name = name /\ proposals[id].newValue = params'[name]
                /\ proposals[id].status = "Voting" /\ proposals'[id].status = "Closed"
                /\ 3 * BondedValidatorsTokens(
                         {v \in BondedSet : proposals[id].votes[v] = "Yes"}) > 2 * bondedTokens
  BY DEF ChangedByStake
<1>1. ~StakingStep
  <2>1. ASSUME NEW value, SetMaxSlashFactor(value) PROVE FALSE
    BY <2>1 DEF SetMaxSlashFactor, Typed, TypeOK
  <2> QED
    BY <2>1, ParamsKept DEF StakingStep, OwnerStep, SetPaused, DrainToken, NextBlock
<1>2. PICK id \in DOMAIN proposals : ConfirmParamProposal(id)
  BY <1>1 DEF GovNext, CreateParamProposal, VoteParam, CollectGovForfeiture, allVars, vars
<1>3. /\ proposals[id].status = "Voting" /\ Passed(id)
      /\ proposals' = [proposals EXCEPT ![id].status = "Closed"]
      /\ params' = [params EXCEPT ![proposals[id].name] = proposals[id].newValue]
  BY <1>2, ConfirmSettles
<1>4. proposals[id].name = name /\ proposals[id].newValue = params'[name]
  <2>1. params \in [ParamName -> Nat] /\ proposals[id].name \in ParamName
    BY ProposalTyped DEF Typed, TypeOK
  <2> QED
    BY <1>3, <2>1
<1>5. proposals'[id].status = "Closed"
  BY <1>3, CloseProposal DEF Typed
<1> QED
  BY <1>3, <1>4, <1>5, PassedByStake

\* The slash cap apart, a parameter changes only by a proposal that validators
\* with more than two thirds of the bonded stake have voted for, all of it bonded
\* when the change takes effect.
THEOREM ParamsChangeByStakeCorrect == GovSpec => ParamsChangeByStake
<1>1. Typed /\ StakingInv /\ [GovNext]_allVars => [ChangedByStake]_allVars
  BY ChangedByStakeStep
<1>2. GovSpec => []Typed
  BY GovTypeCorrect DEF Typed
<1> QED
  BY <1>1, <1>2, StakingInvCorrect, PTL DEF GovSpec, ParamsChangeByStake

=============================================================================
