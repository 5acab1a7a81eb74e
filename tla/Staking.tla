------------------------------ MODULE Staking ------------------------------
(***************************************************************************)
(* The staking contract of the SGN chain (contracts/staking/Staking.sol):  *)
(* validators and their signers, delegation by shares, the bonded set, the *)
(* undelegation queues and slashing.  Every external function is one       *)
(* action; a failed require, or a checked subtraction below zero, is an    *)
(* action that is not enabled, because the transaction reverts.            *)
(***************************************************************************)
EXTENDS Integers, Sequences, FiniteSets, Functions

CONSTANTS
    Addr,               \* accounts that may be validators, signers, delegators
    ZeroAddr,           \* address(0)
    Candidates,         \* accounts the whitelist lets become validators
    Signers,            \* addresses offered as signer (ZeroAddr is accepted)
    Amounts,            \* token and share amounts users ask for
    Stakes,             \* min self delegations validators ask for
    CommissionRates,    \* commission rates validators ask for
    SlashRequests,      \* the slash requests the SGN chain signs
    ParamChanges,       \* <<name, value>> pairs the gov contract may set
    InitParams,         \* constructor arguments, by ParamName
    InitWallet,         \* CELR each account owns at deployment
    CELR_DECIMAL,       \* one CELR, in indivisible units
    MAX_UNDELEGATION_ENTRIES,
    SLASH_FACTOR_DECIMAL,
    COMMISSION_RATE_BASE,
    SlashCaps,          \* values the owner may set the slash cap to
    AdminOps,           \* owner operations a run allows
    MaxBlock            \* bound on the clock

ParamName == {"ProposalDeposit", "VotingPeriod", "UnbondingPeriod",
              "MaxBondedValidators", "MinValidatorTokens", "MinSelfDelegation",
              "AdvanceNoticePeriod", "ValidatorBondInterval", "MaxSlashFactor"}

Status == {"Null", "Unbonded", "Unbonding", "Bonded"}

SlashRequest == [validator : Addr, nonce : Nat, slashFactor : Nat,
                 jailPeriod : Nat, expireTime : Nat,
                 collectors : Seq([account : Addr \cup {ZeroAddr}, amount : Nat])]

ASSUME StakingAssumption ==
    /\ ZeroAddr \notin Addr /\ IsFiniteSet(Addr)
    /\ Candidates \subseteq Addr
    /\ Signers \subseteq Addr \cup {ZeroAddr}
    /\ Amounts \subseteq Nat /\ SlashCaps \subseteq Nat /\ Stakes \subseteq Nat
    /\ CommissionRates \subseteq Nat
    /\ SlashRequests \subseteq SlashRequest
    /\ ParamChanges \subseteq ParamName \X Nat
    /\ InitParams \in [ParamName -> Nat]
    /\ InitWallet \in [Addr -> Nat]
    /\ CELR_DECIMAL \in Nat \ {0} /\ MAX_UNDELEGATION_ENTRIES \in Nat \ {0}
    /\ SLASH_FACTOR_DECIMAL \in Nat \ {0} /\ COMMISSION_RATE_BASE \in Nat
    /\ MaxBlock \in Nat

VARIABLES
    block,          \* block.number; block.timestamp advances with it
    paused,         \* Pausable
    validators,     \* valAddr -> Validator, delegators kept apart
    delegators,     \* valAddr -> delAddr -> [shares, undelegations]
    signerVals,     \* signer -> valAddr, ZeroAddr when unused
    bondedValAddrs, \* the bonded validators, in array order
    bondedTokens,
    nextBondBlock,
    slashNonces,    \* nonces already used
    forfeiture,
    params,
    wallet,         \* CELR owned by each account
    balance,        \* CELR owned by the contract
    drained,        \* CELR the owner has drained
    slashableUntil, \* history: end of the unbonding period after leaving Bonded
    jailedUntil     \* history: end of the longest jail term ordered so far

accounts == <<validators, delegators, bondedTokens, bondedValAddrs>>
funds    == <<wallet, balance>>
history  == <<slashableUntil, jailedUntil>>
vars == <<block, paused, validators, delegators, signerVals, bondedValAddrs,
          bondedTokens, nextBondBlock, slashNonces, forfeiture, params, wallet,
          balance, drained, slashableUntil, jailedUntil>>

NullValidator == [status |-> "Null", signer |-> ZeroAddr, tokens |-> 0, shares |-> 0,
                  undelegationTokens |-> 0, undelegationShares |-> 0,
                  minSelfDelegation |-> 0, bondBlock |-> 0, unbondBlock |-> 0,
                  commissionRate |-> 0]

Init ==
    /\ block = 0 /\ paused = FALSE
    /\ validators = [v \in Addr |-> NullValidator]
    /\ delegators = [v \in Addr |-> [d \in Addr |-> [shares |-> 0, undelegations |-> <<>>]]]
    /\ signerVals = [s \in Addr \cup {ZeroAddr} |-> ZeroAddr]
    /\ bondedValAddrs = <<>> /\ bondedTokens = 0 /\ nextBondBlock = 0
    /\ slashNonces = {} /\ forfeiture = 0
    /\ params = InitParams
    /\ wallet = InitWallet /\ balance = 0 /\ drained = 0
    /\ slashableUntil = [v \in Addr |-> 0] /\ jailedUntil = [v \in Addr |-> 0]

-----------------------------------------------------------------------------
(* Shares, quorum and minimum tokens. *)

TokenToShare(tokens, totalTokens, totalShares) ==
    IF totalTokens = 0 THEN tokens ELSE (tokens * totalShares) \div totalTokens

ShareToToken(shares, totalTokens, totalShares) ==
    IF totalShares = 0 THEN shares ELSE (shares * totalTokens) \div totalShares

\* Mutant: only the self delegation is checked.
HasMinRequiredTokens_SelfOnly(v, selfShares, checkSelfDelegation) ==
    checkSelfDelegation => ShareToToken(selfShares, v.tokens, v.shares) >= v.minSelfDelegation

\* v is the validator's record and selfShares its own delegation shares.
HasMinRequiredTokens(v, selfShares, checkSelfDelegation) ==
    /\ v.tokens >= params.MinValidatorTokens
    /\ checkSelfDelegation =>
          ShareToToken(selfShares, v.tokens, v.shares) >= v.minSelfDelegation

\* Mutant: a simple majority.
QuorumTokens_Majority(total) == total \div 2 + 1

QuorumTokens(total) == (total * 2) \div 3 + 1

\* The tokens the contract counts for the signers of a message.  Signatures
\* come in ascending signer order, so a list of them is a set of signers.
SignedTokens(signers) ==
    LET bonded == {s \in signers : /\ signerVals[s] # ZeroAddr
                                   /\ validators[signerVals[s]].status = "Bonded"}
    IN  SumFunctionOnSet([s \in bonded |-> validators[signerVals[s]].tokens], bonded)

VerifySignatures(signers) == SignedTokens(signers) >= QuorumTokens(bondedTokens)

DecentralizationCheck(valTokens, n, total) ==
    /\ n \in {2, 3} => valTokens < QuorumTokens(total)
    /\ n > 3 => valTokens < total \div 3

-----------------------------------------------------------------------------
(* Validator registration and signers. *)

\* Mutant: the validator's total grows by tokens, the delegator's by shares.
DelegateTo_TokensAsShares(v, d, tokens, val) ==
    /\ ~paused
    /\ tokens >= CELR_DECIMAL
    /\ tokens <= wallet[d]
    /\ validators' = [validators EXCEPT
           ![v] = [val EXCEPT !.tokens = @ + tokens, !.shares = @ + tokens]]
    /\ delegators' = [delegators EXCEPT
           ![v][d].shares = @ + TokenToShare(tokens, val.tokens, val.shares)]
    /\ wallet' = [wallet EXCEPT ![d] = @ - tokens]
    /\ balance' = balance + tokens

\* The part of delegate() that follows its status check; val is the validator's
\* record as the caller has left it.
DelegateTo(v, d, tokens, val) ==
    LET shares == TokenToShare(tokens, val.tokens, val.shares)
    IN  /\ ~paused
        /\ tokens >= CELR_DECIMAL
        /\ tokens <= wallet[d]
        /\ validators' = [validators EXCEPT
               ![v] = [val EXCEPT !.tokens = @ + tokens, !.shares = @ + shares]]
        /\ delegators' = [delegators EXCEPT ![v][d].shares = @ + shares]
        /\ wallet' = [wallet EXCEPT ![d] = @ - tokens]
        /\ balance' = balance + tokens

InitializeValidator(v, signer, minSelf, rate) ==
    /\ v \in Candidates
    /\ validators[v].status = "Null"
    /\ signer \in Addr => validators[signer].status = "Null"
    /\ signerVals[v] = ZeroAddr
    /\ signerVals[signer] = ZeroAddr
    /\ rate <= COMMISSION_RATE_BASE
    /\ minSelf >= params.MinSelfDelegation
    /\ signerVals' = [signerVals EXCEPT ![signer] = v]
    /\ DelegateTo(v, v, minSelf,
                  [validators[v] EXCEPT !.signer = signer, !.status = "Unbonded",
                     !.minSelfDelegation = minSelf, !.commissionRate = rate])
    /\ UNCHANGED <<block, paused, bondedValAddrs, bondedTokens, nextBondBlock,
                   slashNonces, forfeiture, params, drained, history>>

\* Mutant: the old signer stays registered.
UpdateValidatorSigner_KeepsOld(v, signer) ==
    /\ validators[v].status # "Null"
    /\ signerVals[signer] = ZeroAddr
    /\ signer \in Addr \ {v} => validators[signer].status = "Null"
    /\ signerVals' = [signerVals EXCEPT ![signer] = v]
    /\ validators' = [validators EXCEPT ![v].signer = signer]
    /\ UNCHANGED <<block, paused, delegators, bondedValAddrs, bondedTokens, nextBondBlock,
                   slashNonces, forfeiture, params, funds, drained, history>>

UpdateValidatorSigner(v, signer) ==
    /\ validators[v].status # "Null"
    /\ signerVals[signer] = ZeroAddr
    /\ signer \in Addr \ {v} => validators[signer].status = "Null"
    /\ signerVals' = [signerVals EXCEPT ![validators[v].signer] = ZeroAddr, ![signer] = v]
    /\ validators' = [validators EXCEPT ![v].signer = signer]
    /\ UNCHANGED <<block, paused, delegators, bondedValAddrs, bondedTokens, nextBondBlock,
                   slashNonces, forfeiture, params, funds, drained, history>>

UpdateCommissionRate(v, rate) ==
    /\ validators[v].status # "Null"
    /\ rate <= COMMISSION_RATE_BASE
    /\ validators' = [validators EXCEPT ![v].commissionRate = rate]
    /\ UNCHANGED <<block, paused, delegators, signerVals, bondedValAddrs, bondedTokens,
                   nextBondBlock, slashNonces, forfeiture, params, funds, drained,
                   history>>

\* Lowering the requirement needs advance notice, written over bondBlock.
UpdateMinSelfDelegation(v, minSelf) ==
    LET lowered == minSelf < validators[v].minSelfDelegation
    IN  /\ validators[v].status # "Null"
        /\ minSelf >= params.MinSelfDelegation
        /\ lowered => validators[v].status # "Bonded"
        /\ validators' = [validators EXCEPT
               ![v].minSelfDelegation = minSelf,
               ![v].bondBlock = IF lowered THEN block + params.AdvanceNoticePeriod ELSE @]
        /\ UNCHANGED <<block, paused, delegators, signerVals, bondedValAddrs, bondedTokens,
                       nextBondBlock, slashNonces, forfeiture, params, funds, drained,
                       history>>

-----------------------------------------------------------------------------
(* The bonded set. *)

SetBonded(val) == [val EXCEPT !.status = "Bonded", !.unbondBlock = 0]

SetUnbonding(val) ==
    [val EXCEPT !.status = "Unbonding", !.unbondBlock = block + params.UnbondingPeriod]

\* _unbondValidator: the last element takes the place of the removed one.
RemoveBonded(v) ==
    LET last == Len(bondedValAddrs)
    IN  SubSeq([i \in 1..last |-> IF bondedValAddrs[i] = v THEN bondedValAddrs[last]
                                                           ELSE bondedValAddrs[i]],
               1, last - 1)

IsBonded(v) == \E i \in 1..Len(bondedValAddrs) : bondedValAddrs[i] = v

\* The first bonded validator, in array order, that has the fewest tokens.
MinTokensIndex(i) ==
    /\ \A j \in 1..Len(bondedValAddrs) :
          validators[bondedValAddrs[i]].tokens <= validators[bondedValAddrs[j]].tokens
    /\ \A j \in 1..(i - 1) :
          validators[bondedValAddrs[i]].tokens < validators[bondedValAddrs[j]].tokens

\* History: stake that leaves the bonded set stays slashable for the unbonding period.
RecordLeaving ==
    slashableUntil' = [v \in Addr |->
        IF validators[v].status = "Bonded" /\ validators'[v].status # "Bonded"
        THEN block + params.UnbondingPeriod ELSE slashableUntil[v]]

BondDirectly(v) ==
    /\ Len(bondedValAddrs) < params.MaxBondedValidators
    /\ bondedValAddrs' = Append(bondedValAddrs, v)
    /\ bondedTokens' = bondedTokens + validators[v].tokens
    /\ validators' = [validators EXCEPT ![v] = SetBonded(@)]

\* Mutant: the validator that is replaced keeps its status.
BondByReplacing_KeepsStatus(v) ==
    \E i \in 1..Len(bondedValAddrs) :
        LET out == bondedValAddrs[i]
        IN  /\ Len(bondedValAddrs) >= params.MaxBondedValidators
            /\ MinTokensIndex(i)
            /\ validators[v].tokens > validators[out].tokens
            /\ validators[out].tokens <= bondedTokens
            /\ bondedValAddrs' = [bondedValAddrs EXCEPT ![i] = v]
            /\ bondedTokens' = bondedTokens - validators[out].tokens + validators[v].tokens
            /\ validators' = [validators EXCEPT ![v] = SetBonded(validators[v])]

BondByReplacing(v) ==
    \E i \in 1..Len(bondedValAddrs) :
        LET out == bondedValAddrs[i]
        IN  /\ Len(bondedValAddrs) >= params.MaxBondedValidators
            /\ MinTokensIndex(i)
            /\ validators[v].tokens > validators[out].tokens
            /\ validators[out].tokens <= bondedTokens
            /\ bondedValAddrs' = [bondedValAddrs EXCEPT ![i] = v]
            /\ bondedTokens' = bondedTokens - validators[out].tokens + validators[v].tokens
            /\ validators' = [validators EXCEPT ![out] = SetUnbonding(validators[out]),
                                                ![v] = SetBonded(validators[v])]

\* The caller is the validator or its signer.
BondValidator(caller) ==
    LET v == IF signerVals[caller] # ZeroAddr THEN signerVals[caller] ELSE caller
    IN  /\ validators[v].status \in {"Unbonded", "Unbonding"}
        /\ block >= validators[v].bondBlock
        /\ block >= nextBondBlock
        /\ HasMinRequiredTokens(validators[v], delegators[v][v].shares, TRUE)
        /\ nextBondBlock' = block + params.ValidatorBondInterval
        /\ BondDirectly(v) \/ BondByReplacing(v)
        /\ DecentralizationCheck(validators[v].tokens, Len(bondedValAddrs'), bondedTokens')
        /\ RecordLeaving
        /\ UNCHANGED <<block, paused, delegators, signerVals, slashNonces, forfeiture,
                       params, funds, drained, jailedUntil>>

ConfirmUnbondedValidator(v) ==
    /\ validators[v].status = "Unbonding"
    /\ block >= validators[v].unbondBlock
    /\ validators' = [validators EXCEPT ![v].status = "Unbonded", ![v].unbondBlock = 0]
    /\ UNCHANGED <<block, paused, delegators, signerVals, bondedValAddrs, bondedTokens,
                   nextBondBlock, slashNonces, forfeiture, params, funds, drained,
                   history>>

-----------------------------------------------------------------------------
(* Delegation and undelegation. *)

\* Mutant: stake added to a bonded validator does not count for the quorum.
Delegate_NotCounted(v, d, tokens) ==
    /\ validators[v].status # "Null"
    /\ DelegateTo(v, d, tokens, validators[v])
    /\ UNCHANGED <<block, paused, signerVals, bondedValAddrs, bondedTokens, nextBondBlock,
                   slashNonces, forfeiture, params, drained, history>>

Delegate(v, d, tokens) ==
    /\ validators[v].status # "Null"
    /\ DelegateTo(v, d, tokens, validators[v])
    /\ IF validators[v].status = "Bonded"
       THEN /\ bondedTokens' = bondedTokens + tokens
            /\ DecentralizationCheck(validators[v].tokens + tokens, Len(bondedValAddrs),
                                     bondedTokens')
       ELSE UNCHANGED bondedTokens
    /\ UNCHANGED <<block, paused, signerVals, bondedValAddrs, nextBondBlock, slashNonces,
                   forfeiture, params, drained, history>>

\* Mutant: every remainder below one CELR is dropped as residual.
Residual_BelowOne(rest, tokens, shares) ==
    IF tokens # shares /\ rest < CELR_DECIMAL THEN 0 ELSE rest

\* The shares that stay with a delegator of rest shares once the validator has
\* the given totals: a residual of one or two is dropped after a slash.
Residual(rest, tokens, shares) == IF tokens # shares /\ rest <= 2 THEN 0 ELSE rest

UndelegateDirectly(v, d, tokens, val) ==
    /\ val.status = "Unbonded"
    /\ tokens <= balance
    /\ validators' = [validators EXCEPT ![v] = val]
    /\ wallet' = [wallet EXCEPT ![d] = @ + tokens]
    /\ balance' = balance - tokens
    /\ UNCHANGED <<bondedTokens, bondedValAddrs>>

\* Leave the bonded set when the minimum is no longer met, else stay.
UpdateBonded(v, val, tokens, stays) ==
    IF val.status # "Bonded"
    THEN /\ validators' = [validators EXCEPT ![v] = val]
         /\ UNCHANGED <<bondedTokens, bondedValAddrs>>
    ELSE IF stays
    THEN /\ tokens <= bondedTokens
         /\ bondedTokens' = bondedTokens - tokens
         /\ validators' = [validators EXCEPT ![v] = val]
         /\ UNCHANGED bondedValAddrs
    ELSE /\ tokens + val.tokens <= bondedTokens
         /\ IsBonded(v)
         /\ bondedTokens' = bondedTokens - tokens - val.tokens
         /\ bondedValAddrs' = RemoveBonded(v)
         /\ validators' = [validators EXCEPT ![v] = SetUnbonding(val)]

Undelegate(v, d, tokens, shares) ==
    LET rest == delegators[v][d].shares - shares
        kept == Residual(rest, validators[v].tokens - tokens, validators[v].shares - shares)
        val == [validators[v] EXCEPT !.tokens = @ - tokens,
                                     !.shares = @ - shares - (rest - kept)]
        newShares == TokenToShare(tokens, val.undelegationTokens, val.undelegationShares)
        queue == delegators[v][d].undelegations
        stays == HasMinRequiredTokens(val, IF d = v THEN kept ELSE 0, d = v)
    IN  /\ shares <= delegators[v][d].shares
        /\ shares + (rest - kept) <= validators[v].shares
        /\ tokens <= validators[v].tokens
        /\ kept = 0 \/ kept >= CELR_DECIMAL
        /\ \/ /\ UndelegateDirectly(v, d, tokens, val)
              /\ delegators' = [delegators EXCEPT ![v][d].shares = kept]
           \/ /\ val.status # "Unbonded"
              /\ Len(queue) < MAX_UNDELEGATION_ENTRIES
              /\ UpdateBonded(v, [val EXCEPT !.undelegationTokens = @ + tokens,
                                             !.undelegationShares = @ + newShares],
                              tokens, stays)
              /\ delegators' = [delegators EXCEPT ![v][d] =
                     [shares |-> kept,
                      undelegations |-> Append(queue, [shares |-> newShares,
                                                       creationBlock |-> block])]]
              /\ UNCHANGED funds
        /\ RecordLeaving
        /\ UNCHANGED <<block, paused, signerVals, nextBondBlock, slashNonces, forfeiture,
                       params, drained, jailedUntil>>

UndelegateShares(v, d, shares) ==
    /\ shares >= CELR_DECIMAL
    /\ validators[v].status # "Null"
    /\ Undelegate(v, d, ShareToToken(shares, validators[v].tokens, validators[v].shares), shares)

UndelegateTokens(v, d, tokens) ==
    /\ tokens >= CELR_DECIMAL
    /\ validators[v].status # "Null"
    /\ Undelegate(v, d, tokens, TokenToShare(tokens, validators[v].tokens, validators[v].shares))

QueuedShares(queue) ==
    SumFunctionOnSet([i \in 1..Len(queue) |-> queue[i].shares], 1..Len(queue))

\* Mutant: an entry is released one block early.
Mature_OneEarly(v, entry) ==
    \/ validators[v].status = "Unbonded"
    \/ entry.creationBlock + params.UnbondingPeriod <= block + 1

\* An entry is mature when its period is over or the validator is unbonded.
Mature(v, entry) ==
    \/ validators[v].status = "Unbonded"
    \/ entry.creationBlock + params.UnbondingPeriod <= block

\* Entries are taken from the head until the first that is not mature.
MatureUpTo(v, queue, n) ==
    /\ \A i \in 1..n : Mature(v, queue[i])
    /\ n < Len(queue) => ~Mature(v, queue[n + 1])

CompleteUndelegate(v, d) ==
    LET queue == delegators[v][d].undelegations
    IN  /\ validators[v].status # "Null"
        /\ \E n \in 0..Len(queue), ready \in 1..validators[v].undelegationShares :
              LET tokens == ShareToToken(ready, validators[v].undelegationTokens,
                                         validators[v].undelegationShares)
              IN  /\ MatureUpTo(v, queue, n)
                  /\ ready = QueuedShares(SubSeq(queue, 1, n))
                  /\ tokens <= validators[v].undelegationTokens
                  /\ tokens <= balance
                  /\ validators' = [validators EXCEPT ![v].undelegationShares = @ - ready,
                                                      ![v].undelegationTokens = @ - tokens]
                  /\ wallet' = [wallet EXCEPT ![d] = @ + tokens]
                  /\ balance' = balance - tokens
                  /\ delegators' = [delegators EXCEPT
                         ![v][d].undelegations = SubSeq(queue, n + 1, Len(queue))]
        /\ UNCHANGED <<block, paused, signerVals, bondedValAddrs, bondedTokens, nextBondBlock,
                       slashNonces, forfeiture, params, drained, history>>

-----------------------------------------------------------------------------
(* Slashing. *)

\* What the first i collectors receive together, each cut to what is left.
CollectedUpTo(collectors, i, slashAmt) ==
    LET asked == SumFunctionOnSet([j \in 1..i |-> collectors[j].amount], 1..i)
    IN  IF asked < slashAmt THEN asked ELSE slashAmt

\* What account a collects; ZeroAddr stands for the caller of slash().
CollectedBy(a, collectors, caller, slashAmt) ==
    LET mine == {j \in 1..Len(collectors) :
                    a = IF collectors[j].account = ZeroAddr THEN caller
                                                            ELSE collectors[j].account}
    IN  SumFunctionOnSet([j \in mine |-> CollectedUpTo(collectors, j, slashAmt)
                                           - CollectedUpTo(collectors, j - 1, slashAmt)], mine)

\* Mutant: factor and base swapped.
Slashed_Swapped(amount, factor) == (amount * SLASH_FACTOR_DECIMAL) \div factor

Slashed(amount, factor) == (amount * factor) \div SLASH_FACTOR_DECIMAL

Slash(req, caller, signers) ==
    LET v == req.validator
        val == validators[v]
        slashTokens == Slashed(val.tokens, req.slashFactor)
        slashQueued == Slashed(val.undelegationTokens, req.slashFactor)
        slashAmt == slashTokens + slashQueued
        after == [val EXCEPT !.tokens = @ - slashTokens,
                             !.undelegationTokens = @ - slashQueued]
        stays == /\ req.jailPeriod = 0
                 /\ HasMinRequiredTokens(after, delegators[v][v].shares, TRUE)
        jailed == req.jailPeriod > 0
        jailEnd == block + req.jailPeriod
    IN  /\ ~paused
        /\ VerifySignatures(signers)
        /\ block < req.expireTime
        /\ req.slashFactor <= SLASH_FACTOR_DECIMAL
        /\ req.slashFactor <= params.MaxSlashFactor
        /\ req.nonce \notin slashNonces
        /\ val.status \in {"Bonded", "Unbonding"}
        /\ slashNonces' = slashNonces \cup {req.nonce}
        /\ UpdateBonded(v, [after EXCEPT !.bondBlock = IF jailed THEN jailEnd ELSE @],
                        slashTokens, stays)
        /\ \E collected \in 0..slashAmt, paid \in [Addr -> 0..slashAmt] :
              /\ collected = CollectedUpTo(req.collectors, Len(req.collectors), slashAmt)
              /\ paid = [a \in Addr |-> CollectedBy(a, req.collectors, caller, slashAmt)]
              /\ collected <= balance
              /\ wallet' = [a \in Addr |-> wallet[a] + paid[a]]
              /\ balance' = balance - collected
              /\ forfeiture' = forfeiture + (slashAmt - collected)
        /\ jailedUntil' = [jailedUntil EXCEPT
               ![v] = IF jailed /\ jailEnd > @ THEN jailEnd ELSE @]
        /\ RecordLeaving
        /\ UNCHANGED <<block, paused, delegators, signerVals, nextBondBlock, params, drained>>

\* Mutant: the counter is not reset after the transfer.
CollectForfeiture_NoReset ==
    /\ forfeiture > 0
    /\ forfeiture <= balance
    /\ balance' = balance - forfeiture
    /\ UNCHANGED <<block, paused, accounts, signerVals, nextBondBlock, slashNonces, params,
                   wallet, drained, history, forfeiture>>

CollectForfeiture ==
    /\ forfeiture > 0
    /\ forfeiture <= balance
    /\ balance' = balance - forfeiture
    /\ forfeiture' = 0
    /\ UNCHANGED <<block, paused, accounts, signerVals, nextBondBlock, slashNonces, params,
                   wallet, drained, history>>

-----------------------------------------------------------------------------
(* Governance, owner and time. *)

SetParamValue(name, value) ==
    /\ name = "MaxBondedValidators" => Len(bondedValAddrs) <= value
    /\ params' = [params EXCEPT ![name] = value]
    /\ UNCHANGED <<block, paused, accounts, signerVals, nextBondBlock, slashNonces,
                   forfeiture, funds, drained, history>>

SetMaxSlashFactor(value) ==
    /\ params' = [params EXCEPT !.MaxSlashFactor = value]
    /\ UNCHANGED <<block, paused, accounts, signerVals, nextBondBlock, slashNonces,
                   forfeiture, funds, drained, history>>

SetPaused ==
    /\ "pause" \in AdminOps
    /\ paused' = ~paused
    /\ UNCHANGED <<block, accounts, signerVals, nextBondBlock, slashNonces, forfeiture,
                   params, funds, drained, history>>

DrainToken(amount) ==
    /\ "drain" \in AdminOps
    /\ paused
    /\ amount <= balance
    /\ balance' = balance - amount
    /\ drained' = drained + amount
    /\ UNCHANGED <<block, paused, accounts, signerVals, nextBondBlock, slashNonces,
                   forfeiture, params, wallet, history>>

NextBlock ==
    /\ block < MaxBlock
    /\ block' = block + 1
    /\ UNCHANGED <<paused, accounts, signerVals, nextBondBlock, slashNonces, forfeiture,
                   params, funds, drained, history>>

ValidatorStep ==
    \E v \in Addr :
        \/ \E s \in Signers, m \in Stakes, r \in CommissionRates :
              InitializeValidator(v, s, m, r)
        \/ \E s \in Signers : UpdateValidatorSigner(v, s)
        \/ \E r \in CommissionRates : UpdateCommissionRate(v, r)
        \/ \E m \in Stakes : UpdateMinSelfDelegation(v, m)
        \/ BondValidator(v)
        \/ ConfirmUnbondedValidator(v)

DelegatorStep ==
    \E v \in Addr, d \in Addr :
        \/ \E t \in Amounts : Delegate(v, d, t)
        \/ \E s \in Amounts : UndelegateShares(v, d, s)
        \/ \E t \in Amounts : UndelegateTokens(v, d, t)
        \/ CompleteUndelegate(v, d)

SlashStep ==
    \/ \E req \in SlashRequests, caller \in Addr, signers \in SUBSET (Signers \ {ZeroAddr}) :
          Slash(req, caller, signers)
    \/ CollectForfeiture

GovernStep == \E c \in ParamChanges : SetParamValue(c[1], c[2])

OwnerStep ==
    \/ \E value \in SlashCaps : SetMaxSlashFactor(value)
    \/ SetPaused
    \/ \E amount \in Amounts : DrainToken(amount)

StakingStep == ValidatorStep \/ DelegatorStep \/ SlashStep \/ OwnerStep \/ NextBlock

Next == StakingStep \/ GovernStep

Spec == Init /\ [][Next]_vars

-----------------------------------------------------------------------------
(* Properties. *)

Validator == [status : Status, signer : Addr \cup {ZeroAddr}, tokens : Nat, shares : Nat,
              undelegationTokens : Nat, undelegationShares : Nat,
              minSelfDelegation : Nat, bondBlock : Nat, unbondBlock : Nat,
              commissionRate : Nat]

Undelegation == [shares : Nat, creationBlock : Nat]
Delegator == [shares : Nat, undelegations : Seq(Undelegation)]

\* Every variable of the contract keeps its type; no amount goes below zero.
TypeOK ==
    /\ block \in Nat /\ paused \in BOOLEAN
    /\ validators \in [Addr -> Validator]
    /\ delegators \in [Addr -> [Addr -> Delegator]]
    /\ signerVals \in [Addr \cup {ZeroAddr} -> Addr \cup {ZeroAddr}]
    /\ bondedValAddrs \in Seq(Addr)
    /\ bondedTokens \in Nat /\ nextBondBlock \in Nat
    /\ slashNonces \subseteq Nat /\ forfeiture \in Nat
    /\ params \in [ParamName -> Nat]
    /\ wallet \in [Addr -> Nat] /\ balance \in Nat /\ drained \in Nat
    /\ slashableUntil \in [Addr -> Nat] /\ jailedUntil \in [Addr -> Nat]

\* The contract owns exactly what it owes: stakes, pending undelegations and
\* the forfeiture, less what the owner drained.  Slashing, rounding, dropped
\* residual shares and capped collectors must all keep this balance.
Solvency ==
    balance + drained = forfeiture
        + SumFunctionOnSet([v \in Addr |-> validators[v].tokens + validators[v].undelegationTokens],
                           Addr)

BondedSet == {v \in Addr : validators[v].status = "Bonded"}

\* bondedTokens, the quorum's base, is the stake of exactly the bonded validators.
BondedTokensExact ==
    bondedTokens = SumFunctionOnSet([v \in Addr |-> validators[v].tokens], BondedSet)

\* The bonded array and the validators' statuses agree, entry by entry, after
\* every bond, replacement and swap-and-pop removal, and respect the limit.
BondedListExact ==
    /\ \A v \in Addr : validators[v].status = "Bonded" <=> IsBonded(v)
    /\ \A i, j \in 1..Len(bondedValAddrs) : bondedValAddrs[i] = bondedValAddrs[j] => i = j
    /\ Len(bondedValAddrs) <= params.MaxBondedValidators

\* A validator's share totals are the sums over its delegators and their queues.
SharesExact ==
    \A v \in Addr :
        /\ validators[v].shares = SumFunctionOnSet([d \in Addr |-> delegators[v][d].shares], Addr)
        /\ validators[v].undelegationShares =
              SumFunctionOnSet([d \in Addr |-> QueuedShares(delegators[v][d].undelegations)], Addr)

\* The signer registry: each initialized validator is found under its signer
\* and under no other address, and no validator's own address signs for another.
SignerRegistry ==
    /\ \A v \in Addr : validators[v].status # "Null" => signerVals[validators[v].signer] = v
    /\ \A s \in Addr \cup {ZeroAddr} : signerVals[s] # ZeroAddr =>
          /\ validators[signerVals[s]].status # "Null"
          /\ validators[signerVals[s]].signer = s
    /\ \A v \in Addr : validators[v].status # "Null" => signerVals[v] \in {v, ZeroAddr}

\* Any two sets of signers that both reach the quorum share more than a third
\* of the bonded tokens, so two conflicting messages cannot both be signed
\* without that much stake signing twice.
QuorumIntersection ==
    \A s1, s2 \in SUBSET (Signers \ {ZeroAddr}) :
        VerifySignatures(s1) /\ VerifySignatures(s2)
            => 3 * SignedTokens(s1 \cap s2) > bondedTokens

\* A bonded validator keeps the minimum stake (while the parameter stands).
BondedHasMinimum ==
    \A v \in BondedSet : validators[v].tokens >= params.MinValidatorTokens

\* Stake that helped secure the chain is not paid back before it has been
\* slashable for the unbonding period: a queue entry leaves the queue, and an
\* immediate undelegation is paid, only when its own period is over or the
\* period that began when the validator last left the bonded set is.
PaysOnlyAfterPeriod ==
    \A v \in Addr, d \in Addr :
        LET before == delegators[v][d].undelegations
            gone == Len(before) - Len(delegators'[v][d].undelegations)
            released == validators[v].status # "Bonded" /\ block >= slashableUntil[v]
        IN  /\ \A i \in 1..gone :
                  released \/ block >= before[i].creationBlock + params.UnbondingPeriod
            /\ (/\ wallet'[d] > wallet[d] /\ gone = 0
                /\ validators'[v].tokens < validators[v].tokens
                /\ slashNonces' = slashNonces) => released

UnbondingDelay == [][PaysOnlyAfterPeriod]_vars

\* What d could take out of the contract, plus what d holds, in CELR units.
Wealth(d) ==
    wallet[d] + SumFunctionOnSet([v \in Addr |->
        ShareToToken(delegators[v][d].shares, validators[v].tokens, validators[v].shares)
        + ShareToToken(QueuedShares(delegators[v][d].undelegations),
                       validators[v].undelegationTokens, validators[v].undelegationShares)], Addr)

\* Rounding and dropped residual shares cost at most this many units.
Dust == 3

\* A step that is not a slash costs nobody more than rounding dust, whoever takes
\* it.  (Rounding favours whoever leaves; the claim is made while a share is worth
\* at most one token and no token is left without a share.)
NoLossWithoutSlash ==
    [][(/\ slashNonces' = slashNonces
        /\ \A v \in Addr : validators[v].tokens <= validators[v].shares)
          => \A d \in Addr : Wealth(d)' + Dust >= Wealth(d)]_vars

\* A validator is never bonded during a jail term a slash has ordered.
NoBondDuringJail ==
    \A v \in Addr : validators[v].status = "Bonded" => block >= jailedUntil[v]

\* Whoever delegates tokens holds more shares of the validator afterwards.
DelegationBuysShares ==
    [][\A v \in Addr, d \in Addr :
         (wallet'[d] < wallet[d] /\ validators'[v].tokens > validators[v].tokens)
            => delegators'[v][d].shares > delegators[v][d].shares]_vars

=============================================================================
