--------------------------- MODULE StakingProofs ---------------------------
(***************************************************************************)
(* Theorems about Staking that hold for every value of its constants.      *)
(* First its types, the array of bonded validators and the registry of     *)
(* signers: StepEffect sums up what a step can do to the statuses, the     *)
(* signers and the bonded array.  Then the accounts: what the contract     *)
(* owns covers what it owes, totals are the sums they stand for, two       *)
(* quorums overlap, and stake waits out its period; a step changes the     *)
(* account of one validator, or swaps two validators in the bonded set,    *)
(* and AccountStep says what balances then.  Last, that nobody loses more  *)
(* than rounding but by a slash: the arithmetic of one pool of tokens and  *)
(* shares, then what each kind of step does to everybody's holdings.       *)
(***************************************************************************)
EXTENDS Staking, SumTheorems, SequenceTheorems

-----------------------------------------------------------------------------
(* Lemmas about the arithmetic of shares and slashing. *)

\* Integer division of naturals gives a natural.
LEMMA DivNat ==
    ASSUME NEW a \in Nat, NEW b \in Nat, b # 0
    PROVE  a \div b \in Nat
  OBVIOUS

\* Products of naturals are naturals.
LEMMA TimesNat ==
    ASSUME NEW a \in Nat, NEW b \in Nat
    PROVE  a * b \in Nat
  OBVIOUS

\* _tokenToShare and _shareToToken return naturals.
LEMMA ShareTypes ==
    ASSUME NEW a \in Nat, NEW tokens \in Nat, NEW shares \in Nat
    PROVE  /\ TokenToShare(a, tokens, shares) \in Nat
           /\ ShareToToken(a, tokens, shares) \in Nat
  <1>1. a * shares \in Nat /\ a * tokens \in Nat
    BY TimesNat
  <1>2. tokens # 0 => (a * shares) \div tokens \in Nat
    BY <1>1, DivNat
  <1>3. shares # 0 => (a * tokens) \div shares \in Nat
    BY <1>1, DivNat
  <1> QED
    BY <1>2, <1>3 DEF TokenToShare, ShareToToken

\* A slash takes a natural amount, and no more than there is.
LEMMA SlashedType ==
    ASSUME NEW amount \in Nat, NEW factor \in Nat, factor <= SLASH_FACTOR_DECIMAL
    PROVE  Slashed(amount, factor) \in Nat /\ Slashed(amount, factor) <= amount
  <1> DEFINE D == SLASH_FACTOR_DECIMAL
             q == (amount * factor) \div D
  <1>1. D \in Nat /\ D > 0
    BY StakingAssumption
  <1>2. amount * factor \in Nat /\ amount * factor <= amount * D
    BY <1>1, TimesNat
  <1>3. q \in Nat
    BY <1>1, <1>2, DivNat
  <1>4. q <= amount
    BY <1>1, <1>2, <1>3
  <1> QED
    BY <1>3, <1>4 DEF Slashed

-----------------------------------------------------------------------------
(* Lemmas about the parts the actions share. *)

\* A validator's record stays one when its tokens are set.
LEMMA WithTokens ==
    ASSUME NEW r \in Validator, NEW x \in Nat
    PROVE  [r EXCEPT !.tokens = x] \in Validator
  BY DEF Validator

\* A validator's record stays one when its shares are set.
LEMMA WithShares ==
    ASSUME NEW r \in Validator, NEW x \in Nat
    PROVE  [r EXCEPT !.shares = x] \in Validator
  BY DEF Validator

\* A validator's record stays one when its undelegationTokens are set.
LEMMA WithUndelegationTokens ==
    ASSUME NEW r \in Validator, NEW x \in Nat
    PROVE  [r EXCEPT !.undelegationTokens = x] \in Validator
  BY DEF Validator

\* A validator's record stays one when its undelegationShares are set.
LEMMA WithUndelegationShares ==
    ASSUME NEW r \in Validator, NEW x \in Nat
    PROVE  [r EXCEPT !.undelegationShares = x] \in Validator
  BY DEF Validator

\* A validator's record stays one when its minSelfDelegation is set.
LEMMA WithMinSelfDelegation ==
    ASSUME NEW r \in Validator, NEW x \in Nat
    PROVE  [r EXCEPT !.minSelfDelegation = x] \in Validator
  BY DEF Validator

\* A validator's record stays one when its bondBlock is set.
LEMMA WithBondBlock ==
    ASSUME NEW r \in Validator, NEW x \in Nat
    PROVE  [r EXCEPT !.bondBlock = x] \in Validator
  BY DEF Validator

\* A validator's record stays one when its unbondBlock is set.
LEMMA WithUnbondBlock ==
    ASSUME NEW r \in Validator, NEW x \in Nat
    PROVE  [r EXCEPT !.unbondBlock = x] \in Validator
  BY DEF Validator

\* A validator's record stays one when its commissionRate is set.
LEMMA WithCommissionRate ==
    ASSUME NEW r \in Validator, NEW x \in Nat
    PROVE  [r EXCEPT !.commissionRate = x] \in Validator
  BY DEF Validator

\* A validator's record stays one when its status are set.
LEMMA WithStatus ==
    ASSUME NEW r \in Validator, NEW x \in Status
    PROVE  [r EXCEPT !.status = x] \in Validator
  BY DEF Validator

\* A validator's record stays one when its signer is set.
LEMMA WithSigner ==
    ASSUME NEW r \in Validator, NEW x \in Addr \cup {ZeroAddr}
    PROVE  [r EXCEPT !.signer = x] \in Validator
  BY DEF Validator

\* A delegator's record stays one when its shares are set.
LEMMA WithDelegatorShares ==
    ASSUME NEW r \in Delegator, NEW x \in Nat
    PROVE  [r EXCEPT !.shares = x] \in Delegator
  BY DEF Delegator

\* _setBondedValidator and _setUnbondingValidator leave a validator's record.
LEMMA SetStatusType ==
    ASSUME TypeOK, NEW val \in Validator
    PROVE  SetBonded(val) \in Validator /\ SetUnbonding(val) \in Validator
  <1>1. block + params.UnbondingPeriod \in Nat /\ 0 \in Nat
    BY DEF TypeOK, ParamName
  <1>2. "Bonded" \in Status /\ "Unbonding" \in Status
    BY DEF Status
  <1>3. [val EXCEPT !.status = "Bonded"] \in Validator
    BY <1>2, WithStatus
  <1>4. [val EXCEPT !.status = "Unbonding"] \in Validator
    BY <1>2, WithStatus
  <1>5. SetBonded(val) \in Validator
    BY <1>1, <1>3, WithUnbondBlock DEF SetBonded
  <1>6. SetUnbonding(val) \in Validator
    BY <1>1, <1>4, WithUnbondBlock DEF SetUnbonding
  <1> QED
    BY <1>5, <1>6

\* The swap and pop of _unbondValidator leaves a list of addresses, one shorter.
LEMMA RemoveBondedType ==
    ASSUME bondedValAddrs \in Seq(Addr), NEW v \in Addr, IsBonded(v)
    PROVE  /\ RemoveBonded(v) \in Seq(Addr)
           /\ Len(RemoveBonded(v)) = Len(bondedValAddrs) - 1
           /\ \A i \in 1..(Len(bondedValAddrs) - 1) : RemoveBonded(v)[i] =
                 IF bondedValAddrs[i] = v THEN bondedValAddrs[Len(bondedValAddrs)]
                                          ELSE bondedValAddrs[i]
  <1> DEFINE last == Len(bondedValAddrs)
             swapped == [i \in 1..last |-> IF bondedValAddrs[i] = v THEN bondedValAddrs[last]
                                                                    ELSE bondedValAddrs[i]]
  <1>1. last \in Nat /\ \A i \in 1..last : bondedValAddrs[i] \in Addr
    BY ElementOfSeq, LenProperties
  <1>2. last >= 1
    BY <1>1 DEF IsBonded
  <1>3. \A i \in 1..(last - 1) : swapped[i] \in Addr
    BY <1>1, <1>2
  <1>4. /\ SubSeq(swapped, 1, last - 1) \in Seq(Addr)
        /\ Len(SubSeq(swapped, 1, last - 1)) = last - 1
        /\ \A i \in 1..(last - 1) : SubSeq(swapped, 1, last - 1)[i] = swapped[i]
    <2> HIDE DEF swapped, last
    <2>1. last - 1 \in Int /\ 1 \in Int
      BY <1>1
    <2> QED
      BY <1>1, <1>2, <1>3, <2>1, SubSeqProperties, Z3
  <1>5. RemoveBonded(v) = SubSeq(swapped, 1, last - 1)
    BY DEF RemoveBonded
  <1> QED
    BY <1>1, <1>4, <1>5

\* A slash or an undelegation leaves the bonded set in order.
LEMMA UpdateBondedType ==
    ASSUME TypeOK, NEW v \in Addr, NEW val \in Validator, NEW tokens \in Nat,
           NEW stays \in BOOLEAN, UpdateBonded(v, val, tokens, stays)
    PROVE  /\ validators' \in [Addr -> Validator]
           /\ bondedTokens' \in Nat
           /\ bondedValAddrs' \in Seq(Addr)
  <1>1. CASE val.status # "Bonded"
    BY <1>1 DEF UpdateBonded, TypeOK
  <1>2. CASE val.status = "Bonded" /\ stays
    <2>1. /\ tokens <= bondedTokens /\ bondedTokens' = bondedTokens - tokens
          /\ validators' = [validators EXCEPT ![v] = val]
          /\ bondedValAddrs' = bondedValAddrs
      BY <1>2 DEF UpdateBonded
    <2> QED
      BY <2>1 DEF TypeOK
  <1>3. CASE val.status = "Bonded" /\ ~stays
    <2>1. SetUnbonding(val) \in Validator
      BY SetStatusType
    <2>2. IsBonded(v) /\ bondedValAddrs' = RemoveBonded(v)
      BY <1>3 DEF UpdateBonded
    <2>3. bondedValAddrs' \in Seq(Addr)
      BY <2>2, RemoveBondedType DEF TypeOK
    <2>4. bondedTokens' \in Nat
      <3>1. val.tokens \in Nat
        BY DEF Validator
      <3> QED
        BY <1>3, <3>1 DEF UpdateBonded, TypeOK
    <2>5. validators' \in [Addr -> Validator]
      BY <1>3, <2>1 DEF UpdateBonded, TypeOK
    <2> QED
      BY <2>3, <2>4, <2>5
  <1> QED
    BY <1>1, <1>2, <1>3

\* The history of leaving the bonded set holds blocks.
LEMMA RecordLeavingType ==
    ASSUME TypeOK, RecordLeaving
    PROVE  slashableUntil' \in [Addr -> Nat]
  <1>1. params.UnbondingPeriod \in Nat /\ block \in Nat
    BY DEF TypeOK, ParamName
  <1> QED
    BY <1>1 DEF RecordLeaving, TypeOK

\* The common part of delegate() and of a validator's own first delegation.
LEMMA DelegateToType ==
    ASSUME TypeOK, NEW v \in Addr, NEW d \in Addr, NEW tokens \in Nat,
           NEW val \in Validator, DelegateTo(v, d, tokens, val)
    PROVE  /\ validators' \in [Addr -> Validator]
           /\ delegators' \in [Addr -> [Addr -> Delegator]]
           /\ wallet' \in [Addr -> Nat]
           /\ balance' \in Nat
  <1> DEFINE shares == TokenToShare(tokens, val.tokens, val.shares)
  <1>1. val.tokens \in Nat /\ val.shares \in Nat
    BY DEF Validator
  <1>2. shares \in Nat
    BY <1>1, ShareTypes
  <1> HIDE DEF shares
  <1>3. validators' = [validators EXCEPT
            ![v] = [val EXCEPT !.tokens = @ + tokens, !.shares = @ + shares]]
    BY DEF DelegateTo, shares
  <1>4. [val EXCEPT !.tokens = @ + tokens, !.shares = @ + shares] \in Validator
    <2>1. val.tokens + tokens \in Nat /\ val.shares + shares \in Nat
      BY <1>1, <1>2
    <2>2. [val EXCEPT !.tokens = @ + tokens] \in Validator
      BY <2>1, WithTokens
    <2> QED
      BY <2>1, <2>2, WithShares
  <1>5. validators' \in [Addr -> Validator]
    BY <1>3, <1>4 DEF TypeOK
  <1>6. delegators' = [delegators EXCEPT ![v][d].shares = @ + shares]
    BY DEF DelegateTo, shares
  <1>7. delegators' \in [Addr -> [Addr -> Delegator]]
    <2>1. delegators \in [Addr -> [Addr -> Delegator]]
      BY DEF TypeOK
    <2>2. delegators[v][d] \in Delegator
      BY <2>1
    <2>3. delegators[v][d].shares + shares \in Nat
      BY <1>2, <2>2 DEF Delegator
    <2>4. [delegators[v][d] EXCEPT !.shares = @ + shares] \in Delegator
      BY <2>2, <2>3, WithDelegatorShares
    <2> DEFINE del == [delegators[v][d] EXCEPT !.shares = @ + shares]
               row == [delegators[v] EXCEPT ![d] = del]
    <2>5. delegators' = [delegators EXCEPT ![v] = row]
      BY <1>6, <2>1
    <2> HIDE DEF del
    <2>6. row \in [Addr -> Delegator]
      BY <2>1, <2>4 DEF del
    <2> QED
      BY <2>1, <2>5, <2>6
  <1>8. wallet' \in [Addr -> Nat]
    <2>1. wallet' = [wallet EXCEPT ![d] = @ - tokens] /\ tokens <= wallet[d]
      BY DEF DelegateTo
    <2>2. wallet \in [Addr -> Nat] /\ wallet[d] - tokens \in Nat
      BY <2>1 DEF TypeOK
    <2> QED
      BY <2>1, <2>2
  <1>9. balance' \in Nat
    <2>1. balance' = balance + tokens
      BY DEF DelegateTo
    <2> QED
      BY <2>1 DEF TypeOK
  <1> QED
    BY <1>5, <1>7, <1>8, <1>9

-----------------------------------------------------------------------------
(* Type correctness, action by action. *)

\* initializeValidator keeps the types.
LEMMA InitializeValidatorType ==
    ASSUME TypeOK, NEW v \in Addr, NEW s \in Signers, NEW m \in Stakes,
           NEW r \in CommissionRates, InitializeValidator(v, s, m, r)
    PROVE  TypeOK'
  <1> DEFINE val == [validators[v] EXCEPT !.signer = s, !.status = "Unbonded",
                                          !.minSelfDelegation = m, !.commissionRate = r]
  <1>1. m \in Nat /\ r \in Nat /\ s \in Addr \cup {ZeroAddr}
    BY StakingAssumption
  <1>2. val \in Validator
    <2>1. validators[v] \in Validator
      BY DEF TypeOK
    <2>2. [validators[v] EXCEPT !.signer = s] \in Validator
      BY <1>1, <2>1, WithSigner
    <2>3. "Unbonded" \in Status
      BY DEF Status
    <2>4. [validators[v] EXCEPT !.signer = s, !.status = "Unbonded"] \in Validator
      BY <2>2, <2>3, WithStatus
    <2>5. [validators[v] EXCEPT !.signer = s, !.status = "Unbonded",
                                !.minSelfDelegation = m] \in Validator
      BY <1>1, <2>4, WithMinSelfDelegation
    <2> QED
      BY <1>1, <2>5, WithCommissionRate
  <1> HIDE DEF val
  <1>3. DelegateTo(v, v, m, val)
    BY DEF InitializeValidator, val
  <1>4. /\ validators' \in [Addr -> Validator]
        /\ delegators' \in [Addr -> [Addr -> Delegator]]
        /\ wallet' \in [Addr -> Nat] /\ balance' \in Nat
    BY <1>1, <1>2, <1>3, DelegateToType
  <1>5. signerVals' \in [Addr \cup {ZeroAddr} -> Addr \cup {ZeroAddr}]
    BY <1>1 DEF InitializeValidator, TypeOK
  <1> QED
    BY <1>4, <1>5 DEF InitializeValidator, TypeOK, history

\* updateValidatorSigner keeps the types.
LEMMA UpdateValidatorSignerType ==
    ASSUME TypeOK, NEW v \in Addr, NEW s \in Signers, UpdateValidatorSigner(v, s)
    PROVE  TypeOK'
  <1>1. s \in Addr \cup {ZeroAddr}
    BY StakingAssumption
  <1>2. validators[v] \in Validator
    BY DEF TypeOK
  <1>3. [validators[v] EXCEPT !.signer = s] \in Validator
    BY <1>1, <1>2, WithSigner
  <1>4. validators' \in [Addr -> Validator]
    BY <1>3 DEF UpdateValidatorSigner, TypeOK
  <1>5. signerVals' \in [Addr \cup {ZeroAddr} -> Addr \cup {ZeroAddr}]
    BY <1>1 DEF UpdateValidatorSigner, TypeOK
  <1> QED
    BY <1>4, <1>5 DEF UpdateValidatorSigner, TypeOK, history, funds

\* updateCommissionRate keeps the types.
LEMMA UpdateCommissionRateType ==
    ASSUME TypeOK, NEW v \in Addr, NEW r \in CommissionRates, UpdateCommissionRate(v, r)
    PROVE  TypeOK'
  <1>1. r \in Nat
    BY StakingAssumption
  <1>2. validators[v] \in Validator
    BY DEF TypeOK
  <1>3. [validators[v] EXCEPT !.commissionRate = r] \in Validator
    BY <1>1, <1>2, WithCommissionRate
  <1>4. validators' \in [Addr -> Validator]
    BY <1>3 DEF UpdateCommissionRate, TypeOK
  <1> QED
    BY <1>4 DEF UpdateCommissionRate, TypeOK, history, funds

\* updateMinSelfDelegation keeps the types.
LEMMA UpdateMinSelfDelegationType ==
    ASSUME TypeOK, NEW v \in Addr, NEW m \in Stakes, UpdateMinSelfDelegation(v, m)
    PROVE  TypeOK'
  <1> DEFINE end == IF m < validators[v].minSelfDelegation
                    THEN block + params.AdvanceNoticePeriod ELSE validators[v].bondBlock
  <1>1. validators[v] \in Validator
    BY DEF TypeOK
  <1>2. m \in Nat /\ end \in Nat
    <2>1. validators[v].bondBlock \in Nat
      BY <1>1 DEF Validator
    <2>2. block + params.AdvanceNoticePeriod \in Nat
      <3>1. block \in Nat /\ params.AdvanceNoticePeriod \in Nat
        BY DEF TypeOK, ParamName
      <3> QED
        BY <3>1
    <2>3. m \in Nat
      BY StakingAssumption
    <2> QED
      BY <2>1, <2>2, <2>3
  <1>3. validators' = [validators EXCEPT ![v].minSelfDelegation = m, ![v].bondBlock = end]
    BY DEF UpdateMinSelfDelegation
  <1> HIDE DEF end
  <1>4. [validators[v] EXCEPT !.minSelfDelegation = m] \in Validator
    BY <1>1, <1>2, WithMinSelfDelegation
  <1>5. [validators[v] EXCEPT !.minSelfDelegation = m, !.bondBlock = end] \in Validator
    BY <1>2, <1>4, WithBondBlock
  <1>6. validators' \in [Addr -> Validator]
    <2>1. validators' = [validators EXCEPT
              ![v] = [validators[v] EXCEPT !.minSelfDelegation = m, !.bondBlock = end]]
      BY <1>3 DEF TypeOK
    <2> QED
      BY <1>5, <2>1 DEF TypeOK
  <1> QED
    BY <1>6 DEF UpdateMinSelfDelegation, TypeOK, history, funds

\* Taking a free slot of the bonded set keeps the types.
LEMMA BondDirectlyType ==
    ASSUME TypeOK, NEW v \in Addr, BondDirectly(v)
    PROVE  /\ validators' \in [Addr -> Validator]
           /\ bondedTokens' \in Nat
           /\ bondedValAddrs' \in Seq(Addr)
  <1>1. validators[v] \in Validator
    BY DEF TypeOK
  <1>2. SetBonded(validators[v]) \in Validator
    BY <1>1, SetStatusType
  <1>3. validators' \in [Addr -> Validator]
    BY <1>2 DEF BondDirectly, TypeOK
  <1>4. bondedTokens' \in Nat
    <2>1. validators[v].tokens \in Nat
      BY <1>1 DEF Validator
    <2> QED
      BY <2>1 DEF BondDirectly, TypeOK
  <1>5. bondedValAddrs' \in Seq(Addr)
    BY AppendProperties DEF BondDirectly, TypeOK
  <1> QED
    BY <1>3, <1>4, <1>5

\* Replacing a bonded validator keeps the types.
LEMMA BondByReplacingType ==
    ASSUME TypeOK, NEW v \in Addr, BondByReplacing(v)
    PROVE  /\ validators' \in [Addr -> Validator]
           /\ bondedTokens' \in Nat
           /\ bondedValAddrs' \in Seq(Addr)
  <1>1. PICK i \in 1..Len(bondedValAddrs) :
           /\ validators[bondedValAddrs[i]].tokens <= bondedTokens
           /\ bondedValAddrs' = [bondedValAddrs EXCEPT ![i] = v]
           /\ bondedTokens' = bondedTokens - validators[bondedValAddrs[i]].tokens
                                + validators[v].tokens
           /\ validators' = [validators EXCEPT
                 ![bondedValAddrs[i]] = SetUnbonding(validators[bondedValAddrs[i]]),
                 ![v] = SetBonded(validators[v])]
    BY DEF BondByReplacing
  <1> DEFINE out == bondedValAddrs[i]
  <1>2. out \in Addr
    BY ElementOfSeq DEF TypeOK
  <1>3. validators[v] \in Validator /\ validators[out] \in Validator
    BY <1>2 DEF TypeOK
  <1>4. SetUnbonding(validators[out]) \in Validator /\ SetBonded(validators[v]) \in Validator
    BY <1>3, SetStatusType
  <1>5. validators' \in [Addr -> Validator]
    BY <1>1, <1>4 DEF TypeOK
  <1>6. bondedTokens' \in Nat
    <2>1. validators[v].tokens \in Nat /\ validators[out].tokens \in Nat
      BY <1>3 DEF Validator
    <2>2. validators[out].tokens <= bondedTokens
      BY <1>1
    <2>3. bondedTokens' = bondedTokens - validators[out].tokens + validators[v].tokens
      BY <1>1
    <2>4. bondedTokens \in Nat
      BY DEF TypeOK
    <2> HIDE DEF out
    <2> QED
      BY <2>1, <2>2, <2>3, <2>4
  <1>7. bondedValAddrs' \in Seq(Addr)
    BY <1>1, ExceptSeq DEF TypeOK
  <1> QED
    BY <1>5, <1>6, <1>7

\* bondValidator keeps the types.
LEMMA BondValidatorType ==
    ASSUME TypeOK, NEW caller \in Addr, BondValidator(caller)
    PROVE  TypeOK'
  <1> DEFINE v == IF signerVals[caller] # ZeroAddr THEN signerVals[caller] ELSE caller
  <1>1. v \in Addr
    BY DEF TypeOK
  <1>2. BondDirectly(v) \/ BondByReplacing(v)
    BY DEF BondValidator
  <1> HIDE DEF v
  <1>3. /\ validators' \in [Addr -> Validator]
        /\ bondedTokens' \in Nat
        /\ bondedValAddrs' \in Seq(Addr)
    BY <1>1, <1>2, BondDirectlyType, BondByReplacingType
  <1>4. nextBondBlock' \in Nat
    <2>1. params.ValidatorBondInterval \in Nat /\ block \in Nat
      BY DEF TypeOK, ParamName
    <2>2. nextBondBlock' = block + params.ValidatorBondInterval
      BY DEF BondValidator
    <2> QED
      BY <2>1, <2>2
  <1>5. slashableUntil' \in [Addr -> Nat]
    BY RecordLeavingType DEF BondValidator
  <1> QED
    BY <1>3, <1>4, <1>5 DEF BondValidator, TypeOK, funds

\* confirmUnbondedValidator keeps the types.
LEMMA ConfirmUnbondedValidatorType ==
    ASSUME TypeOK, NEW v \in Addr, ConfirmUnbondedValidator(v)
    PROVE  TypeOK'
  <1>1. validators[v] \in Validator
    BY DEF TypeOK
  <1>2. "Unbonded" \in Status
    BY DEF Status
  <1>3. [validators[v] EXCEPT !.status = "Unbonded"] \in Validator
    BY <1>1, <1>2, WithStatus
  <1>4. [validators[v] EXCEPT !.status = "Unbonded", !.unbondBlock = 0] \in Validator
    BY <1>3, WithUnbondBlock
  <1>5. validators' = [validators EXCEPT
            ![v] = [validators[v] EXCEPT !.status = "Unbonded", !.unbondBlock = 0]]
    BY DEF ConfirmUnbondedValidator, TypeOK
  <1>6. validators' \in [Addr -> Validator]
    BY <1>4, <1>5 DEF TypeOK
  <1> QED
    BY <1>6 DEF ConfirmUnbondedValidator, TypeOK, history, funds

\* delegate keeps the types.
LEMMA DelegateType ==
    ASSUME TypeOK, NEW v \in Addr, NEW d \in Addr, NEW t \in Amounts, Delegate(v, d, t)
    PROVE  TypeOK'
  <1>1. t \in Nat
    BY StakingAssumption
  <1>2. validators[v] \in Validator /\ DelegateTo(v, d, t, validators[v])
    BY DEF TypeOK, Delegate
  <1>3. /\ validators' \in [Addr -> Validator]
        /\ delegators' \in [Addr -> [Addr -> Delegator]]
        /\ wallet' \in [Addr -> Nat] /\ balance' \in Nat
    BY <1>1, <1>2, DelegateToType
  <1>4. bondedTokens' \in Nat
    BY <1>1 DEF Delegate, TypeOK
  <1> QED
    BY <1>3, <1>4 DEF Delegate, TypeOK, history

\* _undelegate keeps the types, whichever way it pays.
LEMMA UndelegateType ==
    ASSUME TypeOK, NEW v \in Addr, NEW d \in Addr, NEW tokens \in Nat, NEW shares \in Nat,
           Undelegate(v, d, tokens, shares)
    PROVE  TypeOK'
  <1> DEFINE rest == delegators[v][d].shares - shares
             kept == Residual(rest, validators[v].tokens - tokens,
                              validators[v].shares - shares)
             val == [validators[v] EXCEPT !.tokens = @ - tokens,
                                          !.shares = @ - shares - (rest - kept)]
             newShares == TokenToShare(tokens, val.undelegationTokens, val.undelegationShares)
             queue == delegators[v][d].undelegations
             queued == [val EXCEPT !.undelegationTokens = @ + tokens,
                                   !.undelegationShares = @ + newShares]
             stays == HasMinRequiredTokens(val, IF d = v THEN kept ELSE 0, d = v)
  <1>1. /\ shares <= delegators[v][d].shares
        /\ shares + (rest - kept) <= validators[v].shares
        /\ tokens <= validators[v].tokens
    BY DEF Undelegate
  <1>2. \/ /\ UndelegateDirectly(v, d, tokens, val)
           /\ delegators' = [delegators EXCEPT ![v][d].shares = kept]
        \/ /\ UpdateBonded(v, queued, tokens, stays)
           /\ delegators' = [delegators EXCEPT ![v][d] =
                  [shares |-> kept,
                   undelegations |-> Append(queue, [shares |-> newShares,
                                                    creationBlock |-> block])]]
           /\ UNCHANGED funds
    BY DEF Undelegate
  <1>3. stays \in BOOLEAN
    BY DEF HasMinRequiredTokens
  <1> HIDE DEF stays
  <1>4. /\ validators[v] \in Validator /\ delegators[v][d] \in Delegator
        /\ block \in Nat
    BY DEF TypeOK
  <1>5. delegators[v][d].shares \in Nat /\ queue \in Seq(Undelegation)
    BY <1>4 DEF Delegator
  <1>6. rest \in Nat /\ kept \in Nat /\ rest - kept \in Nat
    <2>1. rest \in Nat
      BY <1>1, <1>5
    <2> HIDE DEF rest
    <2> QED
      BY <2>1 DEF Residual
  <1> HIDE DEF rest, kept
  <1>7. val \in Validator
    <2>1. validators[v].tokens \in Nat /\ validators[v].shares \in Nat
      BY <1>4 DEF Validator
    <2>2. validators[v].tokens - tokens \in Nat
      BY <1>1, <2>1
    <2>3. validators[v].shares - shares - (rest - kept) \in Nat
      BY <1>1, <1>6, <2>1
    <2>4. [validators[v] EXCEPT !.tokens = @ - tokens] \in Validator
      BY <1>4, <2>2, WithTokens
    <2> QED
      BY <2>3, <2>4, WithShares
  <1> HIDE DEF val
  <1>8. val.undelegationTokens \in Nat /\ val.undelegationShares \in Nat
    BY <1>7 DEF Validator
  <1>9. newShares \in Nat
    BY <1>8, ShareTypes
  <1> HIDE DEF newShares
  <1>10. queued \in Validator
    <2>1. val.undelegationTokens + tokens \in Nat /\ val.undelegationShares + newShares \in Nat
      BY <1>8, <1>9
    <2>2. [val EXCEPT !.undelegationTokens = @ + tokens] \in Validator
      BY <1>7, <2>1, WithUndelegationTokens
    <2> QED
      BY <2>1, <2>2, WithUndelegationShares
  <1> HIDE DEF queued
  <1>11. /\ validators' \in [Addr -> Validator] /\ bondedTokens' \in Nat
         /\ bondedValAddrs' \in Seq(Addr)
         /\ delegators' \in [Addr -> [Addr -> Delegator]]
         /\ wallet' \in [Addr -> Nat] /\ balance' \in Nat
    <2>1. delegators \in [Addr -> [Addr -> Delegator]]
      BY DEF TypeOK
    <2>2. CASE /\ UndelegateDirectly(v, d, tokens, val)
               /\ delegators' = [delegators EXCEPT ![v][d].shares = kept]
      <3>1. [delegators[v][d] EXCEPT !.shares = kept] \in Delegator
        BY <1>4, <1>6, WithDelegatorShares
      <3>2. delegators' \in [Addr -> [Addr -> Delegator]]
        BY <2>1, <2>2, <3>1
      <3>3. /\ tokens <= balance /\ balance' = balance - tokens
            /\ wallet' = [wallet EXCEPT ![d] = @ + tokens]
            /\ validators' = [validators EXCEPT ![v] = val]
            /\ bondedTokens' = bondedTokens /\ bondedValAddrs' = bondedValAddrs
        BY <2>2 DEF UndelegateDirectly
      <3>4. wallet' \in [Addr -> Nat] /\ balance' \in Nat
        <4>1. wallet \in [Addr -> Nat] /\ balance \in Nat
          BY DEF TypeOK
        <4> QED
          BY <3>3, <4>1
      <3>5. validators' \in [Addr -> Validator]
        BY <1>7, <3>3 DEF TypeOK
      <3> QED
        BY <3>2, <3>3, <3>4, <3>5 DEF TypeOK
    <2>3. CASE /\ UpdateBonded(v, queued, tokens, stays)
               /\ delegators' = [delegators EXCEPT ![v][d] =
                      [shares |-> kept,
                       undelegations |-> Append(queue, [shares |-> newShares,
                                                        creationBlock |-> block])]]
               /\ UNCHANGED funds
      <3>1. [shares |-> newShares, creationBlock |-> block] \in Undelegation
        BY <1>4, <1>9 DEF Undelegation
      <3>2. Append(queue, [shares |-> newShares, creationBlock |-> block]) \in Seq(Undelegation)
        BY <1>5, <3>1, AppendProperties
      <3>3. [shares |-> kept,
             undelegations |-> Append(queue, [shares |-> newShares, creationBlock |-> block])]
              \in Delegator
        BY <1>6, <3>2 DEF Delegator
      <3>4. delegators' \in [Addr -> [Addr -> Delegator]]
        BY <2>1, <2>3, <3>3
      <3>5. /\ validators' \in [Addr -> Validator] /\ bondedTokens' \in Nat
            /\ bondedValAddrs' \in Seq(Addr)
        BY <1>3, <1>10, <2>3, UpdateBondedType
      <3> QED
        BY <2>3, <3>4, <3>5 DEF TypeOK, funds
    <2> QED
      BY <1>2, <2>2, <2>3
  <1>12. slashableUntil' \in [Addr -> Nat]
    BY RecordLeavingType DEF Undelegate
  <1> QED
    BY <1>11, <1>12 DEF Undelegate, TypeOK

\* undelegateShares and undelegateTokens keep the types.
LEMMA UndelegateAmountType ==
    ASSUME TypeOK, NEW v \in Addr, NEW d \in Addr, NEW a \in Amounts,
           UndelegateShares(v, d, a) \/ UndelegateTokens(v, d, a)
    PROVE  TypeOK'
  <1> DEFINE val == validators[v]
  <1>1. a \in Nat
    BY StakingAssumption
  <1>2. val.tokens \in Nat /\ val.shares \in Nat
    <2>1. val \in Validator
      BY DEF TypeOK
    <2> QED
      BY <2>1 DEF Validator
  <1>3. /\ TokenToShare(a, val.tokens, val.shares) \in Nat
        /\ ShareToToken(a, val.tokens, val.shares) \in Nat
    BY <1>1, <1>2, ShareTypes
  <1>4. \/ Undelegate(v, d, ShareToToken(a, val.tokens, val.shares), a)
        \/ Undelegate(v, d, a, TokenToShare(a, val.tokens, val.shares))
    BY DEF UndelegateShares, UndelegateTokens
  <1> QED
    BY <1>1, <1>3, <1>4, UndelegateType

\* completeUndelegate keeps the types.
LEMMA CompleteUndelegateType ==
    ASSUME TypeOK, NEW v \in Addr, NEW d \in Addr, CompleteUndelegate(v, d)
    PROVE  TypeOK'
  <1> DEFINE queue == delegators[v][d].undelegations
             val == validators[v]
  <1>1. PICK n \in 0..Len(queue), ready \in 1..val.undelegationShares :
           LET tokens == ShareToToken(ready, val.undelegationTokens, val.undelegationShares)
           IN  /\ tokens <= val.undelegationTokens
               /\ tokens <= balance
               /\ validators' = [validators EXCEPT ![v].undelegationShares = @ - ready,
                                                   ![v].undelegationTokens = @ - tokens]
               /\ wallet' = [wallet EXCEPT ![d] = @ + tokens]
               /\ balance' = balance - tokens
               /\ delegators' = [delegators EXCEPT
                      ![v][d].undelegations = SubSeq(queue, n + 1, Len(queue))]
    BY DEF CompleteUndelegate
  <1> DEFINE tokens == ShareToToken(ready, val.undelegationTokens, val.undelegationShares)
  <1>2. val \in Validator /\ delegators[v][d] \in Delegator
    BY DEF TypeOK
  <1>3. val.undelegationTokens \in Nat /\ val.undelegationShares \in Nat
    BY <1>2 DEF Validator
  <1>4. ready \in Nat /\ ready <= val.undelegationShares
    BY <1>3
  <1>5. tokens \in Nat
    BY <1>3, <1>4, ShareTypes
  <1>6. /\ tokens <= val.undelegationTokens
        /\ tokens <= balance
        /\ validators' = [validators EXCEPT ![v].undelegationShares = @ - ready,
                                            ![v].undelegationTokens = @ - tokens]
        /\ wallet' = [wallet EXCEPT ![d] = @ + tokens]
        /\ balance' = balance - tokens
        /\ delegators' = [delegators EXCEPT
               ![v][d].undelegations = SubSeq(queue, n + 1, Len(queue))]
    BY <1>1
  <1> HIDE DEF tokens
  <1>7. validators' \in [Addr -> Validator]
    <2>1. val.undelegationShares - ready \in Nat /\ val.undelegationTokens - tokens \in Nat
      BY <1>3, <1>4, <1>5, <1>6
    <2>2. [val EXCEPT !.undelegationShares = @ - ready] \in Validator
      BY <1>2, <2>1, WithUndelegationShares
    <2>3. [val EXCEPT !.undelegationShares = @ - ready,
                      !.undelegationTokens = @ - tokens] \in Validator
      BY <2>1, <2>2, WithUndelegationTokens
    <2>4. validators' = [validators EXCEPT
              ![v] = [val EXCEPT !.undelegationShares = @ - ready,
                                 !.undelegationTokens = @ - tokens]]
      BY <1>6 DEF TypeOK
    <2> QED
      BY <2>3, <2>4 DEF TypeOK
  <1>8. delegators' \in [Addr -> [Addr -> Delegator]]
    <2>1. queue \in Seq(Undelegation) /\ delegators \in [Addr -> [Addr -> Delegator]]
      BY <1>2 DEF Delegator, TypeOK
    <2>2. Len(queue) \in Nat /\ \A i \in 1..Len(queue) : queue[i] \in Undelegation
      BY <2>1, LenProperties, ElementOfSeq
    <2>3. n + 1 \in Int /\ Len(queue) \in Int /\ \A i \in (n + 1)..Len(queue) : i \in 1..Len(queue)
      BY <2>2
    <2>4. SubSeq(queue, n + 1, Len(queue)) \in Seq(Undelegation)
      BY <2>2, <2>3, SubSeqProperties
    <2> DEFINE rest == SubSeq(queue, n + 1, Len(queue))
    <2> HIDE DEF rest
    <2>5. [delegators[v][d] EXCEPT !.undelegations = rest] \in Delegator
      BY <1>2, <2>4 DEF Delegator, rest
    <2>6. delegators' = [delegators EXCEPT ![v][d].undelegations = rest]
      BY <1>6 DEF rest
    <2> QED
      BY <2>1, <2>5, <2>6
  <1>9. wallet' \in [Addr -> Nat] /\ balance' \in Nat
    <2>1. wallet \in [Addr -> Nat] /\ balance \in Nat
      BY DEF TypeOK
    <2>2. tokens <= balance /\ balance' = balance - tokens
      BY <1>6
    <2>3. wallet' = [wallet EXCEPT ![d] = @ + tokens]
      BY <1>6
    <2>4. wallet' \in [Addr -> Nat]
      BY <1>5, <2>1, <2>3
    <2> QED
      BY <1>5, <2>1, <2>2, <2>4
  <1> QED
    BY <1>7, <1>8, <1>9 DEF CompleteUndelegate, TypeOK, history

\* slash keeps the types.
LEMMA SlashType ==
    ASSUME TypeOK, NEW req \in SlashRequests, NEW caller \in Addr, NEW signers,
           Slash(req, caller, signers)
    PROVE  TypeOK'
  <1> DEFINE v == req.validator
             val == validators[v]
             slashTokens == Slashed(val.tokens, req.slashFactor)
             slashQueued == Slashed(val.undelegationTokens, req.slashFactor)
             slashAmt == slashTokens + slashQueued
             after == [val EXCEPT !.tokens = @ - slashTokens,
                                  !.undelegationTokens = @ - slashQueued]
             stays == /\ req.jailPeriod = 0
                      /\ HasMinRequiredTokens(after, delegators[v][v].shares, TRUE)
             jailEnd == block + req.jailPeriod
             bondBlock == IF req.jailPeriod > 0 THEN jailEnd ELSE after.bondBlock
  <1>1. /\ v \in Addr /\ req.nonce \in Nat /\ req.slashFactor \in Nat /\ req.jailPeriod \in Nat
        /\ req.slashFactor <= SLASH_FACTOR_DECIMAL
    BY StakingAssumption DEF SlashRequest, Slash
  <1>2. val \in Validator
    BY <1>1 DEF TypeOK
  <1>3. val.tokens \in Nat /\ val.undelegationTokens \in Nat
    BY <1>2 DEF Validator
  <1>4. /\ slashTokens \in Nat /\ slashTokens <= val.tokens
        /\ slashQueued \in Nat /\ slashQueued <= val.undelegationTokens
    BY <1>1, <1>3, SlashedType
  <1>5. /\ UpdateBonded(v, [after EXCEPT !.bondBlock = bondBlock], slashTokens, stays)
        /\ slashNonces' = slashNonces \cup {req.nonce}
        /\ jailedUntil' = [jailedUntil EXCEPT
               ![v] = IF req.jailPeriod > 0 /\ jailEnd > @ THEN jailEnd ELSE @]
    BY DEF Slash
  <1>6. \E collected \in 0..slashAmt, paid \in [Addr -> 0..slashAmt] :
           /\ collected <= balance
           /\ wallet' = [a \in Addr |-> wallet[a] + paid[a]]
           /\ balance' = balance - collected
           /\ forfeiture' = forfeiture + (slashAmt - collected)
    BY DEF Slash
  <1>7. stays \in BOOLEAN
    BY DEF HasMinRequiredTokens
  <1> HIDE DEF stays, slashTokens, slashQueued
  <1>8. after \in Validator
    <2>1. val.tokens - slashTokens \in Nat /\ val.undelegationTokens - slashQueued \in Nat
      BY <1>3, <1>4
    <2>2. [val EXCEPT !.tokens = @ - slashTokens] \in Validator
      BY <1>2, <2>1, WithTokens
    <2> QED
      BY <2>1, <2>2, WithUndelegationTokens
  <1> HIDE DEF after
  <1>9. jailEnd \in Nat
    BY <1>1 DEF TypeOK
  <1>10. bondBlock \in Nat
    <2>1. after.bondBlock \in Nat
      BY <1>8 DEF Validator
    <2> QED
      BY <1>9, <2>1
  <1>11. jailedUntil' \in [Addr -> Nat]
    BY <1>5, <1>9 DEF TypeOK
  <1> HIDE DEF bondBlock, jailEnd
  <1>12. [after EXCEPT !.bondBlock = bondBlock] \in Validator
    BY <1>8, <1>10, WithBondBlock
  <1>13. /\ validators' \in [Addr -> Validator] /\ bondedTokens' \in Nat
         /\ bondedValAddrs' \in Seq(Addr)
    BY <1>1, <1>4, <1>5, <1>7, <1>12, UpdateBondedType
  <1>14. wallet' \in [Addr -> Nat] /\ balance' \in Nat /\ forfeiture' \in Nat
    <2>1. PICK collected \in 0..slashAmt, paid \in [Addr -> 0..slashAmt] :
             /\ collected <= balance
             /\ wallet' = [a \in Addr |-> wallet[a] + paid[a]]
             /\ balance' = balance - collected
             /\ forfeiture' = forfeiture + (slashAmt - collected)
      BY <1>6
    <2>2. slashAmt \in Nat
      BY <1>4
    <2>3. wallet \in [Addr -> Nat] /\ balance \in Nat /\ forfeiture \in Nat
      BY DEF TypeOK
    <2> HIDE DEF slashAmt
    <2>4. collected \in Nat /\ slashAmt - collected \in Nat
      BY <2>2
    <2>5. balance' \in Nat /\ forfeiture' \in Nat
      BY <2>1, <2>3, <2>4
    <2>6. \A a \in Addr : wallet[a] + paid[a] \in Nat
      BY <2>2, <2>3
    <2>7. wallet' \in [Addr -> Nat]
      BY <2>1, <2>6
    <2> QED
      BY <2>5, <2>7
  <1>15. slashableUntil' \in [Addr -> Nat]
    BY RecordLeavingType DEF Slash
  <1>16. slashNonces' \subseteq Nat
    BY <1>1, <1>5 DEF TypeOK
  <1> QED
    BY <1>11, <1>13, <1>14, <1>15, <1>16 DEF Slash, TypeOK

\* The operations that touch parameters, funds or the clock only keep the types.
LEMMA OtherStepsType ==
    ASSUME TypeOK,
           \/ CollectForfeiture
           \/ OwnerStep
           \/ NextBlock
           \/ GovernStep
    PROVE  TypeOK'
  <1>1. CASE CollectForfeiture
    BY <1>1 DEF CollectForfeiture, TypeOK, accounts, history
  <1>2. CASE \E value \in SlashCaps : SetMaxSlashFactor(value)
    <2>1. PICK value \in SlashCaps : SetMaxSlashFactor(value)
      BY <1>2
    <2>2. value \in Nat
      BY StakingAssumption
    <2>3. params' \in [ParamName -> Nat]
      BY <2>1, <2>2 DEF SetMaxSlashFactor, TypeOK
    <2> QED
      BY <2>1, <2>3 DEF SetMaxSlashFactor, TypeOK, accounts, funds, history
  <1>3. CASE SetPaused
    BY <1>3 DEF SetPaused, TypeOK, accounts, funds, history
  <1>4. CASE \E amount \in Amounts : DrainToken(amount)
    <2>1. PICK amount \in Amounts : DrainToken(amount)
      BY <1>4
    <2>2. amount \in Nat
      BY StakingAssumption
    <2>3. balance' \in Nat /\ drained' \in Nat
      BY <2>1, <2>2 DEF DrainToken, TypeOK
    <2> QED
      BY <2>1, <2>3 DEF DrainToken, TypeOK, accounts, history
  <1>5. CASE NextBlock
    BY <1>5 DEF NextBlock, TypeOK, accounts, funds, history
  <1>6. CASE GovernStep
    <2>1. PICK c \in ParamChanges : SetParamValue(c[1], c[2])
      BY <1>6 DEF GovernStep
    <2>2. c[1] \in ParamName /\ c[2] \in Nat
      BY StakingAssumption
    <2>3. params' \in [ParamName -> Nat]
      BY <2>1, <2>2 DEF SetParamValue, TypeOK
    <2> QED
      BY <2>1, <2>3 DEF SetParamValue, TypeOK, accounts, funds, history
  <1> QED
    BY <1>1, <1>2, <1>3, <1>4, <1>5, <1>6 DEF OwnerStep

\* Every step of the contract keeps the types.
LEMMA TypeStep ==
    ASSUME TypeOK, [Next]_vars
    PROVE  TypeOK'
  <1>1. CASE ValidatorStep
    BY <1>1, InitializeValidatorType, UpdateValidatorSignerType, UpdateCommissionRateType,
       UpdateMinSelfDelegationType, BondValidatorType, ConfirmUnbondedValidatorType
       DEF ValidatorStep
  <1>2. CASE DelegatorStep
    BY <1>2, DelegateType, UndelegateAmountType, CompleteUndelegateType DEF DelegatorStep
  <1>3. CASE SlashStep
    BY <1>3, SlashType, OtherStepsType DEF SlashStep
  <1>4. CASE OwnerStep \/ NextBlock \/ GovernStep
    BY <1>4, OtherStepsType
  <1>5. CASE UNCHANGED vars
    BY <1>5 DEF vars, TypeOK
  <1> QED
    BY <1>1, <1>2, <1>3, <1>4, <1>5 DEF Next, StakingStep

\* The contract starts with its types.
LEMMA TypeInit == Init => TypeOK
  <1> SUFFICES ASSUME Init PROVE TypeOK
    OBVIOUS
  <1>1. NullValidator \in Validator
    BY DEF NullValidator, Validator, Status
  <1>2. [shares |-> 0, undelegations |-> <<>>] \in Delegator
    BY EmptySeq DEF Delegator
  <1>3. /\ validators \in [Addr -> Validator]
        /\ delegators \in [Addr -> [Addr -> Delegator]]
    BY <1>1, <1>2 DEF Init
  <1>4. bondedValAddrs \in Seq(Addr)
    BY EmptySeq DEF Init
  <1> QED
    BY <1>3, <1>4, StakingAssumption DEF Init, TypeOK

\* No amount, share, token count or block the contract keeps ever leaves its type:
\* with checked arithmetic, no step that the contract lets through underflows.
THEOREM TypeCorrect == Spec => []TypeOK
  <1>1. Init => TypeOK
    BY TypeInit
  <1>2. TypeOK /\ [Next]_vars => TypeOK'
    BY TypeStep
  <1> QED
    BY <1>1, <1>2, PTL DEF Spec

-----------------------------------------------------------------------------
(* Who is bonded and who signs for whom: the kinds of steps. *)

\* The step leaves the validator's status and signer alone.
Same(u) == /\ validators'[u].status = validators[u].status
           /\ validators'[u].signer = validators[u].signer

\* The step moves the validator between statuses other than Bonded.
Moved(v, status) ==
    /\ validators'[v].status = status
    /\ validators[v].status # "Bonded" /\ status # "Bonded"
    /\ \A u \in Addr \ {v} : Same(u)

\* The step leaves statuses, signers and the bonded array alone.
Kept == (\A u \in Addr : Same(u)) /\ bondedValAddrs' = bondedValAddrs

\* The step ends one validator's unbonding.
Confirmed(v) ==
    /\ validators[v].status = "Unbonding" /\ Moved(v, "Unbonded")
    /\ validators'[v].signer = validators[v].signer
    /\ bondedValAddrs' = bondedValAddrs

\* The step takes one validator out of the bonded set.
Left(v) ==
    /\ validators[v].status = "Bonded" /\ validators'[v].status = "Unbonding"
    /\ validators'[v].signer = validators[v].signer
    /\ \A u \in Addr \ {v} : Same(u)
    /\ IsBonded(v) /\ bondedValAddrs' = RemoveBonded(v)

\* The step bonds one validator, into a free slot.
Joined(v) ==
    /\ validators[v].status \in {"Unbonded", "Unbonding"} /\ validators'[v].status = "Bonded"
    /\ validators'[v].signer = validators[v].signer
    /\ \A u \in Addr \ {v} : Same(u)
    /\ Len(bondedValAddrs) < params.MaxBondedValidators
    /\ bondedValAddrs' = Append(bondedValAddrs, v)

\* The step bonds one validator in place of the i-th.
Replaced(v, i) ==
    /\ validators[v].status \in {"Unbonded", "Unbonding"} /\ validators'[v].status = "Bonded"
    /\ validators'[v].signer = validators[v].signer
    /\ bondedValAddrs[i] # v => /\ validators'[bondedValAddrs[i]].status = "Unbonding"
                                /\ validators'[bondedValAddrs[i]].signer
                                     = validators[bondedValAddrs[i]].signer
    /\ \A u \in Addr \ {v, bondedValAddrs[i]} : Same(u)
    /\ bondedValAddrs' = [bondedValAddrs EXCEPT ![i] = v]

\* The step registers no signer; at most one validator joins or leaves the bonded set.
Quiet == /\ signerVals' = signerVals
         /\ \/ Kept
            \/ \E v \in Addr : \/ Confirmed(v) \/ Left(v) \/ Joined(v)
                               \/ \E i \in 1..Len(bondedValAddrs) : Replaced(v, i)

-----------------------------------------------------------------------------
(* What the parts of a step do to statuses, signers and the bonded array. *)

\* Setting a status leaves the signer alone.
LEMMA SetStatusEffect ==
    ASSUME NEW val, "status" \in DOMAIN val, "signer" \in DOMAIN val
    PROVE  /\ SetBonded(val).status = "Bonded" /\ SetBonded(val).signer = val.signer
           /\ SetUnbonding(val).status = "Unbonding" /\ SetUnbonding(val).signer = val.signer
  BY DEF SetBonded, SetUnbonding

\* A validator's record has a status and a signer.
LEMMA HasFields ==
    ASSUME TypeOK, NEW v \in Addr
    PROVE  "status" \in DOMAIN validators[v] /\ "signer" \in DOMAIN validators[v]
  <1>1. validators[v] \in Validator
    BY DEF TypeOK
  <1> QED
    BY <1>1 DEF Validator

\* Replacing a validator's record by one of the same status and signer keeps both.
LEMMA ReplaceEffect ==
    ASSUME TypeOK, NEW v \in Addr, NEW val,
           val.status = validators[v].status, val.signer = validators[v].signer,
           validators' = [validators EXCEPT ![v] = val]
    PROVE  \A u \in Addr : Same(u)
  <1> SUFFICES ASSUME NEW u \in Addr PROVE Same(u)
    OBVIOUS
  <1>1. validators'[u] = IF u = v THEN val ELSE validators[u]
    BY DEF TypeOK
  <1> QED
    BY <1>1 DEF Same

\* A slash or an undelegation keeps the bonded set or takes its validator out.
LEMMA UpdateBondedEffect ==
    ASSUME TypeOK, NEW v \in Addr, NEW val, NEW tokens, NEW stays,
           "status" \in DOMAIN val, "signer" \in DOMAIN val,
           val.status = validators[v].status, val.signer = validators[v].signer,
           UpdateBonded(v, val, tokens, stays)
    PROVE  Kept \/ Left(v)
  <1>1. CASE validators' = [validators EXCEPT ![v] = val] /\ bondedValAddrs' = bondedValAddrs
    BY <1>1, ReplaceEffect DEF Kept
  <1>2. CASE /\ val.status = "Bonded" /\ IsBonded(v) /\ bondedValAddrs' = RemoveBonded(v)
             /\ validators' = [validators EXCEPT ![v] = SetUnbonding(val)]
    <2>1. validators'[v] = SetUnbonding(val) /\ \A u \in Addr \ {v} : validators'[u] = validators[u]
      BY <1>2 DEF TypeOK
    <2>2. /\ validators'[v].status = "Unbonding"
          /\ validators'[v].signer = validators[v].signer
      BY <2>1, SetStatusEffect
    <2> QED
      BY <1>2, <2>1, <2>2 DEF Left, Same
  <1> QED
    BY <1>1, <1>2 DEF UpdateBonded

\* initializeValidator gives one new validator its status and signer.
LEMMA InitializeValidatorEffect ==
    ASSUME TypeOK, NEW v \in Addr, NEW s \in Signers, NEW m \in Stakes,
           NEW r \in CommissionRates, InitializeValidator(v, s, m, r)
    PROVE  /\ Moved(v, "Unbonded") /\ validators'[v].signer = s
           /\ bondedValAddrs' = bondedValAddrs
  <1> DEFINE val == [validators[v] EXCEPT !.signer = s, !.status = "Unbonded",
                                          !.minSelfDelegation = m, !.commissionRate = r]
             shares == TokenToShare(m, val.tokens, val.shares)
             new == [val EXCEPT !.tokens = @ + m, !.shares = @ + shares]
  <1>1. validators[v] \in Validator
    BY DEF TypeOK
  <1>3. /\ validators[v].status = "Null"
        /\ validators' = [validators EXCEPT ![v] = new]
        /\ bondedValAddrs' = bondedValAddrs
    BY DEF InitializeValidator, DelegateTo
  <1>4. val.status = "Unbonded" /\ val.signer = s
    BY <1>1 DEF Validator
  <1>5. new.status = val.status /\ new.signer = val.signer
    <2>1. DOMAIN val = DOMAIN validators[v]
      OBVIOUS
    <2>2. "status" \in DOMAIN val /\ "signer" \in DOMAIN val
      BY <2>1, <1>1 DEF Validator
    <2> HIDE DEF val, shares
    <2> QED
      BY <2>2
  <1> HIDE DEF new, val
  <1>6. validators'[v] = new /\ \A u \in Addr \ {v} : validators'[u] = validators[u]
    BY <1>3 DEF TypeOK
  <1> QED
    BY <1>3, <1>4, <1>5, <1>6 DEF Moved, Same

\* updateValidatorSigner changes one validator's signer and nothing else of these.
LEMMA UpdateValidatorSignerEffect ==
    ASSUME TypeOK, NEW v \in Addr, NEW s \in Signers, UpdateValidatorSigner(v, s)
    PROVE  /\ validators'[v].status = validators[v].status /\ validators'[v].signer = s
           /\ \A u \in Addr \ {v} : Same(u)
           /\ bondedValAddrs' = bondedValAddrs
  <1> DEFINE new == [validators[v] EXCEPT !.signer = s]
  <1>1. /\ validators' = [validators EXCEPT ![v] = new]
        /\ bondedValAddrs' = bondedValAddrs
    BY DEF UpdateValidatorSigner, TypeOK
  <1>2. new.status = validators[v].status /\ new.signer = s
    BY HasFields
  <1> HIDE DEF new
  <1>3. validators'[v] = new /\ \A u \in Addr \ {v} : validators'[u] = validators[u]
    BY <1>1 DEF TypeOK
  <1> QED
    BY <1>1, <1>2, <1>3 DEF Same

\* Commission rates and minimum self delegations leave statuses and signers alone.
LEMMA UpdateTermsEffect ==
    ASSUME TypeOK, NEW v \in Addr, NEW n,
           UpdateCommissionRate(v, n) \/ UpdateMinSelfDelegation(v, n)
    PROVE  Kept
  <1> DEFINE end == IF n < validators[v].minSelfDelegation
                    THEN block + params.AdvanceNoticePeriod ELSE validators[v].bondBlock
             rated == [validators[v] EXCEPT !.commissionRate = n]
             lowered == [validators[v] EXCEPT !.minSelfDelegation = n, !.bondBlock = end]
  <1>1. /\ \/ validators' = [validators EXCEPT ![v] = rated]
           \/ validators' = [validators EXCEPT ![v] = lowered]
        /\ bondedValAddrs' = bondedValAddrs
    <2>1. CASE UpdateCommissionRate(v, n)
      BY <2>1 DEF UpdateCommissionRate, TypeOK
    <2>2. CASE UpdateMinSelfDelegation(v, n)
      <3>1. validators' = [validators EXCEPT ![v].minSelfDelegation = n, ![v].bondBlock = end]
        BY <2>2 DEF UpdateMinSelfDelegation
      <3> HIDE DEF end
      <3> QED
        BY <2>2, <3>1 DEF UpdateMinSelfDelegation, TypeOK
    <2> QED
      BY <2>1, <2>2
  <1> HIDE DEF end
  <1>2. /\ rated.status = validators[v].status /\ rated.signer = validators[v].signer
        /\ lowered.status = validators[v].status /\ lowered.signer = validators[v].signer
    BY HasFields
  <1> HIDE DEF rated, lowered
  <1> QED
    BY <1>1, <1>2, ReplaceEffect DEF Kept

\* bondValidator takes a free slot or the slot of another validator.
LEMMA BondValidatorEffect ==
    ASSUME TypeOK, NEW caller \in Addr, BondValidator(caller)
    PROVE  \E v \in Addr : \/ Joined(v)
                           \/ \E i \in 1..Len(bondedValAddrs) : Replaced(v, i)
  <1> DEFINE v == IF signerVals[caller] # ZeroAddr THEN signerVals[caller] ELSE caller
             in == SetBonded(validators[v])
  <1>1. v \in Addr
    BY DEF TypeOK
  <1>2. /\ validators[v].status \in {"Unbonded", "Unbonding"}
        /\ BondDirectly(v) \/ BondByReplacing(v)
    BY DEF BondValidator
  <1> HIDE DEF v
  <1>3. in.status = "Bonded" /\ in.signer = validators[v].signer
    BY <1>1, HasFields, SetStatusEffect
  <1>4. CASE BondDirectly(v)
    <2>1. /\ validators' = [validators EXCEPT ![v] = in]
          /\ bondedValAddrs' = Append(bondedValAddrs, v)
          /\ Len(bondedValAddrs) < params.MaxBondedValidators
      BY <1>1, <1>4 DEF BondDirectly, TypeOK
    <2> HIDE DEF in
    <2>2. validators'[v] = in /\ \A u \in Addr \ {v} : validators'[u] = validators[u]
      BY <1>1, <2>1 DEF TypeOK
    <2>3. Joined(v)
      BY <1>2, <1>3, <2>1, <2>2 DEF Joined, Same
    <2> QED
      BY <1>1, <2>3
  <1>5. CASE BondByReplacing(v)
    <2>1. PICK i \in 1..Len(bondedValAddrs) :
             /\ bondedValAddrs' = [bondedValAddrs EXCEPT ![i] = v]
             /\ validators' = [validators EXCEPT
                   ![bondedValAddrs[i]] = SetUnbonding(validators[bondedValAddrs[i]]),
                   ![v] = SetBonded(validators[v])]
      BY <1>5 DEF BondByReplacing
    <2> DEFINE out == bondedValAddrs[i]
               gone == SetUnbonding(validators[out])
    <2>2. out \in Addr
      BY ElementOfSeq DEF TypeOK
    <2>3. gone.status = "Unbonding" /\ gone.signer = validators[out].signer
      BY <2>2, HasFields, SetStatusEffect
    <2>4. validators' = [validators EXCEPT ![out] = gone, ![v] = in]
      BY <2>1
    <2> HIDE DEF in, gone
    <2>5. /\ validators'[v] = in
          /\ out # v => validators'[out] = gone
          /\ \A u \in Addr \ {v, out} : validators'[u] = validators[u]
      BY <1>1, <2>2, <2>4 DEF TypeOK
    <2>6. Replaced(v, i)
      BY <1>2, <1>3, <2>1, <2>3, <2>5 DEF Replaced, Same
    <2> QED
      BY <1>1, <2>6
  <1> QED
    BY <1>2, <1>4, <1>5

\* confirmUnbondedValidator moves one validator from Unbonding to Unbonded.
LEMMA ConfirmUnbondedEffect ==
    ASSUME TypeOK, NEW v \in Addr, ConfirmUnbondedValidator(v)
    PROVE  Confirmed(v)
  <1> DEFINE new == [validators[v] EXCEPT !.status = "Unbonded", !.unbondBlock = 0]
  <1>1. /\ validators' = [validators EXCEPT ![v] = new]
        /\ bondedValAddrs' = bondedValAddrs
        /\ validators[v].status = "Unbonding"
    BY DEF ConfirmUnbondedValidator, TypeOK
  <1>2. new.status = "Unbonded" /\ new.signer = validators[v].signer
    BY HasFields
  <1> HIDE DEF new
  <1>3. validators'[v] = new /\ \A u \in Addr \ {v} : validators'[u] = validators[u]
    BY <1>1 DEF TypeOK
  <1> QED
    BY <1>1, <1>2, <1>3 DEF Confirmed, Moved, Same

\* delegate and completeUndelegate leave statuses and signers alone.
LEMMA DelegationEffect ==
    ASSUME TypeOK, NEW v \in Addr, NEW d \in Addr, NEW t,
           Delegate(v, d, t) \/ CompleteUndelegate(v, d)
    PROVE  Kept
  <1>1. CASE Delegate(v, d, t)
    <2> DEFINE shares == TokenToShare(t, validators[v].tokens, validators[v].shares)
               new == [validators[v] EXCEPT !.tokens = @ + t, !.shares = @ + shares]
    <2>1. validators' = [validators EXCEPT ![v] = new] /\ bondedValAddrs' = bondedValAddrs
      BY <1>1 DEF Delegate, DelegateTo
    <2> HIDE DEF shares
    <2>2. new.status = validators[v].status /\ new.signer = validators[v].signer
      BY HasFields
    <2> HIDE DEF new
    <2> QED
      BY <2>1, <2>2, ReplaceEffect DEF Kept
  <1>2. CASE CompleteUndelegate(v, d)
    <2>1. PICK ready, tokens :
             validators' = [validators EXCEPT ![v].undelegationShares = @ - ready,
                                              ![v].undelegationTokens = @ - tokens]
      BY <1>2 DEF CompleteUndelegate
    <2> DEFINE new == [validators[v] EXCEPT !.undelegationShares = @ - ready,
                                            !.undelegationTokens = @ - tokens]
    <2>2. validators' = [validators EXCEPT ![v] = new]
      BY <2>1 DEF TypeOK
    <2>3. new.status = validators[v].status /\ new.signer = validators[v].signer
      BY HasFields
    <2> HIDE DEF new
    <2>4. bondedValAddrs' = bondedValAddrs
      BY <1>2 DEF CompleteUndelegate
    <2> QED
      BY <2>2, <2>3, <2>4, ReplaceEffect DEF Kept
  <1> QED
    BY <1>1, <1>2

\* An undelegation keeps the bonded set or takes its validator out.
LEMMA UndelegateEffect ==
    ASSUME TypeOK, NEW v \in Addr, NEW d, NEW tokens, NEW shares,
           Undelegate(v, d, tokens, shares)
    PROVE  Kept \/ Left(v)
  <1> DEFINE rest == delegators[v][d].shares - shares
             kept == Residual(rest, validators[v].tokens - tokens,
                              validators[v].shares - shares)
             val == [validators[v] EXCEPT !.tokens = @ - tokens,
                                          !.shares = @ - shares - (rest - kept)]
             newShares == TokenToShare(tokens, val.undelegationTokens, val.undelegationShares)
             queued == [val EXCEPT !.undelegationTokens = @ + tokens,
                                   !.undelegationShares = @ + newShares]
             stays == HasMinRequiredTokens(val, IF d = v THEN kept ELSE 0, d = v)
  <1>1. UndelegateDirectly(v, d, tokens, val) \/ UpdateBonded(v, queued, tokens, stays)
    BY DEF Undelegate
  <1> HIDE DEF stays, kept, rest
  <1>2. /\ "status" \in DOMAIN val /\ "signer" \in DOMAIN val
        /\ val.status = validators[v].status /\ val.signer = validators[v].signer
    BY HasFields
  <1> HIDE DEF val, newShares
  <1>3. /\ "status" \in DOMAIN queued /\ "signer" \in DOMAIN queued
        /\ queued.status = validators[v].status /\ queued.signer = validators[v].signer
    BY <1>2
  <1> HIDE DEF queued
  <1>4. CASE UndelegateDirectly(v, d, tokens, val)
    BY <1>2, <1>4, ReplaceEffect DEF UndelegateDirectly, Kept
  <1>5. CASE UpdateBonded(v, queued, tokens, stays)
    BY <1>3, <1>5, UpdateBondedEffect
  <1> QED
    BY <1>1, <1>4, <1>5

\* A slash keeps the bonded set or takes its validator out.
LEMMA SlashEffect ==
    ASSUME TypeOK, NEW req \in SlashRequests, NEW caller, NEW signers,
           Slash(req, caller, signers)
    PROVE  Kept \/ Left(req.validator)
  <1> DEFINE v == req.validator
             val == validators[v]
             slashTokens == Slashed(val.tokens, req.slashFactor)
             slashQueued == Slashed(val.undelegationTokens, req.slashFactor)
             after == [val EXCEPT !.tokens = @ - slashTokens,
                                  !.undelegationTokens = @ - slashQueued]
             stays == /\ req.jailPeriod = 0
                      /\ HasMinRequiredTokens(after, delegators[v][v].shares, TRUE)
             bondBlock == IF req.jailPeriod > 0 THEN block + req.jailPeriod ELSE after.bondBlock
             new == [after EXCEPT !.bondBlock = bondBlock]
  <1>1. v \in Addr
    BY StakingAssumption DEF SlashRequest
  <1>2. UpdateBonded(v, new, slashTokens, stays)
    BY DEF Slash
  <1> HIDE DEF stays, slashTokens, slashQueued
  <1>3. /\ "status" \in DOMAIN after /\ "signer" \in DOMAIN after
        /\ after.status = val.status /\ after.signer = val.signer
    BY <1>1, HasFields
  <1> HIDE DEF after, bondBlock
  <1>4. /\ "status" \in DOMAIN new /\ "signer" \in DOMAIN new
        /\ new.status = val.status /\ new.signer = val.signer
    BY <1>3
  <1> HIDE DEF new
  <1> QED
    BY <1>1, <1>2, <1>4, UpdateBondedEffect

\* The operations on parameters, funds and the clock leave all of it alone.
LEMMA OtherStepsEffect ==
    ASSUME CollectForfeiture \/ OwnerStep \/ NextBlock \/ GovernStep \/ UNCHANGED vars
    PROVE  Kept /\ signerVals' = signerVals
  <1>1. UNCHANGED <<accounts, signerVals>>
    BY DEF CollectForfeiture, OwnerStep, SetMaxSlashFactor, SetPaused, DrainToken, NextBlock,
           GovernStep, SetParamValue, vars, accounts
  <1> QED
    BY <1>1 DEF accounts, Kept, Same

-----------------------------------------------------------------------------
(* What a step of the contract does to them. *)

\* No operation but two touches signers, and what these steps do to the bonded set.
LEMMA StepEffect ==
    ASSUME TypeOK, [Next]_vars
    PROVE  \/ \E v \in Addr, s \in Signers, m \in Stakes, r \in CommissionRates :
                 InitializeValidator(v, s, m, r)
           \/ \E v \in Addr, s \in Signers : UpdateValidatorSigner(v, s)
           \/ Quiet
  <1>1. CASE ValidatorStep
    <2>1. ASSUME NEW v \in Addr, NEW n, UpdateCommissionRate(v, n) \/ UpdateMinSelfDelegation(v, n)
          PROVE  Quiet
      BY <2>1, UpdateTermsEffect DEF Quiet, UpdateCommissionRate, UpdateMinSelfDelegation
    <2>2. ASSUME NEW v \in Addr, BondValidator(v)
          PROVE  Quiet
      BY <2>2, BondValidatorEffect DEF Quiet, BondValidator
    <2>3. ASSUME NEW v \in Addr, ConfirmUnbondedValidator(v)
          PROVE  Quiet
      BY <2>3, ConfirmUnbondedEffect DEF Quiet, ConfirmUnbondedValidator
    <2> QED
      BY <1>1, <2>1, <2>2, <2>3 DEF ValidatorStep
  <1>2. CASE DelegatorStep
    <2>1. PICK v \in Addr, d \in Addr :
             \/ \E t \in Amounts : Delegate(v, d, t)
             \/ \E s \in Amounts : UndelegateShares(v, d, s)
             \/ \E t \in Amounts : UndelegateTokens(v, d, t)
             \/ CompleteUndelegate(v, d)
      BY <1>2 DEF DelegatorStep
    <2>2. ASSUME NEW t, Delegate(v, d, t) \/ CompleteUndelegate(v, d)
          PROVE  Quiet
      BY <2>2, DelegationEffect DEF Quiet, Delegate, CompleteUndelegate
    <2>3. ASSUME NEW tokens, NEW shares, Undelegate(v, d, tokens, shares)
          PROVE  Quiet
      BY <2>3, UndelegateEffect DEF Quiet, Undelegate
    <2> QED
      BY <2>1, <2>2, <2>3 DEF UndelegateShares, UndelegateTokens
  <1>3. CASE SlashStep
    <2>1. ASSUME NEW req \in SlashRequests, NEW caller, NEW signers, Slash(req, caller, signers)
          PROVE  Quiet
      <3>1. req.validator \in Addr
        BY StakingAssumption DEF SlashRequest
      <3>2. Kept \/ Left(req.validator)
        BY <2>1, SlashEffect
      <3>3. signerVals' = signerVals
        BY <2>1 DEF Slash
      <3> QED
        BY <3>1, <3>2, <3>3 DEF Quiet
    <2> QED
      BY <1>3, <2>1, OtherStepsEffect DEF SlashStep, Quiet
  <1>4. CASE OwnerStep \/ NextBlock \/ GovernStep \/ UNCHANGED vars
    BY <1>4, OtherStepsEffect DEF Quiet
  <1> QED
    BY <1>1, <1>2, <1>3, <1>4 DEF Next, StakingStep

-----------------------------------------------------------------------------
(* The bonded array. *)

\* A step that changes a limit keeps it above the length of the bonded array.
LEMMA LimitKept ==
    ASSUME TypeOK, [Next]_vars
    PROVE  \/ params'.MaxBondedValidators = params.MaxBondedValidators
           \/ /\ bondedValAddrs' = bondedValAddrs
              /\ Len(bondedValAddrs) <= params'.MaxBondedValidators
  <1>1. CASE GovernStep
    <2>1. PICK c \in ParamChanges : SetParamValue(c[1], c[2])
      BY <1>1 DEF GovernStep
    <2>2. c[1] = "MaxBondedValidators" => Len(bondedValAddrs) <= c[2]
      BY <2>1 DEF SetParamValue
    <2>3. /\ params' = [params EXCEPT ![c[1]] = c[2]] /\ bondedValAddrs' = bondedValAddrs
      BY <2>1 DEF SetParamValue, accounts
    <2>4. params'["MaxBondedValidators"] = IF c[1] = "MaxBondedValidators" THEN c[2]
                                           ELSE params["MaxBondedValidators"]
      BY <2>3 DEF TypeOK, ParamName
    <2> QED
      BY <2>2, <2>3, <2>4
  <1>2. ASSUME NEW value, SetMaxSlashFactor(value)
        PROVE  params'.MaxBondedValidators = params.MaxBondedValidators
    BY <1>2 DEF SetMaxSlashFactor, TypeOK, ParamName
  <1>3. CASE ValidatorStep
    <2>1. ASSUME NEW v, NEW s, NEW m, NEW r, InitializeValidator(v, s, m, r)
          PROVE  params' = params
      BY <2>1 DEF InitializeValidator
    <2>2. ASSUME NEW v, NEW x, UpdateValidatorSigner(v, x) \/ UpdateCommissionRate(v, x)
          PROVE  params' = params
      BY <2>2 DEF UpdateValidatorSigner, UpdateCommissionRate
    <2>3. ASSUME NEW v, NEW m, UpdateMinSelfDelegation(v, m)
          PROVE  params' = params
      BY <2>3 DEF UpdateMinSelfDelegation
    <2>4. ASSUME NEW v, BondValidator(v) \/ ConfirmUnbondedValidator(v)
          PROVE  params' = params
      BY <2>4 DEF BondValidator, ConfirmUnbondedValidator
    <2> QED
      BY <1>3, <2>1, <2>2, <2>3, <2>4 DEF ValidatorStep
  <1>4. CASE DelegatorStep
    <2>1. ASSUME NEW v, NEW d, NEW tokens, NEW shares, Undelegate(v, d, tokens, shares)
          PROVE  params' = params
      BY <2>1 DEF Undelegate
    <2>2. ASSUME NEW v, NEW d, NEW t, Delegate(v, d, t) \/ CompleteUndelegate(v, d)
          PROVE  params' = params
      BY <2>2 DEF Delegate, CompleteUndelegate
    <2> QED
      BY <1>4, <2>1, <2>2 DEF DelegatorStep, UndelegateShares, UndelegateTokens
  <1>5. CASE SlashStep
    <2>1. ASSUME NEW req, NEW caller, NEW signers, Slash(req, caller, signers)
          PROVE  params' = params
      BY <2>1 DEF Slash
    <2>2. CollectForfeiture => params' = params
      BY DEF CollectForfeiture
    <2> QED
      BY <1>5, <2>1, <2>2 DEF SlashStep
  <1>6. SetPaused \/ (\E a \in Amounts : DrainToken(a)) \/ NextBlock \/ UNCHANGED vars
           => params' = params
    BY DEF SetPaused, DrainToken, NextBlock, vars
  <1> QED
    BY <1>1, <1>2, <1>3, <1>4, <1>5, <1>6 DEF Next, StakingStep, OwnerStep

\* The array and the statuses agree entry by entry, without the limit.
Matched ==
    /\ \A v \in Addr : validators[v].status = "Bonded" <=> IsBonded(v)
    /\ \A i, j \in 1..Len(bondedValAddrs) : bondedValAddrs[i] = bondedValAddrs[j] => i = j

\* The swap and pop takes exactly the leaving validator out of the array.
LEMMA LeftKeepsMatched ==
    ASSUME TypeOK, Matched, NEW v \in Addr, Left(v)
    PROVE  Matched' /\ Len(bondedValAddrs') <= Len(bondedValAddrs)
  <1> DEFINE n == Len(bondedValAddrs)
  <1>1. /\ bondedValAddrs \in Seq(Addr) /\ n \in Nat
        /\ \A i \in 1..n : bondedValAddrs[i] \in Addr
    BY ElementOfSeq, LenProperties DEF TypeOK
  <1>2. /\ Len(bondedValAddrs') = n - 1
        /\ \A i \in 1..(n - 1) : bondedValAddrs'[i] =
              IF bondedValAddrs[i] = v THEN bondedValAddrs[n] ELSE bondedValAddrs[i]
    BY <1>1, RemoveBondedType DEF Left
  <1>3. PICK k \in 1..n : bondedValAddrs[k] = v
    BY DEF Left, IsBonded
  <1>4. \A i, j \in 1..n : bondedValAddrs[i] = bondedValAddrs[j] => i = j
    BY DEF Matched
  <1> HIDE DEF n
  <1>5. \A i \in 1..(n - 1) : bondedValAddrs'[i] = IF i = k THEN bondedValAddrs[n]
                                                    ELSE bondedValAddrs[i]
    BY <1>1, <1>2, <1>3, <1>4
  <1>6. \A i, j \in 1..(n - 1) : bondedValAddrs'[i] = bondedValAddrs'[j] => i = j
    BY <1>1, <1>3, <1>4, <1>5
  <1>7. ASSUME NEW u \in Addr
        PROVE  validators'[u].status = "Bonded" <=> \E i \in 1..(n - 1) : bondedValAddrs'[i] = u
    <2>1. CASE u = v
      <3>1. \A i \in 1..(n - 1) : bondedValAddrs'[i] # v
        BY <1>1, <1>3, <1>4, <1>5
      <3> QED
        BY <2>1, <3>1 DEF Left
    <2>2. CASE u # v
      <3>1. validators'[u].status = "Bonded" <=> \E i \in 1..n : bondedValAddrs[i] = u
        BY <2>2 DEF Left, Same, Matched, IsBonded, n
      <3>2. ASSUME NEW i \in 1..n, bondedValAddrs[i] = u
            PROVE  \E j \in 1..(n - 1) : bondedValAddrs'[j] = u
        <4>1. i # k
          BY <1>3, <2>2, <3>2
        <4>2. CASE i = n
          <5>1. k \in 1..(n - 1) /\ bondedValAddrs'[k] = bondedValAddrs[n]
            BY <1>1, <1>5, <4>1, <4>2
          <5> QED
            BY <3>2, <4>2, <5>1
        <4>3. CASE i # n
          <5>1. i \in 1..(n - 1) /\ bondedValAddrs'[i] = bondedValAddrs[i]
            BY <1>1, <1>5, <4>1, <4>3
          <5> QED
            BY <3>2, <5>1
        <4> QED
          BY <4>2, <4>3
      <3>3. ASSUME NEW i \in 1..(n - 1), bondedValAddrs'[i] = u
            PROVE  \E j \in 1..n : bondedValAddrs[j] = u
        <4>1. i \in 1..n /\ n \in 1..n
          BY <1>1
        <4> QED
          BY <1>5, <3>3, <4>1
      <3> QED
        BY <3>1, <3>2, <3>3
    <2> QED
      BY <2>1, <2>2
  <1>8. Matched'
    BY <1>2, <1>6, <1>7 DEF Matched, IsBonded
  <1>9. Len(bondedValAddrs') <= n
    BY <1>1, <1>2
  <1> QED
    BY <1>8, <1>9 DEF n

\* A new entry at the end of the array is a validator that was not in it.
LEMMA JoinedKeepsMatched ==
    ASSUME TypeOK, Matched, NEW v \in Addr, Joined(v)
    PROVE  Matched' /\ Len(bondedValAddrs') <= params.MaxBondedValidators
  <1> DEFINE n == Len(bondedValAddrs)
  <1>1. /\ n \in Nat /\ params.MaxBondedValidators \in Nat
        /\ n < params.MaxBondedValidators
    BY LenProperties DEF TypeOK, ParamName, Joined
  <1>2. /\ Len(bondedValAddrs') = n + 1
        /\ \A i \in 1..n : bondedValAddrs'[i] = bondedValAddrs[i]
        /\ bondedValAddrs'[n + 1] = v
    BY AppendProperties DEF Joined, TypeOK
  <1>3. \A i \in 1..n : bondedValAddrs[i] # v
    BY DEF Joined, Matched, IsBonded
  <1>4. \A i, j \in 1..n : bondedValAddrs[i] = bondedValAddrs[j] => i = j
    BY DEF Matched
  <1>5. \A u \in Addr : validators[u].status = "Bonded" <=> \E i \in 1..n : bondedValAddrs[i] = u
    BY DEF Matched, IsBonded
  <1> HIDE DEF n
  <1>6. \A i, j \in 1..(n + 1) : bondedValAddrs'[i] = bondedValAddrs'[j] => i = j
    BY <1>1, <1>2, <1>3, <1>4
  <1>7. ASSUME NEW u \in Addr
        PROVE  validators'[u].status = "Bonded" <=> \E i \in 1..(n + 1) : bondedValAddrs'[i] = u
    <2>1. CASE u = v
      BY <1>1, <1>2, <2>1 DEF Joined
    <2>2. CASE u # v
      <3>1. validators'[u].status = "Bonded" <=> \E i \in 1..n : bondedValAddrs[i] = u
        BY <1>5, <2>2 DEF Joined, Same
      <3>2. (\E i \in 1..n : bondedValAddrs[i] = u)
               <=> \E i \in 1..(n + 1) : bondedValAddrs'[i] = u
        BY <1>1, <1>2, <2>2
      <3> QED
        BY <3>1, <3>2
    <2> QED
      BY <2>1, <2>2
  <1>8. Matched'
    BY <1>2, <1>6, <1>7 DEF Matched, IsBonded
  <1> QED
    BY <1>1, <1>2, <1>8

\* The slot of the replaced validator goes to one that was not in the array.
LEMMA ReplacedKeepsMatched ==
    ASSUME TypeOK, Matched, NEW v \in Addr, NEW k \in 1..Len(bondedValAddrs), Replaced(v, k)
    PROVE  Matched' /\ Len(bondedValAddrs') = Len(bondedValAddrs)
  <1> DEFINE n == Len(bondedValAddrs)
             out == bondedValAddrs[k]
  <1>1. n \in Nat /\ out \in Addr
    BY ElementOfSeq, LenProperties DEF TypeOK
  <1>2. /\ Len(bondedValAddrs') = n
        /\ \A i \in 1..n : bondedValAddrs'[i] = IF i = k THEN v ELSE bondedValAddrs[i]
    <2>1. bondedValAddrs \in Seq(Addr) /\ bondedValAddrs' = [bondedValAddrs EXCEPT ![k] = v]
      BY DEF Replaced, TypeOK
    <2> QED
      BY <2>1, ExceptSeq
  <1>3. \A i \in 1..n : bondedValAddrs[i] # v
    BY DEF Replaced, Matched, IsBonded
  <1>4. \A i, j \in 1..n : bondedValAddrs[i] = bondedValAddrs[j] => i = j
    BY DEF Matched
  <1>5. \A u \in Addr : validators[u].status = "Bonded" <=> \E i \in 1..n : bondedValAddrs[i] = u
    BY DEF Matched, IsBonded
  <1>6. /\ validators'[v].status = "Bonded" /\ validators'[out].status = "Unbonding"
        /\ \A u \in Addr \ {v, out} : validators'[u].status = validators[u].status
    BY <1>3 DEF Replaced, Same
  <1> HIDE DEF n, out
  <1>7. \A i, j \in 1..n : bondedValAddrs'[i] = bondedValAddrs'[j] => i = j
    BY <1>2, <1>3, <1>4
  <1>8. k \in 1..n /\ bondedValAddrs[k] = out
    BY DEF n, out
  <1>9. ASSUME NEW u \in Addr
        PROVE  validators'[u].status = "Bonded" <=> \E i \in 1..n : bondedValAddrs'[i] = u
    <2>1. CASE u = v
      BY <1>2, <1>6, <1>8, <2>1
    <2>2. CASE u = out
      BY <1>2, <1>3, <1>4, <1>6, <1>8, <2>2
    <2>3. CASE u # v /\ u # out
      <3>1. (\E i \in 1..n : bondedValAddrs[i] = u) <=> \E i \in 1..n : bondedValAddrs'[i] = u
        BY <1>2, <1>8, <2>3
      <3> QED
        BY <1>5, <1>6, <2>3, <3>1
    <2> QED
      BY <2>1, <2>2, <2>3
  <1>10. Matched'
    BY <1>2, <1>7, <1>9 DEF Matched, IsBonded
  <1> QED
    BY <1>2, <1>10 DEF n

\* Statuses that stay clear of Bonded keep the array matched.
LEMMA SameBondedKeepsMatched ==
    ASSUME TypeOK, Matched, bondedValAddrs' = bondedValAddrs,
           \A u \in Addr : validators'[u].status = "Bonded" <=> validators[u].status = "Bonded"
    PROVE  Matched'
  BY DEF Matched, IsBonded

\* Every step keeps the bonded array matched and within the limit.
LEMMA BondedListStep ==
    ASSUME TypeOK, BondedListExact, [Next]_vars
    PROVE  BondedListExact'
  <1> DEFINE limit == params.MaxBondedValidators
  <1>1. /\ Matched /\ Len(bondedValAddrs) <= limit
        /\ limit \in Nat /\ Len(bondedValAddrs) \in Nat
    BY LenProperties DEF BondedListExact, Matched, TypeOK, ParamName
  <1>2. Matched' /\ (bondedValAddrs' = bondedValAddrs \/ Len(bondedValAddrs') <= limit)
    <2>1. ASSUME NEW v \in Addr, NEW s \in Signers, NEW m \in Stakes, NEW r \in CommissionRates,
                 InitializeValidator(v, s, m, r)
          PROVE  Matched' /\ bondedValAddrs' = bondedValAddrs
      <3>1. Moved(v, "Unbonded") /\ bondedValAddrs' = bondedValAddrs
        BY <2>1, InitializeValidatorEffect
      <3> QED
        BY <1>1, <3>1, SameBondedKeepsMatched DEF Moved, Same
    <2>2. ASSUME NEW v \in Addr, NEW s \in Signers, UpdateValidatorSigner(v, s)
          PROVE  Matched' /\ bondedValAddrs' = bondedValAddrs
      <3>1. /\ validators'[v].status = validators[v].status /\ bondedValAddrs' = bondedValAddrs
            /\ \A u \in Addr \ {v} : Same(u)
        BY <2>2, UpdateValidatorSignerEffect
      <3> QED
        BY <1>1, <3>1, SameBondedKeepsMatched DEF Same
    <2>3. CASE Kept \/ \E v \in Addr : Confirmed(v)
      BY <1>1, <2>3, SameBondedKeepsMatched DEF Kept, Confirmed, Moved, Same
    <2>4. ASSUME NEW v \in Addr, Left(v)
          PROVE  Matched' /\ Len(bondedValAddrs') <= limit
      <3>1. Matched' /\ Len(bondedValAddrs') <= Len(bondedValAddrs)
        BY <1>1, <2>4, LeftKeepsMatched
      <3>2. Len(bondedValAddrs') = Len(bondedValAddrs) - 1
        BY <2>4, RemoveBondedType DEF Left, TypeOK
      <3> QED
        BY <1>1, <3>1, <3>2
    <2>5. ASSUME NEW v \in Addr, Joined(v)
          PROVE  Matched' /\ Len(bondedValAddrs') <= limit
      BY <1>1, <2>5, JoinedKeepsMatched
    <2>6. ASSUME NEW v \in Addr, NEW i \in 1..Len(bondedValAddrs), Replaced(v, i)
          PROVE  Matched' /\ Len(bondedValAddrs') <= limit
      BY <1>1, <2>6, ReplacedKeepsMatched
    <2> HIDE DEF limit
    <2> QED
      BY <2>1, <2>2, <2>3, <2>4, <2>5, <2>6, StepEffect DEF Quiet
  <1>3. Len(bondedValAddrs') <= params'.MaxBondedValidators
    BY <1>1, <1>2, LimitKept
  <1> QED
    BY <1>2, <1>3 DEF Matched, BondedListExact

\* The bonded array holds exactly the bonded validators, each once, and never
\* more than the limit: the swap and pop, the replacement of the smallest and
\* the change of the limit all keep it so.
THEOREM BondedListCorrect == Spec => []BondedListExact
  <1>1. Init => BondedListExact
    <2> SUFFICES ASSUME Init PROVE BondedListExact
      OBVIOUS
    <2>1. bondedValAddrs = <<>> /\ Len(bondedValAddrs) = 0
      BY EmptySeq DEF Init
    <2>2. params.MaxBondedValidators \in Nat
      BY StakingAssumption DEF Init, ParamName
    <2>3. \A v \in Addr : validators[v].status = "Null"
      BY DEF Init, NullValidator
    <2> QED
      BY <2>1, <2>2, <2>3 DEF BondedListExact, IsBonded
  <1>2. TypeOK /\ BondedListExact /\ [Next]_vars => BondedListExact'
    BY BondedListStep
  <1> QED
    BY <1>1, <1>2, TypeCorrect, PTL DEF Spec

-----------------------------------------------------------------------------
(* The signer registry. *)

\* A step that registers no signer keeps the registry.
LEMMA QuietKeepsRegistry ==
    ASSUME TypeOK, BondedListExact, SignerRegistry, Quiet
    PROVE  SignerRegistry'
  <1>1. /\ signerVals' = signerVals
        /\ \A u \in Addr : /\ validators'[u].signer = validators[u].signer
                           /\ validators'[u].status = "Null" <=> validators[u].status = "Null"
    <2>1. CASE Kept
      BY <2>1 DEF Quiet, Kept, Same
    <2>2. ASSUME NEW v \in Addr, Confirmed(v) \/ Left(v) \/ Joined(v)
          PROVE  <1>1!2
      BY <2>2 DEF Confirmed, Moved, Left, Joined, Same
    <2>3. ASSUME NEW v \in Addr, NEW i \in 1..Len(bondedValAddrs), Replaced(v, i)
          PROVE  <1>1!2
      <3>1. bondedValAddrs[i] \in Addr /\ IsBonded(bondedValAddrs[i])
        BY ElementOfSeq DEF TypeOK, IsBonded
      <3>2. validators[bondedValAddrs[i]].status = "Bonded"
        BY <3>1 DEF BondedListExact
      <3> QED
        BY <2>3, <3>2 DEF Replaced, Same
    <2> QED
      BY <2>1, <2>2, <2>3 DEF Quiet
  <1>2. ASSUME NEW t \in Addr \cup {ZeroAddr}
        PROVE  signerVals[t] \in Addr \cup {ZeroAddr}
    BY DEF TypeOK
  <1>3. \A u \in Addr : validators'[u].status # "Null" => signerVals'[validators'[u].signer] = u
    BY <1>1 DEF SignerRegistry
  <1>4. \A t \in Addr \cup {ZeroAddr} : signerVals'[t] # ZeroAddr =>
           validators'[signerVals'[t]].status # "Null" /\ validators'[signerVals'[t]].signer = t
    BY <1>1, <1>2 DEF SignerRegistry
  <1>5. \A u \in Addr : validators'[u].status # "Null" => signerVals'[u] \in {u, ZeroAddr}
    BY <1>1 DEF SignerRegistry
  <1> QED
    BY <1>3, <1>4, <1>5 DEF SignerRegistry

\* The parts of the registry that a registration reads, as facts of their own.
LEMMA RegistryFacts ==
    ASSUME TypeOK, SignerRegistry
    PROVE  /\ ZeroAddr \notin Addr
           /\ \A u \in Addr : validators[u].signer \in Addr \cup {ZeroAddr}
           /\ \A t \in Addr \cup {ZeroAddr} : signerVals[t] \in Addr \cup {ZeroAddr}
           /\ \A u \in Addr : validators[u].status # "Null" =>
                 signerVals[validators[u].signer] = u /\ signerVals[u] \in {u, ZeroAddr}
           /\ \A t \in Addr \cup {ZeroAddr} : signerVals[t] # ZeroAddr =>
                 /\ validators[signerVals[t]].status # "Null"
                 /\ validators[signerVals[t]].signer = t
  <1>1. \A u \in Addr : validators[u] \in Validator
    BY DEF TypeOK
  <1>2. \A u \in Addr : validators[u].signer \in Addr \cup {ZeroAddr}
    BY <1>1 DEF Validator
  <1>3. \A t \in Addr \cup {ZeroAddr} : signerVals[t] \in Addr \cup {ZeroAddr}
    BY DEF TypeOK
  <1> QED
    BY <1>2, <1>3, StakingAssumption DEF SignerRegistry

\* Registering a new validator under a free signer keeps the registry.
LEMMA InitializeKeepsRegistry ==
    ASSUME TypeOK, SignerRegistry, NEW v \in Addr, NEW s \in Signers, NEW m \in Stakes,
           NEW r \in CommissionRates, InitializeValidator(v, s, m, r)
    PROVE  SignerRegistry'
  <1>1. /\ validators[v].status = "Null" /\ signerVals[v] = ZeroAddr
        /\ s \in Addr => validators[s].status = "Null"
        /\ signerVals[s] = ZeroAddr
        /\ signerVals' = [signerVals EXCEPT ![s] = v]
    BY DEF InitializeValidator
  <1>2. /\ validators'[v].status = "Unbonded" /\ validators'[v].signer = s
        /\ \A u \in Addr \ {v} : Same(u)
    BY InitializeValidatorEffect DEF Moved
  <1>3. s \in Addr \cup {ZeroAddr} /\ v # ZeroAddr
    BY StakingAssumption
  <1>4. \A t \in Addr \cup {ZeroAddr} : signerVals'[t] = IF t = s THEN v ELSE signerVals[t]
    BY <1>1 DEF TypeOK
  <1>5. \A u \in Addr : validators'[u].status # "Null" => signerVals'[validators'[u].signer] = u
    BY <1>1, <1>2, <1>3, <1>4, RegistryFacts DEF Same
  <1>6. \A t \in Addr \cup {ZeroAddr} : signerVals'[t] # ZeroAddr =>
           validators'[signerVals'[t]].status # "Null" /\ validators'[signerVals'[t]].signer = t
    BY <1>1, <1>2, <1>3, <1>4, RegistryFacts DEF Same
  <1>7. \A u \in Addr : validators'[u].status # "Null" => signerVals'[u] \in {u, ZeroAddr}
    BY <1>1, <1>2, <1>3, <1>4, RegistryFacts DEF Same
  <1> QED
    BY <1>5, <1>6, <1>7 DEF SignerRegistry

\* Moving a validator to a free signer, and freeing the old one, keeps the registry.
LEMMA UpdateSignerKeepsRegistry ==
    ASSUME TypeOK, SignerRegistry, NEW v \in Addr, NEW s \in Signers,
           UpdateValidatorSigner(v, s)
    PROVE  SignerRegistry'
  <1> DEFINE old == validators[v].signer
  <1>1. /\ validators[v].status # "Null"
        /\ s \in Addr \ {v} => validators[s].status = "Null"
        /\ signerVals[s] = ZeroAddr
        /\ signerVals' = [signerVals EXCEPT ![old] = ZeroAddr, ![s] = v]
    BY DEF UpdateValidatorSigner
  <1>2. /\ validators'[v].status = validators[v].status /\ validators'[v].signer = s
        /\ \A u \in Addr \ {v} : Same(u)
    BY UpdateValidatorSignerEffect
  <1>3. s \in Addr \cup {ZeroAddr} /\ v # ZeroAddr
    BY StakingAssumption
  <1>4. \A t \in Addr \cup {ZeroAddr} :
           signerVals'[t] = IF t = s THEN v ELSE IF t = old THEN ZeroAddr ELSE signerVals[t]
    BY <1>1 DEF TypeOK
  <1>5. old \in Addr \cup {ZeroAddr} /\ signerVals[old] = v /\ old # s
    BY <1>1, <1>3, RegistryFacts
  <1> HIDE DEF old
  <1>6. ASSUME NEW u \in Addr \ {v}, validators[u].status # "Null"
        PROVE  /\ validators[u].signer \in (Addr \cup {ZeroAddr}) \ {old, s}
               /\ signerVals[validators[u].signer] = u
    BY <1>1, <1>5, <1>6, RegistryFacts
  <1>7. ASSUME NEW u \in Addr, validators'[u].status # "Null"
        PROVE  signerVals'[validators'[u].signer] = u /\ signerVals'[u] \in {u, ZeroAddr}
    <2>1. CASE u = v
      <3>1. signerVals[v] \in {v, ZeroAddr}
        BY <1>1, RegistryFacts
      <3> QED
        BY <1>2, <1>3, <1>4, <2>1, <3>1
    <2>2. CASE u # v
      <3>1. validators'[u].signer = validators[u].signer /\ validators[u].status # "Null"
        BY <1>2, <1>7, <2>2 DEF Same
      <3>2. signerVals'[validators'[u].signer] = u
        BY <1>4, <1>6, <2>2, <3>1
      <3>3. u # s /\ signerVals[u] \in {u, ZeroAddr}
        BY <1>1, <2>2, <3>1, RegistryFacts
      <3> QED
        BY <1>4, <3>2, <3>3
    <2> QED
      BY <2>1, <2>2
  <1>8. ASSUME NEW t \in Addr \cup {ZeroAddr}, signerVals'[t] # ZeroAddr
        PROVE  /\ validators'[signerVals'[t]].status # "Null"
               /\ validators'[signerVals'[t]].signer = t
    <2>1. CASE t = s
      BY <1>1, <1>2, <1>4, <2>1
    <2>2. CASE t # s
      <3>1. t # old /\ signerVals'[t] = signerVals[t] /\ signerVals[t] # ZeroAddr
        BY <1>4, <1>8, <2>2
      <3>2. /\ signerVals[t] \in Addr /\ validators[signerVals[t]].status # "Null"
            /\ validators[signerVals[t]].signer = t
        BY <3>1, RegistryFacts
      <3>3. signerVals[t] # v
        BY <3>1, <3>2 DEF old
      <3> QED
        BY <1>2, <3>1, <3>2, <3>3 DEF Same
    <2> QED
      BY <2>1, <2>2
  <1> QED
    BY <1>7, <1>8 DEF SignerRegistry

\* An initialized validator is found under its signer and under no other address,
\* and no validator's own address signs for another, whatever sequence of
\* registrations and signer changes led there.
THEOREM SignerRegistryCorrect == Spec => []SignerRegistry
  <1>1. Init => SignerRegistry
    BY DEF Init, NullValidator, SignerRegistry
  <1>2. TypeOK /\ BondedListExact /\ SignerRegistry /\ [Next]_vars => SignerRegistry'
    BY StepEffect, InitializeKeepsRegistry, UpdateSignerKeepsRegistry, QuietKeepsRegistry
  <1> QED
    BY <1>1, <1>2, TypeCorrect, BondedListCorrect, PTL DEF Spec

-----------------------------------------------------------------------------
(* The shares in an undelegation queue *)

\* A queue of undelegations has a natural number of shares.
LEMMA QueueTyped ==
    ASSUME NEW queue \in Seq(Undelegation)
    PROVE  /\ Len(queue) \in Nat /\ IsFiniteSet(1..Len(queue))
           /\ \A i \in 1..Len(queue) : queue[i] \in Undelegation /\ queue[i].shares \in Nat
           /\ QueuedShares(queue) \in Nat
<1>1. Len(queue) \in Nat /\ \A i \in 1..Len(queue) : queue[i] \in Undelegation
  BY LenProperties, ElementOfSeq
<1>2. \A i \in 1..Len(queue) : queue[i].shares \in Nat
  BY <1>1 DEF Undelegation
<1>3. IsFiniteSet(1..Len(queue))
  BY <1>1, FS_Interval
<1> DEFINE f == [i \in 1..Len(queue) |-> queue[i].shares]
<1>4. \A i \in 1..Len(queue) : f[i] \in Nat
  BY <1>2
<1> HIDE DEF f
<1>5. SumFunctionOnSet(f, 1..Len(queue)) \in Nat
  BY <1>3, <1>4, SumNat
<1> QED
  BY <1>1, <1>2, <1>3, <1>5 DEF QueuedShares, f

\* An entry adds its shares.
LEMMA QueueAppend ==
    ASSUME NEW queue \in Seq(Undelegation), NEW entry \in Undelegation
    PROVE  QueuedShares(Append(queue, entry)) = QueuedShares(queue) + entry.shares
<1> DEFINE longer == Append(queue, entry)
           n == Len(queue)
           f == [i \in 1..Len(longer) |-> longer[i].shares]
           g == [i \in 1..n |-> queue[i].shares]
<1>1. /\ n \in Nat /\ IsFiniteSet(1..n) /\ entry.shares \in Nat
      /\ \A i \in 1..n : queue[i].shares \in Nat
  BY QueueTyped DEF Undelegation
<1>2. /\ Len(longer) = n + 1 /\ longer[n + 1] = entry
      /\ \A i \in 1..n : longer[i] = queue[i]
  BY AppendProperties
<1> HIDE DEF longer
<1>3. f[n + 1] = entry.shares /\ \A i \in 1..n : f[i] = g[i] /\ f[i] \in Int
  BY <1>1, <1>2
<1>4. 1..(n + 1) = (1..n) \cup {n + 1} /\ n + 1 \notin 1..n
  BY <1>1
<1> HIDE DEF f, g, n
<1>5. SumFunctionOnSet(f, 1..(n + 1)) = f[n + 1] + SumFunctionOnSet(f, 1..n)
  <2>1. \A i \in (1..n) \cup {n + 1} : f[i] \in Int
    BY <1>1, <1>3
  <2> QED
    BY <1>1, <1>4, <2>1, SumAdd
<1>6. SumFunctionOnSet(f, 1..n) = SumFunctionOnSet(g, 1..n)
  BY <1>1, <1>3, SumSame
<1>7. QueuedShares(longer) = SumFunctionOnSet(f, 1..(n + 1))
  BY <1>2 DEF QueuedShares, f
<1>8. QueuedShares(queue) = SumFunctionOnSet(g, 1..n) /\ QueuedShares(queue) \in Nat
  BY QueueTyped DEF QueuedShares, g, n
<1> QED
  BY <1>1, <1>3, <1>5, <1>6, <1>7, <1>8 DEF longer

\* The head of a queue and its rest share it out.
LEMMA QueueSplit ==
    ASSUME NEW queue \in Seq(Undelegation), NEW n \in 0..Len(queue)
    PROVE  QueuedShares(queue) = QueuedShares(SubSeq(queue, 1, n))
                                   + QueuedShares(SubSeq(queue, n + 1, Len(queue)))
<1> DEFINE last == Len(queue)
           head == SubSeq(queue, 1, n)
           rest == SubSeq(queue, n + 1, last)
           f == [i \in 1..last |-> queue[i].shares]
           h == [i \in 1..Len(head) |-> head[i].shares]
           r == [i \in 1..Len(rest) |-> rest[i].shares]
           g == [i \in 1..Len(rest) |-> n + i]
<1>1. /\ last \in Nat /\ n \in Nat /\ n <= last /\ IsFiniteSet(1..last)
      /\ \A i \in 1..last : queue[i] \in Undelegation /\ queue[i].shares \in Nat
  BY QueueTyped
<1> HIDE DEF last
<1>2. Len(head) = n /\ \A i \in 1..n : head[i] = queue[i]
  <2>1. \A i \in 1..n : queue[i] \in Undelegation
    BY <1>1
  <2>2. 1 \in Int /\ n \in Int
    BY <1>1
  <2>3. /\ Len(head) = IF 1 <= n THEN n - 1 + 1 ELSE 0
        /\ \A i \in 1..(n - 1 + 1) : head[i] = queue[1 + i - 1]
    BY <2>1, <2>2, SubSeqProperties
  <2> HIDE DEF head
  <2> QED
    BY <1>1, <2>3
<1>3. Len(rest) = last - n /\ \A i \in 1..(last - n) : rest[i] = queue[n + i]
  <2>1. \A i \in (n + 1)..last : queue[i] \in Undelegation
    BY <1>1
  <2>2. n + 1 \in Int /\ last \in Int
    BY <1>1
  <2>3. /\ Len(rest) = IF n + 1 <= last THEN last - (n + 1) + 1 ELSE 0
        /\ \A i \in 1..(last - (n + 1) + 1) : rest[i] = queue[n + 1 + i - 1]
    BY <2>1, <2>2, SubSeqProperties
  <2> HIDE DEF rest
  <2> QED
    BY <1>1, <2>3
<1> HIDE DEF head, rest
<1>4. /\ 1..n \in SUBSET (1..last) /\ IsFiniteSet(1..n) /\ IsFiniteSet(1..(last - n))
  BY <1>1, FS_Interval
<1>5. SumFunctionOnSet(f, 1..last) = SumFunctionOnSet(f, 1..n)
                                       + SumFunctionOnSet(f, (1..last) \ (1..n))
  <2> DEFINE all == 1..last
             front == 1..n
  <2>1. (\A i \in all : f[i] \in Int) /\ front \in SUBSET all /\ IsFiniteSet(all)
    BY <1>1, <1>4
  <2> HIDE DEF f, all, front
  <2>2. SumFunctionOnSet(f, all) = SumFunctionOnSet(f, front) + SumFunctionOnSet(f, all \ front)
    BY <2>1, SumSplit
  <2> QED
    BY <2>2 DEF all, front
<1>6. SumFunctionOnSet(f, 1..n) = SumFunctionOnSet(h, 1..n)
  <2>1. \A i \in 1..n : f[i] = h[i]
    BY <1>1, <1>2
  <2> HIDE DEF f, h
  <2> QED
    BY <1>4, <2>1, SumSame
<1>7. SumFunctionOnSet(f, (1..last) \ (1..n)) = SumFunctionOnSet(r, 1..(last - n))
  <2>1. \A i \in 1..(last - n) : r[i] \in Int /\ r[i] = f[g[i]]
    BY <1>1, <1>3
  <2>2. \A i, j \in 1..(last - n) : g[i] = g[j] => i = j
    BY <1>1, <1>3
  <2>3. (1..last) \ (1..n) = {g[i] : i \in 1..(last - n)}
    <3>1. \A i \in 1..(last - n) : g[i] = n + i
      BY <1>3
    <3>2. ASSUME NEW j \in (1..last) \ (1..n) PROVE j - n \in 1..(last - n) /\ g[j - n] = j
      BY <1>1, <3>1
    <3> HIDE DEF g
    <3>3. ASSUME NEW i \in 1..(last - n) PROVE g[i] \in (1..last) \ (1..n)
      BY <1>1, <3>1
    <3> QED
      BY <3>2, <3>3
  <2> DEFINE back == 1..(last - n)
  <2> HIDE DEF f, r, g, back
  <2>4. /\ IsFiniteSet(back) /\ \A i \in back : r[i] \in Int /\ r[i] = f[g[i]]
        /\ \A i, j \in back : g[i] = g[j] => i = j
    BY <1>4, <2>1, <2>2 DEF back
  <2>5. SumFunctionOnSet(f, {g[i] : i \in back}) = SumFunctionOnSet(r, back)
    BY <2>4, SumReindex
  <2> QED
    BY <2>3, <2>5 DEF back
<1> QED
  BY <1>2, <1>3, <1>5, <1>6, <1>7 DEF QueuedShares, f, h, r, last, head, rest

\* An empty queue has none.
LEMMA QueueEmpty == QueuedShares(<<>>) = 0
<1> DEFINE f == [i \in 1..0 |-> <<>>[i].shares]
<1>1. 1..0 = {}
  OBVIOUS
<1>2. QueuedShares(<<>>) = SumFunctionOnSet([i \in 1..0 |-> <<>>[i].shares], 1..0)
  BY DEF QueuedShares
<1> QED
  BY <1>1, <1>2, SumEmpty

-----------------------------------------------------------------------------
(* What a step does to the accounts *)

Stake == [v \in Addr |-> validators[v].tokens]
Owed == [v \in Addr |-> validators[v].tokens + validators[v].undelegationTokens]
BondedStake == [v \in Addr |-> IF validators[v].status = "Bonded" THEN validators[v].tokens ELSE 0]
SharesIn(v) == [d \in Addr |-> delegators[v][d].shares]
QueuedIn(v) == [d \in Addr |-> QueuedShares(delegators[v][d].undelegations)]

\* What the contract owns, the owner's drained tokens included, and does not forfeit.
Held == balance + drained - forfeiture

\* The step leaves one account alone; its stake stays bonded, or not bonded.
SameAccount(u) ==
    /\ validators'[u].tokens = validators[u].tokens
    /\ validators'[u].undelegationTokens = validators[u].undelegationTokens
    /\ validators'[u].shares = validators[u].shares
    /\ validators'[u].undelegationShares = validators[u].undelegationShares
    /\ delegators'[u] = delegators[u]
SameBond(u) == BondedStake'[u] = BondedStake[u]

Untouched ==
    /\ \A u \in Addr : SameAccount(u) /\ SameBond(u)
    /\ UNCHANGED <<Held, bondedTokens>>

\* The step changes what v has from d, and the contract's books with it.
AccountStep(v, d) ==
    /\ \A u \in Addr \ {v} : SameAccount(u) /\ SameBond(u)
    /\ \A e \in Addr \ {d} : delegators'[v][e] = delegators[v][e]
    /\ Held' - Held = Owed'[v] - Owed[v]
    /\ validators'[v].shares - validators[v].shares
         = delegators'[v][d].shares - delegators[v][d].shares
    /\ validators'[v].undelegationShares - validators[v].undelegationShares
         = QueuedShares(delegators'[v][d].undelegations)
             - QueuedShares(delegators[v][d].undelegations)
    /\ bondedTokens' - bondedTokens = BondedStake'[v] - BondedStake[v]

\* The step bonds v in the place of another validator.
Swapped(v, out) ==
    /\ \A u \in Addr : SameAccount(u)
    /\ \A u \in Addr \ {v, out} : SameBond(u)
    /\ Held' = Held
    /\ validators[v].status # "Bonded" /\ validators[out].status = "Bonded"
    /\ validators'[v].status = "Bonded" /\ validators'[out].status # "Bonded"
    /\ bondedTokens' = bondedTokens - validators[out].tokens + validators[v].tokens

\* delegate() writes: tokens in, and shares for them.
Deposited(v, d, tokens) ==
    LET bought == TokenToShare(tokens, validators[v].tokens, validators[v].shares)
    IN  /\ validators'[v].tokens = validators[v].tokens + tokens
        /\ validators'[v].shares = validators[v].shares + bought
        /\ validators'[v].undelegationTokens = validators[v].undelegationTokens
        /\ validators'[v].undelegationShares = validators[v].undelegationShares
        /\ delegators'[v][d].shares = delegators[v][d].shares + bought
        /\ delegators'[v][d].undelegations = delegators[v][d].undelegations
        /\ wallet' = [wallet EXCEPT ![d] = @ - tokens]

\* _undelegate() writes: shares and their residual go, tokens are paid or queued.
Paid(v, d, tokens) ==
    /\ validators'[v].undelegationTokens = validators[v].undelegationTokens
    /\ validators'[v].undelegationShares = validators[v].undelegationShares
    /\ delegators'[v][d].undelegations = delegators[v][d].undelegations
    /\ wallet' = [wallet EXCEPT ![d] = @ + tokens]

Queued(v, d, tokens) ==
    LET newShares == TokenToShare(tokens, validators[v].undelegationTokens,
                                  validators[v].undelegationShares)
    IN  /\ validators'[v].undelegationTokens = validators[v].undelegationTokens + tokens
        /\ validators'[v].undelegationShares = validators[v].undelegationShares + newShares
        /\ QueuedShares(delegators'[v][d].undelegations)
              = QueuedShares(delegators[v][d].undelegations) + newShares
        /\ wallet' = wallet

Withdrawn(v, d, tokens, shares) ==
    \E kept \in Nat :
        LET rest == delegators[v][d].shares - shares
        IN  /\ rest >= 0 /\ tokens <= validators[v].tokens
            /\ kept = rest \/ (kept = 0 /\ rest <= 2)
            /\ validators'[v].tokens = validators[v].tokens - tokens
            /\ validators'[v].shares = validators[v].shares - shares - (rest - kept)
            /\ delegators'[v][d].shares = kept
            /\ Paid(v, d, tokens) \/ Queued(v, d, tokens)

\* The price at which undelegateShares and undelegateTokens exchange the two.
AtPrice(v, tokens, shares) ==
    \/ tokens = ShareToToken(shares, validators[v].tokens, validators[v].shares)
    \/ shares = TokenToShare(tokens, validators[v].tokens, validators[v].shares)

\* completeUndelegate() writes: queued shares go, and what they are worth is paid.
Completed(v, d) ==
    \E ready \in 0..validators[v].undelegationShares :
        LET tokens == ShareToToken(ready, validators[v].undelegationTokens,
                                   validators[v].undelegationShares)
        IN  /\ ready <= QueuedShares(delegators[v][d].undelegations)
            /\ tokens <= validators[v].undelegationTokens
            /\ validators'[v].tokens = validators[v].tokens
            /\ validators'[v].shares = validators[v].shares
            /\ validators'[v].undelegationTokens = validators[v].undelegationTokens - tokens
            /\ validators'[v].undelegationShares = validators[v].undelegationShares - ready
            /\ delegators'[v][d].shares = delegators[v][d].shares
            /\ QueuedShares(delegators'[v][d].undelegations)
                  = QueuedShares(delegators[v][d].undelegations) - ready
            /\ wallet' = [wallet EXCEPT ![d] = @ + tokens]

\* slash() writes: the factor of both kinds of tokens goes, the shares stay.
Cut(v, factor) ==
    /\ validators'[v].tokens = validators[v].tokens - Slashed(validators[v].tokens, factor)
    /\ validators'[v].undelegationTokens = validators[v].undelegationTokens
                                             - Slashed(validators[v].undelegationTokens, factor)
    /\ validators'[v].shares = validators[v].shares
    /\ validators'[v].undelegationShares = validators[v].undelegationShares

\* The types of one validator's account and of one delegator's.
LEMMA AccountTyped ==
    ASSUME TypeOK, NEW v \in Addr, NEW d \in Addr
    PROVE  /\ validators[v] \in Validator
           /\ validators[v].tokens \in Nat /\ validators[v].undelegationTokens \in Nat
           /\ validators[v].shares \in Nat /\ validators[v].undelegationShares \in Nat
           /\ delegators[v][d] \in Delegator /\ delegators[v][d].shares \in Nat
           /\ delegators[v][d].undelegations \in Seq(Undelegation)
           /\ QueuedShares(delegators[v][d].undelegations) \in Nat
           /\ Stake[v] \in Nat /\ Owed[v] \in Nat /\ BondedStake[v] \in Nat
           /\ bondedTokens \in Nat /\ balance \in Nat /\ drained \in Nat /\ forfeiture \in Nat
           /\ Held \in Int
<1>1. validators[v] \in Validator /\ delegators[v][d] \in Delegator
  BY DEF TypeOK
<1>2. /\ validators[v].tokens \in Nat /\ validators[v].undelegationTokens \in Nat
      /\ validators[v].shares \in Nat /\ validators[v].undelegationShares \in Nat
  BY <1>1 DEF Validator
<1>3. /\ delegators[v][d].shares \in Nat
      /\ delegators[v][d].undelegations \in Seq(Undelegation)
  BY <1>1 DEF Delegator
<1>4. QueuedShares(delegators[v][d].undelegations) \in Nat
  BY <1>3, QueueTyped
<1>5. Stake[v] \in Nat /\ Owed[v] \in Nat /\ BondedStake[v] \in Nat
  BY <1>2 DEF Stake, Owed, BondedStake
<1>6. /\ bondedTokens \in Nat /\ balance \in Nat /\ drained \in Nat /\ forfeiture \in Nat
      /\ Held \in Int
  BY DEF TypeOK, Held
<1> QED
  BY <1>1, <1>2, <1>3, <1>4, <1>5, <1>6

\* A step that writes one validator's record and one delegator's.
LEMMA OneRecord ==
    ASSUME TypeOK, NEW v \in Addr, NEW d \in Addr, NEW val, NEW del,
           validators' = [validators EXCEPT ![v] = val],
           delegators' = [delegators EXCEPT ![v][d] = del]
    PROVE  /\ \A u \in Addr \ {v} : /\ validators'[u] = validators[u]
                                    /\ SameAccount(u) /\ SameBond(u)
           /\ \A e \in Addr \ {d} : delegators'[v][e] = delegators[v][e]
<1>1. /\ validators'[v] = val /\ delegators'[v][d] = del
      /\ \A u \in Addr \ {v} : validators'[u] = validators[u] /\ delegators'[u] = delegators[u]
      /\ \A e \in Addr \ {d} : delegators'[v][e] = delegators[v][e]
  BY DEF TypeOK
<1> QED
  BY <1>1 DEF SameAccount, SameBond, BondedStake

\* A step that writes the record of a validator's terms or status.
LEMMA OneValidator ==
    ASSUME TypeOK, NEW v \in Addr, NEW val, validators' = [validators EXCEPT ![v] = val],
           delegators' = delegators
    PROVE  /\ validators'[v] = val
           /\ \A u \in Addr \ {v} : /\ validators'[u] = validators[u]
                                    /\ SameAccount(u) /\ SameBond(u)
<1>1. validators'[v] = val /\ \A u \in Addr \ {v} : validators'[u] = validators[u]
  BY DEF TypeOK
<1> QED
  BY <1>1 DEF SameAccount, SameBond, BondedStake

\* delegate() without its status check, and the first delegation of a validator.
LEMMA DelegateToAccount ==
    ASSUME TypeOK, NEW v \in Addr, NEW d \in Addr, NEW tokens \in Nat, NEW val \in Validator,
           DelegateTo(v, d, tokens, val), UNCHANGED <<forfeiture, drained>>,
           val.tokens = validators[v].tokens, val.shares = validators[v].shares,
           val.undelegationTokens = validators[v].undelegationTokens,
           val.undelegationShares = validators[v].undelegationShares,
           val.status = "Bonded" <=> validators[v].status = "Bonded",
           bondedTokens' = IF val.status = "Bonded" THEN bondedTokens + tokens ELSE bondedTokens
    PROVE  AccountStep(v, d) /\ Deposited(v, d, tokens)
<1> DEFINE shares == TokenToShare(tokens, val.tokens, val.shares)
           new == [val EXCEPT !.tokens = @ + tokens, !.shares = @ + shares]
           del == [delegators[v][d] EXCEPT !.shares = @ + shares]
<1>1. /\ validators' = [validators EXCEPT ![v] = new]
      /\ delegators' = [delegators EXCEPT ![v][d] = del]
      /\ balance' = balance + tokens
      /\ wallet' = [wallet EXCEPT ![d] = @ - tokens]
      /\ shares = TokenToShare(tokens, validators[v].tokens, validators[v].shares)
  BY DEF DelegateTo
<1>2. val.tokens \in Nat /\ val.shares \in Nat /\ shares \in Nat
  BY ShareTypes DEF Validator
<1> HIDE DEF shares
<1>3. /\ new.tokens = val.tokens + tokens /\ new.shares = val.shares + shares
      /\ new.undelegationTokens = val.undelegationTokens
      /\ new.undelegationShares = val.undelegationShares /\ new.status = val.status
  BY DEF Validator
<1>4. /\ del.shares = delegators[v][d].shares + shares
      /\ del.undelegations = delegators[v][d].undelegations
  BY AccountTyped DEF Delegator
<1> HIDE DEF new, del
<1>5. /\ validators'[v] = new /\ delegators'[v][d] = del
      /\ \A u \in Addr \ {v} : SameAccount(u) /\ SameBond(u)
      /\ \A e \in Addr \ {d} : delegators'[v][e] = delegators[v][e]
  <2>1. validators'[v] = new /\ delegators'[v][d] = del
    BY <1>1 DEF TypeOK
  <2> QED
    BY <1>1, <2>1, OneRecord
<1> DEFINE queue == delegators[v][d].undelegations
<1>6. /\ QueuedShares(queue) \in Nat /\ delegators[v][d].shares \in Nat /\ Stake[v] \in Nat
      /\ validators[v].tokens \in Nat /\ validators[v].undelegationTokens \in Nat
      /\ validators[v].shares \in Nat /\ validators[v].undelegationShares \in Nat
      /\ bondedTokens \in Nat /\ balance \in Nat /\ drained \in Nat /\ forfeiture \in Nat
  BY AccountTyped
<1> HIDE DEF queue
<1>7. Held' - Held = Owed'[v] - Owed[v]
  BY <1>1, <1>3, <1>5, <1>6 DEF Held, Owed
<1>8. bondedTokens' - bondedTokens = BondedStake'[v] - BondedStake[v]
  BY <1>3, <1>5, <1>6 DEF BondedStake
<1>9. /\ validators'[v].shares - validators[v].shares
           = delegators'[v][d].shares - delegators[v][d].shares
      /\ validators'[v].undelegationShares - validators[v].undelegationShares
           = QueuedShares(delegators'[v][d].undelegations) - QueuedShares(queue)
  BY <1>2, <1>3, <1>4, <1>5, <1>6 DEF queue
<1>10. Deposited(v, d, tokens)
  BY <1>1, <1>3, <1>4, <1>5 DEF Deposited, queue
<1> QED
  BY <1>5, <1>7, <1>8, <1>9, <1>10 DEF AccountStep, queue

\* A slash or an undelegation: the stake that leaves with a validator, or without it.
LEMMA UpdateBondedAccount ==
    ASSUME TypeOK, NEW v \in Addr, NEW val \in Validator, NEW tokens \in Nat, NEW stays,
           UpdateBonded(v, val, tokens, stays), val.status = validators[v].status,
           val.tokens = validators[v].tokens - tokens
    PROVE  /\ validators'[v].tokens = val.tokens /\ validators'[v].shares = val.shares
           /\ validators'[v].undelegationTokens = val.undelegationTokens
           /\ validators'[v].undelegationShares = val.undelegationShares
           /\ \A u \in Addr \ {v} : validators'[u] = validators[u]
           /\ bondedTokens' - bondedTokens = BondedStake'[v] - BondedStake[v]
<1> DEFINE left == SetUnbonding(val)
<1>1. /\ bondedTokens \in Nat /\ validators[v].tokens \in Nat /\ val.tokens \in Nat
  BY AccountTyped DEF Validator
<1>2. /\ left.status = "Unbonding" /\ left.tokens = val.tokens /\ left.shares = val.shares
      /\ left.undelegationTokens = val.undelegationTokens
      /\ left.undelegationShares = val.undelegationShares
  BY DEF SetUnbonding, Validator
<1> HIDE DEF left
<1>3. CASE validators' = [validators EXCEPT ![v] = val]
           /\ bondedTokens' = IF val.status = "Bonded" THEN bondedTokens - tokens
                                                       ELSE bondedTokens
  <2>1. validators'[v] = val /\ \A u \in Addr \ {v} : validators'[u] = validators[u]
    BY <1>3 DEF TypeOK
  <2>2. /\ BondedStake'[v] = IF val.status = "Bonded" THEN val.tokens ELSE 0
        /\ BondedStake[v] = IF val.status = "Bonded" THEN validators[v].tokens ELSE 0
    BY <2>1 DEF BondedStake
  <2>3. bondedTokens' = IF val.status = "Bonded" THEN bondedTokens - tokens ELSE bondedTokens
    BY <1>3
  <2>4. bondedTokens' - bondedTokens = BondedStake'[v] - BondedStake[v]
    BY <1>1, <2>2, <2>3
  <2> QED
    BY <2>1, <2>4
<1>4. CASE validators' = [validators EXCEPT ![v] = left] /\ val.status = "Bonded"
           /\ bondedTokens' = bondedTokens - tokens - val.tokens
  <2>1. validators'[v] = left /\ \A u \in Addr \ {v} : validators'[u] = validators[u]
    BY <1>4 DEF TypeOK
  <2>2. BondedStake'[v] = 0 /\ BondedStake[v] = validators[v].tokens
    BY <1>2, <1>4, <2>1 DEF BondedStake
  <2>3. bondedTokens' = bondedTokens - tokens - val.tokens
    BY <1>4
  <2>4. bondedTokens' - bondedTokens = BondedStake'[v] - BondedStake[v]
    BY <1>1, <2>2, <2>3
  <2> QED
    BY <1>2, <2>1, <2>4
<1> QED
  BY <1>3, <1>4 DEF UpdateBonded, left

\* What undelegateShares and undelegateTokens have in common.
LEMMA UndelegateAccount ==
    ASSUME TypeOK, NEW v \in Addr, NEW d \in Addr, NEW tokens \in Nat, NEW shares \in Nat,
           Undelegate(v, d, tokens, shares)
    PROVE  AccountStep(v, d) /\ Withdrawn(v, d, tokens, shares)
<1> DEFINE rest == delegators[v][d].shares - shares
           kept == Residual(rest, validators[v].tokens - tokens, validators[v].shares - shares)
           val == [validators[v] EXCEPT !.tokens = @ - tokens,
                                        !.shares = @ - shares - (rest - kept)]
           newShares == TokenToShare(tokens, val.undelegationTokens, val.undelegationShares)
           queue == delegators[v][d].undelegations
           queued == [val EXCEPT !.undelegationTokens = @ + tokens,
                                 !.undelegationShares = @ + newShares]
           stays == HasMinRequiredTokens(val, IF d = v THEN kept ELSE 0, d = v)
           entry == [shares |-> newShares, creationBlock |-> block]
           left == [delegators[v][d] EXCEPT !.shares = kept]
           waits == [shares |-> kept, undelegations |-> Append(queue, entry)]
<1>1. /\ shares <= delegators[v][d].shares
      /\ shares + (rest - kept) <= validators[v].shares
      /\ tokens <= validators[v].tokens
      /\ UNCHANGED <<forfeiture, drained>>
  BY DEF Undelegate
<1>2. \/ /\ UndelegateDirectly(v, d, tokens, val)
         /\ delegators' = [delegators EXCEPT ![v][d] = left]
      \/ /\ UpdateBonded(v, queued, tokens, stays)
         /\ delegators' = [delegators EXCEPT ![v][d] = waits]
         /\ UNCHANGED <<balance, wallet>>
  BY DEF Undelegate, funds
<1>0. /\ validators[v] \in Validator /\ delegators[v][d] \in Delegator /\ block \in Nat
      /\ queue \in Seq(Undelegation)
  BY AccountTyped DEF TypeOK
<1>3. /\ delegators[v][d].shares \in Nat /\ QueuedShares(queue) \in Nat
      /\ validators[v].tokens \in Nat /\ validators[v].undelegationTokens \in Nat
      /\ validators[v].shares \in Nat /\ validators[v].undelegationShares \in Nat
      /\ bondedTokens \in Nat /\ balance \in Nat /\ drained \in Nat /\ forfeiture \in Nat
  BY AccountTyped
<1> HIDE DEF stays, queue
<1>4. /\ rest \in Nat /\ kept \in Nat /\ rest - kept \in Nat
      /\ kept = rest \/ (kept = 0 /\ rest <= 2)
  <2>1. rest \in Nat
    BY <1>1, <1>3
  <2> HIDE DEF rest
  <2> QED
    BY <2>1 DEF Residual
<1>5. rest = delegators[v][d].shares - shares
  OBVIOUS
<1> HIDE DEF rest, kept
<1>6. /\ val \in Validator /\ val.status = validators[v].status
      /\ val.tokens = validators[v].tokens - tokens
      /\ val.shares = validators[v].shares - shares - (rest - kept)
      /\ val.undelegationTokens = validators[v].undelegationTokens
      /\ val.undelegationShares = validators[v].undelegationShares
  <2> DEFINE t == validators[v].tokens - tokens
             s == validators[v].shares - shares - (rest - kept)
  <2>1. t \in Nat /\ s \in Nat
    BY <1>1, <1>3, <1>4
  <2>2. val = [validators[v] EXCEPT !.tokens = t, !.shares = s]
    OBVIOUS
  <2> HIDE DEF t, s, val
  <2>3. /\ val \in Validator /\ val.status = validators[v].status
        /\ val.tokens = t /\ val.shares = s
        /\ val.undelegationTokens = validators[v].undelegationTokens
        /\ val.undelegationShares = validators[v].undelegationShares
    BY <1>0, <2>1, <2>2 DEF Validator
  <2> QED
    BY <2>3 DEF t, s
<1>7. /\ newShares \in Nat
      /\ newShares = TokenToShare(tokens, validators[v].undelegationTokens,
                                  validators[v].undelegationShares)
  BY <1>3, <1>6, ShareTypes
<1> HIDE DEF val, newShares
<1>8. /\ queued \in Validator /\ queued.status = val.status /\ queued.tokens = val.tokens
      /\ queued.shares = val.shares
      /\ queued.undelegationTokens = val.undelegationTokens + tokens
      /\ queued.undelegationShares = val.undelegationShares + newShares
  <2> DEFINE t == val.undelegationTokens + tokens
             s == val.undelegationShares + newShares
  <2>1. t \in Nat /\ s \in Nat
    BY <1>3, <1>6, <1>7
  <2> HIDE DEF t, s
  <2>2. queued = [val EXCEPT !.undelegationTokens = t, !.undelegationShares = s]
    BY DEF t, s
  <2> HIDE DEF queued
  <2>3. /\ queued \in Validator /\ queued.status = val.status /\ queued.tokens = val.tokens
        /\ queued.shares = val.shares /\ queued.undelegationTokens = t
        /\ queued.undelegationShares = s
    BY <1>6, <2>1, <2>2 DEF Validator
  <2> QED
    BY <2>3 DEF t, s
<1>9. /\ left.shares = kept /\ left.undelegations = queue
      /\ waits.shares = kept /\ waits.undelegations = Append(queue, entry)
      /\ entry \in Undelegation /\ entry.shares = newShares
  BY <1>0, <1>7 DEF Delegator, Undelegation, queue
<1>10. QueuedShares(Append(queue, entry)) = QueuedShares(queue) + newShares
  BY <1>0, <1>9, QueueAppend
<1> HIDE DEF queued, left, waits, entry
<1>11. CASE /\ UndelegateDirectly(v, d, tokens, val)
            /\ delegators' = [delegators EXCEPT ![v][d] = left]
  <2>1. /\ validators' = [validators EXCEPT ![v] = val] /\ val.status = "Unbonded"
        /\ balance' = balance - tokens /\ bondedTokens' = bondedTokens
        /\ wallet' = [wallet EXCEPT ![d] = @ + tokens]
    BY <1>11 DEF UndelegateDirectly
  <2>2. validators'[v] = val /\ delegators'[v][d] = left
    BY <1>11, <2>1 DEF TypeOK
  <2>3. /\ \A u \in Addr \ {v} : SameAccount(u) /\ SameBond(u)
        /\ \A e \in Addr \ {d} : delegators'[v][e] = delegators[v][e]
    BY <1>11, <2>1, OneRecord
  <2>4. Held' - Held = Owed'[v] - Owed[v]
    <3>1. Held' = balance - tokens + drained - forfeiture
      BY <1>1, <2>1 DEF Held
    <3>2. Owed'[v] = validators[v].tokens - tokens + validators[v].undelegationTokens
      BY <1>6, <2>2 DEF Owed
    <3> QED
      BY <1>3, <3>1, <3>2 DEF Held, Owed
  <2>5. bondedTokens' - bondedTokens = BondedStake'[v] - BondedStake[v]
    <3>1. BondedStake'[v] = 0 /\ BondedStake[v] = 0
      BY <1>6, <2>1, <2>2 DEF BondedStake
    <3>2. bondedTokens' = bondedTokens
      BY <2>1
    <3> QED
      BY <1>3, <3>1, <3>2
  <2>6. /\ validators'[v].shares - validators[v].shares
             = delegators'[v][d].shares - delegators[v][d].shares
        /\ validators'[v].undelegationShares - validators[v].undelegationShares
             = QueuedShares(delegators'[v][d].undelegations) - QueuedShares(queue)
    <3>1. /\ validators'[v].shares = validators[v].shares - shares - (rest - kept)
          /\ validators'[v].undelegationShares = validators[v].undelegationShares
          /\ delegators'[v][d].shares = kept /\ delegators'[v][d].undelegations = queue
      BY <1>6, <1>9, <2>2
    <3> QED
      BY <1>3, <1>4, <1>5, <3>1
  <2>7. Withdrawn(v, d, tokens, shares)
    <3>1. Paid(v, d, tokens)
      BY <1>6, <1>9, <2>1, <2>2 DEF Paid, queue
    <3>2. /\ validators'[v].tokens = validators[v].tokens - tokens
          /\ validators'[v].shares = validators[v].shares - shares - (rest - kept)
          /\ delegators'[v][d].shares = kept
      BY <1>6, <1>9, <2>2
    <3> QED
      BY <1>1, <1>4, <1>5, <3>1, <3>2 DEF Withdrawn
  <2> QED
    BY <2>3, <2>4, <2>5, <2>6, <2>7 DEF AccountStep, queue
<1>12. CASE /\ UpdateBonded(v, queued, tokens, stays)
            /\ delegators' = [delegators EXCEPT ![v][d] = waits]
            /\ UNCHANGED <<balance, wallet>>
  <2>1. /\ validators'[v].tokens = queued.tokens /\ validators'[v].shares = queued.shares
        /\ validators'[v].undelegationTokens = queued.undelegationTokens
        /\ validators'[v].undelegationShares = queued.undelegationShares
        /\ \A u \in Addr \ {v} : validators'[u] = validators[u]
        /\ bondedTokens' - bondedTokens = BondedStake'[v] - BondedStake[v]
    BY <1>6, <1>8, <1>12, UpdateBondedAccount
  <2>2. /\ delegators'[v][d] = waits
        /\ \A u \in Addr \ {v} : delegators'[u] = delegators[u]
        /\ \A e \in Addr \ {d} : delegators'[v][e] = delegators[v][e]
    BY <1>12 DEF TypeOK
  <2>3. \A u \in Addr \ {v} : SameAccount(u) /\ SameBond(u)
    BY <2>1, <2>2 DEF SameAccount, SameBond, BondedStake
  <2>4. Held' - Held = Owed'[v] - Owed[v]
    <3>1. Held' = Held
      BY <1>1, <1>12 DEF Held
    <3>2. Owed'[v] = validators[v].tokens - tokens + (validators[v].undelegationTokens + tokens)
      BY <1>6, <1>8, <2>1 DEF Owed
    <3> QED
      BY <1>3, <3>1, <3>2 DEF Held, Owed
  <2>5. /\ validators'[v].shares - validators[v].shares
             = delegators'[v][d].shares - delegators[v][d].shares
        /\ validators'[v].undelegationShares - validators[v].undelegationShares
             = QueuedShares(delegators'[v][d].undelegations) - QueuedShares(queue)
    <3>1. /\ validators'[v].shares = validators[v].shares - shares - (rest - kept)
          /\ validators'[v].undelegationShares = validators[v].undelegationShares + newShares
          /\ delegators'[v][d].shares = kept
          /\ QueuedShares(delegators'[v][d].undelegations) = QueuedShares(queue) + newShares
      BY <1>6, <1>8, <1>9, <1>10, <2>1, <2>2
    <3>2. validators'[v].shares - validators[v].shares
            = delegators'[v][d].shares - delegators[v][d].shares
      BY <1>3, <1>4, <1>5, <3>1
    <3>3. validators'[v].undelegationShares - validators[v].undelegationShares
            = QueuedShares(delegators'[v][d].undelegations) - QueuedShares(queue)
      BY <1>3, <1>7, <3>1
    <3> QED
      BY <3>2, <3>3
  <2>6. Withdrawn(v, d, tokens, shares)
    <3>1. Queued(v, d, tokens)
      BY <1>6, <1>7, <1>8, <1>9, <1>10, <1>12, <2>1, <2>2 DEF Queued, queue
    <3>2. /\ validators'[v].tokens = validators[v].tokens - tokens
          /\ validators'[v].shares = validators[v].shares - shares - (rest - kept)
          /\ delegators'[v][d].shares = kept
      BY <1>6, <1>8, <1>9, <2>1, <2>2
    <3> QED
      BY <1>1, <1>4, <1>5, <3>1, <3>2 DEF Withdrawn
  <2> QED
    BY <2>1, <2>2, <2>3, <2>4, <2>5, <2>6 DEF AccountStep, queue
<1> QED
  BY <1>2, <1>11, <1>12

\* initializeValidator and delegate.
LEMMA InitializeValidatorAccount ==
    ASSUME TypeOK, NEW v \in Addr, NEW s \in Signers, NEW m \in Stakes,
           NEW r \in CommissionRates, InitializeValidator(v, s, m, r)
    PROVE  AccountStep(v, v) /\ Deposited(v, v, m)
<1> DEFINE val == [validators[v] EXCEPT !.signer = s, !.status = "Unbonded",
                                        !.minSelfDelegation = m, !.commissionRate = r]
<1>1. m \in Nat /\ r \in Nat /\ s \in Addr \cup {ZeroAddr} /\ validators[v] \in Validator
  BY AccountTyped, StakingAssumption
<1>2. /\ val \in Validator /\ val.status = "Unbonded"
      /\ val.tokens = validators[v].tokens /\ val.shares = validators[v].shares
      /\ val.undelegationTokens = validators[v].undelegationTokens
      /\ val.undelegationShares = validators[v].undelegationShares
  BY <1>1 DEF Validator, Status
<1>3. DelegateTo(v, v, m, val) /\ validators[v].status = "Null"
      /\ UNCHANGED <<forfeiture, drained, bondedTokens>>
  BY DEF InitializeValidator
<1> HIDE DEF val
<1> QED
  BY <1>1, <1>2, <1>3, DelegateToAccount

\* delegate() touches the account of that validator and delegator only.
LEMMA DelegateAccount ==
    ASSUME TypeOK, NEW v \in Addr, NEW d \in Addr, NEW tokens \in Amounts, Delegate(v, d, tokens)
    PROVE  AccountStep(v, d) /\ Deposited(v, d, tokens)
<1>1. tokens \in Nat /\ validators[v] \in Validator
  BY AccountTyped, StakingAssumption
<1>2. /\ DelegateTo(v, d, tokens, validators[v]) /\ UNCHANGED <<forfeiture, drained>>
      /\ bondedTokens' = IF validators[v].status = "Bonded" THEN bondedTokens + tokens
                                                            ELSE bondedTokens
  BY DEF Delegate
<1> QED
  BY <1>1, <1>2, DelegateToAccount

\* Both turn tokens into shares, or shares into tokens, and undelegate.
LEMMA UndelegateAmount ==
    ASSUME TypeOK, NEW v \in Addr, NEW d \in Addr, NEW a \in Amounts,
           UndelegateShares(v, d, a) \/ UndelegateTokens(v, d, a)
    PROVE  \E tokens, shares \in Nat : /\ Undelegate(v, d, tokens, shares)
                                       /\ AtPrice(v, tokens, shares)
<1> DEFINE val == validators[v]
<1>1. a \in Nat /\ val.tokens \in Nat /\ val.shares \in Nat
  BY AccountTyped, StakingAssumption
<1>2. /\ TokenToShare(a, val.tokens, val.shares) \in Nat
      /\ ShareToToken(a, val.tokens, val.shares) \in Nat
  BY <1>1, ShareTypes
<1>3. \/ Undelegate(v, d, ShareToToken(a, val.tokens, val.shares), a)
      \/ Undelegate(v, d, a, TokenToShare(a, val.tokens, val.shares))
  BY DEF UndelegateShares, UndelegateTokens
<1> QED
  BY <1>1, <1>2, <1>3 DEF AtPrice

\* completeUndelegate: the head of the queue is paid.
LEMMA CompleteUndelegateAccount ==
    ASSUME TypeOK, NEW v \in Addr, NEW d \in Addr, CompleteUndelegate(v, d)
    PROVE  AccountStep(v, d) /\ Completed(v, d)
<1> DEFINE queue == delegators[v][d].undelegations
           val == validators[v]
<1>1. PICK n \in 0..Len(queue), ready \in 1..val.undelegationShares :
         LET tokens == ShareToToken(ready, val.undelegationTokens, val.undelegationShares)
         IN  /\ ready = QueuedShares(SubSeq(queue, 1, n))
             /\ tokens <= val.undelegationTokens
             /\ validators' = [validators EXCEPT ![v].undelegationShares = @ - ready,
                                                 ![v].undelegationTokens = @ - tokens]
             /\ balance' = balance - tokens
             /\ wallet' = [wallet EXCEPT ![d] = @ + tokens]
             /\ delegators' = [delegators EXCEPT
                    ![v][d].undelegations = SubSeq(queue, n + 1, Len(queue))]
  BY DEF CompleteUndelegate
<1> DEFINE tokens == ShareToToken(ready, val.undelegationTokens, val.undelegationShares)
           rest == SubSeq(queue, n + 1, Len(queue))
           new == [val EXCEPT !.undelegationShares = @ - ready, !.undelegationTokens = @ - tokens]
           del == [delegators[v][d] EXCEPT !.undelegations = rest]
<1>2. val \in Validator /\ delegators[v][d] \in Delegator /\ queue \in Seq(Undelegation)
  BY AccountTyped
<1>3. /\ delegators[v][d].shares \in Nat /\ QueuedShares(queue) \in Nat
      /\ val.tokens \in Nat /\ val.undelegationTokens \in Nat /\ val.undelegationShares \in Nat
      /\ val.shares \in Nat
      /\ bondedTokens \in Nat /\ balance \in Nat /\ drained \in Nat /\ forfeiture \in Nat
  BY AccountTyped
<1>4. ready \in Nat /\ ready <= val.undelegationShares
  BY <1>3
<1>5. tokens \in Nat
  BY <1>3, <1>4, ShareTypes
<1>6. QueuedShares(queue) = ready + QueuedShares(rest)
  BY <1>1, <1>2, QueueSplit
<1>7. /\ validators' = [validators EXCEPT ![v] = new]
      /\ delegators' = [delegators EXCEPT ![v][d] = del]
      /\ balance' = balance - tokens /\ tokens <= val.undelegationTokens
      /\ wallet' = [wallet EXCEPT ![d] = @ + tokens]
      /\ UNCHANGED <<bondedTokens, drained, forfeiture>>
  BY <1>1 DEF TypeOK, CompleteUndelegate
<1> HIDE DEF tokens, rest
<1>8. /\ new.tokens = val.tokens /\ new.shares = val.shares /\ new.status = val.status
      /\ new.undelegationTokens = val.undelegationTokens - tokens
      /\ new.undelegationShares = val.undelegationShares - ready
  BY <1>2 DEF Validator
<1>9. del.shares = delegators[v][d].shares /\ del.undelegations = rest
  BY <1>2 DEF Delegator
<1> HIDE DEF new, del
<1>10. validators'[v] = new /\ delegators'[v][d] = del
  BY <1>7 DEF TypeOK
<1>11. /\ \A u \in Addr \ {v} : SameAccount(u) /\ SameBond(u)
       /\ \A e \in Addr \ {d} : delegators'[v][e] = delegators[v][e]
  BY <1>7, OneRecord
<1>12. Held' - Held = Owed'[v] - Owed[v]
  <2>1. /\ Owed'[v] = val.tokens + (val.undelegationTokens - tokens)
        /\ Owed[v] = val.tokens + val.undelegationTokens
    BY <1>8, <1>10 DEF Owed
  <2>2. Held' = balance - tokens + drained - forfeiture
    BY <1>7 DEF Held
  <2>3. Held = balance + drained - forfeiture
    BY DEF Held
  <2> HIDE DEF val
  <2> QED
    BY <1>3, <1>5, <2>1, <2>2, <2>3
<1>13. BondedStake'[v] = BondedStake[v] /\ bondedTokens' = bondedTokens
  BY <1>7, <1>8, <1>10 DEF BondedStake
<1>14. BondedStake[v] \in Nat
  BY AccountTyped
<1>15. /\ validators'[v].shares - val.shares
            = delegators'[v][d].shares - delegators[v][d].shares
       /\ bondedTokens' - bondedTokens = BondedStake'[v] - BondedStake[v]
  <2>1. validators'[v].shares = val.shares /\ delegators'[v][d].shares = delegators[v][d].shares
    BY <1>8, <1>9, <1>10
  <2>2. val.shares \in Nat /\ delegators[v][d].shares \in Nat /\ bondedTokens \in Nat
    BY <1>3
  <2> HIDE DEF val
  <2>3. validators'[v].shares - val.shares = 0
    BY <2>1, <2>2
  <2>4. delegators'[v][d].shares - delegators[v][d].shares = 0
    BY <2>1, <2>2
  <2>5. bondedTokens' - bondedTokens = 0 /\ BondedStake'[v] - BondedStake[v] = 0
    BY <1>13, <1>14, <2>2
  <2> QED
    BY <2>3, <2>4, <2>5
<1>16. /\ validators'[v].undelegationShares - val.undelegationShares
            = QueuedShares(delegators'[v][d].undelegations) - QueuedShares(queue)
       /\ ready <= QueuedShares(queue)
       /\ QueuedShares(delegators'[v][d].undelegations) = QueuedShares(queue) - ready
  <2>1. QueuedShares(rest) \in Nat
    <3>1. \A i \in (n + 1)..Len(queue) : queue[i] \in Undelegation
      BY <1>2, ElementOfSeq
    <3>2. n + 1 \in Int /\ Len(queue) \in Int
      BY <1>2, LenProperties
    <3>3. rest \in Seq(Undelegation)
      BY <3>1, <3>2, SubSeqProperties DEF rest
    <3> QED
      BY <3>3, QueueTyped
  <2>2. /\ validators'[v].undelegationShares = val.undelegationShares - ready
        /\ delegators'[v][d].undelegations = rest
    BY <1>8, <1>9, <1>10
  <2>3. val.undelegationShares \in Nat /\ QueuedShares(queue) \in Nat /\ ready \in Nat
    BY <1>3, <1>4
  <2> HIDE DEF val, queue
  <2>4. validators'[v].undelegationShares - val.undelegationShares = 0 - ready
    BY <2>2, <2>3
  <2>5. /\ QueuedShares(rest) = QueuedShares(queue) - ready
        /\ QueuedShares(rest) - QueuedShares(queue) = 0 - ready
        /\ ready <= QueuedShares(queue)
    BY <1>6, <2>1, <2>3
  <2>6. QueuedShares(delegators'[v][d].undelegations) = QueuedShares(rest)
    BY <2>2
  <2> QED
    BY <2>4, <2>5, <2>6
<1>17. Completed(v, d)
  <2>1. ready \in 0..val.undelegationShares
    BY <1>3, <1>4
  <2> QED
    BY <1>7, <1>8, <1>9, <1>10, <1>16, <2>1 DEF Completed, tokens
<1> QED
  BY <1>11, <1>12, <1>15, <1>16, <1>17 DEF AccountStep

\* slash: what the collectors do not get is forfeited.
LEMMA SlashAccount ==
    ASSUME TypeOK, NEW req \in SlashRequests, NEW caller \in Addr, NEW signers,
           Slash(req, caller, signers)
    PROVE  /\ req.validator \in Addr /\ AccountStep(req.validator, req.validator)
           /\ Cut(req.validator, req.slashFactor) /\ req.slashFactor \in Nat
           /\ req.slashFactor <= params.MaxSlashFactor
<1> DEFINE v == req.validator
           val == validators[v]
           slashTokens == Slashed(val.tokens, req.slashFactor)
           slashQueued == Slashed(val.undelegationTokens, req.slashFactor)
           slashAmt == slashTokens + slashQueued
           after == [val EXCEPT !.tokens = @ - slashTokens,
                                !.undelegationTokens = @ - slashQueued]
           stays == /\ req.jailPeriod = 0
                    /\ HasMinRequiredTokens(after, delegators[v][v].shares, TRUE)
           bondBlock == IF req.jailPeriod > 0 THEN block + req.jailPeriod ELSE after.bondBlock
           new == [after EXCEPT !.bondBlock = bondBlock]
<1>1. /\ v \in Addr /\ req.slashFactor \in Nat /\ req.jailPeriod \in Nat
      /\ req.slashFactor <= SLASH_FACTOR_DECIMAL
  BY StakingAssumption DEF SlashRequest, Slash
<1>2. val \in Validator /\ block \in Nat
  BY <1>1 DEF TypeOK
<1>3. /\ val.tokens \in Nat /\ val.undelegationTokens \in Nat
      /\ val.shares \in Nat /\ val.undelegationShares \in Nat /\ delegators[v][v].shares \in Nat
      /\ QueuedShares(delegators[v][v].undelegations) \in Nat
      /\ balance \in Nat /\ drained \in Nat /\ forfeiture \in Nat
  BY <1>1, AccountTyped
<1>4. /\ slashTokens \in Nat /\ slashTokens <= val.tokens
      /\ slashQueued \in Nat /\ slashQueued <= val.undelegationTokens
  BY <1>1, <1>3, SlashedType
<1>5. UpdateBonded(v, new, slashTokens, stays) /\ UNCHANGED <<delegators, drained>>
  BY DEF Slash
<1>6. PICK collected \in 0..slashAmt :
         balance' = balance - collected /\ forfeiture' = forfeiture + (slashAmt - collected)
  BY DEF Slash
<1> HIDE DEF stays, slashTokens, slashQueued
<1>7. /\ after \in Validator /\ after.status = val.status
      /\ after.tokens = val.tokens - slashTokens
      /\ after.undelegationTokens = val.undelegationTokens - slashQueued
      /\ after.shares = val.shares /\ after.undelegationShares = val.undelegationShares
  <2> DEFINE t == val.tokens - slashTokens
             q == val.undelegationTokens - slashQueued
  <2>1. t \in Nat /\ q \in Nat
    BY <1>3, <1>4
  <2>2. after = [val EXCEPT !.tokens = t, !.undelegationTokens = q]
    OBVIOUS
  <2> HIDE DEF t, q, after, val
  <2>3. /\ after \in Validator /\ after.status = val.status
        /\ after.tokens = t /\ after.undelegationTokens = q
        /\ after.shares = val.shares /\ after.undelegationShares = val.undelegationShares
    BY <1>2, <2>1, <2>2 DEF Validator
  <2> QED
    BY <2>3 DEF t, q
<1> HIDE DEF after
<1>8. bondBlock \in Nat
  BY <1>1, <1>2, <1>7 DEF Validator
<1> HIDE DEF bondBlock
<1>9. /\ new \in Validator /\ new.status = after.status
      /\ new.tokens = after.tokens /\ new.undelegationTokens = after.undelegationTokens
      /\ new.shares = after.shares /\ new.undelegationShares = after.undelegationShares
  BY <1>7, <1>8 DEF Validator
<1> HIDE DEF new
<1>10. /\ validators'[v].tokens = val.tokens - slashTokens
       /\ validators'[v].undelegationTokens = val.undelegationTokens - slashQueued
       /\ validators'[v].shares = val.shares
       /\ validators'[v].undelegationShares = val.undelegationShares
       /\ \A u \in Addr \ {v} : validators'[u] = validators[u]
       /\ bondedTokens' - bondedTokens = BondedStake'[v] - BondedStake[v]
  BY <1>1, <1>4, <1>5, <1>7, <1>9, UpdateBondedAccount
<1>11. Held' - Held = Owed'[v] - Owed[v]
  <2>1. /\ Owed'[v] = (val.tokens - slashTokens) + (val.undelegationTokens - slashQueued)
        /\ Owed[v] = val.tokens + val.undelegationTokens
    BY <1>1, <1>10 DEF Owed
  <2>2. Held' = (balance - collected) + drained - (forfeiture + (slashAmt - collected))
    BY <1>5, <1>6 DEF Held
  <2>3. collected \in Int
    BY <1>4
  <2> QED
    BY <1>3, <1>4, <2>1, <2>2, <2>3 DEF Held
<1>12. /\ \A u \in Addr \ {v} : SameAccount(u) /\ SameBond(u)
       /\ \A e \in Addr \ {v} : delegators'[v][e] = delegators[v][e]
  BY <1>5, <1>10 DEF SameAccount, SameBond, BondedStake
<1>13. /\ validators'[v].shares - val.shares
            = delegators'[v][v].shares - delegators[v][v].shares
       /\ validators'[v].undelegationShares - val.undelegationShares
            = QueuedShares(delegators'[v][v].undelegations)
                - QueuedShares(delegators[v][v].undelegations)
  <2>1. delegators'[v][v] = delegators[v][v]
    BY <1>5
  <2> HIDE DEF v, val
  <2> QED
    BY <1>3, <1>10, <2>1
<1>14. Cut(v, req.slashFactor) /\ req.slashFactor <= params.MaxSlashFactor
  BY <1>10 DEF Cut, Slash, slashTokens, slashQueued
<1> QED
  BY <1>1, <1>10, <1>11, <1>12, <1>13, <1>14 DEF AccountStep

\* bondValidator: the stake joins the bonded set, or takes another's place.
LEMMA BondValidatorAccount ==
    ASSUME TypeOK, BondedListExact, NEW caller \in Addr, BondValidator(caller)
    PROVE  /\ \E v \in Addr : AccountStep(v, v) \/ \E out \in Addr : Swapped(v, out)
           /\ \A u \in Addr : SameAccount(u)
<1> DEFINE v == IF signerVals[caller] # ZeroAddr THEN signerVals[caller] ELSE caller
           in == SetBonded(validators[v])
<1>1. v \in Addr
  BY DEF TypeOK
<1>2. /\ validators[v].status # "Bonded"
      /\ BondDirectly(v) \/ BondByReplacing(v)
      /\ UNCHANGED <<delegators, balance, drained, forfeiture>>
  BY DEF BondValidator, funds
<1> HIDE DEF v
<1>3. /\ bondedTokens \in Nat /\ Held \in Int /\ Owed[v] \in Nat
      /\ validators[v].tokens \in Nat /\ validators[v].undelegationTokens \in Nat
      /\ validators[v].shares \in Nat /\ validators[v].undelegationShares \in Nat
      /\ delegators[v][v].shares \in Nat
      /\ QueuedShares(delegators[v][v].undelegations) \in Nat
      /\ validators[v] \in Validator
  BY <1>1, AccountTyped
<1>4. /\ in.status = "Bonded" /\ in.tokens = validators[v].tokens
      /\ in.undelegationTokens = validators[v].undelegationTokens
      /\ in.shares = validators[v].shares
      /\ in.undelegationShares = validators[v].undelegationShares
  BY <1>3 DEF SetBonded, Validator
<1>5. Held' = Held
  BY <1>2 DEF Held
<1>6. CASE BondDirectly(v)
  <2>1. /\ validators' = [validators EXCEPT ![v] = in]
        /\ bondedTokens' = bondedTokens + validators[v].tokens
    BY <1>1, <1>6 DEF BondDirectly, TypeOK
  <2> HIDE DEF in
  <2>2. validators'[v] = in
    BY <1>1, <2>1 DEF TypeOK
  <2>3. \A u \in Addr \ {v} : SameAccount(u) /\ SameBond(u)
    BY <1>1, <1>2, <2>1, OneValidator
  <2>4. /\ BondedStake'[v] = validators[v].tokens /\ BondedStake[v] = 0
        /\ Owed'[v] = Owed[v]
    BY <1>1, <1>2, <1>4, <2>2 DEF BondedStake, Owed
  <2>5. /\ validators'[v].shares = validators[v].shares
        /\ validators'[v].undelegationShares = validators[v].undelegationShares
        /\ delegators'[v] = delegators[v]
    BY <1>2, <1>4, <2>2
  <2>6. bondedTokens' - bondedTokens = BondedStake'[v] - BondedStake[v]
    BY <1>3, <2>1, <2>4
  <2>7. Held' - Held = Owed'[v] - Owed[v]
    BY <1>3, <1>5, <2>4
  <2>8. /\ validators'[v].shares - validators[v].shares
             = delegators'[v][v].shares - delegators[v][v].shares
        /\ validators'[v].undelegationShares - validators[v].undelegationShares
             = QueuedShares(delegators'[v][v].undelegations)
                 - QueuedShares(delegators[v][v].undelegations)
    BY <1>3, <2>5
  <2>9. AccountStep(v, v)
    BY <2>3, <2>5, <2>6, <2>7, <2>8 DEF AccountStep
  <2>10. SameAccount(v)
    BY <1>4, <2>2, <2>5 DEF SameAccount
  <2> QED
    BY <1>1, <2>3, <2>9, <2>10
<1>7. CASE BondByReplacing(v)
  <2>1. PICK i \in 1..Len(bondedValAddrs) :
           /\ bondedTokens' = bondedTokens - validators[bondedValAddrs[i]].tokens
                                + validators[v].tokens
           /\ validators' = [validators EXCEPT
                 ![bondedValAddrs[i]] = SetUnbonding(validators[bondedValAddrs[i]]),
                 ![v] = SetBonded(validators[v])]
    BY <1>7 DEF BondByReplacing
  <2> DEFINE out == bondedValAddrs[i]
             gone == SetUnbonding(validators[out])
  <2>2. out \in Addr /\ validators[out].status = "Bonded" /\ out # v
    <3>1. out \in Addr
      BY ElementOfSeq DEF TypeOK
    <3>2. IsBonded(out)
      BY DEF IsBonded
    <3> QED
      BY <1>2, <3>1, <3>2 DEF BondedListExact
  <2>3. /\ validators' = [validators EXCEPT ![out] = gone, ![v] = in]
        /\ bondedTokens' = bondedTokens - validators[out].tokens + validators[v].tokens
    BY <2>1
  <2>4. /\ gone.status # "Bonded" /\ gone.tokens = validators[out].tokens
        /\ gone.undelegationTokens = validators[out].undelegationTokens
        /\ gone.shares = validators[out].shares
        /\ gone.undelegationShares = validators[out].undelegationShares
    BY <2>2, AccountTyped DEF SetUnbonding, Validator
  <2> HIDE DEF in, gone, out
  <2>5. /\ validators'[v] = in /\ validators'[out] = gone
        /\ \A u \in Addr \ {v, out} : validators'[u] = validators[u]
    BY <1>1, <2>2, <2>3 DEF TypeOK
  <2>6. \A u \in Addr : SameAccount(u)
    BY <1>2, <1>4, <2>4, <2>5 DEF SameAccount
  <2>7. \A u \in Addr \ {v, out} : SameBond(u)
    BY <2>5 DEF SameBond, BondedStake
  <2>8. Swapped(v, out)
    BY <1>2, <1>4, <1>5, <2>2, <2>3, <2>4, <2>5, <2>6, <2>7 DEF Swapped
  <2> QED
    BY <1>1, <2>2, <2>6, <2>8
<1> QED
  BY <1>2, <1>6, <1>7

\* The steps on a validator's terms, the funds, the parameters and the clock.
LEMMA TermsAccount ==
    ASSUME TypeOK, NEW v \in Addr,
           \/ \E s \in Signers : UpdateValidatorSigner(v, s)
           \/ \E r \in CommissionRates : UpdateCommissionRate(v, r)
           \/ \E m \in Stakes : UpdateMinSelfDelegation(v, m)
           \/ ConfirmUnbondedValidator(v)
    PROVE  Untouched
<1>1. UNCHANGED <<delegators, balance, drained, forfeiture, bondedTokens>>
  BY DEF UpdateValidatorSigner, UpdateCommissionRate, UpdateMinSelfDelegation,
         ConfirmUnbondedValidator, funds
<1>2. validators[v] \in Validator
  BY AccountTyped
<1>3. \E val : /\ validators' = [validators EXCEPT ![v] = val]
               /\ val.tokens = validators[v].tokens
               /\ val.undelegationTokens = validators[v].undelegationTokens
               /\ val.shares = validators[v].shares
               /\ val.undelegationShares = validators[v].undelegationShares
               /\ val.status = "Bonded" <=> validators[v].status = "Bonded"
  <2>1. ASSUME NEW s, UpdateValidatorSigner(v, s)
        PROVE  validators' = [validators EXCEPT ![v] = [validators[v] EXCEPT !.signer = s]]
    BY <2>1 DEF UpdateValidatorSigner, TypeOK
  <2>2. ASSUME NEW r, UpdateCommissionRate(v, r)
        PROVE  validators' = [validators EXCEPT ![v] = [validators[v] EXCEPT !.commissionRate = r]]
    BY <2>2 DEF UpdateCommissionRate, TypeOK
  <2>3. ASSUME NEW m, UpdateMinSelfDelegation(v, m)
        PROVE  \E b : validators' = [validators EXCEPT
                          ![v] = [validators[v] EXCEPT !.minSelfDelegation = m, !.bondBlock = b]]
    <3> DEFINE b == IF m < validators[v].minSelfDelegation
                    THEN block + params.AdvanceNoticePeriod ELSE validators[v].bondBlock
    <3>1. validators' = [validators EXCEPT
              ![v] = [validators[v] EXCEPT !.minSelfDelegation = m, !.bondBlock = b]]
      BY <2>3 DEF UpdateMinSelfDelegation, TypeOK
    <3> HIDE DEF b
    <3> QED
      BY <3>1
  <2>4. ASSUME ConfirmUnbondedValidator(v)
        PROVE  /\ validators' = [validators EXCEPT ![v] =
                     [validators[v] EXCEPT !.status = "Unbonded", !.unbondBlock = 0]]
               /\ validators[v].status # "Bonded"
    BY <2>4 DEF ConfirmUnbondedValidator, TypeOK
  <2>5. CASE \E s \in Signers : UpdateValidatorSigner(v, s)
    <3>1. PICK s : validators' = [validators EXCEPT ![v] = [validators[v] EXCEPT !.signer = s]]
      BY <2>1, <2>5
    <3> DEFINE val == [validators[v] EXCEPT !.signer = s]
    <3>2. /\ val.tokens = validators[v].tokens /\ val.status = validators[v].status
          /\ val.undelegationTokens = validators[v].undelegationTokens
          /\ val.shares = validators[v].shares
          /\ val.undelegationShares = validators[v].undelegationShares
      BY <1>2 DEF Validator
    <3> HIDE DEF val
    <3> QED
      BY <3>1, <3>2 DEF val
  <2>6. CASE \E r \in CommissionRates : UpdateCommissionRate(v, r)
    <3>1. PICK r : validators' = [validators EXCEPT
                                    ![v] = [validators[v] EXCEPT !.commissionRate = r]]
      BY <2>2, <2>6
    <3> DEFINE val == [validators[v] EXCEPT !.commissionRate = r]
    <3>2. /\ val.tokens = validators[v].tokens /\ val.status = validators[v].status
          /\ val.undelegationTokens = validators[v].undelegationTokens
          /\ val.shares = validators[v].shares
          /\ val.undelegationShares = validators[v].undelegationShares
      BY <1>2 DEF Validator
    <3> HIDE DEF val
    <3> QED
      BY <3>1, <3>2 DEF val
  <2>7. CASE \E m \in Stakes : UpdateMinSelfDelegation(v, m)
    <3>1. PICK m, b : validators' = [validators EXCEPT
              ![v] = [validators[v] EXCEPT !.minSelfDelegation = m, !.bondBlock = b]]
      BY <2>3, <2>7
    <3> DEFINE val == [validators[v] EXCEPT !.minSelfDelegation = m, !.bondBlock = b]
    <3>2. /\ val.tokens = validators[v].tokens /\ val.status = validators[v].status
          /\ val.undelegationTokens = validators[v].undelegationTokens
          /\ val.shares = validators[v].shares
          /\ val.undelegationShares = validators[v].undelegationShares
      BY <1>2 DEF Validator
    <3> HIDE DEF val
    <3> QED
      BY <3>1, <3>2 DEF val
  <2>8. CASE ConfirmUnbondedValidator(v)
    <3> DEFINE val == [validators[v] EXCEPT !.status = "Unbonded", !.unbondBlock = 0]
    <3>1. validators' = [validators EXCEPT ![v] = val] /\ validators[v].status # "Bonded"
      BY <2>4, <2>8
    <3>2. /\ val.tokens = validators[v].tokens /\ val.status = "Unbonded"
          /\ val.undelegationTokens = validators[v].undelegationTokens
          /\ val.shares = validators[v].shares
          /\ val.undelegationShares = validators[v].undelegationShares
      BY <1>2 DEF Validator
    <3> HIDE DEF val
    <3> QED
      BY <3>1, <3>2
  <2> QED
    BY <2>5, <2>6, <2>7, <2>8
<1>4. PICK val : /\ validators' = [validators EXCEPT ![v] = val]
                 /\ val.tokens = validators[v].tokens
                 /\ val.undelegationTokens = validators[v].undelegationTokens
                 /\ val.shares = validators[v].shares
                 /\ val.undelegationShares = validators[v].undelegationShares
                 /\ val.status = "Bonded" <=> validators[v].status = "Bonded"
  BY <1>3
<1>5. validators'[v] = val
  BY <1>4 DEF TypeOK
<1>6. \A u \in Addr \ {v} : SameAccount(u) /\ SameBond(u)
  BY <1>1, <1>4, OneValidator
<1>7. SameAccount(v) /\ SameBond(v)
  BY <1>1, <1>4, <1>5 DEF SameAccount, SameBond, BondedStake
<1> QED
  BY <1>1, <1>6, <1>7 DEF Untouched, Held

\* A step that leaves every account alone and what the contract owns and forfeits.
LEMMA RestUntouched ==
    ASSUME UNCHANGED <<validators, delegators, bondedTokens, Held>>
    PROVE  Untouched
BY DEF Untouched, SameAccount, SameBond, BondedStake

\* The owner's and governance's steps and the clock touch no account.
LEMMA OtherStepsAccount ==
    ASSUME TypeOK, CollectForfeiture \/ OwnerStep \/ NextBlock \/ GovernStep \/ UNCHANGED vars
    PROVE  Untouched
<1>1. balance \in Nat /\ drained \in Nat /\ forfeiture \in Nat
  BY DEF TypeOK
<1>2. UNCHANGED <<validators, delegators, bondedTokens>>
  BY DEF CollectForfeiture, OwnerStep, SetMaxSlashFactor, SetPaused, DrainToken, NextBlock,
         GovernStep, SetParamValue, vars, accounts
<1>3. CASE CollectForfeiture
  BY <1>1, <1>2, <1>3, RestUntouched DEF CollectForfeiture, Held
<1>4. CASE OwnerStep
  <2>1. CASE \E amount \in Amounts : DrainToken(amount)
    <3>1. PICK amount \in Amounts : DrainToken(amount)
      BY <2>1
    <3>2. /\ amount \in Nat /\ balance' = balance - amount /\ drained' = drained + amount
          /\ forfeiture' = forfeiture
      BY <3>1, StakingAssumption DEF DrainToken
    <3>3. Held' = Held
      BY <1>1, <3>2 DEF Held
    <3> QED
      BY <1>2, <3>3, RestUntouched
  <2> QED
    BY <1>2, <1>4, <2>1, RestUntouched
       DEF OwnerStep, SetMaxSlashFactor, SetPaused, funds, Held
<1>5. CASE NextBlock \/ GovernStep \/ UNCHANGED vars
  BY <1>2, <1>5, RestUntouched DEF NextBlock, GovernStep, SetParamValue, vars, funds, Held
<1> QED
  BY <1>3, <1>4, <1>5

\* The kinds of steps.
BooksStep == \/ Untouched
             \/ \E v \in Addr, d \in Addr : AccountStep(v, d) \/ Swapped(v, d)

\* Every step touches no account or one, or replaces one bonded validator by another.
LEMMA StepBooks ==
    ASSUME TypeOK, BondedListExact, [Next]_vars
    PROVE  BooksStep
<1>1. CASE ValidatorStep
  BY <1>1, InitializeValidatorAccount, BondValidatorAccount, TermsAccount
     DEF ValidatorStep, BooksStep
<1>2. CASE DelegatorStep
  BY <1>2, DelegateAccount, UndelegateAmount, UndelegateAccount, CompleteUndelegateAccount
     DEF DelegatorStep, BooksStep
<1>3. CASE SlashStep
  BY <1>3, SlashAccount, OtherStepsAccount DEF SlashStep, BooksStep
<1>4. CASE OwnerStep \/ NextBlock \/ GovernStep \/ UNCHANGED vars
  BY <1>4, OtherStepsAccount DEF BooksStep
<1> QED
  BY <1>1, <1>2, <1>3, <1>4 DEF Next, StakingStep

-----------------------------------------------------------------------------
(* What the contract owns and what it owes *)

\* Every amount is a natural number, before a step and after it.
Numbers ==
    /\ balance \in Nat /\ drained \in Nat /\ forfeiture \in Nat /\ bondedTokens \in Nat
    /\ \A v \in Addr : /\ Owed[v] \in Nat /\ BondedStake[v] \in Nat
                      /\ validators[v].shares \in Nat
                      /\ validators[v].undelegationShares \in Nat
    /\ \A v, d \in Addr : SharesIn(v)[d] \in Nat /\ QueuedIn(v)[d] \in Nat

\* The terms of the totals are naturals.
LEMMA NumbersTyped == TypeOK => Numbers
<1> SUFFICES ASSUME TypeOK PROVE Numbers
  OBVIOUS
<1>1. \A v, d \in Addr : /\ Owed[v] \in Nat /\ BondedStake[v] \in Nat
                         /\ validators[v].shares \in Nat
                         /\ validators[v].undelegationShares \in Nat
                         /\ delegators[v][d].shares \in Nat
                         /\ QueuedShares(delegators[v][d].undelegations) \in Nat
  BY AccountTyped
<1>2. balance \in Nat /\ drained \in Nat /\ forfeiture \in Nat /\ bondedTokens \in Nat
  BY DEF TypeOK
<1> QED
  BY <1>1, <1>2 DEF Numbers, SharesIn, QueuedIn

\* And so after a step.
LEMMA NumbersNext == TypeOK' => Numbers'
BY NumbersTyped, PTL

\* The quorum's base, summed over all validators instead of the bonded ones.
BondedTotals ==
    SumFunctionOnSet([v \in Addr |-> validators[v].tokens], BondedSet)
      = SumFunctionOnSet(BondedStake, Addr)

\* The bonded tokens as a sum over all validators.
LEMMA BondedSum == TypeOK => BondedTotals
<1> SUFFICES ASSUME TypeOK PROVE BondedTotals
  OBVIOUS
<1>1. /\ \A v \in Addr : Stake[v] \in Int /\ BondedStake[v] \in Int
      /\ \A v \in BondedSet : Stake[v] = BondedStake[v]
      /\ \A v \in Addr \ BondedSet : BondedStake[v] = 0
  <2>1. \A v \in Addr : Stake[v] \in Int /\ BondedStake[v] \in Int
    BY AccountTyped
  <2> QED
    BY <2>1 DEF Stake, BondedStake, BondedSet
<1>2. BondedSet \in SUBSET Addr /\ IsFiniteSet(Addr) /\ IsFiniteSet(BondedSet)
  BY FS_Subset, StakingAssumption DEF BondedSet
<1> DEFINE f == Stake
           g == BondedStake
<1>3. f = [v \in Addr |-> validators[v].tokens]
  BY DEF Stake
<1> HIDE DEF f, g
<1>4. SumFunctionOnSet(f, BondedSet) = SumFunctionOnSet(g, BondedSet)
  BY <1>1, <1>2, SumSame DEF f, g
<1>5. SumFunctionOnSet(g, Addr) = SumFunctionOnSet(g, BondedSet)
  <2>1. (\A v \in BondedSet : g[v] \in Int) /\ \A v \in Addr \ BondedSet : g[v] = 0
    BY <1>1, <1>2 DEF g
  <2> QED
    BY <1>2, <2>1, SumNonzero
<1> QED
  BY <1>3, <1>4, <1>5 DEF g, BondedTotals

\* And so after a step.
LEMMA BondedSumNext == TypeOK' => BondedTotals'
BY BondedSum, PTL

\* The contract is solvent when what it holds is what it owes.
HeldIsOwed == Solvency <=> Held = SumFunctionOnSet(Owed, Addr)

\* What is owed, as a sum over all validators.
LEMMA HeldOwed == TypeOK => HeldIsOwed
<1> SUFFICES ASSUME TypeOK PROVE HeldIsOwed
  OBVIOUS
<1> DEFINE owed == SumFunctionOnSet(Owed, Addr)
<1>1. Solvency <=> balance + drained = forfeiture + owed
  BY DEF Solvency, Owed
<1>2. owed \in Int
  BY NumbersTyped, StakingAssumption, SumInt DEF Numbers
<1>3. balance \in Int /\ drained \in Int /\ forfeiture \in Int
  BY DEF TypeOK
<1> HIDE DEF owed
<1>4. balance + drained = forfeiture + owed <=> Held = owed
  BY <1>2, <1>3 DEF Held
<1> QED
  BY <1>1, <1>4 DEF HeldIsOwed, owed

\* And so after a step.
LEMMA HeldOwedNext == TypeOK' => HeldIsOwed'
BY HeldOwed, PTL

\* A total that moves with one term of a sum stays that sum.
LEMMA TotalFollows ==
    ASSUME NEW f, NEW g, NEW e \in Addr, \A u \in Addr : f[u] \in Int /\ g[u] \in Int,
           \A u \in Addr \ {e} : f[u] = g[u]
    PROVE  \A s, t \in Int : s = SumFunctionOnSet(f, Addr) /\ t - s = g[e] - f[e]
                                => t = SumFunctionOnSet(g, Addr)
<1>1. SumFunctionOnSet(g, Addr) = SumFunctionOnSet(f, Addr) - f[e] + g[e]
  BY StakingAssumption, SumChange
<1>2. f[e] \in Int /\ g[e] \in Int
  OBVIOUS
<1> QED
  BY <1>1, <1>2

\* A step whose account changes by what the contract gains keeps it solvent.
LEMMA SolvencyStep ==
    ASSUME TypeOK, TypeOK', Solvency, BooksStep
    PROVE  Solvency'
<1> DEFINE f == Owed
           g == Owed'
<1>1. /\ \A u \in Addr : f[u] \in Int /\ g[u] \in Int
      /\ IsFiniteSet(Addr)
  BY NumbersTyped, NumbersNext, StakingAssumption DEF Numbers
<1>2. Held \in Int /\ Held' \in Int
  BY DEF TypeOK, Held
<1>3. Held = SumFunctionOnSet(f, Addr)
  BY HeldOwed DEF HeldIsOwed
<1>4. ASSUME NEW u \in Addr, SameAccount(u)
      PROVE  f[u] = g[u]
  BY <1>4 DEF SameAccount, Owed
<1>5. ASSUME Held' = Held, \A u \in Addr : SameAccount(u)
      PROVE  Held' = SumFunctionOnSet(g, Addr)
  <2>1. \A u \in Addr : f[u] = g[u]
    BY <1>4, <1>5
  <2> HIDE DEF f, g
  <2>2. SumFunctionOnSet(f, Addr) = SumFunctionOnSet(g, Addr)
    BY <1>1, <2>1, SumSame
  <2> QED
    BY <1>3, <1>5, <2>2
<1>6. ASSUME NEW v \in Addr, NEW d \in Addr, AccountStep(v, d)
      PROVE  Held' = SumFunctionOnSet(g, Addr)
  <2>1. \A u \in Addr \ {v} : f[u] = g[u]
    BY <1>4, <1>6 DEF AccountStep
  <2>2. Held' - Held = g[v] - f[v]
    BY <1>6 DEF AccountStep
  <2> HIDE DEF f, g
  <2>3. \A s, t \in Int : s = SumFunctionOnSet(f, Addr) /\ t - s = g[v] - f[v]
                             => t = SumFunctionOnSet(g, Addr)
    BY <1>1, <2>1, TotalFollows
  <2> QED
    BY <1>2, <1>3, <2>2, <2>3
<1>7. Held' = SumFunctionOnSet(g, Addr)
  BY <1>5, <1>6 DEF BooksStep, Untouched, Swapped
<1> QED
  BY <1>7, HeldOwedNext DEF HeldIsOwed

\* A step that bonds, unbonds or moves stake keeps the quorum's base exact.
LEMMA BondedTokensStep ==
    ASSUME TypeOK, TypeOK', BondedTokensExact, BooksStep
    PROVE  BondedTokensExact'
<1> DEFINE f == BondedStake
           g == BondedStake'
<1>1. /\ \A u \in Addr : f[u] \in Int /\ g[u] \in Int
      /\ bondedTokens \in Nat /\ bondedTokens' \in Nat
  <2>1. \A u \in Addr : BondedStake[u] \in Int /\ BondedStake'[u] \in Int
    BY NumbersTyped, NumbersNext DEF Numbers
  <2> QED
    BY <2>1 DEF TypeOK
<1>2. IsFiniteSet(Addr)
  BY StakingAssumption
<1>3. bondedTokens = SumFunctionOnSet(f, Addr)
  BY BondedSum DEF BondedTokensExact, BondedTotals
<1>4. ASSUME bondedTokens' = SumFunctionOnSet(g, Addr)
      PROVE  BondedTokensExact'
  BY <1>4, BondedSumNext DEF BondedTokensExact, BondedTotals
<1>5. CASE Untouched
  <2>1. (\A u \in Addr : f[u] = g[u]) /\ bondedTokens' = bondedTokens
    BY <1>5 DEF Untouched, SameBond
  <2> HIDE DEF f, g
  <2>2. SumFunctionOnSet(f, Addr) = SumFunctionOnSet(g, Addr)
    BY <1>2, <2>1, SumSame
  <2> QED
    BY <1>3, <1>4, <2>1, <2>2
<1>6. ASSUME NEW v \in Addr, NEW d \in Addr, AccountStep(v, d)
      PROVE  BondedTokensExact'
  <2>1. \A u \in Addr \ {v} : f[u] = g[u]
    BY <1>6 DEF AccountStep, SameBond
  <2>2. bondedTokens' - bondedTokens = g[v] - f[v]
    BY <1>6 DEF AccountStep
  <2> HIDE DEF f, g
  <2>3. \A s, t \in Int : s = SumFunctionOnSet(f, Addr) /\ t - s = g[v] - f[v]
                             => t = SumFunctionOnSet(g, Addr)
    BY <1>1, <2>1, TotalFollows
  <2>4. bondedTokens' = SumFunctionOnSet(g, Addr)
    BY <1>1, <1>3, <2>2, <2>3
  <2> QED
    BY <1>4, <2>4
<1>7. ASSUME NEW v \in Addr, NEW out \in Addr, Swapped(v, out)
      PROVE  BondedTokensExact'
  <2>1. v # out /\ \A u \in Addr \ {v, out} : f[u] = g[u]
    BY <1>7 DEF Swapped, SameBond
  <2>2. /\ f[v] = 0 /\ g[v] = validators[v].tokens
        /\ f[out] = validators[out].tokens /\ g[out] = 0
    BY <1>7 DEF Swapped, SameAccount, BondedStake
  <2>3. bondedTokens' = bondedTokens - validators[out].tokens + validators[v].tokens
    BY <1>7 DEF Swapped
  <2> HIDE DEF f, g
  <2> DEFINE h == [u \in Addr |-> IF u = v THEN g[v] ELSE f[u]]
  <2>4. /\ h[v] = g[v] /\ h[out] = f[out] /\ \A u \in Addr : h[u] \in Int
        /\ \A u \in Addr \ {v} : f[u] = h[u]
        /\ \A u \in Addr \ {out} : h[u] = g[u]
    BY <1>1, <2>1
  <2> HIDE DEF h
  <2>5. SumFunctionOnSet(h, Addr) = SumFunctionOnSet(f, Addr) - f[v] + h[v]
    BY <1>1, <1>2, <2>4, SumChange
  <2>6. SumFunctionOnSet(g, Addr) = SumFunctionOnSet(h, Addr) - h[out] + g[out]
    BY <1>1, <1>2, <2>4, SumChange
  <2>7. validators[v].tokens \in Nat /\ validators[out].tokens \in Nat
    BY AccountTyped
  <2>8. bondedTokens' = SumFunctionOnSet(g, Addr)
    BY <1>1, <1>3, <2>2, <2>3, <2>4, <2>5, <2>6, <2>7
  <2> QED
    BY <1>4, <2>8
<1> HIDE DEF f, g
<1> QED
  BY <1>5, <1>6, <1>7 DEF BooksStep

\* A step changes a validator's totals by what it changes of one delegator's.
LEMMA SharesStep ==
    ASSUME TypeOK, TypeOK', SharesExact, BooksStep
    PROVE  SharesExact'
<1> SUFFICES ASSUME NEW v \in Addr
             PROVE  /\ validators'[v].shares = SumFunctionOnSet(SharesIn(v)', Addr)
                    /\ validators'[v].undelegationShares = SumFunctionOnSet(QueuedIn(v)', Addr)
  BY DEF SharesExact, SharesIn, QueuedIn
<1> DEFINE f == SharesIn(v)
           g == SharesIn(v)'
           p == QueuedIn(v)
           q == QueuedIn(v)'
<1>1. /\ \A d \in Addr : f[d] \in Int /\ g[d] \in Int /\ p[d] \in Int /\ q[d] \in Int
      /\ validators[v].shares \in Int /\ validators[v].undelegationShares \in Int
      /\ validators'[v].shares \in Int /\ validators'[v].undelegationShares \in Int
  BY NumbersTyped, NumbersNext DEF Numbers
<1>2. IsFiniteSet(Addr)
  BY StakingAssumption
<1>3. /\ validators[v].shares = SumFunctionOnSet(f, Addr)
      /\ validators[v].undelegationShares = SumFunctionOnSet(p, Addr)
  BY DEF SharesExact, SharesIn, QueuedIn
<1>4. CASE SameAccount(v)
  <2>1. \A d \in Addr : f[d] = g[d] /\ p[d] = q[d]
    BY <1>4 DEF SameAccount, SharesIn, QueuedIn
  <2>2. /\ validators'[v].shares = validators[v].shares
        /\ validators'[v].undelegationShares = validators[v].undelegationShares
    BY <1>4 DEF SameAccount
  <2> HIDE DEF f, g, p, q
  <2>3. SumFunctionOnSet(f, Addr) = SumFunctionOnSet(g, Addr)
    BY <1>2, <2>1, SumSame
  <2>4. SumFunctionOnSet(p, Addr) = SumFunctionOnSet(q, Addr)
    BY <1>2, <2>1, SumSame
  <2>5. /\ validators'[v].shares = SumFunctionOnSet(g, Addr)
        /\ validators'[v].undelegationShares = SumFunctionOnSet(q, Addr)
    BY <1>3, <2>2, <2>3, <2>4
  <2> QED
    BY <2>5 DEF g, q
<1>5. ASSUME NEW d \in Addr, AccountStep(v, d)
      PROVE  /\ validators'[v].shares = SumFunctionOnSet(g, Addr)
             /\ validators'[v].undelegationShares = SumFunctionOnSet(q, Addr)
  <2>1. \A e \in Addr \ {d} : f[e] = g[e] /\ p[e] = q[e]
    BY <1>5 DEF AccountStep, SharesIn, QueuedIn
  <2>2. /\ validators'[v].shares - validators[v].shares = g[d] - f[d]
        /\ validators'[v].undelegationShares - validators[v].undelegationShares = q[d] - p[d]
    BY <1>5 DEF AccountStep, SharesIn, QueuedIn
  <2> HIDE DEF f, g, p, q
  <2>3. \A s, t \in Int : s = SumFunctionOnSet(f, Addr) /\ t - s = g[d] - f[d]
                             => t = SumFunctionOnSet(g, Addr)
    <3>1. /\ \A e \in Addr : f[e] \in Int /\ g[e] \in Int
          /\ \A e \in Addr \ {d} : f[e] = g[e]
      BY <1>1, <2>1
    <3> QED
      BY <3>1, TotalFollows
  <2>4. \A s, t \in Int : s = SumFunctionOnSet(p, Addr) /\ t - s = q[d] - p[d]
                             => t = SumFunctionOnSet(q, Addr)
    <3>1. /\ \A e \in Addr : p[e] \in Int /\ q[e] \in Int
          /\ \A e \in Addr \ {d} : p[e] = q[e]
      BY <1>1, <2>1
    <3> QED
      BY <3>1, TotalFollows
  <2>5. validators'[v].shares = SumFunctionOnSet(g, Addr)
    BY <1>1, <1>3, <2>2, <2>3
  <2>6. validators'[v].undelegationShares = SumFunctionOnSet(q, Addr)
    BY <1>1, <1>3, <2>2, <2>4
  <2> QED
    BY <2>5, <2>6
<1>6. SameAccount(v) \/ \E d \in Addr : AccountStep(v, d)
  BY DEF BooksStep, Untouched, Swapped, AccountStep
<1> QED
  BY <1>4, <1>5, <1>6

\* At the start nothing is owned, owed or delegated.
LEMMA BooksInit == Init => Solvency /\ BondedTokensExact /\ SharesExact
<1> SUFFICES ASSUME Init PROVE Solvency /\ BondedTokensExact /\ SharesExact
  OBVIOUS
<1>1. IsFiniteSet(Addr) /\ TypeOK
  BY TypeInit, StakingAssumption
<1>2. \A v \in Addr : /\ validators[v].tokens = 0 /\ validators[v].undelegationTokens = 0
                      /\ validators[v].shares = 0 /\ validators[v].undelegationShares = 0
                      /\ validators[v].status = "Null"
  BY DEF Init, NullValidator
<1>3. \A v, d \in Addr : /\ delegators[v][d].shares = 0
                         /\ delegators[v][d].undelegations = <<>>
  BY DEF Init
<1>4. Solvency
  <2>1. \A v \in Addr : Owed[v] = 0
    BY <1>2 DEF Owed
  <2>2. SumFunctionOnSet(Owed, Addr) = 0
    BY <1>1, <2>1, SumZero
  <2>3. balance = 0 /\ drained = 0 /\ forfeiture = 0
    BY DEF Init
  <2> QED
    BY <2>2, <2>3 DEF Solvency, Owed
<1>5. BondedTokensExact
  <2>1. \A v \in Addr : BondedStake[v] = 0
    BY <1>2 DEF BondedStake
  <2>2. SumFunctionOnSet(BondedStake, Addr) = 0
    BY <1>1, <2>1, SumZero
  <2>3. bondedTokens = 0
    BY DEF Init
  <2> QED
    BY <1>1, <2>2, <2>3, BondedSum DEF BondedTokensExact, BondedTotals
<1>6. ASSUME NEW v \in Addr
      PROVE  /\ validators[v].shares = SumFunctionOnSet(SharesIn(v), Addr)
             /\ validators[v].undelegationShares = SumFunctionOnSet(QueuedIn(v), Addr)
  <2>1. \A d \in Addr : SharesIn(v)[d] = 0 /\ QueuedIn(v)[d] = 0
    BY <1>3, QueueEmpty DEF SharesIn, QueuedIn
  <2>2. SumFunctionOnSet(SharesIn(v), Addr) = 0
    BY <1>1, <2>1, SumZero
  <2>3. SumFunctionOnSet(QueuedIn(v), Addr) = 0
    BY <1>1, <2>1, SumZero
  <2> QED
    BY <1>2, <2>2, <2>3
<1> QED
  BY <1>4, <1>5, <1>6 DEF SharesExact, SharesIn, QueuedIn

\* The contract owns exactly what it owes: through delegations, undelegations that
\* round, slashes that share out and forfeit, and what the owner drains, its
\* balance is the stakes, the queued undelegations and the forfeiture.
THEOREM SolvencyCorrect == Spec => []Solvency
<1>1. Init => Solvency
  BY BooksInit
<1>2. TypeOK /\ TypeOK' /\ BondedListExact /\ Solvency /\ [Next]_vars => Solvency'
  BY StepBooks, SolvencyStep
<1> QED
  BY <1>1, <1>2, TypeCorrect, BondedListCorrect, PTL DEF Spec

\* The base of the quorum is the stake of exactly the validators now bonded,
\* whichever way a validator or its stake joined or left the bonded set.
THEOREM BondedTokensCorrect == Spec => []BondedTokensExact
<1>1. Init => BondedTokensExact
  BY BooksInit
<1>2. TypeOK /\ TypeOK' /\ BondedListExact /\ BondedTokensExact /\ [Next]_vars
        => BondedTokensExact'
  BY StepBooks, BondedTokensStep
<1> QED
  BY <1>1, <1>2, TypeCorrect, BondedListCorrect, PTL DEF Spec

\* The shares a validator counts are those its delegators hold and have queued:
\* no share is lost or made, rounding and dropped residuals included.
THEOREM SharesCorrect == Spec => []SharesExact
<1>1. Init => SharesExact
  BY BooksInit
<1>2. TypeOK /\ TypeOK' /\ BondedListExact /\ SharesExact /\ [Next]_vars => SharesExact'
  BY StepBooks, SharesStep
<1> QED
  BY <1>1, <1>2, TypeCorrect, BondedListCorrect, PTL DEF Spec

-----------------------------------------------------------------------------
(* Quorums *)

\* The bonded validators that some signers sign for.
BondedSigners(signers) ==
    {s \in signers : signerVals[s] # ZeroAddr /\ validators[signerVals[s]].status = "Bonded"}
SignedFor(signers) == {signerVals[s] : s \in BondedSigners(signers)}

\* No two signers sign for one validator: what the contract sums over signers is
\* the stake of the validators they stand for.
LEMMA SignedStake ==
    ASSUME TypeOK, SignerRegistry, NEW signers \in SUBSET Addr
    PROVE  /\ SignedFor(signers) \in SUBSET BondedSet
           /\ SignedTokens(signers) = SumFunctionOnSet(Stake, SignedFor(signers))
<1> DEFINE S == BondedSigners(signers)
           f == [s \in S |-> validators[signerVals[s]].tokens]
           g == signerVals
           h == Stake
<1>1. S \in SUBSET Addr /\ IsFiniteSet(S)
  BY FS_Subset, StakingAssumption DEF BondedSigners
<1>2. \A s \in S : /\ g[s] \in Addr /\ validators[g[s]].status = "Bonded"
                   /\ validators[g[s]].signer = s
  BY <1>1 DEF BondedSigners, TypeOK, SignerRegistry
<1>3. \A s \in S : f[s] \in Int /\ f[s] = h[g[s]]
  BY <1>2, AccountTyped DEF Stake
<1>4. \A r, s \in S : g[r] = g[s] => r = s
  BY <1>2
<1>5. SignedTokens(signers) = SumFunctionOnSet(f, S)
  BY DEF SignedTokens, BondedSigners
<1>6. SignedFor(signers) = {g[s] : s \in S}
  BY DEF SignedFor
<1>7. SignedFor(signers) \in SUBSET BondedSet
  BY <1>2, <1>6 DEF BondedSet
<1> HIDE DEF S, f, g, h
<1>8. SumFunctionOnSet(h, {g[s] : s \in S}) = SumFunctionOnSet(f, S)
  BY <1>1, <1>3, <1>4, SumReindex
<1> QED
  BY <1>5, <1>6, <1>7, <1>8 DEF h

\* Who signs in both of two sets signs for the validators of both.
LEMMA SignedForBoth ==
    ASSUME TypeOK, SignerRegistry, NEW a \in SUBSET Addr, NEW b \in SUBSET Addr
    PROVE  SignedFor(a \cap b) = SignedFor(a) \cap SignedFor(b)
<1>1. \A s \in Addr : signerVals[s] # ZeroAddr => validators[signerVals[s]].signer = s
  BY DEF SignerRegistry
<1>2. ASSUME NEW v \in SignedFor(a) \cap SignedFor(b)
      PROVE  v \in SignedFor(a \cap b)
  <2>1. PICK s \in BondedSigners(a) : v = signerVals[s]
    BY <1>2 DEF SignedFor
  <2>2. PICK r \in BondedSigners(b) : v = signerVals[r]
    BY <1>2 DEF SignedFor
  <2>3. s = r
    BY <1>1, <2>1, <2>2 DEF BondedSigners
  <2>4. s \in BondedSigners(a \cap b)
    BY <2>3 DEF BondedSigners
  <2> QED
    BY <2>1, <2>4 DEF SignedFor
<1>3. SignedFor(a \cap b) \subseteq SignedFor(a) \cap SignedFor(b)
  BY DEF SignedFor, BondedSigners
<1> QED
  BY <1>2, <1>3

\* Two thirds and two thirds of a total have more than a third in common.
LEMMA TwoQuorums ==
    ASSUME NEW total \in Nat, NEW x \in Nat, NEW y \in Nat, NEW union \in Nat, NEW both \in Nat,
           x >= QuorumTokens(total), y >= QuorumTokens(total),
           x + y = union + both, union <= total
    PROVE  3 * both > total
<1> DEFINE third == (total * 2) \div 3
<1>1. third \in Nat /\ 3 * third + 3 > total * 2
  OBVIOUS
<1>2. x >= third + 1 /\ y >= third + 1
  BY DEF QuorumTokens
<1> HIDE DEF third
<1> QED
  BY <1>1, <1>2

\* Two messages that the contract accepts are signed by validators of whom more
\* than a third of the bonded stake signed both.
LEMMA QuorumsMeet ==
    ASSUME TypeOK, SignerRegistry, BondedTokensExact
    PROVE  QuorumIntersection
<1> SUFFICES ASSUME NEW a \in SUBSET (Signers \ {ZeroAddr}), NEW b \in SUBSET (Signers \ {ZeroAddr}),
                    VerifySignatures(a), VerifySignatures(b)
             PROVE  3 * SignedTokens(a \cap b) > bondedTokens
  BY DEF QuorumIntersection
<1> DEFINE f == Stake
           A == SignedFor(a)
           B == SignedFor(b)
           S == BondedSet
<1>1. a \in SUBSET Addr /\ b \in SUBSET Addr /\ a \cap b \in SUBSET Addr
  BY StakingAssumption
<1>2. /\ A \in SUBSET S /\ SignedTokens(a) = SumFunctionOnSet(f, A)
      /\ B \in SUBSET S /\ SignedTokens(b) = SumFunctionOnSet(f, B)
      /\ SignedTokens(a \cap b) = SumFunctionOnSet(f, A \cap B)
  BY <1>1, SignedStake, SignedForBoth
<1>3. IsFiniteSet(S) /\ \A v \in S : f[v] \in Nat
  BY AccountTyped, FS_Subset, StakingAssumption DEF BondedSet
<1>4. bondedTokens \in Nat /\ bondedTokens = SumFunctionOnSet(f, S)
  BY DEF BondedTokensExact, Stake, TypeOK
<1>5. /\ SignedTokens(a) >= QuorumTokens(bondedTokens)
      /\ SignedTokens(b) >= QuorumTokens(bondedTokens)
  BY DEF VerifySignatures
<1> HIDE DEF f, A, B, S
<1>6. /\ A \cup B \in SUBSET S /\ A \cap B \in SUBSET S
      /\ IsFiniteSet(A) /\ IsFiniteSet(B) /\ IsFiniteSet(A \cup B) /\ IsFiniteSet(A \cap B)
  <2>1. /\ A \cup B \in SUBSET S /\ A \cap B \in SUBSET S
    BY <1>2
  <2> QED
    BY <1>2, <1>3, <2>1, FS_Subset
<1>7. \A T \in SUBSET S : IsFiniteSet(T) => SumFunctionOnSet(f, T) \in Nat
  BY <1>3, SumNat
<1>8. SumFunctionOnSet(f, A) + SumFunctionOnSet(f, B)
        = SumFunctionOnSet(f, A \cup B) + SumFunctionOnSet(f, A \cap B)
  <2>1. \A v \in S : f[v] \in Int
    BY <1>3
  <2> QED
    BY <1>2, <1>3, <2>1, SumOverlap
<1>9. SumFunctionOnSet(f, A \cup B) <= SumFunctionOnSet(f, S)
  BY <1>3, <1>6, SumSubset
<1> DEFINE x == SumFunctionOnSet(f, A)
           y == SumFunctionOnSet(f, B)
           union == SumFunctionOnSet(f, A \cup B)
           both == SumFunctionOnSet(f, A \cap B)
<1>10. x \in Nat /\ y \in Nat /\ union \in Nat /\ both \in Nat
  BY <1>2, <1>6, <1>7
<1>11. /\ x >= QuorumTokens(bondedTokens) /\ y >= QuorumTokens(bondedTokens)
       /\ x + y = union + both /\ union <= bondedTokens
  BY <1>2, <1>4, <1>5, <1>8, <1>9
<1>12. SignedTokens(a \cap b) = both
  BY <1>2
<1> HIDE DEF x, y, union, both
<1> QED
  BY <1>4, <1>10, <1>11, <1>12, TwoQuorums

\* Any two sets of signers that reach the quorum share more than a third of the
\* bonded stake, in every state the contract reaches: replaced signers, unbonded
\* validators and slashed stake are never counted twice or counted still.
THEOREM QuorumIntersectionCorrect == Spec => []QuorumIntersection
BY TypeCorrect, SignerRegistryCorrect, BondedTokensCorrect, QuorumsMeet, PTL

-----------------------------------------------------------------------------
(* Joining, leaving and waiting *)

\* A validator bonded after the step meets the minimum, or was bonded with no more.
MinimumMet(u) ==
    validators'[u].status = "Bonded" =>
       \/ validators'[u].tokens >= params.MinValidatorTokens
       \/ /\ validators[u].status = "Bonded"
          /\ validators'[u].tokens >= validators[u].tokens

\* A validator that leaves waits until the end recorded for it, and one that is
\* unbonded has waited, or was never bonded.
Waits(u) ==
    \/ validators'[u].status = "Bonded"
    \/ /\ validators'[u].status = validators[u].status
       /\ validators'[u].unbondBlock = validators[u].unbondBlock
       /\ slashableUntil'[u] = slashableUntil[u]
    \/ /\ validators[u].status = "Null" /\ validators'[u].status = "Unbonded"
       /\ slashableUntil'[u] = slashableUntil[u]
    \/ /\ validators[u].status = "Unbonding" /\ validators'[u].status = "Unbonded"
       /\ block >= validators[u].unbondBlock /\ slashableUntil'[u] = slashableUntil[u]
    \/ /\ validators[u].status = "Bonded" /\ validators'[u].status = "Unbonding"
       /\ slashableUntil'[u] = validators'[u].unbondBlock

\* The history changes for nobody but a validator that leaves.
LEMMA HistoryKept ==
    ASSUME TypeOK, slashableUntil' = slashableUntil \/ RecordLeaving, NEW u \in Addr,
           validators[u].status # "Bonded" \/ validators'[u].status = "Bonded"
    PROVE  slashableUntil'[u] = slashableUntil[u]
BY DEF RecordLeaving

\* A validator whose terms change, or whose stake does not shrink, stays as it is.
LEMMA StaysAsIs ==
    ASSUME TypeOK, slashableUntil' = slashableUntil \/ RecordLeaving, NEW u \in Addr,
           validators'[u].status = validators[u].status,
           validators'[u].unbondBlock = validators[u].unbondBlock,
           validators[u].status = "Bonded" => validators'[u].tokens >= validators[u].tokens
    PROVE  MinimumMet(u) /\ Waits(u)
BY HistoryKept DEF MinimumMet, Waits

\* A validator whose record a step leaves keeps its minimum and its delays.
LEMMA OthersStay ==
    ASSUME TypeOK, slashableUntil' = slashableUntil \/ RecordLeaving, NEW u \in Addr,
           validators'[u] = validators[u]
    PROVE  MinimumMet(u) /\ Waits(u)
<1>1. validators[u].tokens \in Nat
  BY AccountTyped
<1> QED
  BY <1>1, StaysAsIs

\* A slash or an undelegation: the validator stays with the minimum or leaves.
LEMMA UpdateBondedFate ==
    ASSUME TypeOK, NEW v \in Addr, NEW val \in Validator, NEW tokens, NEW stays,
           UpdateBonded(v, val, tokens, stays), RecordLeaving,
           val.status = validators[v].status, val.unbondBlock = validators[v].unbondBlock,
           stays => val.tokens >= params.MinValidatorTokens
    PROVE  \A u \in Addr : MinimumMet(u) /\ Waits(u)
<1> DEFINE left == SetUnbonding(val)
<1>1. left.status = "Unbonding" /\ left.unbondBlock = block + params.UnbondingPeriod
  BY DEF SetUnbonding, Validator
<1> HIDE DEF left
<1>2. CASE /\ validators' = [validators EXCEPT ![v] = val]
           /\ val.status # "Bonded" \/ stays
  <2>1. validators'[v] = val /\ \A u \in Addr \ {v} : validators'[u] = validators[u]
    BY <1>2 DEF TypeOK
  <2>2. slashableUntil'[v] = slashableUntil[v]
    BY <2>1, HistoryKept
  <2>3. MinimumMet(v) /\ Waits(v)
    BY <1>2, <2>1, <2>2 DEF MinimumMet, Waits
  <2> QED
    BY <2>1, <2>3, OthersStay
<1>3. CASE validators' = [validators EXCEPT ![v] = left] /\ val.status = "Bonded"
  <2>1. validators'[v] = left /\ \A u \in Addr \ {v} : validators'[u] = validators[u]
    BY <1>3 DEF TypeOK
  <2>2. slashableUntil'[v] = block + params.UnbondingPeriod
    BY <1>1, <1>3, <2>1 DEF RecordLeaving
  <2>3. MinimumMet(v) /\ Waits(v)
    BY <1>1, <1>3, <2>1, <2>2 DEF MinimumMet, Waits
  <2> QED
    BY <2>1, <2>3, OthersStay
<1> QED
  BY <1>2, <1>3 DEF UpdateBonded, left

\* delegate() without its status check.
LEMMA DelegateToFate ==
    ASSUME TypeOK, NEW v \in Addr, NEW d \in Addr, NEW tokens \in Nat, NEW val \in Validator,
           DelegateTo(v, d, tokens, val), slashableUntil' = slashableUntil,
           val.tokens = validators[v].tokens,
           \/ val.status = validators[v].status /\ val.unbondBlock = validators[v].unbondBlock
           \/ validators[v].status = "Null" /\ val.status = "Unbonded"
    PROVE  \A u \in Addr : MinimumMet(u) /\ Waits(u)
<1> DEFINE shares == TokenToShare(tokens, val.tokens, val.shares)
           new == [val EXCEPT !.tokens = @ + tokens, !.shares = @ + shares]
<1>1. validators' = [validators EXCEPT ![v] = new]
  BY DEF DelegateTo
<1> HIDE DEF shares
<1>2. new.tokens = val.tokens + tokens /\ new.status = val.status
      /\ new.unbondBlock = val.unbondBlock
  BY DEF Validator
<1> HIDE DEF new
<1>3. validators'[v] = new /\ \A u \in Addr \ {v} : validators'[u] = validators[u]
  BY <1>1 DEF TypeOK
<1>4. validators'[v].tokens >= validators[v].tokens
  BY <1>2, <1>3, AccountTyped
<1>5. MinimumMet(v) /\ Waits(v)
  BY <1>2, <1>3, <1>4, StaysAsIs DEF MinimumMet, Waits
<1> QED
  BY <1>3, <1>5, OthersStay

\* A new validator is unbonded: no minimum, and nothing to wait for.
LEMMA InitializeValidatorFate ==
    ASSUME TypeOK, NEW v \in Addr, NEW s \in Signers, NEW m \in Stakes,
           NEW r \in CommissionRates, InitializeValidator(v, s, m, r)
    PROVE  \A u \in Addr : MinimumMet(u) /\ Waits(u)
<1> DEFINE val == [validators[v] EXCEPT !.signer = s, !.status = "Unbonded",
                                        !.minSelfDelegation = m, !.commissionRate = r]
<1>1. m \in Nat /\ r \in Nat /\ s \in Addr \cup {ZeroAddr} /\ validators[v] \in Validator
  BY AccountTyped, StakingAssumption
<1>2. val \in Validator /\ val.status = "Unbonded" /\ val.tokens = validators[v].tokens
  BY <1>1 DEF Validator, Status
<1>3. /\ DelegateTo(v, v, m, val) /\ validators[v].status = "Null"
      /\ slashableUntil' = slashableUntil
  BY DEF InitializeValidator, history
<1> HIDE DEF val
<1> QED
  BY <1>1, <1>2, <1>3, DelegateToFate

\* delegate() only adds stake.
LEMMA DelegateFate ==
    ASSUME TypeOK, NEW v \in Addr, NEW d \in Addr, NEW tokens \in Amounts, Delegate(v, d, tokens)
    PROVE  \A u \in Addr : MinimumMet(u) /\ Waits(u)
<1>1. tokens \in Nat /\ validators[v] \in Validator
  BY AccountTyped, StakingAssumption
<1>2. DelegateTo(v, d, tokens, validators[v]) /\ slashableUntil' = slashableUntil
  BY DEF Delegate, history
<1> QED
  BY <1>1, <1>2, DelegateToFate

\* updateMinSelfDelegation, updateCommissionRate, updateValidatorSigner, confirm.
LEMMA TermsFate ==
    ASSUME TypeOK, NEW v \in Addr,
           \/ \E s \in Signers : UpdateValidatorSigner(v, s)
           \/ \E r \in CommissionRates : UpdateCommissionRate(v, r)
           \/ \E m \in Stakes : UpdateMinSelfDelegation(v, m)
           \/ ConfirmUnbondedValidator(v)
    PROVE  \A u \in Addr : MinimumMet(u) /\ Waits(u)
<1>1. slashableUntil' = slashableUntil
  BY DEF UpdateValidatorSigner, UpdateCommissionRate, UpdateMinSelfDelegation,
         ConfirmUnbondedValidator, history
<1>2. validators[v] \in Validator /\ validators[v].tokens \in Nat
  BY AccountTyped
<1>3. ASSUME NEW val, validators' = [validators EXCEPT ![v] = val],
             val.status = validators[v].status, val.unbondBlock = validators[v].unbondBlock,
             val.tokens = validators[v].tokens
      PROVE  \A u \in Addr : MinimumMet(u) /\ Waits(u)
  <2>1. validators'[v] = val /\ \A u \in Addr \ {v} : validators'[u] = validators[u]
    BY <1>3 DEF TypeOK
  <2>2. MinimumMet(v) /\ Waits(v)
    BY <1>1, <1>2, <1>3, <2>1, StaysAsIs
  <2> QED
    BY <1>1, <2>1, <2>2, OthersStay
<1>4. CASE \E s \in Signers : UpdateValidatorSigner(v, s)
  <2>1. PICK s \in Signers : UpdateValidatorSigner(v, s)
    BY <1>4
  <2> DEFINE val == [validators[v] EXCEPT !.signer = s]
  <2>2. validators' = [validators EXCEPT ![v] = val]
    BY <2>1 DEF UpdateValidatorSigner, TypeOK
  <2>3. /\ val.status = validators[v].status /\ val.unbondBlock = validators[v].unbondBlock
        /\ val.tokens = validators[v].tokens
    BY <1>2 DEF Validator
  <2> HIDE DEF val
  <2> QED
    BY <1>3, <2>2, <2>3
<1>5. CASE \E r \in CommissionRates : UpdateCommissionRate(v, r)
  <2>1. PICK r \in CommissionRates : UpdateCommissionRate(v, r)
    BY <1>5
  <2> DEFINE val == [validators[v] EXCEPT !.commissionRate = r]
  <2>2. validators' = [validators EXCEPT ![v] = val]
    BY <2>1 DEF UpdateCommissionRate, TypeOK
  <2>3. /\ val.status = validators[v].status /\ val.unbondBlock = validators[v].unbondBlock
        /\ val.tokens = validators[v].tokens
    BY <1>2 DEF Validator
  <2> HIDE DEF val
  <2> QED
    BY <1>3, <2>2, <2>3
<1>6. CASE \E m \in Stakes : UpdateMinSelfDelegation(v, m)
  <2>1. PICK m \in Stakes : UpdateMinSelfDelegation(v, m)
    BY <1>6
  <2> DEFINE b == IF m < validators[v].minSelfDelegation
                  THEN block + params.AdvanceNoticePeriod ELSE validators[v].bondBlock
             val == [validators[v] EXCEPT !.minSelfDelegation = m, !.bondBlock = b]
  <2>2. validators' = [validators EXCEPT ![v] = val]
    BY <2>1 DEF UpdateMinSelfDelegation, TypeOK
  <2>3. /\ val.status = validators[v].status /\ val.unbondBlock = validators[v].unbondBlock
        /\ val.tokens = validators[v].tokens
    <3> HIDE DEF b
    <3> QED
      BY <1>2 DEF Validator
  <2> HIDE DEF val
  <2> QED
    BY <1>3, <2>2, <2>3
<1>7. CASE ConfirmUnbondedValidator(v)
  <2> DEFINE val == [validators[v] EXCEPT !.status = "Unbonded", !.unbondBlock = 0]
  <2>1. /\ validators' = [validators EXCEPT ![v] = val]
        /\ validators[v].status = "Unbonding" /\ block >= validators[v].unbondBlock
    BY <1>7 DEF ConfirmUnbondedValidator, TypeOK
  <2>2. val.status = "Unbonded"
    BY <1>2 DEF Validator
  <2> HIDE DEF val
  <2>3. validators'[v] = val /\ \A u \in Addr \ {v} : validators'[u] = validators[u]
    BY <2>1 DEF TypeOK
  <2>4. MinimumMet(v) /\ Waits(v)
    BY <1>1, <2>1, <2>2, <2>3 DEF MinimumMet, Waits
  <2> QED
    BY <1>1, <2>3, <2>4, OthersStay
<1> QED
  BY <1>4, <1>5, <1>6, <1>7

\* bondValidator: who joins has the minimum; who is replaced waits.
LEMMA BondValidatorFate ==
    ASSUME TypeOK, BondedListExact, NEW caller \in Addr, BondValidator(caller)
    PROVE  \A u \in Addr : MinimumMet(u) /\ Waits(u)
<1> DEFINE v == IF signerVals[caller] # ZeroAddr THEN signerVals[caller] ELSE caller
           in == SetBonded(validators[v])
<1>1. v \in Addr
  BY DEF TypeOK
<1>2. /\ validators[v].status # "Bonded" /\ validators[v].tokens >= params.MinValidatorTokens
      /\ BondDirectly(v) \/ BondByReplacing(v)
      /\ RecordLeaving
  BY DEF BondValidator, HasMinRequiredTokens
<1> HIDE DEF v
<1>3. in.status = "Bonded" /\ in.tokens = validators[v].tokens
  BY <1>1, AccountTyped DEF SetBonded, Validator
<1>4. CASE BondDirectly(v)
  <2>1. validators' = [validators EXCEPT ![v] = in]
    BY <1>1, <1>4 DEF BondDirectly, TypeOK
  <2> HIDE DEF in
  <2>2. validators'[v] = in /\ \A u \in Addr \ {v} : validators'[u] = validators[u]
    BY <1>1, <2>1 DEF TypeOK
  <2>3. MinimumMet(v) /\ Waits(v)
    BY <1>2, <1>3, <2>2 DEF MinimumMet, Waits
  <2> QED
    BY <1>2, <2>2, <2>3, OthersStay
<1>5. CASE BondByReplacing(v)
  <2>1. PICK i \in 1..Len(bondedValAddrs) :
           validators' = [validators EXCEPT
              ![bondedValAddrs[i]] = SetUnbonding(validators[bondedValAddrs[i]]),
              ![v] = SetBonded(validators[v])]
    BY <1>5 DEF BondByReplacing
  <2> DEFINE out == bondedValAddrs[i]
             gone == SetUnbonding(validators[out])
  <2>2. out \in Addr /\ validators[out].status = "Bonded" /\ out # v
    <3>1. out \in Addr
      BY ElementOfSeq DEF TypeOK
    <3>2. IsBonded(out)
      BY DEF IsBonded
    <3> QED
      BY <1>2, <3>1, <3>2 DEF BondedListExact
  <2>3. validators' = [validators EXCEPT ![out] = gone, ![v] = in]
    BY <2>1
  <2>4. gone.status = "Unbonding" /\ gone.unbondBlock = block + params.UnbondingPeriod
    BY <2>2, AccountTyped DEF SetUnbonding, Validator
  <2> HIDE DEF in, gone, out
  <2>5. /\ validators'[v] = in /\ validators'[out] = gone
        /\ \A u \in Addr \ {v, out} : validators'[u] = validators[u]
    BY <1>1, <2>2, <2>3 DEF TypeOK
  <2>6. MinimumMet(v) /\ Waits(v)
    BY <1>2, <1>3, <2>5 DEF MinimumMet, Waits
  <2>7. slashableUntil'[out] = block + params.UnbondingPeriod
    BY <1>2, <2>2, <2>4, <2>5 DEF RecordLeaving
  <2>8. MinimumMet(out) /\ Waits(out)
    BY <2>2, <2>4, <2>5, <2>7 DEF MinimumMet, Waits
  <2> QED
    BY <1>2, <2>5, <2>6, <2>8, OthersStay
<1> QED
  BY <1>2, <1>4, <1>5

\* undelegateShares and undelegateTokens: the validator stays with the minimum, or leaves.
LEMMA UndelegateFate ==
    ASSUME TypeOK, NEW v \in Addr, NEW d \in Addr, NEW tokens \in Nat, NEW shares \in Nat,
           Undelegate(v, d, tokens, shares)
    PROVE  \A u \in Addr : MinimumMet(u) /\ Waits(u)
<1> DEFINE rest == delegators[v][d].shares - shares
           kept == Residual(rest, validators[v].tokens - tokens, validators[v].shares - shares)
           val == [validators[v] EXCEPT !.tokens = @ - tokens,
                                        !.shares = @ - shares - (rest - kept)]
           newShares == TokenToShare(tokens, val.undelegationTokens, val.undelegationShares)
           queued == [val EXCEPT !.undelegationTokens = @ + tokens,
                                 !.undelegationShares = @ + newShares]
           stays == HasMinRequiredTokens(val, IF d = v THEN kept ELSE 0, d = v)
<1>1. /\ shares <= delegators[v][d].shares
      /\ shares + (rest - kept) <= validators[v].shares
      /\ tokens <= validators[v].tokens
      /\ UndelegateDirectly(v, d, tokens, val) \/ UpdateBonded(v, queued, tokens, stays)
      /\ RecordLeaving
  BY DEF Undelegate
<1>0. validators[v] \in Validator
  BY AccountTyped
<1>2. /\ validators[v].tokens \in Nat /\ validators[v].shares \in Nat
      /\ validators[v].undelegationTokens \in Nat /\ validators[v].undelegationShares \in Nat
      /\ delegators[v][d].shares \in Nat
  BY AccountTyped
<1>3. stays => val.tokens >= params.MinValidatorTokens
  BY DEF HasMinRequiredTokens
<1> HIDE DEF stays
<1>4. rest \in Nat /\ kept \in Nat /\ rest - kept \in Nat
  <2>1. rest \in Nat
    BY <1>1, <1>2
  <2> HIDE DEF rest
  <2> QED
    BY <2>1 DEF Residual
<1> HIDE DEF rest, kept
<1>5. /\ val \in Validator /\ val.status = validators[v].status
      /\ val.unbondBlock = validators[v].unbondBlock
      /\ val.undelegationTokens = validators[v].undelegationTokens
      /\ val.undelegationShares = validators[v].undelegationShares
  <2> DEFINE t == validators[v].tokens - tokens
             s == validators[v].shares - shares - (rest - kept)
  <2>1. t \in Nat /\ s \in Nat
    BY <1>1, <1>2, <1>4
  <2>2. val = [validators[v] EXCEPT !.tokens = t, !.shares = s]
    OBVIOUS
  <2> HIDE DEF t, s, val
  <2> QED
    BY <1>0, <2>1, <2>2 DEF Validator
<1>6. newShares \in Nat
  BY <1>2, <1>5, ShareTypes
<1> HIDE DEF val, newShares
<1>7. /\ queued \in Validator /\ queued.status = val.status /\ queued.tokens = val.tokens
      /\ queued.unbondBlock = val.unbondBlock
  <2> DEFINE t == val.undelegationTokens + tokens
             s == val.undelegationShares + newShares
  <2>1. t \in Nat /\ s \in Nat
    BY <1>2, <1>5, <1>6
  <2> HIDE DEF t, s
  <2>2. queued = [val EXCEPT !.undelegationTokens = t, !.undelegationShares = s]
    BY DEF t, s
  <2> HIDE DEF queued
  <2> QED
    BY <1>5, <2>1, <2>2 DEF Validator
<1> HIDE DEF queued
<1>8. CASE UndelegateDirectly(v, d, tokens, val)
  <2>1. validators' = [validators EXCEPT ![v] = val] /\ val.status = "Unbonded"
    BY <1>8 DEF UndelegateDirectly
  <2>2. validators'[v] = val /\ \A u \in Addr \ {v} : validators'[u] = validators[u]
    BY <2>1 DEF TypeOK
  <2>3. MinimumMet(v) /\ Waits(v)
    BY <1>1, <1>5, <2>1, <2>2, StaysAsIs
  <2> QED
    BY <1>1, <2>2, <2>3, OthersStay
<1>9. CASE UpdateBonded(v, queued, tokens, stays)
  BY <1>1, <1>3, <1>5, <1>7, <1>9, UpdateBondedFate
<1> QED
  BY <1>1, <1>8, <1>9

\* completeUndelegate() changes neither status nor stake.
LEMMA CompleteUndelegateFate ==
    ASSUME TypeOK, NEW v \in Addr, NEW d \in Addr, CompleteUndelegate(v, d)
    PROVE  \A u \in Addr : MinimumMet(u) /\ Waits(u)
<1>1. PICK ready, tokens :
         validators' = [validators EXCEPT ![v].undelegationShares = @ - ready,
                                          ![v].undelegationTokens = @ - tokens]
  BY DEF CompleteUndelegate
<1> DEFINE new == [validators[v] EXCEPT !.undelegationShares = @ - ready,
                                        !.undelegationTokens = @ - tokens]
<1>2. validators' = [validators EXCEPT ![v] = new] /\ slashableUntil' = slashableUntil
  BY <1>1 DEF TypeOK, CompleteUndelegate, history
<1>3. /\ new.status = validators[v].status /\ new.unbondBlock = validators[v].unbondBlock
      /\ new.tokens = validators[v].tokens /\ validators[v].tokens \in Nat
  BY AccountTyped DEF Validator
<1> HIDE DEF new
<1>4. validators'[v] = new /\ \A u \in Addr \ {v} : validators'[u] = validators[u]
  BY <1>2 DEF TypeOK
<1>5. MinimumMet(v) /\ Waits(v)
  BY <1>2, <1>3, <1>4, StaysAsIs
<1> QED
  BY <1>2, <1>4, <1>5, OthersStay

\* slash: who loses stake stays with the minimum or leaves.
LEMMA SlashFate ==
    ASSUME TypeOK, NEW req \in SlashRequests, NEW caller \in Addr, NEW signers,
           Slash(req, caller, signers)
    PROVE  \A u \in Addr : MinimumMet(u) /\ Waits(u)
<1> DEFINE v == req.validator
           val == validators[v]
           slashTokens == Slashed(val.tokens, req.slashFactor)
           slashQueued == Slashed(val.undelegationTokens, req.slashFactor)
           after == [val EXCEPT !.tokens = @ - slashTokens,
                                !.undelegationTokens = @ - slashQueued]
           stays == /\ req.jailPeriod = 0
                    /\ HasMinRequiredTokens(after, delegators[v][v].shares, TRUE)
           bondBlock == IF req.jailPeriod > 0 THEN block + req.jailPeriod ELSE after.bondBlock
           new == [after EXCEPT !.bondBlock = bondBlock]
<1>1. /\ v \in Addr /\ req.slashFactor \in Nat /\ req.jailPeriod \in Nat
      /\ req.slashFactor <= SLASH_FACTOR_DECIMAL
  BY StakingAssumption DEF SlashRequest, Slash
<1>2. val \in Validator /\ block \in Nat
  BY <1>1 DEF TypeOK
<1>3. val.tokens \in Nat /\ val.undelegationTokens \in Nat
  BY <1>1, AccountTyped
<1>4. /\ slashTokens \in Nat /\ slashTokens <= val.tokens
      /\ slashQueued \in Nat /\ slashQueued <= val.undelegationTokens
  BY <1>1, <1>3, SlashedType
<1>5. UpdateBonded(v, new, slashTokens, stays) /\ RecordLeaving
  BY DEF Slash
<1>6. stays => after.tokens >= params.MinValidatorTokens
  BY DEF HasMinRequiredTokens
<1> HIDE DEF stays, slashTokens, slashQueued
<1>7. after \in Validator /\ after.status = val.status /\ after.unbondBlock = val.unbondBlock
  <2> DEFINE t == val.tokens - slashTokens
             q == val.undelegationTokens - slashQueued
  <2>1. t \in Nat /\ q \in Nat
    BY <1>3, <1>4
  <2>2. after = [val EXCEPT !.tokens = t, !.undelegationTokens = q]
    OBVIOUS
  <2> HIDE DEF t, q, after, val
  <2> QED
    BY <1>2, <2>1, <2>2 DEF Validator
<1> HIDE DEF after
<1>8. bondBlock \in Nat
  BY <1>1, <1>2, <1>7 DEF Validator
<1> HIDE DEF bondBlock
<1>9. /\ new \in Validator /\ new.status = after.status
      /\ new.unbondBlock = after.unbondBlock /\ new.tokens = after.tokens
  BY <1>7, <1>8 DEF Validator
<1> HIDE DEF new
<1> QED
  BY <1>1, <1>5, <1>6, <1>7, <1>9, UpdateBondedFate

\* No step unbonds at once, or bonds, or keeps bonded, below the minimum.
LEMMA StepFate ==
    ASSUME TypeOK, BondedListExact, [Next]_vars
    PROVE  \A u \in Addr : MinimumMet(u) /\ Waits(u)
<1>1. CASE ValidatorStep
  BY <1>1, InitializeValidatorFate, BondValidatorFate, TermsFate DEF ValidatorStep
<1>2. CASE DelegatorStep
  BY <1>2, DelegateFate, UndelegateAmount, UndelegateFate, CompleteUndelegateFate
     DEF DelegatorStep
<1>3. CASE \E req \in SlashRequests, caller \in Addr, signers \in SUBSET (Signers \ {ZeroAddr}) :
              Slash(req, caller, signers)
  BY <1>3, SlashFate
<1>4. CASE CollectForfeiture \/ OwnerStep \/ NextBlock \/ GovernStep \/ UNCHANGED vars
  <2>1. UNCHANGED <<validators, slashableUntil>>
    BY <1>4 DEF CollectForfeiture, OwnerStep, SetMaxSlashFactor, SetPaused, DrainToken, NextBlock,
                GovernStep, SetParamValue, vars, accounts, history
  <2> QED
    BY <2>1, OthersStay
<1> QED
  BY <1>1, <1>2, <1>3, <1>4 DEF Next, StakingStep, SlashStep

-----------------------------------------------------------------------------
(* The minimum stake of a bonded validator *)

\* Parameters and the clock are not for validators, delegators and slashes to change.
LEMMA ParamsKept ==
    ASSUME ValidatorStep \/ DelegatorStep \/ SlashStep
    PROVE  UNCHANGED <<params, block>>
<1>1. CASE ValidatorStep
  <2>1. ASSUME NEW v, NEW s, NEW m, NEW r,
               \/ InitializeValidator(v, s, m, r) \/ UpdateValidatorSigner(v, s)
               \/ UpdateCommissionRate(v, r) \/ UpdateMinSelfDelegation(v, m)
        PROVE  UNCHANGED <<params, block>>
    BY <2>1 DEF InitializeValidator, UpdateValidatorSigner, UpdateCommissionRate,
                UpdateMinSelfDelegation
  <2>2. ASSUME NEW v, BondValidator(v) \/ ConfirmUnbondedValidator(v)
        PROVE  UNCHANGED <<params, block>>
    BY <2>2 DEF BondValidator, ConfirmUnbondedValidator
  <2> QED
    BY <1>1, <2>1, <2>2 DEF ValidatorStep
<1>2. CASE DelegatorStep
  <2>1. ASSUME NEW v, NEW d, NEW t, Delegate(v, d, t) \/ CompleteUndelegate(v, d)
        PROVE  UNCHANGED <<params, block>>
    BY <2>1 DEF Delegate, CompleteUndelegate
  <2>2. ASSUME NEW v, NEW d, NEW t, NEW s, Undelegate(v, d, t, s)
        PROVE  UNCHANGED <<params, block>>
    BY <2>2 DEF Undelegate
  <2> QED
    BY <1>2, <2>1, <2>2 DEF DelegatorStep, UndelegateShares, UndelegateTokens
<1>3. CASE SlashStep
  <2>1. ASSUME NEW req, NEW caller, NEW signers, Slash(req, caller, signers)
        PROVE  UNCHANGED <<params, block>>
    BY <2>1 DEF Slash
  <2> QED
    BY <1>3, <2>1 DEF SlashStep, CollectForfeiture
<1> QED
  BY <1>1, <1>2, <1>3

\* Only governance changes the minimum.
LEMMA MinimumParam ==
    ASSUME TypeOK, [Next]_vars
    PROVE  \/ params'.MinValidatorTokens = params.MinValidatorTokens
           \/ \E c \in ParamChanges : /\ c[1] = "MinValidatorTokens"
                                      /\ params'.MinValidatorTokens = c[2]
<1>1. CASE GovernStep
  <2>1. PICK c \in ParamChanges : params' = [params EXCEPT ![c[1]] = c[2]]
    BY <1>1 DEF GovernStep, SetParamValue
  <2>2. params'["MinValidatorTokens"] = IF c[1] = "MinValidatorTokens" THEN c[2]
                                        ELSE params["MinValidatorTokens"]
    BY <2>1 DEF TypeOK, ParamName
  <2> QED
    BY <2>2
<1>2. CASE \E value \in SlashCaps : SetMaxSlashFactor(value)
  BY <1>2 DEF SetMaxSlashFactor, TypeOK, ParamName
<1>3. CASE UNCHANGED params
  BY <1>3
<1>4. CASE OwnerStep \/ NextBlock \/ UNCHANGED vars
  BY <1>2, <1>3, <1>4 DEF OwnerStep, SetPaused, DrainToken, NextBlock, vars
<1> QED
  BY <1>1, <1>3, <1>4, ParamsKept DEF Next, StakingStep

\* Every step keeps the bonded validators above the least minimum.
LEMMA LeastMinimumStep ==
    ASSUME NEW m \in Nat, \A c \in ParamChanges : c[1] = "MinValidatorTokens" => c[2] >= m,
           TypeOK, TypeOK', BondedListExact, [Next]_vars, params.MinValidatorTokens >= m,
           \A v \in BondedSet : validators[v].tokens >= m
    PROVE  params'.MinValidatorTokens >= m /\ \A v \in BondedSet' : validators'[v].tokens >= m
<1>1. params'.MinValidatorTokens >= m
  BY MinimumParam
<1>2. ASSUME NEW v \in Addr, validators'[v].status = "Bonded"
      PROVE  validators'[v].tokens >= m
  <2>1. /\ validators[v].tokens \in Nat /\ validators'[v].tokens \in Nat
        /\ params.MinValidatorTokens \in Nat
    BY DEF TypeOK, Validator, ParamName
  <2>2. \/ validators'[v].tokens >= params.MinValidatorTokens
        \/ validators[v].status = "Bonded" /\ validators'[v].tokens >= validators[v].tokens
    BY <1>2, StepFate DEF MinimumMet
  <2>3. validators[v].status = "Bonded" => validators[v].tokens >= m
    BY DEF BondedSet
  <2> QED
    BY <2>1, <2>2, <2>3
<1> QED
  BY <1>1, <1>2 DEF BondedSet

\* Whatever governance does with the parameter, a bonded validator keeps the least
\* value the parameter ever has: who would fall below it by an undelegation or a
\* slash is unbonded in the same step.
THEOREM LeastMinimumCorrect ==
    ASSUME NEW m \in Nat, InitParams.MinValidatorTokens >= m,
           \A c \in ParamChanges : c[1] = "MinValidatorTokens" => c[2] >= m
    PROVE  Spec => [](/\ params.MinValidatorTokens >= m
                      /\ \A v \in BondedSet : validators[v].tokens >= m)
<1> DEFINE AtLeast == /\ params.MinValidatorTokens >= m
                      /\ \A v \in BondedSet : validators[v].tokens >= m
<1>1. Init => AtLeast
  BY DEF Init, NullValidator, BondedSet
<1>2. TypeOK /\ TypeOK' /\ BondedListExact /\ AtLeast /\ [Next]_vars => AtLeast'
  BY LeastMinimumStep
<1> HIDE DEF AtLeast
<1>3. Spec => []AtLeast
  BY <1>1, <1>2, TypeCorrect, BondedListCorrect, PTL DEF Spec
<1> QED
  BY <1>3 DEF AtLeast

\* While governance leaves the parameter alone, every bonded validator has the
\* minimum stake.
THEOREM BondedMinimumCorrect ==
    ASSUME \A c \in ParamChanges : c[1] # "MinValidatorTokens"
    PROVE  Spec => []BondedHasMinimum
<1> DEFINE Stands == params.MinValidatorTokens = InitParams.MinValidatorTokens
<1>1. Init => Stands /\ BondedHasMinimum
  BY DEF Init, NullValidator, BondedHasMinimum, BondedSet
<1>2. TypeOK /\ Stands /\ [Next]_vars => Stands'
  BY MinimumParam
<1>3. ASSUME TypeOK, TypeOK', BondedListExact, Stands, BondedHasMinimum, [Next]_vars
      PROVE  BondedHasMinimum'
  <2> DEFINE m == InitParams.MinValidatorTokens
  <2>1. m \in Nat /\ m >= m
    BY StakingAssumption DEF ParamName
  <2>2. params.MinValidatorTokens = m /\ params'.MinValidatorTokens = m
    BY <1>2, <1>3
  <2>3. params.MinValidatorTokens >= m /\ \A v \in BondedSet : validators[v].tokens >= m
    BY <1>3, <2>1, <2>2 DEF BondedHasMinimum
  <2> HIDE DEF m
  <2>4. \A v \in BondedSet' : validators'[v].tokens >= m
    BY <1>3, <2>1, <2>3, LeastMinimumStep
  <2> QED
    BY <2>2, <2>4 DEF BondedHasMinimum
<1>4. TypeOK /\ TypeOK' /\ BondedListExact /\ Stands /\ BondedHasMinimum /\ [Next]_vars
        => BondedHasMinimum'
  BY <1>3
<1> HIDE DEF Stands
<1> QED
  BY <1>1, <1>2, <1>4, TypeCorrect, BondedListCorrect, PTL DEF Spec

-----------------------------------------------------------------------------
(* Stake is paid out when its period is over *)

\* What a validator's status says of the end recorded for it.
Recorded ==
    \A v \in Addr :
        /\ validators[v].status = "Null" => slashableUntil[v] = 0
        /\ validators[v].status = "Unbonded" => slashableUntil[v] <= block
        /\ validators[v].status = "Unbonding" => slashableUntil[v] <= validators[v].unbondBlock

\* The clock does not run back.
LEMMA BlockGrows ==
    ASSUME TypeOK, [Next]_vars
    PROVE  block' \in Nat /\ block <= block'
<1>1. CASE OwnerStep \/ NextBlock \/ GovernStep \/ UNCHANGED vars
  BY <1>1 DEF OwnerStep, SetMaxSlashFactor, SetPaused, DrainToken, NextBlock, GovernStep,
              SetParamValue, vars, TypeOK
<1> QED
  BY <1>1, ParamsKept DEF Next, StakingStep, TypeOK

\* Every step keeps the record.
LEMMA RecordedStep ==
    ASSUME TypeOK, TypeOK', BondedListExact, Recorded, [Next]_vars
    PROVE  Recorded'
<1> SUFFICES ASSUME NEW v \in Addr
             PROVE  /\ validators'[v].status = "Null" => slashableUntil'[v] = 0
                    /\ validators'[v].status = "Unbonded" => slashableUntil'[v] <= block'
                    /\ validators'[v].status = "Unbonding"
                         => slashableUntil'[v] <= validators'[v].unbondBlock
  BY DEF Recorded
<1>1. Waits(v)
  BY StepFate
<1>2. block' \in Nat /\ block <= block' /\ block \in Nat
  BY BlockGrows DEF TypeOK
<1>3. /\ slashableUntil[v] \in Nat /\ slashableUntil'[v] \in Nat
      /\ validators[v].unbondBlock \in Nat /\ validators'[v].unbondBlock \in Nat
  BY DEF TypeOK, Validator
<1>4. /\ validators[v].status = "Null" => slashableUntil[v] = 0
      /\ validators[v].status = "Unbonded" => slashableUntil[v] <= block
      /\ validators[v].status = "Unbonding" => slashableUntil[v] <= validators[v].unbondBlock
  BY DEF Recorded
<1> QED
  BY <1>1, <1>2, <1>3, <1>4 DEF Waits

\* A status and an unbonding block say until when the stake is slashable: what
\* undelegate() and completeUndelegate() go by, through every way to leave and return.
THEOREM RecordedCorrect == Spec => []Recorded
<1>1. Init => Recorded
  BY DEF Init, NullValidator, Recorded
<1>2. TypeOK /\ TypeOK' /\ BondedListExact /\ Recorded /\ [Next]_vars => Recorded'
  BY RecordedStep
<1> QED
  BY <1>1, <1>2, TypeCorrect, BondedListCorrect, PTL DEF Spec

Queues ==
    \A v \in Addr, d \in Addr : /\ delegators[v][d] \in Delegator
                              /\ delegators[v][d].undelegations \in Seq(Undelegation)
                              /\ Len(delegators[v][d].undelegations) \in Nat

\* Queues have lengths.
LEMMA QueuesTyped == TypeOK => Queues
BY LenProperties DEF TypeOK, Delegator, Queues

\* And so after a step.
LEMMA QueuesNext == TypeOK' => Queues'
BY QueuesTyped, PTL

\* A step that writes one delegator's record leaves the others'.
LEMMA OneDelegator ==
    ASSUME TypeOK, NEW v \in Addr, NEW d \in Addr, NEW del,
           delegators' = [delegators EXCEPT ![v][d] = del]
    PROVE  \A u \in Addr, e \in Addr :
              delegators'[u][e] = IF u = v /\ e = d THEN del ELSE delegators[u][e]
BY DEF TypeOK

\* No entry leaves a queue and nobody is paid, but by a slash.
LEMMA NothingPaid ==
    ASSUME TypeOK, TypeOK',
           \A v \in Addr, d \in Addr : Len(delegators[v][d].undelegations)
                                          <= Len(delegators'[v][d].undelegations),
           slashNonces' # slashNonces \/ \A d \in Addr : wallet'[d] <= wallet[d]
    PROVE  PaysOnlyAfterPeriod
<1> SUFFICES ASSUME NEW v \in Addr, NEW d \in Addr
             PROVE  LET before == delegators[v][d].undelegations
                        gone == Len(before) - Len(delegators'[v][d].undelegations)
                        released == validators[v].status # "Bonded" /\ block >= slashableUntil[v]
                    IN  /\ \A i \in 1..gone :
                             released \/ block >= before[i].creationBlock + params.UnbondingPeriod
                        /\ (/\ wallet'[d] > wallet[d] /\ gone = 0
                            /\ validators'[v].tokens < validators[v].tokens
                            /\ slashNonces' = slashNonces) => released
  BY DEF PaysOnlyAfterPeriod
<1> DEFINE m == Len(delegators[v][d].undelegations)
           n == Len(delegators'[v][d].undelegations)
<1>1. m \in Nat /\ n \in Nat /\ m <= n
  BY QueuesTyped, QueuesNext DEF Queues
<1>2. wallet[d] \in Nat /\ wallet'[d] \in Nat
  BY DEF TypeOK
<1>3. ~(wallet'[d] > wallet[d]) \/ slashNonces' # slashNonces
  BY <1>2
<1> HIDE DEF m, n
<1>4. \A i \in 1..(m - n) : FALSE
  BY <1>1
<1> QED
  BY <1>3, <1>4 DEF m, n

\* Steps that leave the delegations alone, or add to them.
LEMMA PaysNothingStep ==
    ASSUME TypeOK, TypeOK',
           \/ ValidatorStep \/ OwnerStep \/ NextBlock \/ GovernStep \/ UNCHANGED vars
           \/ \E v \in Addr, d \in Addr, t \in Amounts : Delegate(v, d, t)
           \/ SlashStep
    PROVE  PaysOnlyAfterPeriod
<1>1. ASSUME NEW v \in Addr, NEW d \in Addr, NEW tokens \in Nat, NEW val,
             DelegateTo(v, d, tokens, val)
      PROVE  PaysOnlyAfterPeriod
  <2> DEFINE shares == TokenToShare(tokens, val.tokens, val.shares)
             del == [delegators[v][d] EXCEPT !.shares = @ + shares]
  <2>1. /\ delegators' = [delegators EXCEPT ![v][d] = del]
        /\ wallet' = [wallet EXCEPT ![d] = @ - tokens]
    BY <1>1 DEF DelegateTo
  <2> HIDE DEF shares
  <2>2. del.undelegations = delegators[v][d].undelegations
    BY QueuesTyped DEF Queues, Delegator
  <2> HIDE DEF del
  <2>3. \A u \in Addr, e \in Addr :
           delegators'[u][e].undelegations = delegators[u][e].undelegations
    BY <2>1, <2>2, OneDelegator
  <2>4. \A u \in Addr, e \in Addr : Len(delegators[u][e].undelegations)
                                       <= Len(delegators'[u][e].undelegations)
    BY <2>3, QueuesTyped DEF Queues
  <2>5. \A e \in Addr : wallet[e] \in Nat /\ wallet'[e] = IF e = d THEN wallet[e] - tokens
                                                                  ELSE wallet[e]
    BY <2>1 DEF TypeOK
  <2>6. \A e \in Addr : wallet'[e] <= wallet[e]
    BY <2>5
  <2> QED
    BY <2>4, <2>6, NothingPaid
<1>2. ASSUME delegators' = delegators, slashNonces' # slashNonces \/ wallet' = wallet
      PROVE  PaysOnlyAfterPeriod
  <2>1. \A u \in Addr, e \in Addr : Len(delegators[u][e].undelegations)
                                       <= Len(delegators'[u][e].undelegations)
    BY <1>2, QueuesTyped DEF Queues
  <2>2. \A e \in Addr : wallet[e] \in Nat
    BY DEF TypeOK
  <2>3. slashNonces' # slashNonces \/ \A e \in Addr : wallet'[e] <= wallet[e]
    BY <1>2, <2>2
  <2> QED
    BY <2>1, <2>3, NothingPaid
<1>3. CASE ValidatorStep
  <2>1. ASSUME NEW v \in Addr, NEW s, NEW m \in Stakes, NEW r, InitializeValidator(v, s, m, r)
        PROVE  PaysOnlyAfterPeriod
    BY <1>1, <2>1, StakingAssumption DEF InitializeValidator
  <2>2. ASSUME NEW v \in Addr, NEW x,
               \/ UpdateValidatorSigner(v, x) \/ UpdateCommissionRate(v, x)
               \/ UpdateMinSelfDelegation(v, x) \/ BondValidator(v)
               \/ ConfirmUnbondedValidator(v)
        PROVE  PaysOnlyAfterPeriod
    BY <1>2, <2>2 DEF UpdateValidatorSigner, UpdateCommissionRate, UpdateMinSelfDelegation,
                      BondValidator, ConfirmUnbondedValidator, funds
  <2> QED
    BY <1>3, <2>1, <2>2 DEF ValidatorStep
<1>4. CASE \E v \in Addr, d \in Addr, t \in Amounts : Delegate(v, d, t)
  BY <1>1, <1>4, StakingAssumption DEF Delegate
<1>5. CASE SlashStep
  <2>1. ASSUME NEW req, NEW caller, NEW signers, Slash(req, caller, signers)
        PROVE  PaysOnlyAfterPeriod
    <3>1. delegators' = delegators /\ slashNonces' # slashNonces
      BY <2>1 DEF Slash
    <3> QED
      BY <1>2, <3>1
  <2>2. CASE CollectForfeiture
    BY <1>2, <2>2 DEF CollectForfeiture, accounts
  <2> QED
    BY <1>5, <2>1, <2>2 DEF SlashStep
<1>6. CASE OwnerStep \/ NextBlock \/ GovernStep \/ UNCHANGED vars
  BY <1>2, <1>6 DEF OwnerStep, SetMaxSlashFactor, SetPaused, DrainToken, NextBlock, GovernStep,
                    SetParamValue, accounts, funds, vars
<1> QED
  BY <1>3, <1>4, <1>5, <1>6

\* An undelegation drops a delegator's shares, and queues them or not.
LEMMA UndelegateWrites ==
    ASSUME TypeOK, NEW v \in Addr, NEW d \in Addr, NEW tokens \in Nat, NEW shares \in Nat,
           Undelegate(v, d, tokens, shares)
    PROVE  \E kept, newShares :
              \/ delegators' = [delegators EXCEPT ![v][d].shares = kept]
              \/ /\ delegators' = [delegators EXCEPT ![v][d] =
                       [shares |-> kept,
                        undelegations |-> Append(delegators[v][d].undelegations,
                                                 [shares |-> newShares,
                                                  creationBlock |-> block])]]
                 /\ newShares \in Nat
<1> DEFINE rest == delegators[v][d].shares - shares
           kept == Residual(rest, validators[v].tokens - tokens, validators[v].shares - shares)
           val == [validators[v] EXCEPT !.tokens = @ - tokens,
                                        !.shares = @ - shares - (rest - kept)]
           newShares == TokenToShare(tokens, val.undelegationTokens, val.undelegationShares)
           waits == [shares |-> kept,
                     undelegations |-> Append(delegators[v][d].undelegations,
                                              [shares |-> newShares, creationBlock |-> block])]
<1>1. \/ delegators' = [delegators EXCEPT ![v][d].shares = kept]
      \/ delegators' = [delegators EXCEPT ![v][d] = waits]
  BY DEF Undelegate
<1> HIDE DEF kept, rest
<1>2. newShares \in Nat
  <2>1. /\ val.undelegationTokens = validators[v].undelegationTokens
        /\ val.undelegationShares = validators[v].undelegationShares
    BY AccountTyped DEF Validator
  <2> HIDE DEF val
  <2> QED
    BY <2>1, AccountTyped, ShareTypes
<1> HIDE DEF newShares
<1> QED
  BY <1>1, <1>2

\* An undelegation pays at once only when the validator is unbonded.
LEMMA PaysUndelegate ==
    ASSUME TypeOK, TypeOK', Recorded, NEW v \in Addr, NEW d \in Addr, NEW tokens \in Nat,
           NEW shares \in Nat, Undelegate(v, d, tokens, shares)
    PROVE  PaysOnlyAfterPeriod
<1> DEFINE queue == delegators[v][d].undelegations
<1>1. \A u \in Addr, e \in Addr : /\ delegators[u][e] \in Delegator
                                   /\ delegators[u][e].undelegations \in Seq(Undelegation)
                                   /\ Len(delegators[u][e].undelegations) \in Nat
  BY QueuesTyped DEF Queues
<1>2. CASE wallet' = wallet
  <2>1. PICK kept, newShares :
           \/ delegators' = [delegators EXCEPT ![v][d].shares = kept]
           \/ /\ delegators' = [delegators EXCEPT ![v][d] =
                    [shares |-> kept,
                     undelegations |-> Append(queue, [shares |-> newShares,
                                                      creationBlock |-> block])]]
              /\ newShares \in Nat
    BY UndelegateWrites
  <2> DEFINE entry == [shares |-> newShares, creationBlock |-> block]
             longer == Append(queue, entry)
             same == [delegators[v][d] EXCEPT !.shares = kept]
             waits == [shares |-> kept, undelegations |-> longer]
  <2>2. \/ delegators' = [delegators EXCEPT ![v][d] = same]
        \/ delegators' = [delegators EXCEPT ![v][d] = waits] /\ newShares \in Nat
    BY <2>1
  <2>3. newShares \in Nat => Len(longer) = Len(queue) + 1
    <3>1. newShares \in Nat => entry \in Undelegation
      BY DEF TypeOK, Undelegation
    <3> QED
      BY <1>1, <3>1, AppendProperties
  <2>4. same.undelegations = queue /\ waits.undelegations = longer
    BY <1>1 DEF Delegator
  <2> HIDE DEF same, waits, longer
  <2>5. ASSUME NEW u \in Addr, NEW e \in Addr
        PROVE  Len(delegators[u][e].undelegations) <= Len(delegators'[u][e].undelegations)
    <3>1. CASE delegators' = [delegators EXCEPT ![v][d] = same]
      BY <1>1, <2>4, <3>1, OneDelegator
    <3>2. CASE delegators' = [delegators EXCEPT ![v][d] = waits] /\ newShares \in Nat
      <4>1. delegators'[u][e] = IF u = v /\ e = d THEN waits ELSE delegators[u][e]
        <5>1. delegators' = [delegators EXCEPT ![v][d] = waits]
          BY <3>2
        <5> QED
          BY <5>1 DEF TypeOK
      <4>2. Len(queue) \in Nat /\ Len(longer) = Len(queue) + 1
        BY <1>1, <2>3, <3>2
      <4> QED
        BY <1>1, <2>4, <4>1, <4>2
    <3> QED
      BY <2>2, <3>1, <3>2
  <2>6. \A e \in Addr : wallet'[e] <= wallet[e]
    BY <1>2 DEF TypeOK
  <2> QED
    BY <2>5, <2>6, NothingPaid
<1>3. CASE wallet' # wallet
  <2>1. PICK kept, val :
           /\ UndelegateDirectly(v, d, tokens, val) /\ val.status = validators[v].status
           /\ delegators' = [delegators EXCEPT ![v][d].shares = kept]
    <3> DEFINE rest == delegators[v][d].shares - shares
               kept == Residual(rest, validators[v].tokens - tokens, validators[v].shares - shares)
               val == [validators[v] EXCEPT !.tokens = @ - tokens,
                                            !.shares = @ - shares - (rest - kept)]
    <3>1. /\ UndelegateDirectly(v, d, tokens, val)
          /\ delegators' = [delegators EXCEPT ![v][d].shares = kept]
      BY <1>3 DEF Undelegate, funds
    <3>2. val.status = validators[v].status
      BY HasFields
    <3> HIDE DEF val, kept
    <3> QED
      BY <3>1, <3>2
  <2>2. /\ validators[v].status = "Unbonded"
        /\ validators' = [validators EXCEPT ![v] = val]
        /\ wallet' = [wallet EXCEPT ![d] = @ + tokens]
    BY <2>1 DEF UndelegateDirectly
  <2>3. \A u \in Addr, e \in Addr :
           delegators'[u][e].undelegations = delegators[u][e].undelegations
    <3> DEFINE same == [delegators[v][d] EXCEPT !.shares = kept]
    <3>1. delegators' = [delegators EXCEPT ![v][d] = same]
      BY <2>1
    <3>2. same.undelegations = queue
      BY <1>1 DEF Delegator
    <3> HIDE DEF same
    <3> QED
      BY <3>1, <3>2, OneDelegator
  <2>4. \A u \in Addr : u # v => validators'[u].tokens = validators[u].tokens
    BY <2>2 DEF TypeOK
  <2>5. \A u \in Addr : validators[u].tokens \in Nat
    BY AccountTyped
  <2>6. validators[v].status # "Bonded" /\ block >= slashableUntil[v]
    BY <2>2 DEF Recorded, TypeOK
  <2>7. \A u \in Addr, e \in Addr : Len(delegators[u][e].undelegations) \in Nat
    BY <1>1
  <2>8. ASSUME NEW u \in Addr, NEW e \in Addr
        PROVE  LET before == delegators[u][e].undelegations
                   gone == Len(before) - Len(delegators'[u][e].undelegations)
                   released == validators[u].status # "Bonded" /\ block >= slashableUntil[u]
               IN  /\ \A i \in 1..gone :
                        released \/ block >= before[i].creationBlock + params.UnbondingPeriod
                   /\ (/\ wallet'[e] > wallet[e] /\ gone = 0
                       /\ validators'[u].tokens < validators[u].tokens
                       /\ slashNonces' = slashNonces) => released
    <3>1. Len(delegators'[u][e].undelegations) = Len(delegators[u][e].undelegations)
      BY <2>3
    <3>2. u # v => ~(validators'[u].tokens < validators[u].tokens)
      BY <2>4, <2>5
    <3> DEFINE n == Len(delegators[u][e].undelegations)
    <3>3. n \in Nat
      BY <2>7
    <3> HIDE DEF n
    <3>4. \A i \in 1..(n - n) : FALSE
      BY <3>3
    <3> QED
      BY <2>6, <3>1, <3>2, <3>4 DEF n
  <2> QED
    BY <2>8 DEF PaysOnlyAfterPeriod
<1> QED
  BY <1>2, <1>3

\* completeUndelegate pays the entries whose period is over, or all when unbonded.
LEMMA PaysComplete ==
    ASSUME TypeOK, TypeOK', Recorded, NEW v \in Addr, NEW d \in Addr, CompleteUndelegate(v, d)
    PROVE  PaysOnlyAfterPeriod
<1> DEFINE queue == delegators[v][d].undelegations
<1>1. PICK n \in 0..Len(queue), ready \in 1..validators[v].undelegationShares :
         LET tokens == ShareToToken(ready, validators[v].undelegationTokens,
                                    validators[v].undelegationShares)
         IN  /\ MatureUpTo(v, queue, n)
             /\ validators' = [validators EXCEPT ![v].undelegationShares = @ - ready,
                                                 ![v].undelegationTokens = @ - tokens]
             /\ delegators' = [delegators EXCEPT
                    ![v][d].undelegations = SubSeq(queue, n + 1, Len(queue))]
  BY DEF CompleteUndelegate
<1> DEFINE rest == SubSeq(queue, n + 1, Len(queue))
           tokens == ShareToToken(ready, validators[v].undelegationTokens,
                                  validators[v].undelegationShares)
<1>2. \A u \in Addr, e \in Addr : /\ delegators[u][e] \in Delegator
                                   /\ delegators[u][e].undelegations \in Seq(Undelegation)
                                   /\ Len(delegators[u][e].undelegations) \in Nat
  BY QueuesTyped DEF Queues
<1>3. Len(queue) \in Nat /\ n \in Nat /\ n <= Len(queue) /\ Len(rest) = Len(queue) - n
  <2>1. Len(queue) \in Nat /\ \A i \in (n + 1)..Len(queue) : queue[i] \in Undelegation
    BY <1>2, QueueTyped
  <2>2. n + 1 \in Int /\ Len(queue) \in Int /\ n \in Nat /\ n <= Len(queue)
    BY <2>1
  <2>3. Len(rest) = IF n + 1 <= Len(queue) THEN Len(queue) - (n + 1) + 1 ELSE 0
    BY <2>1, <2>2, SubSeqProperties
  <2> HIDE DEF rest, queue
  <2> QED
    BY <2>1, <2>2, <2>3
<1> HIDE DEF rest
<1>4. /\ delegators'[v][d].undelegations = rest
      /\ \A u \in Addr, e \in Addr : u # v \/ e # d =>
            delegators'[u][e].undelegations = delegators[u][e].undelegations
  <2> DEFINE del == [delegators[v][d] EXCEPT !.undelegations = rest]
  <2>1. delegators' = [delegators EXCEPT ![v][d] = del]
    BY <1>1 DEF rest
  <2>2. del.undelegations = rest
    BY <1>2 DEF Delegator
  <2> HIDE DEF del
  <2>3. \A u \in Addr, e \in Addr :
           delegators'[u][e] = IF u = v /\ e = d THEN del ELSE delegators[u][e]
    BY <2>1 DEF TypeOK
  <2> QED
    BY <2>2, <2>3
<1>5. \A u \in Addr : validators'[u].tokens = validators[u].tokens /\ validators[u].tokens \in Nat
  <2> DEFINE new == [validators[v] EXCEPT !.undelegationShares = @ - ready,
                                          !.undelegationTokens = @ - tokens]
  <2>1. validators' = [validators EXCEPT ![v] = new]
    BY <1>1 DEF TypeOK
  <2>2. new.tokens = validators[v].tokens
    BY AccountTyped DEF Validator
  <2> HIDE DEF new
  <2>3. \A u \in Addr : validators'[u].tokens = validators[u].tokens
    BY <2>1, <2>2 DEF TypeOK
  <2> QED
    BY <2>3, AccountTyped
<1>6. ASSUME NEW i \in 1..n
      PROVE  \/ validators[v].status # "Bonded" /\ block >= slashableUntil[v]
             \/ block >= queue[i].creationBlock + params.UnbondingPeriod
  <2>1. Mature(v, queue[i])
    BY <1>1 DEF MatureUpTo
  <2>2. validators[v].status = "Unbonded" => block >= slashableUntil[v]
    BY DEF Recorded, TypeOK
  <2>3. queue[i].creationBlock \in Nat
    <3>1. i \in 1..Len(queue)
      BY <1>3
    <3>2. queue[i] \in Undelegation
      BY <1>2, <3>1, QueueTyped
    <3> QED
      BY <3>2 DEF Undelegation
  <2>4. block \in Nat /\ params.UnbondingPeriod \in Nat
    BY DEF TypeOK, ParamName
  <2> HIDE DEF queue
  <2> QED
    BY <2>1, <2>2, <2>3, <2>4 DEF Mature
<1>7. \A u \in Addr, e \in Addr : Len(delegators[u][e].undelegations) \in Nat
  BY <1>2
<1>8. ASSUME NEW u \in Addr, NEW e \in Addr
      PROVE  LET before == delegators[u][e].undelegations
                 gone == Len(before) - Len(delegators'[u][e].undelegations)
                 released == validators[u].status # "Bonded" /\ block >= slashableUntil[u]
             IN  /\ \A i \in 1..gone :
                      released \/ block >= before[i].creationBlock + params.UnbondingPeriod
                 /\ (/\ wallet'[e] > wallet[e] /\ gone = 0
                     /\ validators'[u].tokens < validators[u].tokens
                     /\ slashNonces' = slashNonces) => released
  <2>1. ~(validators'[u].tokens < validators[u].tokens)
    BY <1>5
  <2>2. CASE u = v /\ e = d
    <3> DEFINE m == Len(delegators[u][e].undelegations)
               k == Len(delegators'[u][e].undelegations)
    <3>1. m - k = n
      BY <1>3, <1>4, <2>2
    <3> HIDE DEF m, k
    <3> QED
      <4>1. ASSUME NEW i \in 1..(m - k)
            PROVE  \/ validators[u].status # "Bonded" /\ block >= slashableUntil[u]
                   \/ block >= delegators[u][e].undelegations[i].creationBlock
                                + params.UnbondingPeriod
        BY <1>6, <2>2, <3>1
      <4> QED
        BY <2>1, <4>1 DEF m, k
  <2>3. CASE u # v \/ e # d
    <3> DEFINE m == Len(delegators[u][e].undelegations)
    <3>1. Len(delegators'[u][e].undelegations) = m /\ m \in Nat
      BY <1>4, <1>7, <2>3
    <3> HIDE DEF m
    <3>2. \A i \in 1..(m - m) : FALSE
      BY <3>1
    <3> QED
      BY <2>1, <3>1, <3>2 DEF m
  <2> QED
    BY <2>2, <2>3
<1> QED
  BY <1>8 DEF PaysOnlyAfterPeriod

\* No step pays out stake before it has been slashable for its unbonding period.
LEMMA PaysStep ==
    ASSUME TypeOK, TypeOK', Recorded, [Next]_vars
    PROVE  PaysOnlyAfterPeriod
<1>1. CASE DelegatorStep
  <2>1. PICK v \in Addr, d \in Addr :
           \/ \E t \in Amounts : Delegate(v, d, t)
           \/ \E s \in Amounts : UndelegateShares(v, d, s)
           \/ \E t \in Amounts : UndelegateTokens(v, d, t)
           \/ CompleteUndelegate(v, d)
    BY <1>1 DEF DelegatorStep
  <2>2. CASE \E t \in Amounts : Delegate(v, d, t)
    BY <2>2, PaysNothingStep
  <2>3. CASE \E a \in Amounts : UndelegateShares(v, d, a) \/ UndelegateTokens(v, d, a)
    BY <2>3, UndelegateAmount, PaysUndelegate
  <2>4. CASE CompleteUndelegate(v, d)
    BY <2>4, PaysComplete
  <2> QED
    BY <2>1, <2>2, <2>3, <2>4
<1>2. CASE ValidatorStep \/ SlashStep \/ OwnerStep \/ NextBlock \/ GovernStep \/ UNCHANGED vars
  BY <1>2, PaysNothingStep
<1> QED
  BY <1>1, <1>2 DEF Next, StakingStep

\* Stake that helped secure the chain is slashable for the whole unbonding period
\* before it is paid, whichever way it leaves: an entry of the queue waits for its
\* own period, or for its validator to be unbonded, and nobody is unbonded before
\* the period that began when the validator left the bonded set is over.
THEOREM UnbondingDelayCorrect == Spec => UnbondingDelay
<1>1. TypeOK /\ TypeOK' /\ Recorded /\ [Next]_vars => [PaysOnlyAfterPeriod]_vars
  BY PaysStep
<1> QED
  BY <1>1, TypeCorrect, RecordedCorrect, PTL DEF Spec, UnbondingDelay

-----------------------------------------------------------------------------
(* Rounding *)

\* An integer division rounds down, by less than the divisor.
LEMMA QuotientBounds ==
    ASSUME NEW a \in Nat, NEW b \in Nat, b > 0
    PROVE  /\ a \div b \in Nat
           /\ (a \div b) * b <= a
           /\ a < (a \div b) * b + b
  OBVIOUS

\* Products compare as their first factors do.
LEMMA CancelLess ==
    ASSUME NEW x \in Int, NEW y \in Int, NEW b \in Nat, b > 0, x * b < y * b
    PROVE  x < y
  OBVIOUS

\* The quotient is the largest number whose multiple fits.
LEMMA QuotientAtLeast ==
    ASSUME NEW a \in Nat, NEW b \in Nat, b > 0, NEW k \in Int, k * b <= a
    PROVE  k <= a \div b
<1> DEFINE q == a \div b
<1>1. q \in Nat /\ a < q * b + b
  BY QuotientBounds
<1> HIDE DEF q
<1>2. k * b < (q + 1) * b
  <2>1. (q + 1) * b = q * b + b
    BY <1>1
  <2>2. k * b \in Int /\ q * b \in Nat
    BY <1>1
  <2> QED
    BY <1>1, <2>1, <2>2
<1>3. k < q + 1
  BY <1>1, <1>2, CancelLess
<1> QED
  BY <1>1, <1>3 DEF q

\* Products by a natural keep the order.
LEMMA TimesMonotone ==
    ASSUME NEW x \in Int, NEW y \in Int, NEW c \in Nat, x <= y
    PROVE  x * c <= y * c
  OBVIOUS

\* What shares are worth, as a quotient.
LEMMA WorthBounds ==
    ASSUME NEW x \in Nat, NEW T \in Nat, NEW S \in Nat, S > 0
    PROVE  /\ ShareToToken(x, T, S) \in Nat
           /\ ShareToToken(x, T, S) * S <= x * T
           /\ x * T < ShareToToken(x, T, S) * S + S
<1> DEFINE a == x * T
<1>1. a \in Nat
  BY TimesNat
<1>2. ShareToToken(x, T, S) = a \div S
  BY DEF ShareToToken
<1> HIDE DEF a
<1>3. /\ a \div S \in Nat /\ (a \div S) * S <= a /\ a < (a \div S) * S + S
  BY <1>1, QuotientBounds
<1> QED
  BY <1>2, <1>3 DEF a

\* How to show that shares are worth k at least: also after multiplying by c.
LEMMA WorthAtLeast ==
    ASSUME NEW x \in Nat, NEW T \in Nat, NEW S \in Nat, S > 0, NEW k \in Int,
           NEW c \in Nat, c > 0, (k * S) * c <= (x * T) * c
    PROVE  k <= ShareToToken(x, T, S)
<1> DEFINE a == x * T
           b == k * S
<1>1. a \in Nat /\ b \in Int
  BY TimesNat
<1>2. ShareToToken(x, T, S) = a \div S
  BY DEF ShareToToken
<1>3. b * c <= a * c
  OBVIOUS
<1> HIDE DEF a
<1>4. b <= a
  <2> HIDE DEF b
  <2> SUFFICES ASSUME a < b PROVE FALSE
    BY <1>1
  <2>1. a * c < b * c
    BY <1>1
  <2>2. a * c \in Int /\ b * c \in Int
    BY <1>1
  <2> QED
    BY <1>3, <2>1, <2>2
<1>5. k <= a \div S
  BY <1>1, <1>4, QuotientAtLeast
<1> QED
  BY <1>2, <1>5

\* Shares lose nothing where the tokens for each do not decrease.
LEMMA WorthKept ==
    ASSUME NEW x \in Nat, NEW T \in Nat, NEW S \in Nat, NEW U \in Nat, NEW R \in Nat,
           S > 0, R > 0, T * R <= U * S
    PROVE  ShareToToken(x, T, S) <= ShareToToken(x, U, R)
<1> DEFINE k == ShareToToken(x, T, S)
<1>1. k \in Nat /\ k * S <= x * T
  BY WorthBounds
<1> HIDE DEF k
<1>2. (k * R) * S <= (x * U) * S
  <2>1. (k * S) * R <= (x * T) * R
    <3> DEFINE a == k * S
               b == x * T
    <3>1. a \in Int /\ b \in Int /\ a <= b
      BY <1>1
    <3> HIDE DEF a, b
    <3>2. a * R <= b * R
      BY <3>1, TimesMonotone
    <3> QED
      BY <3>2 DEF a, b
  <2>2. (T * R) * x <= (U * S) * x
    <3> DEFINE a == T * R
               b == U * S
    <3>1. a \in Int /\ b \in Int /\ a <= b
      OBVIOUS
    <3> HIDE DEF a, b
    <3>2. a * x <= b * x
      BY <3>1, TimesMonotone
    <3> QED
      BY <3>2 DEF a, b
  <2>3. /\ (k * S) * R = (k * R) * S /\ (x * T) * R = (T * R) * x
        /\ (x * U) * S = (U * S) * x
    BY <1>1
  <2>4. (k * R) * S \in Int /\ (x * T) * R \in Int /\ (x * U) * S \in Int
    BY <1>1
  <2> QED
    BY <2>1, <2>2, <2>3, <2>4
<1>3. k <= ShareToToken(x, U, R)
  <2>1. k \in Int
    BY <1>1
  <2> QED
    BY <1>2, <2>1, WorthAtLeast
<1> QED
  BY <1>3 DEF k

\* The shares given for tokens: rounded down, by less than one.
LEMMA SharesBounds ==
    ASSUME NEW t \in Nat, NEW T \in Nat, NEW S \in Nat, T > 0
    PROVE  /\ TokenToShare(t, T, S) \in Nat
           /\ TokenToShare(t, T, S) * T <= t * S
           /\ t * S < TokenToShare(t, T, S) * T + T
<1> DEFINE a == t * S
<1>1. a \in Nat
  BY TimesNat
<1>2. TokenToShare(t, T, S) = a \div T
  BY DEF TokenToShare
<1> HIDE DEF a
<1>3. /\ a \div T \in Nat /\ (a \div T) * T <= a /\ a < (a \div T) * T + T
  BY <1>1, QuotientBounds
<1> QED
  BY <1>2, <1>3 DEF a

\* A pool of tokens and shares in which shares are worth something, and none more
\* than a token.
Sound(T, S) == T \in Nat /\ S \in Nat /\ T <= S /\ (S > 0 => T > 0)

\* Putting tokens in: whoever does loses at most one unit by rounding, the
\* others nothing.
LEMMA PutIn ==
    ASSUME NEW T, NEW S, Sound(T, S), NEW t \in Nat, NEW s \in 0..S
    PROVE  LET m == TokenToShare(t, T, S) IN
           /\ ShareToToken(s + m, T + t, S + m) + 1 >= ShareToToken(s, T, S) + t
           /\ ShareToToken(s, T + t, S + m) >= ShareToToken(s, T, S)
           /\ T + t <= S + m
<1> DEFINE m == TokenToShare(t, T, S)
           k == ShareToToken(s, T, S)
<1>0. T \in Nat /\ S \in Nat /\ T <= S /\ s \in Nat /\ s <= S
  BY DEF Sound
<1>1. CASE S = 0
  <2>1. T = 0 /\ s = 0 /\ m = t /\ k = 0
    BY <1>0, <1>1 DEF TokenToShare, ShareToToken
  <2>2. ShareToToken(t, t, t) >= t
    <3>1. CASE t = 0
      BY <3>1 DEF ShareToToken
    <3>2. CASE t > 0
      BY <3>2, WorthAtLeast
    <3> QED
      BY <3>1, <3>2
  <2>3. ShareToToken(0, t, t) >= 0
    BY ShareTypes
  <2>4. ShareToToken(t, t, t) \in Nat
    BY ShareTypes
  <2> HIDE DEF m, k
  <2>5. /\ ShareToToken(s + m, T + t, S + m) + 1 >= k + t
        /\ ShareToToken(s, T + t, S + m) >= k /\ T + t <= S + m
    <3>1. /\ s + m = t /\ T + t = t /\ S + m = t /\ k + t = t
      BY <1>1, <2>1
    <3> QED
      BY <2>1, <2>2, <2>3, <2>4, <3>1
  <2> QED
    BY <2>5 DEF m, k
<1>2. CASE S > 0
  <2>1. T > 0
    BY <1>2 DEF Sound
  <2>2. m \in Nat /\ m * T <= t * S /\ t * S < m * T + T
    BY <1>0, <2>1, SharesBounds
  <2>3. k \in Nat /\ k * S <= s * T
    BY <1>0, <1>2, WorthBounds
  <2> HIDE DEF m, k
  <2>4. T * (S + m) <= (T + t) * S
    BY <1>0, <2>2
  <2>5. k <= ShareToToken(s, T + t, S + m)
    <3>1. T + t \in Nat /\ S + m \in Nat /\ S + m > 0
      BY <1>0, <1>2, <2>2
    <3>2. ShareToToken(s, T, S) <= ShareToToken(s, T + t, S + m)
      BY <1>0, <1>2, <2>4, <3>1, WorthKept
    <3> QED
      BY <3>2 DEF k
  <2>6. (k + t - 1) * S <= (s + m) * T
    <3>1. (k + t - 1) * S = k * S + t * S - S /\ (s + m) * T = s * T + m * T
      BY <1>0, <2>2, <2>3
    <3>2. /\ k * S \in Int /\ t * S \in Int /\ s * T \in Int /\ m * T \in Int
      BY <1>0, <2>2, <2>3
    <3> QED
      BY <1>0, <2>2, <2>3, <3>1, <3>2
  <2>7. ((k + t - 1) * (S + m)) * S <= ((s + m) * (T + t)) * S
    <3> DEFINE a == (k + t - 1) * S
               b == (s + m) * T
               c == T * (S + m)
               e == (T + t) * S
    <3>1. a \in Int /\ b \in Int /\ c \in Int /\ e \in Int /\ a <= b /\ c <= e
      BY <1>0, <2>2, <2>3, <2>4, <2>6
    <3>2. S + m \in Nat /\ s + m \in Nat
      BY <1>0, <2>2
    <3>3. /\ ((k + t - 1) * (S + m)) * S = a * (S + m) /\ b * (S + m) = c * (s + m)
          /\ ((s + m) * (T + t)) * S = e * (s + m)
      BY <1>0, <2>2, <2>3
    <3> HIDE DEF a, b, c, e
    <3>4. a * (S + m) <= b * (S + m) /\ c * (s + m) <= e * (s + m)
      BY <3>1, <3>2, TimesMonotone
    <3>5. a * (S + m) \in Int /\ b * (S + m) \in Int /\ e * (s + m) \in Int
      BY <3>1, <3>2
    <3> QED
      BY <3>3, <3>4, <3>5
  <2>8. k + t - 1 <= ShareToToken(s + m, T + t, S + m)
    <3>1. /\ T + t \in Nat /\ S + m \in Nat /\ S + m > 0 /\ s + m \in Nat
          /\ k + t - 1 \in Int
      BY <1>0, <1>2, <2>2, <2>3
    <3> QED
      BY <1>0, <1>2, <2>7, <3>1, WorthAtLeast
  <2>9. T + t <= S + m
    <3>1. t * T < (m + 1) * T
      <4>1. t * T <= t * S
        <5>1. T * t <= S * t
          BY <1>0, TimesMonotone
        <5> QED
          BY <1>0, <5>1
      <4>2. (m + 1) * T = m * T + T /\ t * T \in Int /\ t * S \in Int /\ m * T \in Int
        BY <1>0, <2>2
      <4> QED
        BY <1>0, <2>2, <4>1, <4>2
    <3>2. t < m + 1
      BY <1>0, <2>1, <2>2, <3>1, CancelLess
    <3> QED
      BY <1>0, <2>2, <3>2
  <2>10. ShareToToken(s + m, T + t, S + m) \in Nat /\ ShareToToken(s, T + t, S + m) \in Nat
    <3>1. T + t \in Nat /\ S + m \in Nat /\ s + m \in Nat
      BY <1>0, <2>2
    <3> QED
      BY <1>0, <3>1, ShareTypes
  <2>11. ShareToToken(s + m, T + t, S + m) + 1 >= k + t
    BY <2>3, <2>8, <2>10
  <2>12. ShareToToken(s, T + t, S + m) >= k
    BY <2>3, <2>5, <2>10
  <2> QED
    BY <2>9, <2>11, <2>12 DEF m, k
<1> QED
  BY <1>0, <1>1, <1>2

\* No shares are worth nothing.
LEMMA NoShares ==
    ASSUME NEW T \in Nat, NEW S \in Nat
    PROVE  ShareToToken(0, T, S) = 0
<1>1. 0 * T = 0
  OBVIOUS
<1>2. S > 0 => 0 \div S = 0
  OBVIOUS
<1> QED
  BY <1>1, <1>2 DEF ShareToToken

\* What withdrawing t tokens for x of s shares leaves of the tokens: at most one
\* share's worth less for each remaining share than there was.
LEMMA LeftForEach ==
    ASSUME NEW T \in Nat, NEW S \in Nat, T <= S, NEW t \in 0..T, NEW x \in 0..S,
           t * S <= x * T + T, NEW R \in Nat, R <= S - x, NEW e \in 0..R
    PROVE  (e * T) * R <= (e * (T - t)) * S + S * R
<1> DEFINE a == T * (S - x)
           b == (T - t) * S + T
           c == T * R
<1>1. a \in Int /\ b \in Int /\ c \in Int /\ a <= b
  <2>1. /\ a = T * S - x * T /\ b = T * S - t * S + T
        /\ T * S \in Int /\ x * T \in Int /\ t * S \in Int
    OBVIOUS
  <2> HIDE DEF a, b
  <2> QED
    BY <2>1
<1>2. c <= a
  <2>1. R * T <= (S - x) * T
    BY TimesMonotone
  <2> QED
    BY <2>1
<1>3. e * T <= R * S
  <2>1. e * T <= R * T
    BY TimesMonotone
  <2>2. T * R <= S * R
    BY TimesMonotone
  <2> QED
    BY <2>1, <2>2
<1>4. (e * T) * R = c * e
  OBVIOUS
<1>5. b * e = (e * (T - t)) * S + e * T
  OBVIOUS
<1>6. c * e \in Int /\ b * e \in Int /\ e * T \in Int /\ (e * (T - t)) * S \in Int /\ S * R \in Int
  OBVIOUS
<1>7. R * S = S * R
  OBVIOUS
<1> HIDE DEF a, b, c
<1>8. c * e <= b * e
  BY <1>1, <1>2, TimesMonotone
<1> QED
  BY <1>3, <1>4, <1>5, <1>6, <1>7, <1>8

\* Taking tokens out for shares, the residual of which may be dropped: whoever
\* does loses at most two units by rounding, any other holder one.
LEMMA Withdraw ==
    ASSUME NEW T, NEW S, Sound(T, S), NEW t \in 0..T, NEW s \in 0..S, NEW x \in 0..s,
           NEW kept \in Nat, kept = s - x \/ (kept = 0 /\ s - x <= 2),
           t * S <= x * T + T, S > 0 => x * T < t * S + S,
           NEW U, U = T - t, NEW R, R = S - x - ((s - x) - kept)
    PROVE  /\ ShareToToken(kept, U, R) + t + 2 >= ShareToToken(s, T, S)
           /\ \A e \in 0..(S - s) : ShareToToken(e, U, R) + 1 >= ShareToToken(e, T, S)
<1>0. /\ T \in Nat /\ S \in Nat /\ T <= S /\ t \in Nat /\ x \in Nat /\ s \in Nat
      /\ s <= S /\ x <= s /\ t <= T /\ U \in Nat /\ R \in Nat /\ R <= S - x /\ kept <= R
  BY DEF Sound
<1>1. \A e \in Nat : ShareToToken(e, U, R) \in Nat /\ ShareToToken(e, T, S) \in Nat
  BY <1>0, ShareTypes
<1>2. ASSUME NEW e \in 0..R, R > 0, NEW k \in Int, k * S <= e * T - S
      PROVE  k <= ShareToToken(e, U, R)
  <2>1. (e * T) * R <= (e * U) * S + S * R
    <3>1. t \in 0..T /\ x \in 0..S
      BY <1>0
    <3>2. (e * T) * R <= (e * (T - t)) * S + S * R
      BY <1>0, <3>1, LeftForEach
    <3> QED
      BY <3>2
  <2>2. (k * S) * R <= (e * T) * R - S * R
    <3> DEFINE a == k * S
               b == e * T - S
    <3>1. a \in Int /\ b \in Int /\ a <= b
      BY <1>0, <1>2
    <3>2. b * R = (e * T) * R - S * R
      BY <1>0, <1>2
    <3> HIDE DEF a, b
    <3>3. a * R <= b * R
      BY <1>0, <3>1, TimesMonotone
    <3> QED
      BY <3>2, <3>3 DEF a
  <2>3. (k * R) * S <= (e * U) * S
    <3>1. (k * R) * S = (k * S) * R
      BY <1>0, <1>2
    <3>2. /\ (k * S) * R \in Int /\ (e * T) * R \in Int /\ (e * U) * S \in Int
          /\ S * R \in Int
      BY <1>0, <1>2
    <3> QED
      BY <2>1, <2>2, <3>1, <3>2
  <2>4. S > 0 /\ e \in Nat
    BY <1>0, <1>2
  <2> QED
    BY <1>0, <1>2, <2>3, <2>4, WorthAtLeast
<1>3. ASSUME NEW e \in 0..(S - s) PROVE ShareToToken(e, U, R) + 1 >= ShareToToken(e, T, S)
  <2> DEFINE k == ShareToToken(e, T, S)
  <2>0. e \in Nat /\ e <= R
    BY <1>0
  <2>1. CASE R = 0
    <3>1. e = 0 /\ k = 0
      BY <1>0, <2>0, <2>1, NoShares
    <3> QED
      BY <1>0, <1>1, <3>1
  <2>2. CASE R > 0
    <3>0. S > 0
      BY <1>0, <2>2
    <3>1. k \in Nat /\ k * S <= e * T
      BY <1>0, <2>0, <3>0, WorthBounds
    <3> HIDE DEF k
    <3>2. (k - 1) * S <= e * T - S
      <4>1. (k - 1) * S = k * S - S /\ k * S \in Int /\ e * T \in Int
        BY <1>0, <2>0, <3>1
      <4> QED
        BY <1>0, <3>1, <4>1
    <3>3. k - 1 <= ShareToToken(e, U, R)
      BY <1>2, <2>0, <2>2, <3>1, <3>2
    <3>4. ShareToToken(e, U, R) \in Nat
      BY <1>1, <2>0
    <3> QED
      BY <3>1, <3>3, <3>4 DEF k
  <2> QED
    BY <1>0, <2>1, <2>2
<1>4. ShareToToken(kept, U, R) + t + 2 >= ShareToToken(s, T, S)
  <2> DEFINE k == ShareToToken(s, T, S)
  <2>0. ShareToToken(kept, U, R) \in Nat
    BY <1>1
  <2>1. CASE S = 0
    <3>1. s = 0 /\ k = 0
      BY <1>0, <2>1, NoShares
    <3> QED
      BY <1>0, <2>0, <3>1
  <2>2. CASE S > 0
    <3>1. k \in Nat /\ k * S <= s * T /\ x * T < t * S + S
      BY <1>0, <2>2, WorthBounds
    <3> HIDE DEF k
    <3>2. s * T = x * T + (s - x) * T
      BY <1>0
    <3>3. /\ s * T \in Int /\ x * T \in Int /\ (s - x) * T \in Int /\ t * S \in Int
          /\ k * S \in Int
      BY <1>0, <3>1
    <3>4. CASE kept = 0 /\ s - x <= 2
      <4>1. (s - x) * T <= 2 * S
        <5>1. (s - x) * T <= 2 * T
          BY <1>0, <3>4, TimesMonotone
        <5> QED
          BY <1>0, <3>3, <5>1
      <4>2. k * S < (t + 3) * S
        <5>1. (t + 3) * S = t * S + S + 2 * S
          BY <1>0
        <5> QED
          BY <1>0, <3>1, <3>2, <3>3, <4>1, <5>1
      <4>3. k < t + 3
        BY <1>0, <2>2, <3>1, <4>2, CancelLess
      <4> QED
        BY <1>0, <2>0, <3>1, <4>3 DEF k
    <3>5. CASE kept = s - x /\ kept > 0
      <4>1. (k - t - 2) * S <= kept * T - S
        <5>1. (k - t - 2) * S = k * S - t * S - 2 * S
          BY <1>0, <3>1
        <5> QED
          BY <1>0, <3>1, <3>2, <3>3, <3>5, <5>1
      <4>2. k - t - 2 <= ShareToToken(kept, U, R)
        <5>1. k - t - 2 \in Int /\ R > 0 /\ kept \in 0..R
          BY <1>0, <3>1, <3>5
        <5> QED
          BY <1>2, <4>1, <5>1
      <4> QED
        BY <1>0, <2>0, <3>1, <4>2 DEF k
    <3> QED
      BY <1>0, <3>4, <3>5
  <2> QED
    BY <1>0, <2>1, <2>2
<1> QED
  BY <1>3, <1>4

\* Taking a part's worth out of a pool: whoever does loses at most one unit by
\* rounding, the others nothing, and the pool stays sound.
LEMMA LeavePool ==
    ASSUME NEW T, NEW S, Sound(T, S), NEW s \in 0..S, NEW x \in 0..s,
           NEW t, t = ShareToToken(x, T, S), t <= T
    PROVE  /\ ShareToToken(s - x, T - t, S - x) + t + 1 >= ShareToToken(s, T, S)
           /\ \A e \in 0..(S - x) : ShareToToken(e, T - t, S - x) >= ShareToToken(e, T, S)
           /\ Sound(T - t, S - x)
<1>0. /\ T \in Nat /\ S \in Nat /\ T <= S /\ s \in Nat /\ x \in Nat /\ s <= S /\ x <= s
      /\ t \in Nat /\ T - t \in Nat /\ S - x \in Nat
  <2>1. /\ T \in Nat /\ S \in Nat /\ T <= S /\ s \in Nat /\ x \in Nat /\ s <= S /\ x <= s
    BY DEF Sound
  <2>2. t \in Nat
    BY <2>1, ShareTypes
  <2> QED
    BY <2>1, <2>2
<1>1. CASE S = 0
  <2>1. T = 0 /\ s = 0 /\ x = 0 /\ t = 0
    BY <1>0, <1>1, NoShares
  <2>2. \A e \in 0..(S - x) : e = 0
    BY <1>1, <2>1
  <2>3. ShareToToken(0, 0, 0) = 0
    BY NoShares
  <2> QED
    BY <1>1, <2>1, <2>2, <2>3 DEF Sound
<1>2. CASE S > 0
  <2>1. t * S <= x * T /\ x * T < t * S + S /\ T > 0
    <3>1. T > 0
      BY <1>2 DEF Sound
    <3> QED
      BY <1>0, <1>2, <3>1, WorthBounds
  <2>2. T * (S - x) <= (T - t) * S
    <3>1. /\ T * (S - x) = T * S - x * T /\ (T - t) * S = T * S - t * S
          /\ T * S \in Int /\ x * T \in Int /\ t * S \in Int
      BY <1>0
    <3> QED
      BY <2>1, <3>1
  <2>3. ASSUME NEW e \in 0..(S - x)
        PROVE  /\ ShareToToken(e, T - t, S - x) >= ShareToToken(e, T, S)
               /\ ShareToToken(e, T - t, S - x) \in Nat /\ ShareToToken(e, T, S) \in Nat
    <3>0. e \in Nat
      OBVIOUS
    <3>1. CASE S - x = 0
      <4>1. e = 0
        BY <3>1
      <4> QED
        BY <1>0, <4>1, NoShares
    <3>2. CASE S - x > 0
      <4>1. ShareToToken(e, T, S) <= ShareToToken(e, T - t, S - x)
        BY <1>0, <1>2, <2>2, <3>0, <3>2, WorthKept
      <4>2. ShareToToken(e, T - t, S - x) \in Nat /\ ShareToToken(e, T, S) \in Nat
        BY <1>0, <3>0, ShareTypes
      <4> QED
        BY <4>1, <4>2
    <3> QED
      BY <1>0, <3>1, <3>2
  <2>4. ShareToToken(s - x, T - t, S - x) + t + 1 >= ShareToToken(s, T, S)
    <3> DEFINE k == ShareToToken(s, T, S)
               w == ShareToToken(s - x, T, S)
               v == ShareToToken(s - x, T - t, S - x)
    <3>1. k \in Nat /\ k * S <= s * T
      BY <1>0, <1>2, WorthBounds
    <3>2. s - x \in 0..(S - x) /\ s - x \in Nat
      BY <1>0
    <3>3. v >= w /\ v \in Nat /\ w \in Nat
      BY <2>3, <3>2
    <3> HIDE DEF k, v
    <3>4. (k - t - 1) * S <= (s - x) * T
      <4>1. /\ (k - t - 1) * S = k * S - t * S - S /\ (s - x) * T = s * T - x * T
            /\ k * S \in Int /\ t * S \in Int /\ s * T \in Int /\ x * T \in Int
        BY <1>0, <3>1
      <4> QED
        BY <1>0, <2>1, <3>1, <4>1
    <3>5. k - t - 1 <= w
      <4> DEFINE j == k - t - 1
                 a == (s - x) * T
      <4>1. j \in Int /\ a \in Nat /\ j * S <= a
        BY <1>0, <3>1, <3>2, <3>4, TimesNat
      <4>2. w = a \div S
        BY <1>2 DEF ShareToToken
      <4> HIDE DEF j, a, w
      <4>3. j <= a \div S
        BY <1>0, <1>2, <4>1, QuotientAtLeast
      <4> QED
        BY <4>2, <4>3 DEF j
    <3> HIDE DEF w
    <3>6. v + t + 1 >= k
      BY <1>0, <3>1, <3>3, <3>5
    <3> QED
      BY <3>6 DEF k, v
  <2>5. T - t <= S - x
    <3>1. (T - t) * S < (S - x + 1) * S
      <4>1. /\ (T - t) * S = T * S - t * S /\ (S - x) * T = T * S - x * T
            /\ (S - x + 1) * S = (S - x) * S + S
            /\ T * S \in Int /\ t * S \in Int /\ x * T \in Int /\ (S - x) * S \in Int
        BY <1>0
      <4>2. T * (S - x) <= S * (S - x)
        BY <1>0, TimesMonotone
      <4>3. T * (S - x) = (S - x) * T /\ S * (S - x) = (S - x) * S
        BY <1>0
      <4> QED
        BY <1>0, <2>1, <4>1, <4>2, <4>3
    <3>2. T - t < S - x + 1
      BY <1>0, <1>2, <3>1, CancelLess
    <3> QED
      BY <1>0, <3>2
  <2>6. S - x > 0 => T - t > 0
    <3> SUFFICES ASSUME T - t = 0 PROVE S - x = 0
      BY <1>0
    <3>1. T * (S - x) <= 0
      <4>1. (T - t) * S = 0
        BY <1>0
      <4> QED
        BY <2>2, <4>1
    <3>2. S - x >= 1 => T * (S - x) >= T
      BY <1>0
    <3>3. T * (S - x) \in Int
      BY <1>0
    <3> QED
      BY <1>0, <2>1, <3>1, <3>2, <3>3
  <2> QED
    BY <1>0, <2>3, <2>4, <2>5, <2>6 DEF Sound
<1> QED
  BY <1>0, <1>1, <1>2

-----------------------------------------------------------------------------
(* Pools that are worth something *)

\* Below this cap a slash takes a part of the stake, never all of it.
PartialSlashes ==
    /\ InitParams.MaxSlashFactor < SLASH_FACTOR_DECIMAL
    /\ \A c \in ParamChanges : c[1] = "MaxSlashFactor" => c[2] < SLASH_FACTOR_DECIMAL
    /\ \A cap \in SlashCaps : cap < SLASH_FACTOR_DECIMAL

\* Shares of a validator stand for tokens; queued shares, for at most one each.
PoolsLive ==
    /\ params.MaxSlashFactor < SLASH_FACTOR_DECIMAL
    /\ \A v \in Addr :
          /\ validators[v].shares > 0 => validators[v].tokens > 0
          /\ Sound(validators[v].undelegationTokens, validators[v].undelegationShares)

\* A step that leaves a validator's account leaves its pools.
LEMMA SamePools ==
    ASSUME PoolsLive, NEW u \in Addr, SameAccount(u)
    PROVE  /\ validators'[u].shares > 0 => validators'[u].tokens > 0
           /\ Sound(validators'[u].undelegationTokens, validators'[u].undelegationShares)
BY DEF PoolsLive, SameAccount

\* The price of an undelegation, as products; all the tokens cost all the shares.
LEMMA PriceBounds ==
    ASSUME NEW T \in Nat, NEW S \in Nat, NEW t \in 0..T, NEW x \in Nat,
           t = ShareToToken(x, T, S) \/ x = TokenToShare(t, T, S)
    PROVE  /\ t * S <= x * T + T
           /\ S > 0 => x * T < t * S + S
           /\ T > 0 /\ t = T => S <= x
<1>0. t \in Nat /\ t <= T /\ t * S \in Int /\ x * T \in Int
  OBVIOUS
<1>1. CASE S = 0
  BY <1>0, <1>1
<1>2. CASE T = 0
  BY <1>0, <1>2
<1>3. CASE S > 0 /\ T > 0 /\ t = ShareToToken(x, T, S)
  <2>1. t * S <= x * T /\ x * T < t * S + S
    BY <1>3, WorthBounds
  <2>2. ASSUME t = T, x < S PROVE FALSE
    <3>1. x * T < S * T
      BY <1>3, <2>2
    <3> QED
      BY <1>0, <2>1, <2>2, <3>1
  <2> QED
    BY <1>0, <2>1, <2>2
<1>4. CASE S > 0 /\ T > 0 /\ x = TokenToShare(t, T, S)
  <2>1. x * T <= t * S /\ t * S < x * T + T
    BY <1>0, <1>4, SharesBounds
  <2>2. ASSUME t = T PROVE S <= x
    <3>1. S * T < (x + 1) * T
      <4>1. (x + 1) * T = x * T + T /\ S * T = t * S
        BY <2>2
      <4> QED
        BY <2>1, <4>1
    <3>2. S < x + 1
      BY <1>4, <3>1, CancelLess
    <3> QED
      BY <3>2
  <2> QED
    BY <1>0, <1>4, <2>1, <2>2
<1> QED
  BY <1>1, <1>2, <1>3, <1>4

\* A slash below the cap leaves something of what there is.
LEMMA SlashLeaves ==
    ASSUME NEW amount \in Nat, NEW factor \in Nat, factor < SLASH_FACTOR_DECIMAL
    PROVE  /\ Slashed(amount, factor) \in Nat
           /\ Slashed(amount, factor) <= amount
           /\ amount > 0 => Slashed(amount, factor) < amount
<1> DEFINE D == SLASH_FACTOR_DECIMAL
           q == (amount * factor) \div D
<1>1. D \in Nat /\ D > 0 /\ factor < D
  BY StakingAssumption
<1> HIDE DEF D
<1>2. amount * factor \in Nat
  BY TimesNat
<1>3. q \in Nat /\ q * D <= amount * factor
  <2> DEFINE a == amount * factor
  <2>1. a \in Nat
    BY <1>2
  <2> HIDE DEF a
  <2>2. a \div D \in Nat /\ (a \div D) * D <= a
    BY <1>1, <2>1, QuotientBounds
  <2> QED
    BY <2>2 DEF a
<1>4. Slashed(amount, factor) = q
  BY DEF Slashed, D
<1> HIDE DEF q
<1>5. amount > 0 => q < amount
  <2> SUFFICES ASSUME amount > 0 PROVE q < amount
    OBVIOUS
  <2>1. amount * factor < amount * D
    BY <1>1
  <2>2. q * D < amount * D
    <3>1. q * D \in Int /\ amount * D \in Int
      BY <1>1, <1>3
    <3> QED
      BY <1>2, <1>3, <2>1, <3>1
  <2> QED
    BY <1>1, <1>3, <2>2, CancelLess
<1>6. amount = 0 => q = 0
  <2> SUFFICES ASSUME amount = 0 PROVE q = 0
    OBVIOUS
  <2>1. q * D <= 0
    BY <1>3
  <2>2. q >= 1 => q * D >= D
    BY <1>1, <1>3
  <2>3. q * D \in Int
    BY <1>1, <1>3
  <2> QED
    BY <1>1, <1>3, <2>1, <2>2, <2>3
<1> QED
  BY <1>3, <1>4, <1>5, <1>6

\* Each kind of step keeps the pools of the validator it is about.
LEMMA DepositedPools ==
    ASSUME TypeOK, PoolsLive, NEW v \in Addr, NEW d \in Addr, NEW tokens \in Nat,
           tokens > 0, Deposited(v, d, tokens)
    PROVE  /\ validators'[v].shares > 0 => validators'[v].tokens > 0
           /\ Sound(validators'[v].undelegationTokens, validators'[v].undelegationShares)
<1>1. validators[v].tokens \in Nat
  BY AccountTyped
<1> QED
  BY <1>1 DEF Deposited, PoolsLive

\* Putting tokens in keeps a pool sound.
LEMMA SoundPutIn ==
    ASSUME NEW T, NEW S, Sound(T, S), NEW t \in Nat
    PROVE  Sound(T + t, S + TokenToShare(t, T, S))
<1> DEFINE m == TokenToShare(t, T, S)
<1>1. T \in Nat /\ S \in Nat /\ T <= S /\ (S > 0 => T > 0) /\ m \in Nat /\ 0 \in 0..S
  BY ShareTypes DEF Sound
<1>2. T + t <= S + m
  BY <1>1, PutIn
<1>3. S = 0 => m = t
  BY <1>1 DEF TokenToShare
<1> HIDE DEF m
<1>4. Sound(T + t, S + m)
  BY <1>1, <1>2, <1>3 DEF Sound
<1> QED
  BY <1>4 DEF m

\* undelegate() keeps both pools sound.
LEMMA WithdrawnPools ==
    ASSUME TypeOK, SharesExact, PoolsLive, NEW v \in Addr, NEW d \in Addr,
           NEW tokens \in Nat, NEW shares \in Nat,
           Withdrawn(v, d, tokens, shares), AtPrice(v, tokens, shares)
    PROVE  /\ validators'[v].shares > 0 => validators'[v].tokens > 0
           /\ Sound(validators'[v].undelegationTokens, validators'[v].undelegationShares)
<1> DEFINE T == validators[v].tokens
           S == validators[v].shares
           rest == delegators[v][d].shares - shares
<1>1. PICK kept \in Nat :
         /\ rest >= 0 /\ tokens <= T
         /\ kept = rest \/ (kept = 0 /\ rest <= 2)
         /\ validators'[v].tokens = T - tokens
         /\ validators'[v].shares = S - shares - (rest - kept)
         /\ Paid(v, d, tokens) \/ Queued(v, d, tokens)
  BY DEF Withdrawn
<1>2. T \in Nat /\ S \in Nat /\ delegators[v][d].shares \in Nat /\ (S > 0 => T > 0)
  BY AccountTyped DEF PoolsLive
<1>4. Sound(validators'[v].undelegationTokens, validators'[v].undelegationShares)
  BY <1>1, SoundPutIn DEF PoolsLive, Paid, Queued
<1>5. rest \in Int
  BY <1>2
<1> HIDE DEF T, S, rest
<1>3. validators'[v].shares > 0 => validators'[v].tokens > 0
  <2>2. tokens \in 0..T
    BY <1>1, <1>2
  <2>3. T > 0 /\ tokens = T => S <= shares
    <3>1. tokens = ShareToToken(shares, T, S) \/ shares = TokenToShare(tokens, T, S)
      BY DEF AtPrice, T, S
    <3> QED
      BY <1>2, <2>2, <3>1, PriceBounds
  <2> QED
    BY <1>1, <1>2, <1>5, <2>2, <2>3
<1> QED
  BY <1>3, <1>4

\* completeUndelegate() keeps both pools sound.
LEMMA CompletedPools ==
    ASSUME TypeOK, PoolsLive, NEW v \in Addr, NEW d \in Addr, Completed(v, d)
    PROVE  /\ validators'[v].shares > 0 => validators'[v].tokens > 0
           /\ Sound(validators'[v].undelegationTokens, validators'[v].undelegationShares)
<1> DEFINE T == validators[v].undelegationTokens
           S == validators[v].undelegationShares
<1>1. PICK ready \in 0..S :
         /\ ShareToToken(ready, T, S) <= T
         /\ validators'[v].tokens = validators[v].tokens
         /\ validators'[v].shares = validators[v].shares
         /\ validators'[v].undelegationTokens = T - ShareToToken(ready, T, S)
         /\ validators'[v].undelegationShares = S - ready
  BY DEF Completed
<1>2. Sound(T, S) /\ (validators[v].shares > 0 => validators[v].tokens > 0)
  BY DEF PoolsLive
<1>3. S \in 0..S /\ ready \in 0..S
  BY <1>2 DEF Sound
<1> HIDE DEF T, S
<1>4. Sound(T - ShareToToken(ready, T, S), S - ready)
  BY <1>1, <1>2, <1>3, LeavePool
<1> QED
  BY <1>1, <1>2, <1>4

\* A slash below the whole stake keeps both pools sound.
LEMMA CutPools ==
    ASSUME TypeOK, PoolsLive, NEW v \in Addr, NEW factor \in Nat,
           factor <= params.MaxSlashFactor, Cut(v, factor)
    PROVE  /\ validators'[v].shares > 0 => validators'[v].tokens > 0
           /\ Sound(validators'[v].undelegationTokens, validators'[v].undelegationShares)
<1>1. factor < SLASH_FACTOR_DECIMAL
  <2>1. params.MaxSlashFactor \in Nat
    BY DEF TypeOK, ParamName
  <2>2. params.MaxSlashFactor < SLASH_FACTOR_DECIMAL /\ SLASH_FACTOR_DECIMAL \in Nat
    BY StakingAssumption DEF PoolsLive
  <2> QED
    BY <2>1, <2>2
<1>2. validators[v].tokens \in Nat /\ validators[v].undelegationTokens \in Nat
  BY AccountTyped
<1> DEFINE a == Slashed(validators[v].tokens, factor)
           b == Slashed(validators[v].undelegationTokens, factor)
<1>3. /\ a \in Nat /\ a <= validators[v].tokens
      /\ validators[v].tokens > 0 => a < validators[v].tokens
      /\ b \in Nat /\ b <= validators[v].undelegationTokens
      /\ validators[v].undelegationTokens > 0 => b < validators[v].undelegationTokens
  BY <1>1, <1>2, SlashLeaves
<1>4. /\ validators'[v].tokens = validators[v].tokens - a
      /\ validators'[v].undelegationTokens = validators[v].undelegationTokens - b
      /\ validators'[v].shares = validators[v].shares
      /\ validators'[v].undelegationShares = validators[v].undelegationShares
  BY DEF Cut
<1> HIDE DEF a, b
<1> QED
  BY <1>2, <1>3, <1>4 DEF PoolsLive, Sound

-----------------------------------------------------------------------------
(* No step but a slash costs anybody more than rounding *)

\* Parts of a sum of naturals, one and two at a time.
LEMMA SumParts ==
    ASSUME NEW f, NEW S, IsFiniteSet(S), \A x \in S : f[x] \in Nat, NEW d \in S
    PROVE  /\ f[d] <= SumFunctionOnSet(f, S)
           /\ \A e \in S \ {d} : f[e] <= SumFunctionOnSet(f, S) - f[d]
           /\ SumFunctionOnSet(f, S) \in Nat
<1>1. IsFiniteSet(S \ {d}) /\ \A x \in S \ {d} : f[x] \in Nat
  BY FS_Subset
<1>2. SumFunctionOnSet(f, S) = f[d] + SumFunctionOnSet(f, S \ {d})
  <2>1. \A x \in S : f[x] \in Int
    OBVIOUS
  <2> QED
    BY <2>1, SumRemove
<1>3. SumFunctionOnSet(f, S \ {d}) \in Nat
  BY <1>1, SumNat
<1>4. ASSUME NEW e \in S \ {d} PROVE f[e] <= SumFunctionOnSet(f, S \ {d})
  <2> DEFINE R == S \ {d}
  <2>1. e \in R /\ IsFiniteSet(R) /\ IsFiniteSet(R \ {e}) /\ \A x \in R : f[x] \in Nat
    BY <1>1, FS_Subset
  <2> HIDE DEF R
  <2>2. SumFunctionOnSet(f, R) = f[e] + SumFunctionOnSet(f, R \ {e})
    <3>1. \A x \in R : f[x] \in Int
      BY <2>1
    <3> QED
      BY <2>1, <3>1, SumRemove
  <2>3. SumFunctionOnSet(f, R \ {e}) \in Nat
    <3>1. \A x \in R \ {e} : f[x] \in Nat
      BY <2>1
    <3> QED
      BY <2>1, <3>1, SumNat
  <2>4. f[e] \in Nat
    BY <2>1
  <2> QED
    BY <2>2, <2>3, <2>4 DEF R
<1> DEFINE all == SumFunctionOnSet(f, S)
           others == SumFunctionOnSet(f, S \ {d})
<1>5. f[d] \in Nat /\ others \in Nat /\ all = f[d] + others
  BY <1>2, <1>3
<1>6. \A e \in S \ {d} : f[e] \in Nat /\ f[e] <= others
  BY <1>4
<1> HIDE DEF all, others
<1>7. f[d] <= all /\ all \in Nat /\ \A e \in S \ {d} : f[e] <= all - f[d]
  BY <1>5, <1>6
<1> QED
  BY <1>7 DEF all

\* What delegators hold of a validator's shares, one and two at a time.
LEMMA Holdings ==
    ASSUME TypeOK, SharesExact, NEW v \in Addr, NEW d \in Addr
    PROVE  /\ delegators[v][d].shares \in 0..validators[v].shares
           /\ QueuedShares(delegators[v][d].undelegations) \in 0..validators[v].undelegationShares
           /\ \A e \in Addr \ {d} :
                 /\ delegators[v][e].shares
                      \in 0..(validators[v].shares - delegators[v][d].shares)
                 /\ QueuedShares(delegators[v][e].undelegations)
                      \in 0..(validators[v].undelegationShares
                                - QueuedShares(delegators[v][d].undelegations))
<1> DEFINE f == SharesIn(v)
           g == QueuedIn(v)
<1>1. \A e \in Addr : f[e] \in Nat /\ g[e] \in Nat
  BY NumbersTyped DEF Numbers
<1>2. /\ validators[v].shares = SumFunctionOnSet(f, Addr)
      /\ validators[v].undelegationShares = SumFunctionOnSet(g, Addr)
  BY DEF SharesExact, SharesIn, QueuedIn
<1>3. \A e \in Addr : /\ delegators[v][e].shares = f[e]
                      /\ QueuedShares(delegators[v][e].undelegations) = g[e]
  BY DEF SharesIn, QueuedIn
<1>4. IsFiniteSet(Addr)
  BY StakingAssumption
<1> HIDE DEF f, g
<1>5. /\ f[d] <= SumFunctionOnSet(f, Addr) /\ SumFunctionOnSet(f, Addr) \in Nat
      /\ \A e \in Addr \ {d} : f[e] <= SumFunctionOnSet(f, Addr) - f[d]
  BY <1>1, <1>4, SumParts
<1>6. /\ g[d] <= SumFunctionOnSet(g, Addr) /\ SumFunctionOnSet(g, Addr) \in Nat
      /\ \A e \in Addr \ {d} : g[e] <= SumFunctionOnSet(g, Addr) - g[d]
  BY <1>1, <1>4, SumParts
<1>7. /\ f[d] \in 0..validators[v].shares /\ g[d] \in 0..validators[v].undelegationShares
      /\ \A e \in Addr \ {d} : /\ f[e] \in 0..(validators[v].shares - f[d])
                               /\ g[e] \in 0..(validators[v].undelegationShares - g[d])
  BY <1>1, <1>2, <1>5, <1>6
<1> QED
  BY <1>3, <1>7

\* What d's shares and queued shares of v are worth.
StakeWorth(v, d) ==
    ShareToToken(delegators[v][d].shares, validators[v].tokens, validators[v].shares)
QueueWorth(v, d) ==
    ShareToToken(QueuedShares(delegators[v][d].undelegations),
                 validators[v].undelegationTokens, validators[v].undelegationShares)

Worths == \A v \in Addr, d \in Addr : /\ StakeWorth(v, d) \in Nat /\ QueueWorth(v, d) \in Nat
                                      /\ wallet[d] \in Nat

\* Every summand of what an account could take out is a natural.
LEMMA WorthsTyped == TypeOK => Worths
<1> SUFFICES ASSUME TypeOK, NEW v \in Addr, NEW d \in Addr
             PROVE  StakeWorth(v, d) \in Nat /\ QueueWorth(v, d) \in Nat /\ wallet[d] \in Nat
  BY DEF Worths
<1>1. wallet[d] \in Nat
  BY DEF TypeOK
<1>2. StakeWorth(v, d) \in Nat /\ QueueWorth(v, d) \in Nat
  BY AccountTyped, ShareTypes DEF StakeWorth, QueueWorth
<1> QED
  BY <1>1, <1>2

\* And so after a step.
LEMMA WorthsNext == TypeOK' => Worths'
BY WorthsTyped, PTL

\* A step about one validator costs d what it costs d there.
LEMMA WealthStep ==
    ASSUME TypeOK, TypeOK', NEW v \in Addr, NEW d \in Addr,
           \A u \in Addr \ {v} : SameAccount(u),
           wallet'[d] + StakeWorth(v, d)' + QueueWorth(v, d)' + 3
             >= wallet[d] + StakeWorth(v, d) + QueueWorth(v, d)
    PROVE  Wealth(d)' + Dust >= Wealth(d)
<1> DEFINE f == [u \in Addr |-> StakeWorth(u, d) + QueueWorth(u, d)]
           g == [u \in Addr |-> StakeWorth(u, d)' + QueueWorth(u, d)']
<1>1. Wealth(d) = wallet[d] + SumFunctionOnSet(f, Addr)
  BY DEF Wealth, StakeWorth, QueueWorth
<1>2. Wealth(d)' = wallet'[d] + SumFunctionOnSet(g, Addr)
  BY DEF Wealth, StakeWorth, QueueWorth
<1>3. \A u \in Addr \ {v} : f[u] = g[u]
  BY DEF SameAccount, StakeWorth, QueueWorth
<1>4. \A u \in Addr : f[u] \in Nat /\ g[u] \in Nat
  BY WorthsTyped, WorthsNext DEF Worths
<1>5. wallet[d] \in Nat /\ wallet'[d] \in Nat
  BY WorthsTyped, WorthsNext DEF Worths
<1>6. /\ f[v] = StakeWorth(v, d) + QueueWorth(v, d)
      /\ g[v] = StakeWorth(v, d)' + QueueWorth(v, d)'
      /\ StakeWorth(v, d) \in Nat /\ QueueWorth(v, d) \in Nat
      /\ StakeWorth(v, d)' \in Nat /\ QueueWorth(v, d)' \in Nat
  BY WorthsTyped, WorthsNext DEF Worths
<1>7. IsFiniteSet(Addr)
  BY StakingAssumption
<1> HIDE DEF f, g
<1>8. SumFunctionOnSet(g, Addr) = SumFunctionOnSet(f, Addr) - f[v] + g[v]
  <2>1. \A u \in Addr : f[u] \in Int /\ g[u] \in Int
    BY <1>4
  <2> QED
    BY <1>3, <1>7, <2>1, SumChange
<1>9. SumFunctionOnSet(f, Addr) \in Nat
  BY <1>4, <1>7, SumNat
<1> QED
  BY <1>1, <1>2, <1>5, <1>6, <1>8, <1>9 DEF Dust

NoLoss == \A d \in Addr : Wealth(d)' + Dust >= Wealth(d)

\* A step that leaves accounts and wallets costs nobody anything.
LEMMA SameNoLoss ==
    ASSUME TypeOK, TypeOK', \A u \in Addr : SameAccount(u), wallet' = wallet
    PROVE  NoLoss
<1> SUFFICES ASSUME NEW d \in Addr PROVE Wealth(d)' + Dust >= Wealth(d)
  BY DEF NoLoss
<1>1. StakeWorth(d, d)' = StakeWorth(d, d) /\ QueueWorth(d, d)' = QueueWorth(d, d)
  BY DEF SameAccount, StakeWorth, QueueWorth
<1>2. StakeWorth(d, d) \in Nat /\ QueueWorth(d, d) \in Nat /\ wallet[d] \in Nat
  BY WorthsTyped DEF Worths
<1>3. wallet'[d] + StakeWorth(d, d)' + QueueWorth(d, d)' + 3
        >= wallet[d] + StakeWorth(d, d) + QueueWorth(d, d)
  BY <1>1, <1>2
<1> QED
  BY <1>3, WealthStep

\* A delegation: the delegator loses a unit at most, the others nothing.
LEMMA DepositedNoLoss ==
    ASSUME TypeOK, TypeOK', SharesExact, PoolsLive, NEW v \in Addr, NEW d \in Addr,
           NEW tokens \in Nat, validators[v].tokens <= validators[v].shares,
           AccountStep(v, d), Deposited(v, d, tokens)
    PROVE  NoLoss
<1> DEFINE T == validators[v].tokens
           S == validators[v].shares
           m == TokenToShare(tokens, T, S)
<1>1. Sound(T, S)
  BY AccountTyped DEF Sound, PoolsLive
<1>2. /\ validators'[v].tokens = T + tokens /\ validators'[v].shares = S + m
      /\ validators'[v].undelegationTokens = validators[v].undelegationTokens
      /\ validators'[v].undelegationShares = validators[v].undelegationShares
      /\ delegators'[v][d].shares = delegators[v][d].shares + m
      /\ delegators'[v][d].undelegations = delegators[v][d].undelegations
      /\ wallet' = [wallet EXCEPT ![d] = @ - tokens]
  BY DEF Deposited
<1>3. /\ \A u \in Addr \ {v} : SameAccount(u)
      /\ \A e \in Addr \ {d} : delegators'[v][e] = delegators[v][e]
  BY DEF AccountStep
<1>4. /\ wallet'[d] = wallet[d] - tokens
      /\ \A e \in Addr \ {d} : wallet'[e] = wallet[e]
  BY <1>2 DEF TypeOK
<1> SUFFICES ASSUME NEW e \in Addr PROVE Wealth(e)' + Dust >= Wealth(e)
  BY DEF NoLoss
<1> DEFINE s == delegators[v][e].shares
<1>5. s \in 0..S
  BY Holdings
<1>6. QueueWorth(v, e)' = QueueWorth(v, e)
  BY <1>2, <1>3 DEF QueueWorth
<1>7. StakeWorth(v, e) = ShareToToken(s, T, S)
  BY DEF StakeWorth
<1>8. StakeWorth(v, e)' = ShareToToken(IF e = d THEN s + m ELSE s, T + tokens, S + m)
  BY <1>2, <1>3 DEF StakeWorth
<1>9. /\ StakeWorth(v, e) \in Nat /\ StakeWorth(v, e)' \in Nat /\ QueueWorth(v, e) \in Nat
      /\ wallet[e] \in Nat /\ wallet'[e] \in Nat
  BY WorthsTyped, WorthsNext DEF Worths
<1> HIDE DEF T, S, s
<1>10. /\ ShareToToken(s + m, T + tokens, S + m) + 1 >= ShareToToken(s, T, S) + tokens
       /\ ShareToToken(s, T + tokens, S + m) >= ShareToToken(s, T, S)
  BY <1>1, <1>5, PutIn
<1> HIDE DEF m
<1>11. wallet'[e] + StakeWorth(v, e)' + QueueWorth(v, e)' + 3
         >= wallet[e] + StakeWorth(v, e) + QueueWorth(v, e)
  <2>1. CASE e = d
    BY <1>4, <1>6, <1>7, <1>8, <1>9, <1>10, <2>1
  <2>2. CASE e # d
    BY <1>4, <1>6, <1>7, <1>8, <1>9, <1>10, <2>2
  <2> QED
    BY <2>1, <2>2
<1> QED
  BY <1>3, <1>11, WealthStep

\* An undelegation: the delegator loses three units at most, the others one.
LEMMA WithdrawnNoLoss ==
    ASSUME TypeOK, TypeOK', SharesExact, PoolsLive, NEW v \in Addr, NEW d \in Addr,
           NEW tokens \in Nat, NEW shares \in Nat, validators[v].tokens <= validators[v].shares,
           AccountStep(v, d), Withdrawn(v, d, tokens, shares), AtPrice(v, tokens, shares)
    PROVE  NoLoss
<1> DEFINE T == validators[v].tokens
           S == validators[v].shares
           Q == validators[v].undelegationTokens
           P == validators[v].undelegationShares
           s == delegators[v][d].shares
           q == QueuedShares(delegators[v][d].undelegations)
           m == TokenToShare(tokens, Q, P)
<1>1. PICK kept \in Nat :
         /\ s - shares >= 0 /\ tokens <= T
         /\ kept = s - shares \/ (kept = 0 /\ s - shares <= 2)
         /\ validators'[v].tokens = T - tokens
         /\ validators'[v].shares = S - shares - ((s - shares) - kept)
         /\ delegators'[v][d].shares = kept
         /\ Paid(v, d, tokens) \/ Queued(v, d, tokens)
  BY DEF Withdrawn
<1> DEFINE U == T - tokens
           R == S - shares - ((s - shares) - kept)
<1>2. Sound(T, S) /\ Sound(Q, P) /\ T \in Nat /\ S \in Nat
  BY AccountTyped DEF Sound, PoolsLive
<1>3. /\ \A u \in Addr \ {v} : SameAccount(u)
      /\ \A e \in Addr \ {d} : delegators'[v][e] = delegators[v][e]
  BY DEF AccountStep
<1>4. /\ s \in 0..S /\ q \in 0..P
      /\ \A e \in Addr \ {d} :
            /\ delegators[v][e].shares \in 0..(S - s)
            /\ QueuedShares(delegators[v][e].undelegations) \in 0..P
  <2>1. \A e \in Addr : QueuedShares(delegators[v][e].undelegations) \in 0..P
    BY Holdings
  <2> QED
    BY <2>1, Holdings
<1>5. /\ StakeWorth(v, d) = ShareToToken(s, T, S)
      /\ StakeWorth(v, d)' = ShareToToken(kept, U, R)
      /\ \A e \in Addr \ {d} :
            /\ StakeWorth(v, e) = ShareToToken(delegators[v][e].shares, T, S)
            /\ StakeWorth(v, e)' = ShareToToken(delegators[v][e].shares, U, R)
  BY <1>1, <1>3 DEF StakeWorth
<1>6. \A e \in Addr :
         /\ StakeWorth(v, e) \in Nat /\ StakeWorth(v, e)' \in Nat
         /\ QueueWorth(v, e) \in Nat /\ QueueWorth(v, e)' \in Nat
         /\ wallet[e] \in Nat /\ wallet'[e] \in Nat
  BY WorthsTyped, WorthsNext DEF Worths
<1>7. /\ QueueWorth(v, d)' + wallet'[d] + 1 >= QueueWorth(v, d) + wallet[d] + tokens
      /\ \A e \in Addr \ {d} : /\ wallet'[e] = wallet[e]
                               /\ QueueWorth(v, e)' >= QueueWorth(v, e)
  <2>1. CASE Paid(v, d, tokens)
    <3>1. QueueWorth(v, d)' = QueueWorth(v, d)
      BY <2>1 DEF Paid, QueueWorth
    <3>2. \A e \in Addr \ {d} : QueueWorth(v, e)' = QueueWorth(v, e)
      BY <1>3, <2>1 DEF Paid, QueueWorth
    <3>3. wallet'[d] = wallet[d] + tokens /\ \A e \in Addr \ {d} : wallet'[e] = wallet[e]
      BY <2>1 DEF Paid, TypeOK
    <3> QED
      BY <1>6, <3>1, <3>2, <3>3
  <2>2. CASE Queued(v, d, tokens)
    <3>1. /\ QueueWorth(v, d) = ShareToToken(q, Q, P)
          /\ QueueWorth(v, d)' = ShareToToken(q + m, Q + tokens, P + m)
      BY <2>2 DEF Queued, QueueWorth
    <3>2. \A e \in Addr \ {d} :
             /\ QueueWorth(v, e) = ShareToToken(QueuedShares(delegators[v][e].undelegations), Q, P)
             /\ QueueWorth(v, e)' = ShareToToken(QueuedShares(delegators[v][e].undelegations),
                                                 Q + tokens, P + m)
      BY <1>3, <2>2 DEF Queued, QueueWorth
    <3>3. wallet' = wallet
      BY <2>2 DEF Queued
    <3> HIDE DEF q, Q, P
    <3>4. \A p \in 0..P :
             /\ ShareToToken(p + m, Q + tokens, P + m) + 1 >= ShareToToken(p, Q, P) + tokens
             /\ ShareToToken(p, Q + tokens, P + m) >= ShareToToken(p, Q, P)
      BY <1>2, PutIn
    <3> HIDE DEF m
    <3>5. QueueWorth(v, d)' + 1 >= QueueWorth(v, d) + tokens
      BY <1>4, <3>1, <3>4
    <3>6. \A e \in Addr \ {d} : QueueWorth(v, e)' >= QueueWorth(v, e)
      BY <1>4, <3>2, <3>4
    <3> QED
      BY <1>6, <3>3, <3>5, <3>6
  <2> QED
    BY <1>1, <2>1, <2>2
<1> HIDE DEF T, S, s, Q, P, q, m
<1>8. /\ ShareToToken(kept, U, R) + tokens + 2 >= ShareToToken(s, T, S)
      /\ \A e \in 0..(S - s) : ShareToToken(e, U, R) + 1 >= ShareToToken(e, T, S)
  <2>1. s \in Nat /\ tokens \in 0..T /\ shares \in 0..s
    BY <1>1, <1>2, <1>4
  <2>2. tokens = ShareToToken(shares, T, S) \/ shares = TokenToShare(tokens, T, S)
    BY DEF AtPrice, T, S
  <2>3. /\ tokens * S <= shares * T + T
        /\ S > 0 => shares * T < tokens * S + S
    BY <1>2, <2>1, <2>2, PriceBounds
  <2>4. kept = s - shares \/ (kept = 0 /\ s - shares <= 2)
    BY <1>1
  <2> HIDE DEF U, R
  <2>5. U = T - tokens /\ R = S - shares - ((s - shares) - kept)
    BY DEF U, R
  <2> QED
    BY <1>2, <1>4, <2>1, <2>3, <2>4, <2>5, Withdraw
<1> HIDE DEF U, R
<1>9. ASSUME NEW e \in Addr
      PROVE  wallet'[e] + StakeWorth(v, e)' + QueueWorth(v, e)' + 3
               >= wallet[e] + StakeWorth(v, e) + QueueWorth(v, e)
  <2>1. CASE e = d
    BY <1>5, <1>6, <1>7, <1>8, <2>1
  <2>2. CASE e # d
    <3>1. StakeWorth(v, e)' + 1 >= StakeWorth(v, e)
      BY <1>4, <1>5, <1>8, <2>2
    <3> QED
      BY <1>6, <1>7, <2>2, <3>1
  <2> QED
    BY <2>1, <2>2
<1> QED
  BY <1>3, <1>9, WealthStep DEF NoLoss

\* Queued shares paid: the delegator loses a unit at most, the others nothing.
LEMMA CompletedNoLoss ==
    ASSUME TypeOK, TypeOK', SharesExact, PoolsLive, NEW v \in Addr, NEW d \in Addr,
           AccountStep(v, d), Completed(v, d)
    PROVE  NoLoss
<1> DEFINE T == validators[v].undelegationTokens
           S == validators[v].undelegationShares
           q == QueuedShares(delegators[v][d].undelegations)
<1>1. PICK ready \in 0..S :
         LET tokens == ShareToToken(ready, T, S)
         IN  /\ ready <= q /\ tokens <= T
             /\ validators'[v].tokens = validators[v].tokens
             /\ validators'[v].shares = validators[v].shares
             /\ validators'[v].undelegationTokens = T - tokens
             /\ validators'[v].undelegationShares = S - ready
             /\ delegators'[v][d].shares = delegators[v][d].shares
             /\ QueuedShares(delegators'[v][d].undelegations) = q - ready
             /\ wallet' = [wallet EXCEPT ![d] = @ + tokens]
  BY DEF Completed
<1> DEFINE tokens == ShareToToken(ready, T, S)
<1>2. Sound(T, S) /\ S \in Nat
  BY DEF PoolsLive, Sound
<1>3. /\ \A u \in Addr \ {v} : SameAccount(u)
      /\ \A e \in Addr \ {d} : delegators'[v][e] = delegators[v][e]
  BY DEF AccountStep
<1>4. /\ q \in 0..S
      /\ \A e \in Addr \ {d} : QueuedShares(delegators[v][e].undelegations) \in 0..(S - q)
  BY Holdings
<1>5. \A e \in Addr : StakeWorth(v, e)' = StakeWorth(v, e)
  BY <1>1, <1>3 DEF StakeWorth
<1>6. /\ QueueWorth(v, d) = ShareToToken(q, T, S)
      /\ QueueWorth(v, d)' = ShareToToken(q - ready, T - tokens, S - ready)
      /\ \A e \in Addr \ {d} :
            /\ QueueWorth(v, e) = ShareToToken(QueuedShares(delegators[v][e].undelegations), T, S)
            /\ QueueWorth(v, e)' = ShareToToken(QueuedShares(delegators[v][e].undelegations),
                                                T - tokens, S - ready)
  BY <1>1, <1>3 DEF QueueWorth
<1>7. wallet'[d] = wallet[d] + tokens /\ \A e \in Addr \ {d} : wallet'[e] = wallet[e]
  BY <1>1 DEF TypeOK
<1>8. \A e \in Addr :
         /\ StakeWorth(v, e) \in Nat /\ QueueWorth(v, e) \in Nat /\ QueueWorth(v, e)' \in Nat
         /\ wallet[e] \in Nat /\ wallet'[e] \in Nat
  BY WorthsTyped, WorthsNext DEF Worths
<1>9. tokens <= T /\ ready <= q
  BY <1>1
<1>10. tokens \in Nat
  <2>1. T \in Nat /\ ready \in Nat
    BY <1>2 DEF Sound
  <2> QED
    BY <1>2, <2>1, ShareTypes
<1> HIDE DEF T, S, q
<1>11. /\ ShareToToken(q - ready, T - tokens, S - ready) + tokens + 1 >= ShareToToken(q, T, S)
       /\ \A e \in 0..(S - ready) : ShareToToken(e, T - tokens, S - ready) >= ShareToToken(e, T, S)
  <2>1. ready \in 0..q /\ q \in 0..S
    BY <1>2, <1>4, <1>9
  <2> QED
    BY <1>2, <1>9, <2>1, LeavePool
<1> HIDE DEF tokens
<1>12. ASSUME NEW e \in Addr
       PROVE  wallet'[e] + StakeWorth(v, e)' + QueueWorth(v, e)' + 3
                >= wallet[e] + StakeWorth(v, e) + QueueWorth(v, e)
  <2>1. CASE e = d
    BY <1>5, <1>6, <1>7, <1>8, <1>10, <1>11, <2>1
  <2>2. CASE e # d
    <3>1. QueuedShares(delegators[v][e].undelegations) \in 0..(S - ready)
      BY <1>2, <1>4, <1>9, <2>2
    <3>2. QueueWorth(v, e)' >= QueueWorth(v, e)
      BY <1>6, <1>11, <2>2, <3>1
    <3> QED
      BY <1>5, <1>7, <1>8, <2>2, <3>2
  <2> QED
    BY <2>1, <2>2
<1> QED
  BY <1>3, <1>12, WealthStep DEF NoLoss

\* Steps that leave accounts and wallets alone.
LEMMA QuietAccounts ==
    ASSUME TypeOK, BondedListExact,
           \/ \E v \in Addr :
                 \/ \E s \in Signers : UpdateValidatorSigner(v, s)
                 \/ \E r \in CommissionRates : UpdateCommissionRate(v, r)
                 \/ \E m \in Stakes : UpdateMinSelfDelegation(v, m)
                 \/ BondValidator(v) \/ ConfirmUnbondedValidator(v)
           \/ CollectForfeiture \/ OwnerStep \/ NextBlock \/ GovernStep \/ UNCHANGED vars
    PROVE  wallet' = wallet /\ \A u \in Addr : SameAccount(u)
<1>1. CASE \E v \in Addr : BondValidator(v)
  <2>1. wallet' = wallet
    BY <1>1 DEF BondValidator, funds
  <2> QED
    BY <1>1, <2>1, BondValidatorAccount
<1>2. CASE \E v \in Addr : \/ \E s \in Signers : UpdateValidatorSigner(v, s)
                           \/ \E r \in CommissionRates : UpdateCommissionRate(v, r)
                           \/ \E m \in Stakes : UpdateMinSelfDelegation(v, m)
                           \/ ConfirmUnbondedValidator(v)
  <2>1. wallet' = wallet
    BY <1>2 DEF UpdateValidatorSigner, UpdateCommissionRate, UpdateMinSelfDelegation,
                ConfirmUnbondedValidator, funds
  <2> QED
    BY <1>2, <2>1, TermsAccount DEF Untouched
<1>3. CASE CollectForfeiture \/ OwnerStep \/ NextBlock \/ GovernStep \/ UNCHANGED vars
  <2>1. wallet' = wallet
    BY <1>3 DEF CollectForfeiture, OwnerStep, SetMaxSlashFactor, SetPaused, DrainToken, NextBlock,
                GovernStep, SetParamValue, vars, funds
  <2> QED
    BY <1>3, <2>1, OtherStepsAccount DEF Untouched
<1> QED
  BY <1>1, <1>2, <1>3

\* What a step other than a slash does to the accounts.
Trades(v, d) ==
    AccountStep(v, d) /\ \/ \E tokens \in Nat : tokens > 0 /\ Deposited(v, d, tokens)
                         \/ \E tokens, shares \in Nat : /\ Withdrawn(v, d, tokens, shares)
                                                        /\ AtPrice(v, tokens, shares)
                         \/ Completed(v, d)

SlashTaken ==
    \E req \in SlashRequests, caller \in Addr, signers \in SUBSET (Signers \ {ZeroAddr}) :
        Slash(req, caller, signers)

\* delegate() and initializeValidator() refuse less than one CELR.
LEMMA SomeDelegated ==
    ASSUME NEW v, NEW d, NEW tokens \in Nat, NEW val, DelegateTo(v, d, tokens, val)
    PROVE  tokens > 0
BY StakingAssumption DEF DelegateTo

\* Every step is quiet, a trade with one validator, or a slash.
LEMMA StepTrades ==
    ASSUME TypeOK, BondedListExact, [Next]_vars
    PROVE  \/ wallet' = wallet /\ \A u \in Addr : SameAccount(u)
           \/ \E v \in Addr, d \in Addr : Trades(v, d)
           \/ SlashTaken
<1>1. CASE ValidatorStep
  <2>1. ASSUME NEW v \in Addr, NEW s \in Signers, NEW m \in Stakes, NEW r \in CommissionRates,
               InitializeValidator(v, s, m, r)
        PROVE  Trades(v, v)
    <3>1. m \in Nat
      BY StakingAssumption
    <3>2. m > 0
      BY <2>1, <3>1, SomeDelegated DEF InitializeValidator
    <3> QED
      BY <2>1, <3>1, <3>2, InitializeValidatorAccount DEF Trades
  <2> QED
    BY <1>1, <2>1, QuietAccounts DEF ValidatorStep
<1>2. CASE DelegatorStep
  <2>1. PICK v \in Addr, d \in Addr :
           \/ \E t \in Amounts : Delegate(v, d, t)
           \/ \E a \in Amounts : UndelegateShares(v, d, a) \/ UndelegateTokens(v, d, a)
           \/ CompleteUndelegate(v, d)
    BY <1>2 DEF DelegatorStep
  <2>2. ASSUME NEW t \in Amounts, Delegate(v, d, t) PROVE Trades(v, d)
    <3>1. t \in Nat
      BY StakingAssumption
    <3>2. t > 0
      BY <2>2, <3>1, SomeDelegated DEF Delegate
    <3> QED
      BY <2>2, <3>1, <3>2, DelegateAccount DEF Trades
  <2>3. ASSUME NEW a \in Amounts, UndelegateShares(v, d, a) \/ UndelegateTokens(v, d, a)
        PROVE  Trades(v, d)
    <3>1. PICK tokens, shares \in Nat : Undelegate(v, d, tokens, shares)
                                        /\ AtPrice(v, tokens, shares)
      BY <2>3, UndelegateAmount
    <3>2. AccountStep(v, d) /\ Withdrawn(v, d, tokens, shares)
      BY <3>1, UndelegateAccount
    <3> QED
      BY <3>1, <3>2 DEF Trades
  <2>4. CASE CompleteUndelegate(v, d)
    BY <2>4, CompleteUndelegateAccount DEF Trades
  <2> QED
    BY <2>1, <2>2, <2>3, <2>4
<1>3. CASE SlashStep
  BY <1>3, QuietAccounts DEF SlashStep, SlashTaken
<1>4. CASE OwnerStep \/ NextBlock \/ GovernStep \/ UNCHANGED vars
  BY <1>4, QuietAccounts
<1> QED
  BY <1>1, <1>2, <1>3, <1>4 DEF Next, StakingStep

\* The cap on slashes is one of those given.
LEMMA CapStep ==
    ASSUME PartialSlashes, TypeOK, PoolsLive, [Next]_vars
    PROVE  params'.MaxSlashFactor < SLASH_FACTOR_DECIMAL
<1>1. CASE GovernStep
  <2>1. PICK c \in ParamChanges : params' = [params EXCEPT ![c[1]] = c[2]]
    BY <1>1 DEF GovernStep, SetParamValue
  <2>2. params'["MaxSlashFactor"] = IF c[1] = "MaxSlashFactor" THEN c[2]
                                    ELSE params["MaxSlashFactor"]
    BY <2>1 DEF TypeOK, ParamName
  <2> QED
    BY <2>2 DEF PartialSlashes, PoolsLive
<1>2. CASE \E value \in SlashCaps : SetMaxSlashFactor(value)
  <2>1. PICK value \in SlashCaps : params' = [params EXCEPT !.MaxSlashFactor = value]
    BY <1>2 DEF SetMaxSlashFactor
  <2>2. params'["MaxSlashFactor"] = value
    BY <2>1 DEF TypeOK, ParamName
  <2> QED
    BY <2>2 DEF PartialSlashes
<1>3. CASE UNCHANGED params
  BY <1>3 DEF PoolsLive
<1>4. CASE OwnerStep \/ NextBlock \/ UNCHANGED vars
  BY <1>2, <1>3, <1>4 DEF OwnerStep, SetPaused, DrainToken, NextBlock, vars
<1> QED
  BY <1>1, <1>3, <1>4, ParamsKept DEF Next, StakingStep

\* Every step keeps the pools live.
LEMMA PoolsStep ==
    ASSUME PartialSlashes, TypeOK, TypeOK', BondedListExact, SharesExact, PoolsLive, [Next]_vars
    PROVE  PoolsLive'
<1> SUFFICES ASSUME NEW u \in Addr
             PROVE  /\ validators'[u].shares > 0 => validators'[u].tokens > 0
                    /\ Sound(validators'[u].undelegationTokens, validators'[u].undelegationShares)
  BY CapStep DEF PoolsLive
<1>1. CASE SameAccount(u)
  BY <1>1, SamePools
<1>2. ASSUME NEW d \in Addr, Trades(u, d)
      PROVE  /\ validators'[u].shares > 0 => validators'[u].tokens > 0
             /\ Sound(validators'[u].undelegationTokens, validators'[u].undelegationShares)
  BY <1>2, DepositedPools, WithdrawnPools, CompletedPools DEF Trades
<1>3. ASSUME NEW factor \in Nat, factor <= params.MaxSlashFactor, Cut(u, factor)
      PROVE  /\ validators'[u].shares > 0 => validators'[u].tokens > 0
             /\ Sound(validators'[u].undelegationTokens, validators'[u].undelegationShares)
  BY <1>3, CutPools
<1>4. \/ SameAccount(u) \/ \E d \in Addr : Trades(u, d)
      \/ \E factor \in Nat : factor <= params.MaxSlashFactor /\ Cut(u, factor)
  <2>1. CASE \E v \in Addr, d \in Addr : Trades(v, d)
    BY <2>1 DEF Trades, AccountStep
  <2>2. CASE SlashTaken
    <3>1. PICK req \in SlashRequests, caller \in Addr,
               signers \in SUBSET (Signers \ {ZeroAddr}) : Slash(req, caller, signers)
      BY <2>2 DEF SlashTaken
    <3>2. /\ AccountStep(req.validator, req.validator)
          /\ Cut(req.validator, req.slashFactor) /\ req.slashFactor \in Nat
          /\ req.slashFactor <= params.MaxSlashFactor
      BY <3>1, SlashAccount
    <3> QED
      BY <3>2 DEF AccountStep
  <2> QED
    BY <2>1, <2>2, StepTrades
<1> QED
  BY <1>1, <1>2, <1>3, <1>4

\* No step but a slash costs an account more than the dust.
LEMMA NoLossStep ==
    ASSUME TypeOK, TypeOK', BondedListExact, SharesExact, PoolsLive, [Next]_vars,
           slashNonces' = slashNonces,
           \A v \in Addr : validators[v].tokens <= validators[v].shares
    PROVE  NoLoss
<1>1. ~SlashTaken
  BY DEF SlashTaken, Slash
<1>2. ASSUME NEW v \in Addr, NEW d \in Addr, Trades(v, d) PROVE NoLoss
  <2>1. AccountStep(v, d) /\ validators[v].tokens <= validators[v].shares
    BY <1>2 DEF Trades
  <2> QED
    BY <1>2, <2>1, DepositedNoLoss, WithdrawnNoLoss, CompletedNoLoss DEF Trades
<1> QED
  BY <1>1, <1>2, StepTrades, SameNoLoss

\* As long as the cap forbids slashing the whole stake, there are tokens behind all
\* shares, and at least as many queued shares as queued tokens.
THEOREM PoolsCorrect ==
    ASSUME PartialSlashes
    PROVE  Spec => []PoolsLive
<1>1. Init => PoolsLive
  BY DEF Init, NullValidator, PoolsLive, PartialSlashes, Sound
<1>2. TypeOK /\ TypeOK' /\ BondedListExact /\ SharesExact /\ PoolsLive /\ [Next]_vars
        => PoolsLive'
  BY PoolsStep
<1> QED
  BY <1>1, <1>2, TypeCorrect, BondedListCorrect, SharesCorrect, PTL DEF Spec

\* No step but a slash costs anybody more than rounding: whoever delegates,
\* undelegates or is paid, and everybody else, can still take out what they could,
\* less three units at most.  Shares are bought and sold at a price that rounding
\* favours neither side of for long: the divisions of _tokenToShare and
\* _shareToToken, and the residual shares dropped, are all there is to lose.
THEOREM NoLossCorrect ==
    ASSUME PartialSlashes
    PROVE  Spec => NoLossWithoutSlash
<1>1. TypeOK /\ TypeOK' /\ BondedListExact /\ SharesExact /\ PoolsLive /\ [Next]_vars
        => [(/\ slashNonces' = slashNonces
             /\ \A v \in Addr : validators[v].tokens <= validators[v].shares)
               => \A d \in Addr : Wealth(d)' + Dust >= Wealth(d)]_vars
  BY NoLossStep DEF NoLoss
<1> QED
  BY <1>1, TypeCorrect, BondedListCorrect, SharesCorrect, PoolsCorrect, PTL
     DEF Spec, NoLossWithoutSlash

=============================================================================
