---------------------------- MODULE ClaimsProofs ----------------------------
(***************************************************************************)
(* Theorems about signed updates, resets and signed totals, for every      *)
(* value of the constants of Claims.                                       *)
(***************************************************************************)
EXTENDS Claims, SumTheorems, SequenceTheorems

\* A claim that can be signed.
Claimable == [recipient : Recipients,
              amounts : UNION {[tokens -> Nat] : tokens \in SUBSET RewardTokens},
              signing : SUBSET SignerAddr]

SignersTyped ==
    /\ now \in Nat /\ now <= MAX_INT
    /\ triggerTime \in Nat /\ resetTime \in Nat /\ noticePeriod \in Nat /\ noticeEnd \in Nat
    /\ DOMAIN ss \subseteq SignerAddr /\ \A s \in DOMAIN ss : ss[s] \in Nat
    /\ applied \in Seq(Updates)
    /\ noticeOpen \in BOOLEAN

\* The trigger time on record is not below that of any update applied.
TriggersKnown == \A i \in DOMAIN applied : applied[i].triggerTime <= triggerTime

\* The reset time says what notice is open.
NoticeKnown == resetTime = IF noticeOpen THEN noticeEnd ELSE MAX_INT

SignersInv == SignersTyped /\ TriggersKnown /\ UpdatesInOrder /\ NoticeKnown

ClaimsTyped ==
    /\ bonded \in ValidatorSets
    /\ claims \in Seq(Claimable)
    /\ claimed \in Amounts /\ received \in Amounts

ClaimsInv == SignersInv /\ ClaimsTyped /\ PaidAsSigned

-----------------------------------------------------------------------------
(* The signers *)

LEMMA SignersInitially == SignersInit => SignersInv
  BY SignersAssumption DEF SignersInit, SignersInv, SignersTyped, TriggersKnown, UpdatesInOrder,
                           NoticeKnown

\* An update goes after all those applied before it.
LEMMA UpdateKeeps ==
  ASSUME SignersInv, NEW u \in Updates, NEW signing, UpdateSigners(u, signing)
  PROVE  SignersInv'
<1>1. u.triggerTime \in Nat /\ DOMAIN u.signers \subseteq SignerAddr
      /\ \A s \in DOMAIN u.signers : u.signers[s] \in Nat
  BY SignersAssumption
<1>2. SignersTyped'
  BY <1>1 DEF SignersInv, SignersTyped, UpdateSigners
<1>3. /\ Len(applied') = Len(applied) + 1 /\ DOMAIN applied = 1..Len(applied)
      /\ DOMAIN applied' = 1..Len(applied') /\ Len(applied) \in Nat
      /\ \A i \in 1..Len(applied) : applied'[i] = applied[i]
      /\ applied'[Len(applied) + 1] = u
  BY DEF SignersInv, SignersTyped, UpdateSigners
<1>4. \A i \in 1..Len(applied) : applied[i].triggerTime < u.triggerTime
  <2> SUFFICES ASSUME NEW i \in 1..Len(applied) PROVE applied[i].triggerTime < u.triggerTime
    OBVIOUS
  <2>1. applied[i] \in Updates /\ applied[i].triggerTime <= triggerTime
    BY <1>3 DEF SignersInv, SignersTyped, TriggersKnown
  <2>2. applied[i].triggerTime \in Nat
    BY <2>1, SignersAssumption
  <2> QED
    BY <1>1, <2>1, <2>2 DEF UpdateSigners, SignersInv, SignersTyped
<1>5. TriggersKnown'
  <2> SUFFICES ASSUME NEW i \in 1..(Len(applied) + 1)
               PROVE  applied'[i].triggerTime <= triggerTime'
    BY <1>3 DEF TriggersKnown
  <2>1. triggerTime' = u.triggerTime
    BY DEF UpdateSigners
  <2>2. CASE i \in 1..Len(applied)
    <3>1. applied[i].triggerTime \in Nat
      BY <2>2, <1>3, SignersAssumption DEF SignersInv, SignersTyped
    <3> QED
      BY <1>1, <1>3, <1>4, <2>1, <2>2, <3>1
  <2>3. CASE i = Len(applied) + 1
    BY <1>1, <1>3, <2>1, <2>3
  <2> QED
    BY <1>3, <2>2, <2>3
<1>6. UpdatesInOrder'
  <2> SUFFICES ASSUME NEW i \in 1..(Len(applied) + 1), NEW j \in 1..(Len(applied) + 1), i < j
               PROVE  applied'[i].triggerTime < applied'[j].triggerTime
    BY <1>3 DEF UpdatesInOrder
  <2>1. i \in 1..Len(applied)
    BY <1>3
  <2>2. CASE j \in 1..Len(applied)
    BY <1>3, <2>1, <2>2 DEF SignersInv, UpdatesInOrder
  <2>3. CASE j = Len(applied) + 1
    BY <1>3, <1>4, <2>1, <2>3
  <2> QED
    BY <1>3, <2>2, <2>3
<1>7. NoticeKnown'
  BY DEF SignersInv, NoticeKnown, UpdateSigners
<1> QED
  BY <1>2, <1>5, <1>6, <1>7 DEF SignersInv

\* A reset needs an open notice, and closes it.
LEMMA ResetKeeps ==
  ASSUME SignersInv, NEW s \in SignerSets, ResetSigners(s)
  PROVE  SignersInv' /\ noticeOpen /\ now > noticeEnd
<1>1. noticeOpen /\ now > noticeEnd
  BY SignersAssumption DEF SignersInv, SignersTyped, NoticeKnown, ResetSigners
<1>2. SignersTyped'
  BY SignersAssumption DEF SignersInv, SignersTyped, ResetSigners
<1>3. TriggersKnown' /\ UpdatesInOrder' /\ NoticeKnown'
  BY DEF SignersInv, TriggersKnown, UpdatesInOrder, NoticeKnown, ResetSigners
<1> QED
  BY <1>1, <1>2, <1>3 DEF SignersInv

LEMMA SignersStepKeeps ==
  ASSUME SignersInv, SignersStep \/ Tick
  PROVE  SignersInv'
<1>1. CASE \E u \in Updates, signing \in SUBSET SignerAddr : UpdateSigners(u, signing)
  BY <1>1, UpdateKeeps
<1>2. CASE \E s \in SignerSets : ResetSigners(s)
  BY <1>2, ResetKeeps
<1>3. CASE NotifyResetSigners
  BY <1>3 DEF SignersInv, SignersTyped, TriggersKnown, UpdatesInOrder, NoticeKnown,
              NotifyResetSigners
<1>4. CASE \E period \in NoticePeriods : IncreaseNoticePeriod(period)
  BY <1>4, SignersAssumption DEF SignersInv, SignersTyped, TriggersKnown, UpdatesInOrder,
              NoticeKnown, IncreaseNoticePeriod
<1>5. CASE Tick
  BY <1>5, SignersAssumption DEF SignersInv, SignersTyped, TriggersKnown, UpdatesInOrder,
              NoticeKnown, Tick, signerVars
<1> QED
  BY <1>1, <1>2, <1>3, <1>4, <1>5 DEF SignersStep

LEMMA SignersUnchanged ==
  ASSUME SignersInv, UNCHANGED <<now, signerVars>>
  PROVE  SignersInv'
  BY DEF SignersInv, SignersTyped, TriggersKnown, UpdatesInOrder, NoticeKnown, signerVars

-----------------------------------------------------------------------------
(* The pools *)

LEMMA ClaimsInitially == ClaimsInit => ClaimsInv
<1> SUFFICES ASSUME ClaimsInit PROVE ClaimsInv
  OBVIOUS
<1>1. SignersInv
  BY SignersInitially DEF ClaimsInit
<1>2. Nothing \in Amounts /\ \A r \in Recipients, t \in RewardTokens : Nothing[r][t] = 0
  BY DEF Nothing, Amounts
<1>3. ClaimsTyped /\ PaidAsSigned
  BY <1>2 DEF ClaimsInit, ClaimsTyped, PaidAsSigned
<1> QED
  BY <1>1, <1>3 DEF ClaimsInv

LEMMA SignKeeps ==
  ASSUME ClaimsInv, SignClaim
  PROVE  ClaimsInv'
<1>1. SignersInv'
  BY SignersUnchanged DEF ClaimsInv, SignClaim
<1>2. PICK r \in Recipients, tokens \in ClaimTokens :
        \E amounts \in [tokens -> 1..MaxTotal] :
            claims' = Append(claims,
                [recipient |-> r, amounts |-> amounts,
                 signing |-> IF contract = "FarmingRewards" THEN DOMAIN ss ELSE DOMAIN bonded])
  BY DEF SignClaim
<1>3. PICK amounts \in [tokens -> 1..MaxTotal] :
        claims' = Append(claims,
                [recipient |-> r, amounts |-> amounts,
                 signing |-> IF contract = "FarmingRewards" THEN DOMAIN ss ELSE DOMAIN bonded])
  BY <1>2
<1>4. tokens \in SUBSET RewardTokens
  BY ClaimsAssumption DEF ClaimTokens
<1>5. amounts \in [tokens -> Nat]
  BY ClaimsAssumption
<1>6. DOMAIN ss \subseteq SignerAddr /\ DOMAIN bonded \subseteq SignerAddr
  BY ClaimsAssumption DEF ClaimsInv, ClaimsTyped, SignersInv, SignersTyped
<1>7. \E claim \in Claimable : claims' = Append(claims, claim)
  <2> DEFINE claim == [recipient |-> r, amounts |-> amounts,
                signing |-> IF contract = "FarmingRewards" THEN DOMAIN ss ELSE DOMAIN bonded]
  <2>1. claim.amounts \in UNION {[some -> Nat] : some \in SUBSET RewardTokens}
    BY <1>4, <1>5
  <2>2. claim \in Claimable
    BY <1>6, <2>1 DEF Claimable
  <2> QED
    BY <1>3, <2>2
<1>8. /\ claims' \in Seq(Claimable)
      /\ \A i \in DOMAIN claims : i \in DOMAIN claims' /\ claims'[i] = claims[i]
  BY <1>7 DEF ClaimsInv, ClaimsTyped
<1>9. UNCHANGED <<bonded, claimed, received>>
  BY DEF SignClaim, poolVars
<1>10. ClaimsTyped' /\ PaidAsSigned'
  BY <1>8, <1>9 DEF ClaimsInv, ClaimsTyped, PaidAsSigned
<1> QED
  BY <1>1, <1>10 DEF ClaimsInv

\* After a claim the record and what was received are its totals, token by token.
LEMMA ClaimKeeps ==
  ASSUME ClaimsInv, NEW n \in DOMAIN claims, Claim(claims[n])
  PROVE  ClaimsInv'
<1> DEFINE claim == claims[n]
           r == claim.recipient
<1>1. SignersInv'
  BY SignersUnchanged DEF ClaimsInv, Claim
<1>2. claim \in Claimable
  BY DEF ClaimsInv, ClaimsTyped
<1>3. r \in Recipients /\ DOMAIN claim.amounts \subseteq RewardTokens
      /\ \A t \in DOMAIN claim.amounts : claim.amounts[t] \in Nat
  BY <1>2 DEF Claimable
<1>4. UNCHANGED <<bonded, claims>>
  BY DEF Claim
<1>5. ASSUME NEW s \in Recipients, NEW t \in RewardTokens
      PROVE  /\ claimed'[s][t] = IF s = r /\ t \in DOMAIN claim.amounts
                                 THEN claim.amounts[t] ELSE claimed[s][t]
             /\ received'[s][t] = claimed'[s][t]
  <2>1. claimed[s][t] \in Nat /\ received[s][t] = claimed[s][t]
    BY DEF ClaimsInv, ClaimsTyped, Amounts, PaidAsSigned
  <2>2. claimed'[s] = IF s = r THEN [u \in RewardTokens |->
                        IF u \in DOMAIN claim.amounts THEN claim.amounts[u] ELSE claimed[s][u]]
                     ELSE claimed[s]
    BY DEF Claim, ClaimsInv, ClaimsTyped, Amounts
  <2>3. claimed'[s][t] = IF s = r /\ t \in DOMAIN claim.amounts
                         THEN claim.amounts[t] ELSE claimed[s][t]
    BY <1>3, <2>2 DEF ClaimsInv, ClaimsTyped, Amounts
  <2>4. received'[s][t] = IF s = r /\ t \in DOMAIN claim.amounts
                          THEN received[s][t] + NewReward(claim, t)
                          ELSE received[s][t]
    BY <2>1 DEF Claim, ClaimsInv, ClaimsTyped, Amounts
  <2> QED
    BY <1>3, <2>1, <2>3, <2>4 DEF NewReward
<1>6. claimed' \in Amounts /\ received' \in Amounts
  <2>1. /\ claimed' = [s \in Recipients |-> claimed'[s]]
        /\ received' = [s \in Recipients |-> received'[s]]
    BY DEF Claim, ClaimsInv, ClaimsTyped, Amounts
  <2>2. ASSUME NEW s \in Recipients
        PROVE  claimed'[s] = [t \in RewardTokens |-> claimed'[s][t]]
               /\ received'[s] = [t \in RewardTokens |-> received'[s][t]]
    BY <1>3 DEF Claim, ClaimsInv, ClaimsTyped, Amounts
  <2>3. ASSUME NEW s \in Recipients, NEW t \in RewardTokens
        PROVE  claimed'[s][t] \in Nat /\ received'[s][t] \in Nat
    BY <1>3, <1>5 DEF ClaimsInv, ClaimsTyped, Amounts
  <2> QED
    BY <2>1, <2>2, <2>3 DEF Amounts
<1>7. received' = claimed'
  BY <1>5, <1>6 DEF Amounts
<1>8. PaidAsSigned'
  BY <1>3, <1>4, <1>5, <1>7 DEF PaidAsSigned, ClaimsInv
<1> QED
  BY <1>1, <1>4, <1>6, <1>8 DEF ClaimsInv, ClaimsTyped

LEMMA ClaimsKept == ClaimsInv /\ [ClaimsNext]_allVars => ClaimsInv'
<1> SUFFICES ASSUME ClaimsInv, [ClaimsNext]_allVars PROVE ClaimsInv'
  OBVIOUS
<1>1. ASSUME UNCHANGED claimVars, SignersInv' PROVE ClaimsInv'
  BY <1>1 DEF ClaimsInv, ClaimsTyped, PaidAsSigned, claimVars, poolVars
<1>2. ASSUME UNCHANGED <<now, signerVars>>, UNCHANGED <<claims, claimed, received>>,
             bonded' \in ValidatorSets
      PROVE  ClaimsInv'
  BY <1>2, SignersUnchanged DEF ClaimsInv, ClaimsTyped, PaidAsSigned
<1>3. CASE BridgeSteps
  BY <1>1, <1>3, SignersStepKeeps DEF BridgeSteps, ClaimsInv
<1>4. CASE SignersChange
  BY <1>1, <1>4, UpdateKeeps, ResetKeeps DEF SignersChange, ClaimsInv
<1>5. CASE SignClaim
  BY <1>5, SignKeeps
<1>6. CASE ValidatorsChange
  BY <1>2, <1>6 DEF ValidatorsChange, poolVars
<1>7. CASE SubmitClaim
  BY <1>7, ClaimKeeps DEF SubmitClaim
<1>8. CASE \E t \in RewardTokens : Contribute(t)
  BY <1>2, <1>8 DEF Contribute, ClaimsInv, ClaimsTyped
<1>9. CASE \E t \in RewardTokens, amount \in 1..MaxPool : DrainToken(t, amount)
  BY <1>2, <1>9 DEF DrainToken, ClaimsInv, ClaimsTyped
<1>10. CASE SetPaused
  BY <1>2, <1>10 DEF SetPaused, ClaimsInv, ClaimsTyped
<1>11. CASE UNCHANGED allVars
  BY <1>2, <1>11 DEF allVars, claimVars, poolVars, ClaimsInv, ClaimsTyped
<1> QED
  BY <1>3, <1>4, <1>5, <1>6, <1>7, <1>8, <1>9, <1>10, <1>11 DEF ClaimsNext

LEMMA ClaimsInvAlways == ClaimsSpec => []ClaimsInv
  BY ClaimsInitially, ClaimsKept, PTL DEF ClaimsSpec

-----------------------------------------------------------------------------
\* However signed totals are delayed, repeated or swapped, while the signers and
\* the validators change and the pools are paused, drained or short, each
\* recipient has been paid exactly a total that was signed for it.
THEOREM PaidAsSignedCorrect == ClaimsSpec => []PaidAsSigned
<1>1. ClaimsInv => PaidAsSigned
  BY DEF ClaimsInv
<1> QED
  BY <1>1, ClaimsInvAlways, PTL

\* Signed updates of the signers take effect in the order of their trigger times
\* and at most once, whatever is submitted and however often the owner resets.
THEOREM UpdatesInOrderCorrect == ClaimsSpec => []UpdatesInOrder
<1>1. ClaimsInv => UpdatesInOrder
  BY DEF ClaimsInv, SignersInv
<1> QED
  BY <1>1, ClaimsInvAlways, PTL

\* The owner never replaces the signers without a notice of its own that is over.
THEOREM ResetNeedsNoticeCorrect == ClaimsSpec => ResetNeedsNotice
<1>1. ASSUME ClaimsInv, [ClaimsNext]_allVars, ss' # ss, applied' = applied
      PROVE  noticeOpen /\ now > noticeEnd
  <2>1. ASSUME NEW u, NEW signing, UpdateSigners(u, signing) PROVE FALSE
    <3>1. Len(applied') = Len(applied) + 1 /\ Len(applied) \in Nat
      BY <2>1 DEF UpdateSigners, ClaimsInv, SignersInv, SignersTyped
    <3> QED
      BY <1>1, <3>1
  <2>2. ASSUME NEW s \in SignerSets, ResetSigners(s) PROVE noticeOpen /\ now > noticeEnd
    BY <1>1, <2>2, ResetKeeps DEF ClaimsInv
  <2>3. ~NotifyResetSigners /\ ~Tick /\ ~UNCHANGED <<now, signerVars>>
        /\ ~\E period \in NoticePeriods : IncreaseNoticePeriod(period)
    BY <1>1 DEF NotifyResetSigners, Tick, signerVars, IncreaseNoticePeriod
  <2>4. BridgeSteps \/ SignersChange
    BY <1>1, <2>3 DEF ClaimsNext, SignClaim, ValidatorsChange, SubmitClaim, Claim, Contribute,
                      DrainToken, SetPaused, allVars
  <2> QED
    BY <2>1, <2>2, <2>3, <2>4 DEF BridgeSteps, SignersChange, SignersStep
<1>2. ClaimsInv /\ [ClaimsNext]_allVars
        => [(ss' # ss /\ applied' = applied) => (noticeOpen /\ now > noticeEnd)]_<<now, signerVars>>
  BY <1>1
<1> QED
  BY <1>2, ClaimsInvAlways, PTL DEF ClaimsSpec, ResetNeedsNotice

-----------------------------------------------------------------------------
(* The signature check *)

\* The count after one more signature.
NextPower(signers, sigs, i, before) ==
    IF before = -1 \/ before >= Quorum(signers) THEN before
    ELSE ScanStep(signers, sigs, i, before)

\* The counts along the first n signatures.
Scan(signers, sigs, n, power) ==
    power = [i \in 0..n |-> IF i = 0 THEN 0 ELSE NextPower(signers, sigs, i, power[i - 1])]

LEMMA ScanExists ==
    ASSUME NEW signers, NEW sigs, NEW n \in Nat
    PROVE  \E power : Scan(signers, sigs, n, power)
<1> DEFINE B == {m \in 0..n : ~ \E power : Scan(signers, sigs, m, power)}
<1>1. ASSUME B # {} PROVE FALSE
  <2>1. PICK m \in B : \A j \in B : m <= j
    <3>1. B \in SUBSET (0..n)
      OBVIOUS
    <3> HIDE DEF B
    <3> QED BY <1>1, <3>1, LeastNumber
  <2>2. m \in Nat /\ ~ \E power : Scan(signers, sigs, m, power)
    BY <2>1
  <2>3. CASE m = 0
    <3>1. Scan(signers, sigs, 0, [i \in 0..0 |-> 0])
      BY DEF Scan
    <3> QED
      BY <2>2, <2>3, <3>1
  <2>4. CASE m # 0
    <3>1. m - 1 \in 0..n /\ m - 1 \notin B
      BY <2>1, <2>2, <2>4
    <3>2. PICK power : Scan(signers, sigs, m - 1, power)
      BY <3>1
    <3> DEFINE longer == [i \in 0..m |-> IF i = m THEN NextPower(signers, sigs, m, power[m - 1])
                                         ELSE power[i]]
    <3>3. ASSUME NEW i \in 0..m
          PROVE  longer[i] = IF i = 0 THEN 0 ELSE NextPower(signers, sigs, i, longer[i - 1])
      <4>1. CASE i = m
        <5>1. m - 1 \in 0..m /\ m - 1 # m
          BY <2>2, <2>4
        <5>2. longer[m - 1] = power[m - 1]
          BY <5>1
        <5> QED
          BY <2>4, <4>1, <5>2
      <4>2. CASE i # m
        <5>1. i \in 0..(m - 1)
          BY <2>2, <4>2
        <5>2. power[i] = IF i = 0 THEN 0 ELSE NextPower(signers, sigs, i, power[i - 1])
          BY <3>2, <5>1 DEF Scan
        <5>3. i # 0 => i - 1 \in 0..m /\ i - 1 # m
          BY <2>2, <5>1
        <5> QED
          BY <4>2, <5>2, <5>3
      <4> QED
        BY <4>1, <4>2
    <3>4. longer = [i \in 0..m |-> longer[i]]
      OBVIOUS
    <3> HIDE DEF longer
    <3>5. Scan(signers, sigs, m, longer)
      BY <3>3, <3>4 DEF Scan
    <3> QED
      BY <2>2, <3>5
  <2> QED
    BY <2>3, <2>4
<1> QED
  BY <1>1

\* What the check computes is the last of the counts.
LEMMA ScannedUnfolded ==
    ASSUME NEW signers, NEW sigs, Len(sigs) \in Nat
    PROVE  \E power : /\ ScannedPower(signers, sigs) = power[Len(sigs)]
                      /\ power[0] = 0
                      /\ \A i \in 1..Len(sigs) :
                            power[i] = NextPower(signers, sigs, i, power[i - 1])
<1> DEFINE n == Len(sigs)
           chosen == CHOOSE power : Scan(signers, sigs, n, power)
<1>1. ScannedPower(signers, sigs) = chosen[n]
  BY DEF ScannedPower, Scan, NextPower
<1>2. Scan(signers, sigs, n, chosen)
  BY ScanExists
<1> HIDE DEF chosen
<1>3. ASSUME NEW i \in 0..n
      PROVE  chosen[i] = IF i = 0 THEN 0 ELSE NextPower(signers, sigs, i, chosen[i - 1])
  BY <1>2 DEF Scan
<1>4. chosen[0] = 0
  BY <1>3
<1>5. \A i \in 1..n : chosen[i] = NextPower(signers, sigs, i, chosen[i - 1])
  BY <1>3
<1> QED
  BY <1>1, <1>4, <1>5

\* The first k addresses that signed, and the power of the signers among them.
Signing(sigs, k) == {sigs[i] : i \in 1..k}
Power(signers, signing) == SumFunctionOnSet(signers, signing \cap DOMAIN signers)

\* The lists the check is about.
Checked(signers, sigs) ==
    /\ IsFiniteSet(DOMAIN signers) /\ DOMAIN signers \subseteq Nat \ {0}
    /\ \A s \in DOMAIN signers : signers[s] \in Nat
    /\ Len(sigs) \in Nat /\ \A i \in 1..Len(sigs) : sigs[i] \in Nat

\* The quorum is more than two thirds of the power.
LEMMA QuorumIsStrict ==
    ASSUME NEW signers, IsFiniteSet(DOMAIN signers), \A s \in DOMAIN signers : signers[s] \in Nat
    PROVE  /\ TotalPower(signers) \in Nat /\ Quorum(signers) \in Nat
           /\ 3 * Quorum(signers) > 2 * TotalPower(signers)
<1>1. TotalPower(signers) \in Nat
  BY SumNat DEF TotalPower
<1>2. \A x \in Nat : (x * 2) \div 3 + 1 \in Nat /\ 3 * ((x * 2) \div 3 + 1) > 2 * x
  OBVIOUS
<1> QED
  BY <1>1, <1>2 DEF Quorum

LEMMA PowerInNat ==
    ASSUME NEW signers, NEW sigs, Checked(signers, sigs), NEW signing
    PROVE  Power(signers, signing) \in Nat
<1>1. IsFiniteSet(signing \cap DOMAIN signers)
  BY FS_Subset DEF Checked
<1> QED
  BY <1>1, SumNat DEF Power, Checked

\* One more address, not among the earlier ones, adds its power.
LEMMA PowerAdds ==
    ASSUME NEW signers, NEW sigs, Checked(signers, sigs), NEW i \in 1..Len(sigs),
           \A j \in 1..(i - 1) : sigs[j] < sigs[i]
    PROVE  Power(signers, Signing(sigs, i)) =
             Power(signers, Signing(sigs, i - 1))
               + (IF sigs[i] \in DOMAIN signers THEN signers[sigs[i]] ELSE 0)
<1> DEFINE before == Signing(sigs, i - 1) \cap DOMAIN signers
           after == Signing(sigs, i) \cap DOMAIN signers
<1>1. sigs[i] \notin Signing(sigs, i - 1)
  <2>1. \A j \in 1..(i - 1) : sigs[j] \in Nat /\ sigs[j] # sigs[i]
    BY DEF Checked
  <2> QED
    BY <2>1 DEF Signing
<1>2. Signing(sigs, i) = Signing(sigs, i - 1) \cup {sigs[i]}
  <2>1. 1..i = (1..(i - 1)) \cup {i}
    BY DEF Checked
  <2> QED
    BY <2>1 DEF Signing
<1>3. IsFiniteSet(before)
  BY FS_Subset DEF Checked
<1>4. CASE sigs[i] \in DOMAIN signers
  <2>1. after = before \cup {sigs[i]} /\ sigs[i] \notin before
    BY <1>1, <1>2, <1>4
  <2>2. \A x \in before \cup {sigs[i]} : signers[x] \in Int
    BY <1>4 DEF Checked
  <2>3. SumFunctionOnSet(signers, before) \in Int /\ signers[sigs[i]] \in Int
    BY <1>3, <2>2, SumInt
  <2> HIDE DEF before, after
  <2>4. SumFunctionOnSet(signers, after) = signers[sigs[i]] + SumFunctionOnSet(signers, before)
    BY <1>3, <2>1, <2>2, SumAdd
  <2> QED
    BY <1>4, <2>3, <2>4 DEF Power, before, after
<1>5. CASE sigs[i] \notin DOMAIN signers
  <2>1. after = before
    BY <1>2, <1>5
  <2>2. SumFunctionOnSet(signers, before) \in Int
    BY <1>3, SumInt DEF Checked
  <2>3. /\ Power(signers, Signing(sigs, i)) = SumFunctionOnSet(signers, after)
        /\ Power(signers, Signing(sigs, i - 1)) = SumFunctionOnSet(signers, before)
    BY DEF Power
  <2> HIDE DEF before, after
  <2> QED
    BY <1>5, <2>1, <2>2, <2>3
<1> QED
  BY <1>4, <1>5

\* If the check has not failed it has counted the addresses up to some point, each
\* once, and stopped before the last only because the quorum was reached.
Counted(signers, sigs, power, i) ==
    \/ power[i] = -1
    \/ \E k \in 0..i : /\ k = i \/ power[i] >= Quorum(signers)
                       /\ \A j \in 1..k : sigs[j] <= sigs[k]
                       /\ power[i] = Power(signers, Signing(sigs, k))

LEMMA CountedNext ==
    ASSUME NEW signers, NEW sigs, Checked(signers, sigs), NEW power, NEW i \in 1..Len(sigs),
           power[i] = NextPower(signers, sigs, i, power[i - 1]),
           Counted(signers, sigs, power, i - 1)
    PROVE  Counted(signers, sigs, power, i)
<1> DEFINE before == power[i - 1]
<1>1. CASE before = -1
  BY <1>1 DEF NextPower, Counted
<1>2. CASE before # -1 /\ before >= Quorum(signers)
  <2>1. power[i] = before
    BY <1>2 DEF NextPower
  <2>2. PICK k \in 0..(i - 1) : /\ \A j \in 1..k : sigs[j] <= sigs[k]
                                /\ before = Power(signers, Signing(sigs, k))
    BY <1>2 DEF Counted
  <2>3. k \in 0..i
    BY DEF Checked
  <2> QED
    BY <1>2, <2>1, <2>2, <2>3 DEF Counted
<1>3. CASE before # -1 /\ ~(before >= Quorum(signers))
  <2>1. /\ power[i] = ScanStep(signers, sigs, i, before)
        /\ \A j \in 1..(i - 1) : sigs[j] <= sigs[i - 1]
        /\ before = Power(signers, Signing(sigs, i - 1))
    BY <1>3 DEF NextPower, Counted
  <2>2. CASE power[i] = -1
    BY <2>2 DEF Counted
  <2>3. CASE power[i] # -1
    <3>1. /\ sigs[i] > (IF i = 1 THEN 0 ELSE sigs[i - 1])
          /\ power[i] = before + (IF sigs[i] \in DOMAIN signers THEN signers[sigs[i]] ELSE 0)
      BY <2>1, <2>3 DEF ScanStep
    <3>2. \A j \in 1..(i - 1) : sigs[j] < sigs[i]
      <4>1. ASSUME NEW j \in 1..(i - 1) PROVE sigs[j] < sigs[i]
        <5>1. sigs[j] \in Nat /\ sigs[i - 1] \in Nat /\ sigs[i] \in Nat /\ i # 1
          BY DEF Checked
        <5>2. sigs[j] <= sigs[i - 1] /\ sigs[i - 1] < sigs[i]
          BY <2>1, <3>1, <5>1
        <5> QED
          BY <5>1, <5>2
      <4> QED
        BY <4>1
    <3>3. power[i] = Power(signers, Signing(sigs, i))
      BY <2>1, <3>1, <3>2, PowerAdds
    <3>4. \A j \in 1..i : sigs[j] <= sigs[i]
      <4>1. \A j \in 1..i : j = i \/ j \in 1..(i - 1)
        BY DEF Checked
      <4>2. \A j \in 1..i : sigs[j] \in Nat
        BY DEF Checked
      <4> QED
        BY <3>2, <4>1, <4>2
    <3>5. i \in 0..i
      OBVIOUS
    <3> QED
      BY <3>3, <3>4, <3>5 DEF Counted
  <2> QED
    BY <2>2, <2>3
<1> QED
  BY <1>1, <1>2, <1>3

\* A check that passes has the quorum.
LEMMA CheckIsSound ==
    ASSUME NEW signers, NEW sigs, Checked(signers, sigs), VerifySignedPowers(signers, sigs)
    PROVE  3 * Power(signers, Signing(sigs, Len(sigs))) > 2 * TotalPower(signers)
<1> DEFINE n == Len(sigs)
<1>1. n \in Nat
  BY DEF Checked
<1>2. PICK power : /\ ScannedPower(signers, sigs) = power[n] /\ power[0] = 0
                   /\ \A i \in 1..n : power[i] = NextPower(signers, sigs, i, power[i - 1])
  BY <1>1, ScannedUnfolded
<1>3. \A i \in 0..n : Counted(signers, sigs, power, i)
  <2> DEFINE B == {i \in 0..n : ~ Counted(signers, sigs, power, i)}
  <2>1. ASSUME B # {} PROVE FALSE
    <3>1. PICK i \in B : \A j \in B : i <= j
      <4>1. B \in SUBSET (0..n)
        OBVIOUS
      <4> HIDE DEF B
      <4> QED BY <1>1, <2>1, <4>1, LeastNumber
    <3>2. CASE i = 0
      <4>1. Signing(sigs, 0) \cap DOMAIN signers = {}
        BY DEF Signing
      <4>2. Power(signers, Signing(sigs, 0)) = 0
        BY <4>1, SumEmpty DEF Power
      <4>3. 0 \in 0..0 /\ \A j \in 1..0 : FALSE
        OBVIOUS
      <4> QED
        BY <1>2, <3>1, <3>2, <4>2, <4>3 DEF Counted
    <3>3. CASE i # 0
      <4>1. i \in 1..n /\ i - 1 \in 0..n /\ i - 1 \notin B
        BY <1>1, <3>1, <3>3
      <4> QED
        BY <1>2, <3>1, <4>1, CountedNext
    <3> QED
      BY <3>2, <3>3
  <2> QED
    BY <2>1
<1>4. power[n] >= Quorum(signers)
  BY <1>2 DEF VerifySignedPowers
<1>5. /\ TotalPower(signers) \in Nat /\ Quorum(signers) \in Nat
      /\ 3 * Quorum(signers) > 2 * TotalPower(signers)
  BY QuorumIsStrict DEF Checked
<1>6. power[n] # -1 /\ Counted(signers, sigs, power, n)
  BY <1>1, <1>3, <1>4, <1>5
<1>7. PICK k \in 0..n : power[n] = Power(signers, Signing(sigs, k))
  BY <1>6 DEF Counted
<1>8. Power(signers, Signing(sigs, k)) <= Power(signers, Signing(sigs, n))
  <2> DEFINE few == Signing(sigs, k) \cap DOMAIN signers
             all == Signing(sigs, n) \cap DOMAIN signers
  <2>1. 1..k \subseteq 1..n
    BY <1>1
  <2>2. few \in SUBSET all
    BY <2>1 DEF Signing
  <2>3. IsFiniteSet(all) /\ \A x \in all : signers[x] \in Nat
    BY FS_Subset DEF Checked
  <2> HIDE DEF few, all
  <2>4. SumFunctionOnSet(signers, few) <= SumFunctionOnSet(signers, all)
    BY <2>2, <2>3, SumSubset
  <2> QED
    BY <2>4 DEF Power, few, all
<1>9. Power(signers, Signing(sigs, n)) \in Nat /\ Power(signers, Signing(sigs, k)) \in Nat
  BY PowerInNat
<1> QED
  BY <1>4, <1>5, <1>7, <1>8, <1>9

\* The check of a sorted list of signers goes on counting until it has the quorum.
CountedAll(signers, sigs, power, i) ==
    /\ power[i] >= Quorum(signers) \/ power[i] = Power(signers, Signing(sigs, i))
    /\ \A j \in 1..i : sigs[j] <= sigs[i]

LEMMA CountedAllNext ==
    ASSUME NEW signers, NEW sigs, Checked(signers, sigs), NEW power, NEW i \in 1..Len(sigs),
           \A j \in 1..Len(sigs) : sigs[j] \in DOMAIN signers,
           \A j \in 2..Len(sigs) : sigs[j - 1] < sigs[j],
           power[i] = NextPower(signers, sigs, i, power[i - 1]),
           CountedAll(signers, sigs, power, i - 1)
    PROVE  CountedAll(signers, sigs, power, i)
<1> DEFINE before == power[i - 1]
<1>1. Quorum(signers) \in Nat
  BY QuorumIsStrict DEF Checked
<1>2. \A j \in 1..(i - 1) : sigs[j] < sigs[i]
  <2>1. ASSUME NEW j \in 1..(i - 1) PROVE sigs[j] < sigs[i]
    <3>1. i \in 2..Len(sigs) /\ i - 1 \in 1..Len(sigs) /\ j \in 1..Len(sigs)
      BY DEF Checked
    <3>2. sigs[j] \in Nat /\ sigs[i - 1] \in Nat /\ sigs[i] \in Nat
      BY <3>1 DEF Checked
    <3>3. sigs[j] <= sigs[i - 1] /\ sigs[i - 1] < sigs[i]
      BY <3>1 DEF CountedAll
    <3> QED
      BY <3>2, <3>3
  <2> QED
    BY <2>1
<1>3. \A j \in 1..i : sigs[j] <= sigs[i]
  <2>1. \A j \in 1..i : (j = i \/ j \in 1..(i - 1)) /\ sigs[j] \in Nat
    BY DEF Checked
  <2> QED
    BY <1>2, <2>1
<1>4. CASE before >= Quorum(signers)
  <2>1. power[i] = before
    BY <1>4 DEF NextPower
  <2> QED
    BY <1>3, <1>4, <2>1 DEF CountedAll
<1>5. CASE ~(before >= Quorum(signers))
  <2>1. before = Power(signers, Signing(sigs, i - 1)) /\ before \in Nat
    BY <1>5, PowerInNat DEF CountedAll
  <2>2. power[i] = ScanStep(signers, sigs, i, before)
    BY <1>5, <2>1 DEF NextPower
  <2>3. sigs[i] \in DOMAIN signers /\ sigs[i] \in Nat \ {0}
    BY DEF Checked
  <2>4. sigs[i] > (IF i = 1 THEN 0 ELSE sigs[i - 1])
    <3>1. CASE i = 1
      BY <2>3, <3>1
    <3>2. CASE i # 1
      <4>1. i - 1 \in 1..(i - 1) /\ sigs[i - 1] \in Nat
        BY <3>2 DEF Checked
      <4> QED
        BY <1>2, <2>3, <3>2, <4>1
    <3> QED
      BY <3>1, <3>2
  <2>5. \E s \in DOMAIN signers : s >= sigs[i]
    BY <2>3
  <2>6. power[i] = before + signers[sigs[i]]
    BY <2>2, <2>3, <2>4, <2>5 DEF ScanStep
  <2>7. power[i] = Power(signers, Signing(sigs, i))
    BY <1>2, <2>1, <2>3, <2>6, PowerAdds
  <2> QED
    BY <1>3, <2>7 DEF CountedAll
<1> QED
  BY <1>4, <1>5

\* The sorted list of signers who have the quorum passes.
LEMMA CheckIsComplete ==
    ASSUME NEW signers, NEW sigs, Checked(signers, sigs),
           \A j \in 1..Len(sigs) : sigs[j] \in DOMAIN signers,
           \A j \in 2..Len(sigs) : sigs[j - 1] < sigs[j],
           Power(signers, Signing(sigs, Len(sigs))) >= Quorum(signers)
    PROVE  VerifySignedPowers(signers, sigs)
<1> DEFINE n == Len(sigs)
<1>1. n \in Nat
  BY DEF Checked
<1>2. PICK power : /\ ScannedPower(signers, sigs) = power[n] /\ power[0] = 0
                   /\ \A i \in 1..n : power[i] = NextPower(signers, sigs, i, power[i - 1])
  BY <1>1, ScannedUnfolded
<1>3. \A i \in 0..n : CountedAll(signers, sigs, power, i)
  <2> DEFINE B == {i \in 0..n : ~ CountedAll(signers, sigs, power, i)}
  <2>1. ASSUME B # {} PROVE FALSE
    <3>1. PICK i \in B : \A j \in B : i <= j
      <4>1. B \in SUBSET (0..n)
        OBVIOUS
      <4> HIDE DEF B
      <4> QED BY <1>1, <2>1, <4>1, LeastNumber
    <3>2. CASE i = 0
      <4>1. Signing(sigs, 0) \cap DOMAIN signers = {}
        BY DEF Signing
      <4>2. Power(signers, Signing(sigs, 0)) = 0
        BY <4>1, SumEmpty DEF Power
      <4>3. \A j \in 1..0 : FALSE
        OBVIOUS
      <4> QED
        BY <1>2, <3>1, <3>2, <4>2, <4>3 DEF CountedAll
    <3>3. CASE i # 0
      <4>1. i \in 1..n /\ i - 1 \in 0..n /\ i - 1 \notin B
        BY <1>1, <3>1, <3>3
      <4> QED
        BY <1>2, <3>1, <4>1, CountedAllNext
    <3> QED
      BY <3>2, <3>3
  <2> QED
    BY <2>1
<1>4. power[n] >= Quorum(signers)
  BY <1>1, <1>3 DEF CountedAll
<1> QED
  BY <1>2, <1>4 DEF VerifySignedPowers

\* The quorum check of the bridge contracts lets through exactly what a strict
\* two-thirds majority of the current signers has signed, whatever the signers are and
\* whatever list of signatures is handed in (Signers._verifySignedPowers).
THEOREM VerificationExactCorrect == ClaimsSpec => []VerificationExact
<1>1. ASSUME ClaimsInv PROVE VerificationExact
  <2>1. /\ IsFiniteSet(DOMAIN ss) /\ DOMAIN ss \subseteq Nat \ {0}
        /\ \A s \in DOMAIN ss : ss[s] \in Nat
    BY <1>1, SignersAssumption, FS_Subset DEF ClaimsInv, SignersInv, SignersTyped
  <2>2. ASSUME NEW sigs \in SeqOfAddresses PROVE Checked(ss, sigs)
    <3>1. PICK n \in 0..MaxSigs : sigs \in [1..n -> SignerAddr \cup {0}]
      BY DEF SeqOfAddresses
    <3>2. n \in Nat /\ Len(sigs) = n
      BY <3>1
    <3>3. \A i \in 1..n : sigs[i] \in Nat
      BY <3>1, SignersAssumption
    <3> QED
      BY <2>1, <3>2, <3>3 DEF Checked
  <2>3. ASSUME NEW sigs \in SeqOfAddresses, VerifySignedPowers(ss, sigs)
        PROVE  3 * SumFunctionOnSet(ss, {sigs[i] : i \in 1..Len(sigs)} \cap DOMAIN ss)
                 > 2 * TotalPower(ss)
    BY <2>2, <2>3, CheckIsSound DEF Power, Signing
  <2>4. ASSUME NEW sigs \in SeqOfAddresses,
               \A i \in 1..Len(sigs) : sigs[i] \in DOMAIN ss,
               \A i \in 2..Len(sigs) : sigs[i - 1] < sigs[i],
               SignedByQuorum({sigs[i] : i \in 1..Len(sigs)})
        PROVE  VerifySignedPowers(ss, sigs)
    <3>1. Power(ss, Signing(sigs, Len(sigs))) >= Quorum(ss)
      BY <2>4 DEF Power, Signing, SignedByQuorum
    <3> QED
      BY <2>2, <2>4, <3>1, CheckIsComplete
  <2> QED
    BY <2>3, <2>4 DEF VerificationExact
<1> QED
  BY <1>1, ClaimsInvAlways, PTL

=============================================================================
