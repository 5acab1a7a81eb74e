---------------------------- MODULE BridgeProofs ----------------------------
(***************************************************************************)
(* Theorems about the liquidity bridge and the message bus on top of it,   *)
(* for every value of the constants of BridgePool and MessageBus: every    *)
(* request is paid once, large ones after their delay, within the volume   *)
(* cap, and the pool implements Transfers; every message is handled at     *)
(* most once, after the transfer it came with, and the fees are there,     *)
(* whatever the applications called do before they return or revert.       *)
(***************************************************************************)
EXTENDS MessageBus, SumTheorems, SequenceTheorems

\* What an entry of delayedTransfers holds.
Entries == [receiver : DOMAIN GasNeeded, token : Tokens, amount : Nat, timestamp : Nat]

BridgeTyped ==
    /\ now \in Nat \ {0}
    /\ nativeWrap \in Tokens \cup {NoToken}
    /\ transfers \subseteq Relays \cup Sends /\ withdraws \subseteq Withdrawals
    /\ minAdd \in TokenAmounts /\ minSend \in TokenAmounts
    /\ volume \in [epochLength : Nat, epochVolumes : TokenAmounts,
                   epochVolumeCaps : TokenAmounts, lastOpTimestamps : TokenAmounts]
    /\ delays \in [delayPeriod : Nat, delayThresholds : TokenAmounts,
                   delayedTransfers : [Requests -> Entries \cup {NoTransfer}]]
    /\ balance \in TokenAmounts /\ flow \in TokenAmounts
    /\ payments \in [Requests -> Nat]
    /\ accepted \in [Requests -> [at : Nat, large : BOOLEAN]]

\* A waiting entry carries the time at which its request was accepted.
Dated ==
    \A r \in Requests : IsDelayed(r) =>
        delays.delayedTransfers[r].timestamp = accepted[r].at /\ accepted[r].at > 0

\* The volume that VolumeControl has on its books for the epoch that goes on.
VolumeOnBooks(t) ==
    IF volume.lastOpTimestamps[t] < EpochStart(volume, now) THEN 0 ELSE volume.epochVolumes[t]

\* Nothing moved in this epoch is off the books.
FlowOnBooks == \A t \in Tokens : VolumeLimited(volume, t) => flow[t] <= VolumeOnBooks(t)

BridgeInv == BridgeTyped /\ ExactlyOnce /\ Dated /\ FlowOnBooks /\ VolumeCapped

-----------------------------------------------------------------------------
(* Epochs *)

\* An epoch has begun by now.
LEMMA EpochBegun ==
    ASSUME NEW n \in Nat, NEW l \in Nat \ {0}
    PROVE  (n \div l) * l \in Nat /\ (n \div l) * l <= n
OBVIOUS

\* One second later it is the same epoch, unless that second is a multiple of its length.
LEMMA SameEpoch ==
    ASSUME NEW n \in Nat, NEW l \in Nat \ {0}, (n + 1) % l # 0
    PROVE  (n + 1) \div l = n \div l
OBVIOUS

-----------------------------------------------------------------------------
(* The initial state, and the steps that pay nothing *)

LEMMA BridgeInitially == BridgeInit => BridgeInv
<1> SUFFICES ASSUME BridgeInit PROVE BridgeInv
  OBVIOUS
<1>1. Zeros \in TokenAmounts /\ \A t \in Tokens : Zeros[t] = 0
  BY DEF Zeros, TokenAmounts
<1>2. BridgeTyped
  BY <1>1, BridgeAssumption DEF BridgeTyped, BridgeInit, SignersInit
<1>3. \A r \in Requests : ~IsDelayed(r)
  BY DEF BridgeInit, IsDelayed
<1>4. ExactlyOnce /\ Dated
  BY <1>3 DEF ExactlyOnce, Dated, Recorded, BridgeInit
<1>5. FlowOnBooks
  BY <1>1, <1>2 DEF FlowOnBooks, VolumeOnBooks, BridgeInit, TokenAmounts
<1>6. VolumeCapped
  BY <1>1, <1>2 DEF VolumeCapped, BridgeInit, BridgeTyped, TokenAmounts
<1> QED
  BY <1>2, <1>4, <1>5, <1>6 DEF BridgeInv

\* What the requests have come to is kept by a step that leaves these alone.
LEMMA RequestsKept ==
    ASSUME ExactlyOnce, Dated, UNCHANGED <<delays.delayedTransfers, payments, accepted>>,
           \A r \in Requests : r \in Recorded' <=> r \in Recorded
    PROVE  ExactlyOnce' /\ Dated'
BY DEF ExactlyOnce, Dated, IsDelayed

\* The volumes are kept by a step that leaves these alone.
LEMMA VolumesKept ==
    ASSUME FlowOnBooks, VolumeCapped, UNCHANGED <<now, volume, flow>>
    PROVE  FlowOnBooks' /\ VolumeCapped'
BY DEF FlowOnBooks, VolumeOnBooks, VolumeCapped, VolumeLimited, EpochStart

\* Liquidity comes in.
LEMMA AddLiquidityKeeps ==
    ASSUME BridgeInv, NEW token \in Tokens, NEW amount \in LiquidityAmounts,
           AddLiquidity(token, amount)
    PROVE  BridgeInv'
<1> USE DEF BridgeInv
<1>1. amount \in Nat
  BY BridgeAssumption
<1>2. BridgeTyped'
  BY <1>1 DEF BridgeTyped, AddLiquidity, native, limits, records, TokenAmounts
<1>3. ExactlyOnce' /\ Dated'
  BY RequestsKept DEF AddLiquidity, records, Recorded
<1>4. FlowOnBooks' /\ VolumeCapped'
  BY VolumesKept DEF AddLiquidity
<1> QED
  BY <1>2, <1>3, <1>4

\* A send comes in.
LEMMA SendKeeps ==
    ASSUME BridgeInv, NEW s \in Sends, Send(s)
    PROVE  BridgeInv'
<1> USE DEF BridgeInv
<1>1. s.token \in Tokens /\ s.amount \in Nat /\ s \notin Requests
  BY BridgeAssumption
<1>2. BridgeTyped'
  BY <1>1 DEF BridgeTyped, Send, native, limits, TokenAmounts
<1>3. ExactlyOnce' /\ Dated'
  BY <1>1, RequestsKept DEF Send, Recorded
<1>4. FlowOnBooks' /\ VolumeCapped'
  BY VolumesKept DEF Send
<1> QED
  BY <1>2, <1>3, <1>4

\* A step of the signers leaves the bridge alone, and the clock.
LEMMA SignersLeaveBridge ==
    ASSUME BridgeInv, SignersStep \/ UNCHANGED <<now, signerVars>>, UNCHANGED bridgeVars
    PROVE  BridgeInv'
<1> USE DEF BridgeInv, bridgeVars
<1>1. now' = now
  BY DEF SignersStep, UpdateSigners, ResetSigners, NotifyResetSigners, IncreaseNoticePeriod
<1>2. BridgeTyped'
  BY <1>1 DEF BridgeTyped, native, limits, records, payouts
<1>3. ExactlyOnce' /\ Dated'
  BY RequestsKept DEF records, payouts, Recorded
<1>4. FlowOnBooks' /\ VolumeCapped'
  BY <1>1, VolumesKept
<1> QED
  BY <1>2, <1>3, <1>4

\* Time passes: a new epoch begins with nothing moved, or the old one goes on.
LEMMA BridgeTickKeeps ==
    ASSUME BridgeInv, BridgeTick
    PROVE  BridgeInv'
<1> USE DEF BridgeInv
<1>1. now' = now + 1 /\ UNCHANGED <<volume, delays, payments, accepted>>
  BY DEF BridgeTick, Tick, payouts
<1>2. BridgeTyped'
  BY <1>1 DEF BridgeTyped, BridgeTick, native, limits, records, payouts, Zeros, TokenAmounts
<1>3. ExactlyOnce' /\ Dated'
  BY <1>1, RequestsKept DEF BridgeTick, records, Recorded
<1>4. ASSUME NEW t \in Tokens, VolumeLimited(volume', t)
      PROVE  flow'[t] <= VolumeOnBooks(t)' /\ flow'[t] <= volume'.epochVolumeCaps[t]
  <2>1. /\ volume.epochLength \in Nat \ {0} /\ now \in Nat /\ VolumeLimited(volume, t)
        /\ volume.lastOpTimestamps[t] \in Nat /\ volume.epochVolumes[t] \in Nat
        /\ volume.epochVolumeCaps[t] \in Nat
    BY <1>1, <1>4 DEF BridgeTyped, VolumeLimited, TokenAmounts
  <2>2. CASE now' % volume.epochLength = 0
    BY <1>1, <2>1, <2>2 DEF BridgeTick, VolumeOnBooks, Zeros
  <2>3. CASE now' % volume.epochLength # 0
    <3>1. EpochStart(volume', now') = EpochStart(volume, now) /\ flow' = flow
      BY <1>1, <2>1, <2>3, SameEpoch DEF EpochStart, BridgeTick
    <3>2. flow[t] <= VolumeOnBooks(t) /\ flow[t] <= volume.epochVolumeCaps[t]
      BY <2>1 DEF FlowOnBooks, VolumeCapped
    <3> QED
      BY <1>1, <3>1, <3>2 DEF VolumeOnBooks
  <2> QED
    BY <2>2, <2>3
<1>5. FlowOnBooks' /\ VolumeCapped'
  BY <1>4 DEF FlowOnBooks, VolumeCapped
<1> QED
  BY <1>2, <1>3, <1>5

-----------------------------------------------------------------------------
(* The governor *)

\* A new cap: the flow is measured against it only where it still fits.
LEMMA SetCapKeeps ==
    ASSUME BridgeInv, NEW token \in Tokens, NEW cap \in Limits, SetEpochVolumeCap(token, cap)
    PROVE  BridgeInv'
<1> USE DEF BridgeInv
<1>1. cap \in Nat
  BY BridgeAssumption
<1>2. /\ volume' = [volume EXCEPT !.epochVolumeCaps = [@ EXCEPT ![token] = cap]]
      /\ UNCHANGED <<now, delays, payments, accepted, transfers, withdraws>>
      /\ flow' = IF VolumeLimited(volume, token) /\ flow[token] <= cap THEN flow
                 ELSE [flow EXCEPT ![token] = 0]
  BY DEF SetEpochVolumeCap, records, payouts, Set
<1>3. /\ [volume.epochVolumeCaps EXCEPT ![token] = cap] \in TokenAmounts
      /\ [flow EXCEPT ![token] = 0] \in TokenAmounts
  BY <1>1 DEF BridgeTyped, TokenAmounts
<1>4. BridgeTyped'
  BY <1>2, <1>3 DEF BridgeTyped, SetEpochVolumeCap, native, limits, records, payouts
<1>5. ExactlyOnce' /\ Dated'
  BY <1>2, RequestsKept DEF Recorded
<1>6. /\ volume'.epochLength = volume.epochLength
      /\ volume'.epochVolumes = volume.epochVolumes
      /\ volume'.lastOpTimestamps = volume.lastOpTimestamps
      /\ volume'.epochVolumeCaps[token] = cap
      /\ \A t \in Tokens \ {token} : volume'.epochVolumeCaps[t] = volume.epochVolumeCaps[t]
  BY <1>2 DEF BridgeTyped, TokenAmounts
<1>7. ASSUME NEW t \in Tokens, VolumeLimited(volume', t)
      PROVE  flow'[t] <= VolumeOnBooks(t)' /\ flow'[t] <= volume'.epochVolumeCaps[t]
  <2>1. VolumeOnBooks(t)' = VolumeOnBooks(t) /\ VolumeOnBooks(t) \in Nat
    BY <1>2, <1>6 DEF VolumeOnBooks, EpochStart, BridgeTyped, TokenAmounts
  <2>2. CASE t # token
    <3>1. VolumeLimited(volume, t) /\ flow'[t] = flow[t]
      BY <1>2, <1>6, <1>7, <2>2 DEF VolumeLimited, BridgeTyped, TokenAmounts
    <3>2. flow[t] <= VolumeOnBooks(t) /\ flow[t] <= volume.epochVolumeCaps[t]
      BY <3>1 DEF FlowOnBooks, VolumeCapped
    <3> QED
      BY <1>6, <2>1, <2>2, <3>1, <3>2
  <2>3. CASE t = token /\ VolumeLimited(volume, token) /\ flow[token] <= cap
    <3>1. flow'[t] <= cap
      BY <1>2, <2>3
    <3>2. flow'[t] <= VolumeOnBooks(t)
      BY <1>2, <2>3 DEF FlowOnBooks
    <3> QED
      BY <1>6, <2>1, <2>3, <3>1, <3>2
  <2>4. CASE t = token /\ ~(VolumeLimited(volume, token) /\ flow[token] <= cap)
    <3>1. flow'[t] = 0
      BY <1>2, <2>4 DEF BridgeTyped, TokenAmounts
    <3> QED
      BY <1>1, <1>6, <2>1, <2>4, <3>1
  <2> QED
    BY <2>2, <2>3, <2>4
<1>8. FlowOnBooks' /\ VolumeCapped'
  BY <1>7 DEF FlowOnBooks, VolumeCapped
<1> QED
  BY <1>4, <1>5, <1>8

\* A new epoch length: the flow is counted anew.
LEMMA SetLengthKeeps ==
    ASSUME BridgeInv, NEW length \in Lengths, SetEpochLength(length)
    PROVE  BridgeInv'
<1> USE DEF BridgeInv
<1>1. length \in Nat
  BY BridgeAssumption
<1>2. BridgeTyped'
  BY <1>1 DEF BridgeTyped, SetEpochLength, native, limits, records, payouts, Zeros, TokenAmounts
<1>3. ExactlyOnce' /\ Dated'
  BY RequestsKept DEF SetEpochLength, records, payouts, Recorded
<1>4. \A t \in Tokens : flow'[t] = 0
  BY DEF SetEpochLength, Zeros
<1>5. \A t \in Tokens : VolumeOnBooks(t)' \in Nat /\ volume'.epochVolumeCaps[t] \in Nat
  BY <1>2 DEF VolumeOnBooks, BridgeTyped, TokenAmounts
<1>6. FlowOnBooks' /\ VolumeCapped'
  BY <1>4, <1>5 DEF FlowOnBooks, VolumeCapped
<1> QED
  BY <1>2, <1>3, <1>6

\* The other settings touch neither requests nor volumes.
LEMMA SettingKeeps ==
    ASSUME BridgeInv,
           \/ SetPaused
           \/ \E token \in Wraps : SetWrap(token)
           \/ \E gas \in GasValues : SetNativeTokenTransferGas(gas)
           \/ \E op \in GovernorOps, token \in Tokens, value \in Limits : SetLimit(op, token, value)
           \/ \E token \in Tokens, threshold \in Limits : SetDelayThreshold(token, threshold)
           \/ \E period \in Periods : SetDelayPeriod(period)
    PROVE  BridgeInv'
<1> USE DEF BridgeInv
<1> DEFINE quiet == /\ UNCHANGED <<now, volume, flow, transfers, withdraws, payments, accepted>>
                    /\ delays'.delayedTransfers = delays.delayedTransfers
<1>1. ASSUME quiet, BridgeTyped' PROVE BridgeInv'
  <2>1. ExactlyOnce' /\ Dated'
    BY <1>1, RequestsKept DEF Recorded
  <2>2. FlowOnBooks' /\ VolumeCapped'
    BY <1>1, VolumesKept
  <2> QED
    BY <1>1, <2>1, <2>2
<1> HIDE DEF quiet
<1>2. CASE SetPaused
  BY <1>1, <1>2 DEF quiet, BridgeTyped, SetPaused, native, limits, records, payouts
<1>3. CASE \E token \in Wraps : SetWrap(token)
  BY <1>1, <1>3, BridgeAssumption DEF quiet, BridgeTyped, SetWrap, limits, records, payouts
<1>4. CASE \E gas \in GasValues : SetNativeTokenTransferGas(gas)
  BY <1>1, <1>4 DEF quiet, BridgeTyped, SetNativeTokenTransferGas, limits, records, payouts
<1>5. CASE \E op \in GovernorOps, token \in Tokens, value \in Limits : SetLimit(op, token, value)
  <2>1. PICK op \in GovernorOps, token \in Tokens, value \in Limits : SetLimit(op, token, value)
    BY <1>5
  <2>2. value \in Nat
    BY BridgeAssumption
  <2>3. minAdd' \in TokenAmounts /\ minSend' \in TokenAmounts
    BY <2>1, <2>2 DEF SetLimit, Set, BridgeTyped, TokenAmounts
  <2>4. quiet /\ BridgeTyped'
    BY <2>1, <2>3 DEF quiet, BridgeTyped, SetLimit, native, records, payouts
  <2> QED
    BY <1>1, <2>4
<1>6. CASE \E token \in Tokens, threshold \in Limits : SetDelayThreshold(token, threshold)
  <2>1. PICK token \in Tokens, threshold \in Limits : SetDelayThreshold(token, threshold)
    BY <1>6
  <2>2. threshold \in Nat
    BY BridgeAssumption
  <2>3. [delays.delayThresholds EXCEPT ![token] = threshold] \in TokenAmounts
    BY <2>2 DEF BridgeTyped, TokenAmounts
  <2>4. delays' = [delays EXCEPT !.delayThresholds = [@ EXCEPT ![token] = threshold]]
    BY <2>1 DEF SetDelayThreshold
  <2>5. quiet /\ BridgeTyped'
    BY <2>1, <2>3, <2>4 DEF quiet, BridgeTyped, SetDelayThreshold, native, limits, records, payouts
  <2> QED
    BY <1>1, <2>5
<1>7. CASE \E period \in Periods : SetDelayPeriod(period)
  BY <1>1, <1>7, BridgeAssumption
     DEF quiet, BridgeTyped, SetDelayPeriod, native, limits, records, payouts
<1> QED
  BY <1>2, <1>3, <1>4, <1>5, <1>6, <1>7

-----------------------------------------------------------------------------
(* Tokens out *)

\* What it takes to pay a request, and what is left.
LEMMA SendTokenEffect ==
    ASSUME BridgeTyped, NEW r \in Requests, NEW token \in Tokens, NEW amount \in Nat,
           SendToken(r, token, amount)
    PROVE  /\ amount <= balance[token]
           /\ balance' = [balance EXCEPT ![token] = @ - amount] /\ balance' \in TokenAmounts
           /\ payments' = [payments EXCEPT ![r] = @ + 1] /\ payments' \in [Requests -> Nat]
BY DEF SendToken, BridgeTyped, TokenAmounts

\* The volume of a request accepted under a cap is on the books, and within the cap.
LEMMA CountedWhenAccepted ==
    ASSUME BridgeInv, NEW r \in Requests, PayOrDelay(r), now' = now
    PROVE  /\ volume' \in [epochLength : Nat, epochVolumes : TokenAmounts,
                            epochVolumeCaps : TokenAmounts, lastOpTimestamps : TokenAmounts]
           /\ flow' \in TokenAmounts
           /\ FlowOnBooks' /\ VolumeCapped'
<1> USE DEF BridgeInv
<1> DEFINE token == r.token
           after == VolumeAfter(volume, token, r.amount, now)
<1>1. token \in Tokens /\ r.amount \in Nat /\ now \in Nat \ {0}
  BY BridgeAssumption DEF BridgeTyped
<1>2. flow' = [flow EXCEPT ![token] = @ + r.amount]
  BY DEF PayOrDelay
<1>3. /\ flow' \in TokenAmounts /\ flow'[token] = flow[token] + r.amount
      /\ \A t \in Tokens \ {token} : flow'[t] = flow[t]
  BY <1>1, <1>2 DEF BridgeTyped, TokenAmounts
<1>4. CASE ~VolumeLimited(volume, token)
  <2>1. volume' = volume
    BY <1>4 DEF PayOrDelay, UpdateVolume
  <2>2. FlowOnBooks' /\ VolumeCapped'
    BY <1>3, <1>4, <2>1 DEF FlowOnBooks, VolumeCapped, VolumeOnBooks
  <2> QED
    BY <1>3, <2>1, <2>2 DEF BridgeTyped
<1>5. CASE VolumeLimited(volume, token)
  <2>1. after \in Nat /\ after <= volume.epochVolumeCaps[token]
    BY <1>1, <1>5 DEF PayOrDelay, WithinCap, VolumeAfter, BridgeTyped, TokenAmounts
  <2>2. flow[token] + r.amount <= after
    <3>1. flow[token] <= VolumeOnBooks(token) /\ flow[token] \in Nat
      BY <1>1, <1>5 DEF FlowOnBooks, BridgeTyped, TokenAmounts
    <3>2. volume.epochVolumes[token] \in Nat
      BY <1>1 DEF BridgeTyped, TokenAmounts
    <3> QED
      BY <1>1, <3>1, <3>2 DEF VolumeOnBooks, VolumeAfter
  <2>3. volume' = [volume EXCEPT !.epochVolumes = [@ EXCEPT ![token] = after],
                                 !.lastOpTimestamps = [@ EXCEPT ![token] = now]]
    BY <1>5 DEF PayOrDelay, UpdateVolume
  <2>4. /\ [volume.epochVolumes EXCEPT ![token] = after] \in TokenAmounts
        /\ [volume.lastOpTimestamps EXCEPT ![token] = now] \in TokenAmounts
    BY <1>1, <2>1 DEF BridgeTyped, TokenAmounts
  <2> HIDE DEF after
  <2>5. /\ volume' \in [epochLength : Nat, epochVolumes : TokenAmounts,
                         epochVolumeCaps : TokenAmounts, lastOpTimestamps : TokenAmounts]
        /\ volume'.epochLength = volume.epochLength
        /\ volume'.epochVolumeCaps = volume.epochVolumeCaps
        /\ volume'.epochVolumes[token] = after /\ volume'.lastOpTimestamps[token] = now
        /\ \A t \in Tokens \ {token} :
              /\ volume'.epochVolumes[t] = volume.epochVolumes[t]
              /\ volume'.lastOpTimestamps[t] = volume.lastOpTimestamps[t]
    BY <1>1, <2>3, <2>4 DEF BridgeTyped, TokenAmounts
  <2>6. EpochStart(volume, now) <= now /\ EpochStart(volume, now) \in Nat
    BY <1>1, <1>5, EpochBegun DEF EpochStart, VolumeLimited, BridgeTyped
  <2>7. ASSUME NEW t \in Tokens, VolumeLimited(volume', t)
        PROVE  flow'[t] <= VolumeOnBooks(t)' /\ flow'[t] <= volume'.epochVolumeCaps[t]
    <3>1. CASE t = token
      <4>1. VolumeOnBooks(t)' = after
        BY <1>1, <2>5, <2>6, <3>1 DEF VolumeOnBooks, EpochStart
      <4>2. volume.epochVolumeCaps[token] \in Nat /\ flow[token] \in Nat
        BY <1>1 DEF BridgeTyped, TokenAmounts
      <4> QED
        BY <1>1, <1>3, <2>1, <2>2, <2>5, <3>1, <4>1, <4>2
    <3>2. CASE t # token
      <4>1. VolumeOnBooks(t)' = VolumeOnBooks(t) /\ VolumeLimited(volume, t) /\ flow'[t] = flow[t]
        BY <1>3, <2>5, <2>7, <3>2 DEF VolumeOnBooks, EpochStart, VolumeLimited
      <4> QED
        BY <2>5, <4>1 DEF FlowOnBooks, VolumeCapped
    <3> QED
      BY <3>1, <3>2
  <2>8. FlowOnBooks' /\ VolumeCapped'
    BY <2>7 DEF FlowOnBooks, VolumeCapped
  <2> QED
    BY <1>3, <2>5, <2>8
<1> QED
  BY <1>4, <1>5

\* A request that is not on record yet is paid, or put on the waiting list.
LEMMA PayOrDelayEffect ==
    ASSUME BridgeInv, NEW r \in Requests, PayOrDelay(r)
    PROVE  /\ delays' \in [delayPeriod : Nat, delayThresholds : TokenAmounts,
                            delayedTransfers : [Requests -> Entries \cup {NoTransfer}]]
           /\ balance' \in TokenAmounts /\ payments' \in [Requests -> Nat]
           /\ accepted' \in [Requests -> [at : Nat, large : BOOLEAN]]
           /\ accepted'[r].at = now
           /\ \A q \in Requests \ {r} :
                 UNCHANGED <<delays.delayedTransfers[q], payments[q], accepted[q]>>
           /\ \/ /\ delays' = delays /\ payments'[r] = payments[r] + 1
                 /\ r.amount <= balance[r.token]
                 /\ balance' = [balance EXCEPT ![r.token] = @ - r.amount]
                 /\ ~accepted'[r].large
              \/ /\ delays.delayedTransfers[r] = NoTransfer
                 /\ delays'.delayedTransfers[r] =
                       [receiver |-> r.receiver, token |-> r.token, amount |-> r.amount,
                        timestamp |-> now]
                 /\ UNCHANGED payouts
<1> USE DEF BridgeInv
<1>1. r.token \in Tokens /\ r.amount \in Nat /\ now \in Nat /\ r.receiver \in DOMAIN GasNeeded
  BY BridgeAssumption DEF BridgeTyped
<1> DEFINE large == IsLarge(delays, r.token, r.amount)
           entry == [receiver |-> r.receiver, token |-> r.token, amount |-> r.amount,
                     timestamp |-> now]
<1>2. large \in BOOLEAN
  BY <1>1 DEF IsLarge, BridgeTyped, TokenAmounts
<1>3. accepted' = [accepted EXCEPT ![r] = [at |-> now, large |-> large]]
  BY DEF PayOrDelay
<1>4. /\ accepted' \in [Requests -> [at : Nat, large : BOOLEAN]]
      /\ accepted'[r].at = now /\ accepted'[r].large = large
      /\ \A q \in Requests \ {r} : accepted'[q] = accepted[q]
  <2> HIDE DEF large
  <2> QED BY <1>1, <1>2, <1>3 DEF BridgeTyped
<1>5. CASE ~large
  <2>1. SendToken(r, r.token, r.amount) /\ delays' = delays
    BY <1>5 DEF PayOrDelay
  <2>2. \A q \in Requests \ {r} : payments'[q] = payments[q]
    BY <1>1, <2>1, SendTokenEffect DEF BridgeTyped
  <2>3. payments'[r] = payments[r] + 1
    BY <1>1, <2>1, SendTokenEffect DEF BridgeTyped
  <2> HIDE DEF large
  <2> QED
    BY <1>1, <1>4, <1>5, <2>1, <2>2, <2>3, SendTokenEffect DEF BridgeTyped
<1>6. CASE large
  <2>1. /\ CanAddDelayed(delays, r) /\ UNCHANGED payouts
        /\ delays' = AddDelayed(delays, r, r.receiver, r.token, r.amount, now)
    BY <1>6 DEF PayOrDelay
  <2>2. entry \in Entries
    BY <1>1 DEF Entries
  <2>3. delays' = [delays EXCEPT !.delayedTransfers = [@ EXCEPT ![r] = entry]]
    BY <2>1 DEF AddDelayed
  <2>4. [delays.delayedTransfers EXCEPT ![r] = entry] \in [Requests -> Entries \cup {NoTransfer}]
    BY <2>2 DEF BridgeTyped
  <2> HIDE DEF large, entry
  <2>5. /\ delays' \in [delayPeriod : Nat, delayThresholds : TokenAmounts,
                         delayedTransfers : [Requests -> Entries \cup {NoTransfer}]]
        /\ delays'.delayedTransfers[r] = entry
        /\ \A q \in Requests \ {r} : delays'.delayedTransfers[q] = delays.delayedTransfers[q]
    BY <2>3, <2>4 DEF BridgeTyped
  <2> QED
    BY <1>4, <2>1, <2>5 DEF payouts, CanAddDelayed, BridgeTyped, entry
<1> QED
  BY <1>5, <1>6

\* Relay and Withdraw: a request not on record is put on record, and paid or delayed.
Accepting(r, signing) ==
    \/ r \in Relays /\ Relay(r, signing)
    \/ r \in Withdrawals /\ Withdraw(r, signing)

LEMMA AcceptingRecords ==
    ASSUME BridgeInv, NEW r \in Requests, NEW signing, Accepting(r, signing)
    PROVE  /\ PayOrDelay(r) /\ r \notin Recorded
           /\ Recorded' = Recorded \cup {r}
           /\ transfers' \subseteq Relays \cup Sends /\ withdraws' \subseteq Withdrawals
           /\ UNCHANGED <<now, nativeWrap, minAdd, minSend>>
BY BridgeAssumption
   DEF BridgeInv, BridgeTyped, Accepting, Relay, Withdraw, Recorded, native, limits, Requests

LEMMA AcceptingKeeps ==
    ASSUME BridgeInv, NEW r \in Requests, NEW signing, Accepting(r, signing)
    PROVE  BridgeInv'
<1> USE DEF BridgeInv
<1>1. /\ PayOrDelay(r) /\ r \notin Recorded
      /\ Recorded' = Recorded \cup {r}
      /\ transfers' \subseteq Relays \cup Sends /\ withdraws' \subseteq Withdrawals
      /\ UNCHANGED <<now, nativeWrap, minAdd, minSend>>
  BY AcceptingRecords
<1>2. BridgeTyped'
  BY <1>1, CountedWhenAccepted, PayOrDelayEffect DEF BridgeTyped
<1>3. payments[r] = 0 /\ ~IsDelayed(r) /\ now > 0
  BY <1>1 DEF ExactlyOnce, BridgeTyped
<1>4. /\ r.receiver \in DOMAIN GasNeeded /\ r.token \in Tokens /\ r.amount \in Nat /\ now \in Nat
  BY BridgeAssumption DEF BridgeTyped
<1>5. [receiver |-> r.receiver, token |-> r.token, amount |-> r.amount, timestamp |-> now] # NoTransfer
  BY <1>4, BridgeAssumption
<1>6. ASSUME NEW q \in Requests \ {r}
      PROVE  /\ UNCHANGED <<delays.delayedTransfers[q], payments[q], accepted[q]>>
             /\ q \in Recorded' <=> q \in Recorded
  BY <1>1, PayOrDelayEffect
<1>7. /\ accepted'[r].at = now /\ r \in Recorded'
      /\ \/ payments'[r] = 1 /\ delays'.delayedTransfers[r] = NoTransfer
         \/ /\ payments'[r] = 0
            /\ delays'.delayedTransfers[r] =
                  [receiver |-> r.receiver, token |-> r.token, amount |-> r.amount, timestamp |-> now]
  BY <1>1, <1>3, PayOrDelayEffect DEF payouts, IsDelayed
<1>8. ExactlyOnce'
  <2> SUFFICES ASSUME NEW q \in Requests
               PROVE  /\ q \in Recorded' => payments'[q] = (IF IsDelayed(q)' THEN 0 ELSE 1)
                      /\ q \notin Recorded' => payments'[q] = 0 /\ ~IsDelayed(q)'
                      /\ IsDelayed(q)' =>
                            /\ delays'.delayedTransfers[q].receiver = q.receiver
                            /\ delays'.delayedTransfers[q].token = q.token
                            /\ delays'.delayedTransfers[q].amount = q.amount
    BY DEF ExactlyOnce
  <2>1. CASE q = r
    BY <1>5, <1>7, <2>1 DEF IsDelayed
  <2>2. CASE q # r
    BY <1>6, <2>2 DEF ExactlyOnce, IsDelayed
  <2> QED
    BY <2>1, <2>2
<1>9. Dated'
  BY <1>3, <1>6, <1>7 DEF Dated, IsDelayed
<1> QED
  BY <1>1, <1>2, <1>8, <1>9, CountedWhenAccepted

\* A waiting request is paid what was signed, and leaves the list.
LEMMA ExecuteEffect ==
    ASSUME BridgeInv, NEW r \in Requests, ExecuteDelayedTransfer(r)
    PROVE  /\ IsDelayed(r) /\ now > delays.delayedTransfers[r].timestamp + delays.delayPeriod
           /\ delays' \in [delayPeriod : Nat, delayThresholds : TokenAmounts,
                            delayedTransfers : [Requests -> Entries \cup {NoTransfer}]]
           /\ balance' \in TokenAmounts /\ payments' \in [Requests -> Nat]
           /\ ~IsDelayed(r)' /\ payments'[r] = payments[r] + 1
           /\ r.amount <= balance[r.token]
           /\ balance' = [balance EXCEPT ![r.token] = @ - r.amount]
           /\ \A q \in Requests \ {r} : UNCHANGED <<delays.delayedTransfers[q], payments[q]>>
           /\ UNCHANGED <<now, volume, flow, accepted, transfers, withdraws, nativeWrap,
                          minAdd, minSend>>
<1> USE DEF BridgeInv
<1>1. /\ r.token \in Tokens /\ r.amount \in Nat
  BY BridgeAssumption
<1>2. /\ IsDelayed(r) /\ now > delays.delayedTransfers[r].timestamp + delays.delayPeriod
      /\ delays' = [delays EXCEPT !.delayedTransfers = [@ EXCEPT ![r] = NoTransfer]]
  BY DEF ExecuteDelayedTransfer, CanExecuteDelayed, RemoveDelayed, IsDelayed
<1>3. SendToken(r, r.token, r.amount)
  BY <1>2 DEF ExecuteDelayedTransfer, ExactlyOnce
<1>4. [delays.delayedTransfers EXCEPT ![r] = NoTransfer] \in [Requests -> Entries \cup {NoTransfer}]
  BY DEF BridgeTyped
<1>5. /\ delays' \in [delayPeriod : Nat, delayThresholds : TokenAmounts,
                       delayedTransfers : [Requests -> Entries \cup {NoTransfer}]]
      /\ delays'.delayedTransfers[r] = NoTransfer
      /\ \A q \in Requests \ {r} : delays'.delayedTransfers[q] = delays.delayedTransfers[q]
  BY <1>2, <1>4 DEF BridgeTyped
<1>6. /\ payments'[r] = payments[r] + 1
      /\ \A q \in Requests \ {r} : payments'[q] = payments[q]
  BY <1>1, <1>3, SendTokenEffect DEF BridgeTyped
<1> QED
  BY <1>1, <1>2, <1>3, <1>5, <1>6, SendTokenEffect
     DEF ExecuteDelayedTransfer, IsDelayed, records, limits, native

LEMMA ExecuteKeeps ==
    ASSUME BridgeInv, NEW r \in Requests, ExecuteDelayedTransfer(r)
    PROVE  BridgeInv'
<1> USE DEF BridgeInv
<1>1. BridgeTyped'
  BY ExecuteEffect DEF BridgeTyped
<1>2. FlowOnBooks' /\ VolumeCapped'
  BY ExecuteEffect, VolumesKept
<1>3. \A q \in Requests : (q \in Recorded' <=> q \in Recorded) /\ accepted'[q] = accepted[q]
  BY ExecuteEffect DEF Recorded
<1>4. ASSUME NEW q \in Requests \ {r}
      PROVE  delays'.delayedTransfers[q] = delays.delayedTransfers[q] /\ payments'[q] = payments[q]
  BY ExecuteEffect
<1>5. /\ IsDelayed(r) /\ ~IsDelayed(r)' /\ r \in Recorded /\ payments[r] = 0 /\ payments'[r] = 1
  BY ExecuteEffect DEF ExactlyOnce
<1>6. ExactlyOnce'
  <2> SUFFICES ASSUME NEW q \in Requests
               PROVE  /\ q \in Recorded' => payments'[q] = (IF IsDelayed(q)' THEN 0 ELSE 1)
                      /\ q \notin Recorded' => payments'[q] = 0 /\ ~IsDelayed(q)'
                      /\ IsDelayed(q)' =>
                            /\ delays'.delayedTransfers[q].receiver = q.receiver
                            /\ delays'.delayedTransfers[q].token = q.token
                            /\ delays'.delayedTransfers[q].amount = q.amount
    BY DEF ExactlyOnce
  <2>1. CASE q = r
    BY <1>3, <1>5, <2>1
  <2>2. CASE q # r
    BY <1>3, <1>4, <2>2 DEF ExactlyOnce, IsDelayed
  <2> QED
    BY <2>1, <2>2
<1>7. Dated'
  BY <1>3, <1>4, <1>5 DEF Dated, IsDelayed
<1> QED
  BY <1>1, <1>2, <1>6, <1>7

-----------------------------------------------------------------------------
(* All steps *)

\* A step pays or accepts a request, or is one of those that leave requests alone.
Idle ==
    \/ \E token \in Tokens, amount \in LiquidityAmounts : AddLiquidity(token, amount)
    \/ \E s \in Sends : Send(s)
    \/ GovernorStep
    \/ SignersStep /\ UNCHANGED bridgeVars
    \/ BridgeTick
    \/ UNCHANGED poolVars

LEMMA StepKinds ==
    ASSUME BridgeInv, [BridgeNext]_poolVars
    PROVE  \/ \E r \in Requests, signing \in SUBSET SignerAddr : Accepting(r, signing)
           \/ \E r \in Requests : ExecuteDelayedTransfer(r)
           \/ Idle
<1>1. CASE \E amount \in LiquidityAmounts : AddNativeLiquidity(amount)
  <2>1. nativeWrap \in Tokens \cup {NoToken}
    BY DEF BridgeInv, BridgeTyped
  <2> QED
    BY <1>1, <2>1 DEF AddNativeLiquidity, Idle
<1>2. CASE \E s \in Sends : SendNative(s)
  BY <1>2 DEF SendNative, Idle
<1> QED
  BY <1>1, <1>2 DEF BridgeNext, UserStep, PayStep, Idle, Accepting, Requests

LEMMA IdleKeeps ==
    ASSUME BridgeInv, Idle
    PROVE  BridgeInv'
<1>1. CASE GovernorStep
  <2>1. CASE \E token \in Tokens, cap \in Limits : SetEpochVolumeCap(token, cap)
    BY <2>1, SetCapKeeps
  <2>2. CASE \E length \in Lengths : SetEpochLength(length)
    BY <2>2, SetLengthKeeps
  <2>3. CASE \/ SetPaused
             \/ \E token \in Wraps : SetWrap(token)
             \/ \E gas \in GasValues : SetNativeTokenTransferGas(gas)
             \/ \E op \in GovernorOps, token \in Tokens, value \in Limits : SetLimit(op, token, value)
             \/ \E token \in Tokens, threshold \in Limits : SetDelayThreshold(token, threshold)
             \/ \E period \in Periods : SetDelayPeriod(period)
    BY <2>3, SettingKeeps
  <2> QED
    BY <1>1, <2>1, <2>2, <2>3 DEF GovernorStep
<1> QED
  BY <1>1, AddLiquidityKeeps, SendKeeps, SignersLeaveBridge, BridgeTickKeeps DEF Idle, poolVars

LEMMA BridgeKept == BridgeInv /\ [BridgeNext]_poolVars => BridgeInv'
  BY StepKinds, IdleKeeps, AcceptingKeeps, ExecuteKeeps

LEMMA BridgeInvAlways == BridgeSpec => []BridgeInv
  BY BridgeInitially, BridgeKept, PTL DEF BridgeSpec

\* Every request that is on record has been paid once or waits to be, with what was
\* signed, whatever was submitted before and however often (relay, withdraw,
\* executeDelayedTransfer).
THEOREM ExactlyOnceCorrect == BridgeSpec => []ExactlyOnce
<1>1. BridgeInv => ExactlyOnce
  BY DEF BridgeInv
<1> QED
  BY <1>1, BridgeInvAlways, PTL

\* The volume moved in an epoch stays within its cap (VolumeControl._updateVolume).
THEOREM VolumeCappedCorrect == BridgeSpec => []VolumeCapped
<1>1. BridgeInv => VolumeCapped
  BY DEF BridgeInv
<1> QED
  BY <1>1, BridgeInvAlways, PTL

\* Steps that leave requests alone pay none.
LEMMA IdlePaysNothing ==
    ASSUME BridgeInv, Idle
    PROVE  /\ payments' = payments
           /\ \A r \in Requests : (r \in Recorded' <=> r \in Recorded) /\ IsDelayed(r)' = IsDelayed(r)
           /\ \/ balance' = balance
              \/ \E t \in Tokens : balance'[t] > balance[t]
                                   /\ balance' = [balance EXCEPT ![t] = balance'[t]]
<1> USE DEF BridgeInv, records, payouts
<1>1. CASE \E token \in Tokens, amount \in LiquidityAmounts : AddLiquidity(token, amount)
  <2>1. PICK token \in Tokens, amount \in LiquidityAmounts : AddLiquidity(token, amount)
    BY <1>1
  <2>2. amount \in Nat /\ minAdd[token] \in Nat /\ balance[token] \in Nat
    BY BridgeAssumption DEF BridgeTyped, TokenAmounts
  <2>3. balance'[token] > balance[token] /\ balance' = [balance EXCEPT ![token] = balance'[token]]
    BY <2>1, <2>2 DEF AddLiquidity, BridgeTyped, TokenAmounts
  <2> QED
    BY <2>1, <2>3 DEF AddLiquidity, Recorded, IsDelayed
<1>2. CASE \E s \in Sends : Send(s)
  <2>1. PICK s \in Sends : Send(s)
    BY <1>2
  <2>2. s.amount \in Nat /\ s.token \in Tokens /\ s \notin Requests
    BY BridgeAssumption
  <2>3. minSend[s.token] \in Nat /\ balance[s.token] \in Nat
    BY <2>2 DEF BridgeTyped, TokenAmounts
  <2>4. /\ balance'[s.token] > balance[s.token]
        /\ balance' = [balance EXCEPT ![s.token] = balance'[s.token]]
    <3>1. s.amount > 0 /\ balance' = [balance EXCEPT ![s.token] = @ + s.amount]
      BY <2>1, <2>2, <2>3 DEF Send
    <3>2. balance'[s.token] = balance[s.token] + s.amount
      BY <2>2, <3>1 DEF BridgeTyped, TokenAmounts
    <3>3. balance'[s.token] > balance[s.token]
      BY <2>2, <2>3, <3>1, <3>2
    <3>4. balance' = [balance EXCEPT ![s.token] = balance'[s.token]]
      BY <2>2, <3>1, <3>2 DEF BridgeTyped, TokenAmounts
    <3> QED
      BY <3>3, <3>4
  <2> QED
    BY <2>1, <2>2, <2>4 DEF Send, Recorded, IsDelayed
<1>3. CASE GovernorStep
  BY <1>3 DEF GovernorStep, SetPaused, SetWrap, SetNativeTokenTransferGas, SetEpochLength,
              SetDelayPeriod, SetLimit, SetEpochVolumeCap, SetDelayThreshold, Recorded, IsDelayed,
              BridgeTyped
<1>4. CASE (SignersStep /\ UNCHANGED bridgeVars) \/ UNCHANGED poolVars
  BY <1>4 DEF bridgeVars, poolVars, Recorded, IsDelayed
<1>5. CASE BridgeTick
  BY <1>5 DEF BridgeTick, Recorded, IsDelayed
<1> QED
  BY <1>1, <1>2, <1>3, <1>4, <1>5 DEF Idle

\* A request that was large when relay or withdraw accepted it is not paid before its
\* delay is over (DelayedTransfer._executeDelayedTransfer).
THEOREM LargeTransfersWaitCorrect == BridgeSpec => LargeTransfersWait
<1>1. ASSUME BridgeInv, [BridgeNext]_poolVars, NEW r \in Requests,
             payments'[r] > payments[r], accepted'[r].large
      PROVE  now > accepted[r].at + delays.delayPeriod /\ accepted[r].at > 0
  <2>1. payments[r] \in Nat
    BY <1>1 DEF BridgeInv, BridgeTyped
  <2>2. CASE Idle
    BY <1>1, <2>1, <2>2, IdlePaysNothing
  <2>3. CASE \E q \in Requests, signing \in SUBSET SignerAddr : Accepting(q, signing)
    <3>1. PICK q \in Requests, signing \in SUBSET SignerAddr : Accepting(q, signing)
      BY <2>3
    <3>2. PayOrDelay(q)
      BY <1>1, <3>1, AcceptingRecords
    <3>3. CASE q # r
      <4>1. payments'[r] = payments[r]
        BY <1>1, <3>2, <3>3, PayOrDelayEffect
      <4> QED
        BY <1>1, <2>1, <4>1
    <3>4. CASE q = r
      <4>1. \/ ~accepted'[r].large \/ payments'[r] = payments[r]
        BY <1>1, <3>2, <3>4, PayOrDelayEffect DEF payouts
      <4> QED
        BY <1>1, <2>1, <4>1
    <3> QED
      BY <3>3, <3>4
  <2>4. CASE \E q \in Requests : ExecuteDelayedTransfer(q)
    <3>1. PICK q \in Requests : ExecuteDelayedTransfer(q)
      BY <2>4
    <3>2. q = r
      BY <1>1, <2>1, <3>1, ExecuteEffect
    <3>3. IsDelayed(r) /\ now > delays.delayedTransfers[r].timestamp + delays.delayPeriod
      BY <1>1, <3>1, <3>2, ExecuteEffect
    <3> QED
      BY <1>1, <3>3 DEF BridgeInv, Dated
  <2> QED
    BY <1>1, <2>2, <2>3, <2>4, StepKinds
<1>2. BridgeInv /\ [BridgeNext]_poolVars =>
        [\A r \in Requests : payments'[r] > payments[r] /\ accepted'[r].large
            => now > accepted[r].at + delays.delayPeriod /\ accepted[r].at > 0]_poolVars
  BY <1>1
<1> QED
  BY <1>2, BridgeInvAlways, PTL DEF BridgeSpec, LargeTransfersWait

-----------------------------------------------------------------------------
(* The bridge implements Transfers: an accepted request is Pay or Accept,   *)
(* an executed one Pay, liquidity and sends TakeIn, the rest stutters.      *)

\* The abstract state of the requests, as the refinement maps it.
States == [r \in Requests |-> RequestState(r)]

\* The states change as the records and the waiting list do.
LEMMA StatesSame ==
    ASSUME \A r \in Requests : (r \in Recorded' <=> r \in Recorded) /\ IsDelayed(r)' = IsDelayed(r)
    PROVE  States' = States
BY DEF States, RequestState

LEMMA OneStateChanges ==
    ASSUME NEW r \in Requests,
           \A q \in Requests \ {r} : /\ q \in Recorded' <=> q \in Recorded
                                     /\ IsDelayed(q)' = IsDelayed(q)
    PROVE  States' = [States EXCEPT ![r] = RequestState(r)']
BY DEF States, RequestState

LEMMA IdleImplements ==
    ASSUME BridgeInv, Idle
    PROVE  [Promise!Next]_<<States, balance>>
<1>1. States' = States
  BY IdlePaysNothing, StatesSame
<1>2. CASE balance' = balance
  BY <1>1, <1>2
<1>3. ASSUME NEW t \in Tokens, balance'[t] > balance[t],
             balance' = [balance EXCEPT ![t] = balance'[t]]
      PROVE  Promise!TakeIn(t)
  BY <1>1, <1>3 DEF Promise!TakeIn, States
<1> QED
  BY <1>2, <1>3, IdlePaysNothing DEF Promise!Next

LEMMA AcceptingImplements ==
    ASSUME BridgeInv, NEW r \in Requests, NEW signing, Accepting(r, signing)
    PROVE  Promise!Pay(r) \/ Promise!Accept(r)
<1>1. PayOrDelay(r) /\ r \notin Recorded /\ Recorded' = Recorded \cup {r} /\ ~IsDelayed(r)
  BY AcceptingRecords DEF BridgeInv, ExactlyOnce
<1>2. \A q \in Requests \ {r} : (q \in Recorded' <=> q \in Recorded) /\ IsDelayed(q)' = IsDelayed(q)
  BY <1>1, PayOrDelayEffect DEF IsDelayed
<1>3. States' = [States EXCEPT ![r] = RequestState(r)'] /\ States[r] = "open"
  <2>1. States' = [States EXCEPT ![r] = RequestState(r)']
    BY <1>2, OneStateChanges
  <2>2. States[r] = "open"
    BY <1>1 DEF States, RequestState
  <2> QED
    BY <2>1, <2>2
<1>4. CASE ~IsDelayed(r)'
  <2>1. RequestState(r)' = "paid"
    BY <1>1, <1>4 DEF RequestState
  <2>2. r.amount <= balance[r.token] /\ balance' = [balance EXCEPT ![r.token] = @ - r.amount]
    <3>1. r.receiver \in DOMAIN GasNeeded /\ r.token \in Tokens /\ r.amount \in Nat /\ now \in Nat
      BY BridgeAssumption DEF BridgeInv, BridgeTyped
    <3>2. [receiver |-> r.receiver, token |-> r.token, amount |-> r.amount, timestamp |-> now]
             # NoTransfer
      BY <3>1, BridgeAssumption
    <3> QED
      BY <1>1, <1>4, <3>2, PayOrDelayEffect DEF IsDelayed
  <2> QED
    BY <1>3, <2>1, <2>2 DEF Promise!Pay, States
<1>5. CASE IsDelayed(r)'
  <2>1. RequestState(r)' = "waiting"
    BY <1>1, <1>5 DEF RequestState
  <2>2. UNCHANGED balance
    BY <1>1, <1>5, PayOrDelayEffect DEF IsDelayed, payouts
  <2> QED
    BY <1>3, <2>1, <2>2 DEF Promise!Accept, States
<1> QED
  BY <1>4, <1>5

LEMMA ExecuteImplements ==
    ASSUME BridgeInv, NEW r \in Requests, ExecuteDelayedTransfer(r)
    PROVE  Promise!Pay(r)
<1>1. /\ IsDelayed(r) /\ ~IsDelayed(r)' /\ Recorded' = Recorded
      /\ r.amount <= balance[r.token] /\ balance' = [balance EXCEPT ![r.token] = @ - r.amount]
      /\ \A q \in Requests \ {r} : IsDelayed(q)' = IsDelayed(q)
  BY ExecuteEffect DEF Recorded, IsDelayed
<1>2. r \in Recorded
  BY <1>1 DEF BridgeInv, ExactlyOnce
<1>3. States' = [States EXCEPT ![r] = RequestState(r)']
  BY <1>1, OneStateChanges
<1>4. States[r] = "waiting" /\ RequestState(r)' = "paid"
  BY <1>1, <1>2 DEF States, RequestState
<1> QED
  BY <1>1, <1>3, <1>4 DEF Promise!Pay, States

\* The pool keeps what Transfers promises: tokens leave it only when a signed request
\* is paid, once, in the amount that was signed.
THEOREM PoolKeepsPromiseCorrect == BridgeSpec => PoolKeepsPromise
<1>1. BridgeInit => Promise!Init
  <2> SUFFICES ASSUME BridgeInit PROVE Promise!Init
    OBVIOUS
  <2>1. \A r \in Requests : RequestState(r) = "open"
    BY DEF BridgeInit, RequestState, Recorded
  <2> QED
    BY <2>1 DEF Promise!Init, BridgeInit, Zeros
<1>2. BridgeInv /\ [BridgeNext]_poolVars => [Promise!Next]_<<States, balance>>
  <2>1. ASSUME BridgeInv, NEW r \in Requests, NEW signing \in SUBSET SignerAddr,
               Accepting(r, signing)
        PROVE  Promise!Next
    BY <2>1, AcceptingImplements DEF Promise!Next
  <2>2. ASSUME BridgeInv, NEW r \in Requests, ExecuteDelayedTransfer(r)
        PROVE  Promise!Next
    BY <2>2, ExecuteImplements DEF Promise!Next
  <2> QED
    BY <2>1, <2>2, IdleImplements, StepKinds
<1> QED
  BY <1>1, <1>2, BridgeInvAlways, PTL DEF BridgeSpec, PoolKeepsPromise, Promise!Spec, States

-----------------------------------------------------------------------------
(* The message bus: the state, and every state a revert may bring back *)

\* The bridge part of a world, at time t, as BridgeInv has it.
BridgeAt(w, t) ==
    LET Waits(r) == w.delays.delayedTransfers[r] # NoTransfer
        onBooks(k) == IF w.volume.lastOpTimestamps[k] < EpochStart(w.volume, t) THEN 0
                      ELSE w.volume.epochVolumes[k]
    IN  /\ \A r \in Requests :
              /\ r \in w.transfers \cup w.withdraws
                    => w.payments[r] = (IF Waits(r) THEN 0 ELSE 1)
              /\ r \notin w.transfers \cup w.withdraws => w.payments[r] = 0 /\ ~Waits(r)
              /\ Waits(r) =>
                    /\ w.delays.delayedTransfers[r].receiver = r.receiver
                    /\ w.delays.delayedTransfers[r].token = r.token
                    /\ w.delays.delayedTransfers[r].amount = r.amount
                    /\ w.delays.delayedTransfers[r].timestamp = w.accepted[r].at
                    /\ w.accepted[r].at > 0
        /\ \A k \in Tokens : VolumeLimited(w.volume, k) =>
              w.flow[k] <= onBooks(k) /\ w.flow[k] <= w.volume.epochVolumeCaps[k]

\* What an application's call and its caller may find on return.
Worlds ==
    [transfers : SUBSET (Relays \cup Sends), withdraws : SUBSET Withdrawals, addseq : Nat,
     volume : [epochLength : Nat, epochVolumes : TokenAmounts,
               epochVolumeCaps : TokenAmounts, lastOpTimestamps : TokenAmounts],
     delays : [delayPeriod : Nat, delayThresholds : TokenAmounts,
               delayedTransfers : [Requests -> Entries \cup {NoTransfer}]],
     balance : TokenAmounts, payments : [Requests -> Nat],
     accepted : [Requests -> [at : Nat, large : BOOLEAN]], flow : TokenAmounts,
     executed : [MessageIds -> TxStatus], busBalance : Nat, collected : Nat,
     withdrawnFees : [FeeAccounts -> Nat],
     handled : [MessageIds -> [main : Nat, fallback : Nat]], resent : Nat]

Frames == [message : Messages, call : {"main", "fallback"}, value : Nat,
           before : Worlds, atCall : Worlds]

\* With the messages M in progress, exactly these are pending, and each status says
\* what became of its message.
StatusAt(executed, done, M) ==
    /\ executed \in [MessageIds -> TxStatus]
    /\ done \in [MessageIds -> [main : Nat, fallback : Nat]]
    /\ \A i \in MessageIds :
          /\ executed[i] = "Pending" <=> \E m \in M : MessageId(m) = i
          /\ done[i].main = (IF executed[i] = "Success" THEN 1 ELSE 0)
          /\ done[i].fallback = (IF executed[i] = "Fallback" THEN 1 ELSE 0)

FeesAt(funds, sent, fees, withdrawn) ==
    /\ funds \in Nat /\ sent \in Nat /\ fees \in Nat /\ withdrawn \in [FeeAccounts -> Nat]
    /\ funds + sent >= fees - SumFunctionOnSet(withdrawn, FeeAccounts)

\* The transfers of the messages in progress have been paid.
PaidAt(paid, M) == \A m \in M : m.kind # "message" => paid[m.transfer] = 1

WorldOK(w, M, t) ==
    /\ BridgeAt(w, t)
    /\ StatusAt(w.executed, w.handled, M)
    /\ FeesAt(w.busBalance, w.resent, w.collected, w.withdrawnFees)
    /\ PaidAt(w.payments, M)

\* The messages of the outermost k executions.
Running(s, k) == {s[j].message : j \in 1..k}

\* An execution began when its message had no status and the messages M were in
\* progress, and its application was called with its own message among them.
FrameOK(f, M, t) ==
    /\ f.before.executed[MessageId(f.message)] = "Null"
    /\ WorldOK(f.before, M, t)
    /\ WorldOK(f.atCall, M \cup {f.message}, t)

StackOK(s, t) ==
    s \in Seq(Frames) /\ \A k \in 1..Len(s) : FrameOK(s[k], Running(s, k - 1), t)

BusInv ==
    /\ BridgeInv /\ addseq \in Nat /\ credited \in [FeeAccounts -> Nat]
    /\ StackOK(stack, now)
    /\ StatusAt(executedMessages, handled, Running(stack, Len(stack)))
    /\ FeesAt(busBalance, resent, collected, withdrawnFees)
    /\ PaidAt(payments, Running(stack, Len(stack)))

-----------------------------------------------------------------------------
(* The stack *)

\* An execution that ends leaves those below it, and what they saved, as they were.
LEMMA StackPop ==
    ASSUME NEW s, NEW t, StackOK(s, t), s # <<>>
    PROVE  LET n == Len(s)
               b == SubSeq(s, 1, n - 1)
           IN  /\ n \in Nat \ {0} /\ s[n] \in Frames
               /\ Len(b) = n - 1 /\ StackOK(b, t)
               /\ Running(b, n - 1) = Running(s, n - 1)
               /\ Running(s, n) = Running(s, n - 1) \cup {s[n].message}
               /\ FrameOK(s[n], Running(s, n - 1), t)
<1> DEFINE n == Len(s)
           b == SubSeq(s, 1, n - 1)
<1>1. s \in Seq(Frames) /\ n \in Nat \ {0} /\ s[n] \in Frames
  BY DEF StackOK
<1>2. b \in Seq(Frames) /\ Len(b) = n - 1 /\ \A j \in 1..(n - 1) : b[j] = s[j]
  <2> HIDE DEF n
  <2>1. n - 1 \in Int /\ \A i \in 1..(n - 1) : s[i] \in Frames
    BY <1>1 DEF n
  <2>2. /\ b \in Seq(Frames)
        /\ Len(b) = IF 1 <= n - 1 THEN (n - 1) - 1 + 1 ELSE 0
        /\ \A i \in 1..((n - 1) - 1 + 1) : b[i] = s[1 + i - 1]
    BY <2>1, SubSeqProperties
  <2>3. \A i \in 1..(n - 1) : i \in 1..((n - 1) - 1 + 1) /\ 1 + i - 1 = i
    BY <1>1
  <2>4. \A i \in 1..(n - 1) : b[i] = s[i]
    <3> HIDE DEF b
    <3> QED BY <2>2, <2>3
  <2> QED
    BY <1>1, <2>2, <2>4
<1> HIDE DEF b
<1>3. ASSUME NEW k \in 0..(n - 1) PROVE Running(b, k) = Running(s, k)
  <2>1. \A j \in 1..k : j \in 1..(n - 1)
    BY <1>1
  <2> QED
    BY <1>2, <2>1 DEF Running
<1>4. Running(s, n) = Running(s, n - 1) \cup {s[n].message}
  <2>1. 1..n = (1..(n - 1)) \cup {n}
    BY <1>1
  <2> QED
    BY <2>1 DEF Running
<1>5. StackOK(b, t)
  <2>1. ASSUME NEW k \in 1..Len(b) PROVE FrameOK(b[k], Running(b, k - 1), t)
    <3>1. k \in 1..n /\ k \in 1..(n - 1) /\ k - 1 \in 0..(n - 1)
      BY <1>1, <1>2
    <3>2. b[k] = s[k] /\ Running(b, k - 1) = Running(s, k - 1)
      BY <1>2, <1>3, <3>1
    <3>3. FrameOK(s[k], Running(s, k - 1), t)
      BY <3>1 DEF StackOK
    <3> QED
      BY <3>2, <3>3
  <2> QED
    BY <1>2, <2>1 DEF StackOK
<1>6. FrameOK(s[n], Running(s, n - 1), t)
  BY <1>1 DEF StackOK
<1>7. Running(b, n - 1) = Running(s, n - 1)
  BY <1>1, <1>3
<1> QED
  BY <1>1, <1>2, <1>4, <1>5, <1>6, <1>7 DEF b

\* An execution begins on top of the others.
LEMMA StackPush ==
    ASSUME NEW s, NEW t, StackOK(s, t), NEW f \in Frames, FrameOK(f, Running(s, Len(s)), t)
    PROVE  LET a == Append(s, f)
           IN  StackOK(a, t) /\ Running(a, Len(a)) = Running(s, Len(s)) \cup {f.message}
<1> DEFINE n == Len(s)
           a == Append(s, f)
<1>1. s \in Seq(Frames) /\ n \in Nat
  BY DEF StackOK
<1>2. /\ a \in Seq(Frames) /\ Len(a) = n + 1 /\ a[n + 1] = f
      /\ \A j \in 1..n : a[j] = s[j]
  BY <1>1
<1> HIDE DEF a
<1>3. ASSUME NEW k \in 0..n PROVE Running(a, k) = Running(s, k)
  <2>1. \A j \in 1..k : j \in 1..n
    BY <1>1
  <2> QED
    BY <1>2, <2>1 DEF Running
<1>4. Running(a, n + 1) = Running(s, n) \cup {f.message}
  <2>1. 1..(n + 1) = (1..n) \cup {n + 1}
    BY <1>1
  <2>2. Running(a, n + 1) = Running(a, n) \cup {f.message}
    BY <1>2, <2>1 DEF Running
  <2> QED
    BY <1>1, <1>3, <2>2
<1>5. ASSUME NEW k \in 1..(n + 1) PROVE FrameOK(a[k], Running(a, k - 1), t)
  <2>1. CASE k = n + 1
    BY <1>1, <1>2, <1>3, <2>1
  <2>2. CASE k \in 1..n
    <3>1. k - 1 \in 0..n
      BY <1>1, <2>2
    <3>2. a[k] = s[k] /\ Running(a, k - 1) = Running(s, k - 1)
      BY <1>2, <1>3, <2>2, <3>1
    <3>3. FrameOK(s[k], Running(s, k - 1), t)
      BY <2>2 DEF StackOK
    <3> QED
      BY <3>2, <3>3
  <2> QED
    BY <1>1, <2>1, <2>2
<1> QED
  BY <1>2, <1>4, <1>5 DEF StackOK, a

-----------------------------------------------------------------------------
(* The bridge under the bus *)

\* The state as a world.
Sound ==
    \A M : /\ BridgeInv /\ addseq \in Nat
           /\ StatusAt(executedMessages, handled, M)
           /\ FeesAt(busBalance, resent, collected, withdrawnFees)
           /\ PaidAt(payments, M)
           => World \in Worlds /\ WorldOK(World, M, now)

LEMMA WorldSound == Sound
<1> SUFFICES ASSUME NEW M, BridgeInv, addseq \in Nat,
                    StatusAt(executedMessages, handled, M),
                    FeesAt(busBalance, resent, collected, withdrawnFees),
                    PaidAt(payments, M)
             PROVE  World \in Worlds /\ WorldOK(World, M, now)
  BY DEF Sound
<1>1. World \in Worlds
  BY DEF World, Worlds, BridgeInv, BridgeTyped, StatusAt, FeesAt
<1>2. BridgeAt(World, now)
  BY DEF World, BridgeAt, BridgeInv, ExactlyOnce, Dated, FlowOnBooks, VolumeCapped, VolumeOnBooks,
         IsDelayed, Recorded
<1>3. WorldOK(World, M, now)
  BY <1>2 DEF World, WorldOK
<1> QED
  BY <1>1, <1>3

LEMMA WorldSoundNext == Sound'
BY WorldSound, PTL

\* A revert brings back a state of the bridge that was in order.
LEMMA BridgeRestored ==
    ASSUME BridgeInv, NEW w \in Worlds, BridgeAt(w, now), RestoreAround(w)
    PROVE  BridgeInv'
<1>1. /\ transfers' = w.transfers /\ withdraws' = w.withdraws
      /\ volume' = w.volume /\ delays' = w.delays /\ balance' = w.balance
      /\ payments' = w.payments /\ accepted' = w.accepted /\ flow' = w.flow
      /\ now' = now /\ nativeWrap' = nativeWrap /\ minAdd' = minAdd /\ minSend' = minSend
  BY DEF RestoreAround, native, limits
<1>2. BridgeTyped'
  BY <1>1 DEF Worlds, BridgeInv, BridgeTyped
<1>3. ExactlyOnce' /\ Dated'
  BY <1>1 DEF BridgeAt, ExactlyOnce, Dated, IsDelayed, Recorded
<1>4. FlowOnBooks' /\ VolumeCapped'
  BY <1>1 DEF BridgeAt, FlowOnBooks, VolumeCapped, VolumeOnBooks
<1> QED
  BY <1>2, <1>3, <1>4 DEF BridgeInv

\* No step of the bridge turns its count of liquidity into something else.
LEMMA AddseqCounts ==
    ASSUME addseq \in Nat, [BridgeNext]_poolVars
    PROVE  addseq' \in Nat
BY DEF BridgeNext, UserStep, PayStep, GovernorStep, BridgeTick, AddLiquidity, AddNativeLiquidity,
       Send, SendNative, Relay, Withdraw, ExecuteDelayedTransfer, SetPaused, SetWrap,
       SetNativeTokenTransferGas, SetLimit, SetEpochVolumeCap, SetEpochLength, SetDelayThreshold,
       SetDelayPeriod, poolVars, bridgeVars

\* What has been paid stays paid.
LEMMA PaidStays ==
    ASSUME BridgeInv, [BridgeNext]_poolVars, NEW M,
           \A m \in M : m.kind # "message" => m.transfer \in Requests, PaidAt(payments, M)
    PROVE  PaidAt(payments', M)
<1>1. ASSUME NEW r \in Requests, payments[r] = 1 PROVE payments'[r] = 1
  <2>1. r \in Recorded /\ ~IsDelayed(r)
    BY <1>1 DEF BridgeInv, ExactlyOnce
  <2>2. CASE Idle
    BY <1>1, <2>2, IdlePaysNothing
  <2>3. CASE \E q \in Requests, signing \in SUBSET SignerAddr : Accepting(q, signing)
    <3>1. PICK q \in Requests, signing \in SUBSET SignerAddr : Accepting(q, signing)
      BY <2>3
    <3>2. PayOrDelay(q) /\ q # r
      BY <2>1, <3>1, AcceptingRecords
    <3> QED
      BY <1>1, <3>2, PayOrDelayEffect
  <2>4. CASE \E q \in Requests : ExecuteDelayedTransfer(q)
    <3>1. PICK q \in Requests : ExecuteDelayedTransfer(q)
      BY <2>4
    <3>2. q # r
      BY <2>1, <3>1, ExecuteEffect
    <3> QED
      BY <1>1, <3>1, <3>2, ExecuteEffect
  <2> QED
    BY <2>2, <2>3, <2>4, StepKinds
<1> QED
  BY <1>1 DEF PaidAt

\* While a transaction goes on the bridge is used and its time stands still.
LEMMA PoolUsed ==
    ASSUME BridgeInv, UserStep \/ PayStep
    PROVE  [BridgeNext]_poolVars /\ now' = now
BY DEF BridgeNext, UserStep, PayStep, AddLiquidity, AddNativeLiquidity, Send, SendNative, Relay,
       Withdraw, ExecuteDelayedTransfer

-----------------------------------------------------------------------------
(* Statuses *)

\* The execution on top began when its message had no status, so no other one in
\* progress has the same id.
LEMMA TopIsFresh ==
    ASSUME BusInv, stack # <<>>
    PROVE  \A q \in Running(stack, Len(stack) - 1) : MessageId(q) # TopId
<1> DEFINE M == Running(stack, Len(stack) - 1)
<1>1. FrameOK(Top, M, now) /\ Top \in Frames
  BY StackPop DEF BusInv, Top
<1>2. Top.before.executed[TopId] = "Null" /\ StatusAt(Top.before.executed, Top.before.handled, M)
  BY <1>1 DEF FrameOK, WorldOK, TopId
<1>3. TopId \in MessageIds
  BY <1>1 DEF TopId, MessageIds, Frames
<1> QED
  BY <1>2, <1>3 DEF StatusAt

\* An id that goes from no status to pending is one more in progress.
LEMMA StatusBegins ==
    ASSUME NEW e, NEW d, NEW M, StatusAt(e, d, M), NEW m \in Messages, e[MessageId(m)] = "Null"
    PROVE  StatusAt([e EXCEPT ![MessageId(m)] = "Pending"], d, M \cup {m})
<1> DEFINE id == MessageId(m)
           new == [e EXCEPT ![id] = "Pending"]
<1>1. id \in MessageIds
  BY DEF MessageIds
<1>2. /\ new \in [MessageIds -> TxStatus] /\ new[id] = "Pending"
      /\ \A i \in MessageIds \ {id} : new[i] = e[i]
  BY <1>1 DEF StatusAt, TxStatus
<1> HIDE DEF new
<1> QED
  BY <1>1, <1>2 DEF StatusAt

\* One in progress that fails, or may be tried again, was never handled.
LEMMA StatusEnds ==
    ASSUME NEW e, NEW d, NEW M, NEW m \in Messages, StatusAt(e, d, M \cup {m}),
           \A q \in M : MessageId(q) # MessageId(m), NEW status \in {"Null", "Fail"}
    PROVE  StatusAt([e EXCEPT ![MessageId(m)] = status], d, M)
<1> DEFINE id == MessageId(m)
           new == [e EXCEPT ![id] = status]
<1>1. id \in MessageIds
  BY DEF MessageIds
<1>2. /\ new \in [MessageIds -> TxStatus] /\ new[id] = status
      /\ \A i \in MessageIds \ {id} : new[i] = e[i]
  BY <1>1 DEF StatusAt, TxStatus
<1>3. e[id] = "Pending"
  BY <1>1 DEF StatusAt
<1> HIDE DEF new
<1> QED
  BY <1>1, <1>2, <1>3 DEF StatusAt

\* One in progress that an application handles was handled by nobody before.
LEMMA StatusSucceeds ==
    ASSUME NEW e, NEW d, NEW M, NEW m \in Messages, StatusAt(e, d, M \cup {m}),
           \A q \in M : MessageId(q) # MessageId(m), NEW call \in {"main", "fallback"}
    PROVE  StatusAt([e EXCEPT ![MessageId(m)] = IF call = "main" THEN "Success" ELSE "Fallback"],
                    [d EXCEPT ![MessageId(m)][call] = @ + 1], M)
<1> DEFINE id == MessageId(m)
           status == IF call = "main" THEN "Success" ELSE "Fallback"
           new == [e EXCEPT ![id] = status]
           counts == [d[id] EXCEPT ![call] = @ + 1]
           done == [d EXCEPT ![id] = counts]
<1>1. id \in MessageIds /\ status \in TxStatus
  BY DEF MessageIds, TxStatus
<1>2. /\ new \in [MessageIds -> TxStatus] /\ new[id] = status
      /\ \A i \in MessageIds \ {id} : new[i] = e[i]
  BY <1>1 DEF StatusAt
<1>3. e[id] = "Pending" /\ d[id] \in [main : Nat, fallback : Nat]
      /\ d[id].main = 0 /\ d[id].fallback = 0
  BY <1>1 DEF StatusAt
<1>4. /\ counts \in [main : Nat, fallback : Nat]
      /\ counts.main = (IF call = "main" THEN 1 ELSE 0)
      /\ counts.fallback = (IF call = "fallback" THEN 1 ELSE 0)
  <2>1. CASE call = "main"
    BY <1>3, <2>1
  <2>2. CASE call = "fallback"
    BY <1>3, <2>2
  <2> QED
    BY <2>1, <2>2
<1>5. done = [d EXCEPT ![id][call] = @ + 1]
  OBVIOUS
<1> HIDE DEF counts
<1>6. /\ done \in [MessageIds -> [main : Nat, fallback : Nat]] /\ done[id] = counts
      /\ \A i \in MessageIds \ {id} : done[i] = d[i]
  BY <1>1, <1>4 DEF StatusAt
<1> HIDE DEF new, done
<1>7. StatusAt(new, done, M)
  BY <1>1, <1>2, <1>3, <1>4, <1>6 DEF StatusAt
<1> QED
  BY <1>5, <1>7 DEF new, id, status

-----------------------------------------------------------------------------
(* What a step does to the stack *)

\* The top of the stack, what is below it, and what it saved.
LEMMA TopOfStack ==
    ASSUME BusInv, stack # <<>>
    PROVE  LET M == Running(stack, Len(stack) - 1)
           IN  /\ Top \in Frames /\ Len(Below) = Len(stack) - 1
               /\ StackOK(Below, now) /\ Running(Below, Len(Below)) = M
               /\ Running(stack, Len(stack)) = M \cup {Top.message}
               /\ Top.before.executed[TopId] = "Null"
               /\ WorldOK(Top.before, M, now) /\ WorldOK(Top.atCall, M \cup {Top.message}, now)
<1>1. StackOK(stack, now)
  BY DEF BusInv
<1>2. FrameOK(Top, Running(stack, Len(stack) - 1), now)
  BY <1>1, StackPop DEF Top
<1> QED
  BY <1>1, <1>2, StackPop DEF Top, Below, FrameOK, TopId

\* A step of the bridge or the fees that leaves the statuses alone.
LEMMA StackStays ==
    ASSUME BusInv, BridgeInv', addseq' \in Nat, credited' \in [FeeAccounts -> Nat],
           stack = <<>> \/ now' = now, UNCHANGED <<executedMessages, stack, handled>>,
           FeesAt(busBalance', resent', collected', withdrawnFees'),
           PaidAt(payments', Running(stack, Len(stack)))
    PROVE  BusInv'
<1>1. StackOK(stack', now')
  <2>1. CASE stack = <<>>
    BY <2>1 DEF BusInv, StackOK
  <2>2. CASE now' = now
    BY <2>2 DEF BusInv
  <2> QED
    BY <2>1, <2>2
<1> QED
  BY <1>1 DEF BusInv

\* The execution on top ends.
LEMMA StackShrinks ==
    ASSUME BusInv, stack # <<>>, stack' = Below, BridgeInv', addseq' \in Nat,
           UNCHANGED <<now, credited>>,
           StatusAt(executedMessages', handled', Running(stack, Len(stack) - 1)),
           FeesAt(busBalance', resent', collected', withdrawnFees'),
           PaidAt(payments', Running(stack, Len(stack) - 1))
    PROVE  BusInv'
<1>1. StackOK(stack', now') /\ Running(stack', Len(stack')) = Running(stack, Len(stack) - 1)
  BY TopOfStack
<1> QED
  BY <1>1 DEF BusInv

\* An execution begins.
LEMMA StackGrows ==
    ASSUME BusInv, NEW m \in Messages, NEW value \in Nat,
           stack' = Append(stack, [message |-> m, call |-> "main", value |-> value,
                                   before |-> World, atCall |-> World']),
           executedMessages[MessageId(m)] = "Null",
           BridgeInv', addseq' \in Nat, UNCHANGED <<now, credited>>,
           StatusAt(executedMessages', handled', Running(stack, Len(stack)) \cup {m}),
           FeesAt(busBalance', resent', collected', withdrawnFees'),
           PaidAt(payments', Running(stack, Len(stack)) \cup {m})
    PROVE  BusInv'
<1> DEFINE M == Running(stack, Len(stack))
           f == [message |-> m, call |-> "main", value |-> value,
                 before |-> World, atCall |-> World']
<1>1. World \in Worlds /\ WorldOK(World, M, now)
  BY WorldSound DEF Sound, BusInv
<1>2. World' \in Worlds /\ WorldOK(World', M \cup {m}, now)
  BY WorldSoundNext DEF Sound
<1>3. f \in Frames
  BY <1>1, <1>2 DEF Frames
<1>4. World.executed[MessageId(m)] = "Null"
  BY DEF World
<1>5. FrameOK(f, M, now)
  BY <1>1, <1>2, <1>4 DEF FrameOK
<1>6. StackOK(stack, now) /\ f.message = m /\ stack' = Append(stack, f)
  BY DEF BusInv
<1> HIDE DEF f
<1>7. StackOK(stack', now') /\ Running(stack', Len(stack')) = M \cup {m}
  BY <1>3, <1>5, <1>6, StackPush
<1> QED
  BY <1>7 DEF BusInv

\* The application's call failed and its fallback is called.
LEMMA StackCallsFallback ==
    ASSUME BusInv, stack # <<>>,
           stack' = Append(Below, [Top EXCEPT !.call = "fallback", !.atCall = World']),
           BridgeInv', addseq' \in Nat, UNCHANGED <<now, credited>>,
           StatusAt(executedMessages', handled', Running(stack, Len(stack))),
           FeesAt(busBalance', resent', collected', withdrawnFees'),
           PaidAt(payments', Running(stack, Len(stack)))
    PROVE  BusInv'
<1> DEFINE M == Running(stack, Len(stack) - 1)
           f == [Top EXCEPT !.call = "fallback", !.atCall = World']
<1>1. World' \in Worlds /\ WorldOK(World', Running(stack, Len(stack)), now)
  BY WorldSoundNext DEF Sound
<1>2. Top \in Frames
  BY TopOfStack
<1>3. f \in Frames /\ f.message = Top.message /\ f.before = Top.before /\ f.atCall = World'
  BY <1>1, <1>2 DEF Frames
<1> HIDE DEF f
<1>4. FrameOK(f, M, now)
  BY <1>1, <1>3, TopOfStack DEF FrameOK, TopId
<1>5. /\ StackOK(Below, now) /\ Running(Below, Len(Below)) = M
      /\ Running(stack, Len(stack)) = M \cup {Top.message}
  BY TopOfStack
<1>6. stack' = Append(Below, f)
  BY DEF f
<1>7. StackOK(stack', now') /\ Running(stack', Len(stack')) = Running(stack, Len(stack))
  BY <1>3, <1>4, <1>5, <1>6, StackPush
<1> QED
  BY <1>7 DEF BusInv

-----------------------------------------------------------------------------
(* The steps of the bus *)

\* The messages in progress name transfers the bridge can make.
LEMMA RunningTransfers ==
    ASSUME BusInv
    PROVE  \A m \in Running(stack, Len(stack)) :
              m \in Messages /\ (m.kind # "message" => m.transfer \in Requests)
<1>1. stack \in Seq(Frames)
  BY DEF BusInv, StackOK
<1>2. \A j \in 1..Len(stack) : stack[j].message \in Messages
  <2>1. \A f \in Frames : f.message \in Messages
    BY DEF Frames
  <2>2. \A j \in 1..Len(stack) : stack[j] \in Frames
    BY <1>1
  <2> QED
    BY <2>1, <2>2
<1> QED
  BY <1>2, MessageBusAssumption DEF Running

\* An execution begins, by itself or right after the transfer of its message.
LEMMA BeginKeeps ==
    ASSUME BusInv, NEW m \in Messages, NEW signing, NEW value \in Nat,
           [BridgeNext]_poolVars, now' = now, Begin(m, signing, value)
    PROVE  BusInv'
<1> DEFINE M == Running(stack, Len(stack))
<1>1. BridgeInv' /\ addseq' \in Nat /\ PaidAt(payments', M)
  BY BridgeKept, AddseqCounts, PaidStays, RunningTransfers DEF BusInv
<1>2. /\ m.kind # "message" => Arrived(m.transfer)'
      /\ executedMessages[MessageId(m)] = "Null"
      /\ executedMessages' = [executedMessages EXCEPT ![MessageId(m)] = "Pending"]
      /\ UNCHANGED <<busBalance, collected, credited, withdrawnFees, handled, resent>>
      /\ stack' = Append(stack, [message |-> m, call |-> "main", value |-> value,
                                 before |-> World, atCall |-> World'])
  BY DEF Begin
<1>3. StatusAt(executedMessages', handled', M \cup {m})
  BY <1>2, StatusBegins DEF BusInv
<1>4. m.kind # "message" => payments'[m.transfer] = 1
  <2>1. ASSUME m.kind # "message" PROVE payments'[m.transfer] = 1
    <3>1. m.transfer \in Requests
      BY <2>1, MessageBusAssumption
    <3>2. m.transfer \in Recorded' /\ ~IsDelayed(m.transfer)'
      BY <1>2, <2>1 DEF Arrived, Recorded
    <3> QED
      BY <1>1, <3>1, <3>2 DEF BridgeInv, ExactlyOnce
  <2> QED
    BY <2>1
<1>5. PaidAt(payments', M \cup {m})
  BY <1>1, <1>4 DEF PaidAt
<1>6. FeesAt(busBalance', resent', collected', withdrawnFees')
  BY <1>2 DEF BusInv
<1> QED
  BY <1>1, <1>2, <1>3, <1>5, <1>6, StackGrows

LEMMA ExecuteMessageKeeps ==
    ASSUME BusInv, NEW m \in Messages, NEW signing, NEW value \in NativeValues,
           Execute(m, signing, value)
    PROVE  BusInv'
<1>1. value \in Nat
  BY MessageBusAssumption
<1>2. UNCHANGED poolVars /\ now' = now /\ Begin(m, signing, value)
  BY DEF Execute, poolVars
<1> QED
  BY <1>1, <1>2, BeginKeeps

LEMMA TransferAndExecuteKeeps ==
    ASSUME BusInv, NEW m \in Messages, NEW signing \in SUBSET SignerAddr,
           TransferAndExecute(m, signing)
    PROVE  BusInv'
<1>1. PayStep /\ Begin(m, signing, 0)
  BY DEF TransferAndExecute, PayStep
<1>2. [BridgeNext]_poolVars /\ now' = now
  BY <1>1, PoolUsed DEF BusInv
<1> QED
  BY <1>1, <1>2, BeginKeeps

\* The bridge is used while the bus executes, or is idle.
LEMMA PoolKeeps ==
    ASSUME BusInv, [BridgeNext]_poolVars, stack = <<>> \/ now' = now, UNCHANGED busVars
    PROVE  BusInv'
<1>1. /\ BridgeInv' /\ addseq' \in Nat /\ PaidAt(payments', Running(stack, Len(stack)))
  BY BridgeKept, AddseqCounts, PaidStays, RunningTransfers DEF BusInv
<1>2. UNCHANGED <<executedMessages, stack, handled>> /\ credited' \in [FeeAccounts -> Nat]
  BY DEF BusInv, busVars
<1>3. FeesAt(busBalance', resent', collected', withdrawnFees')
  BY DEF BusInv, busVars
<1> QED
  BY <1>1, <1>2, <1>3, StackStays

\* Steps that leave the bridge alone leave its invariant.
LEMMA BridgeStays ==
    ASSUME BusInv, UNCHANGED poolVars
    PROVE  /\ BridgeInv' /\ addseq' \in Nat /\ now' = now
           /\ PaidAt(payments', Running(stack, Len(stack)))
<1>1. BridgeInv'
  BY BridgeKept DEF BusInv
<1> QED
  BY <1>1 DEF BusInv, poolVars, bridgeVars, payouts

LEMMA SendMessageKeeps ==
    ASSUME BusInv, NEW fee \in Fees, SendMessage(fee)
    PROVE  BusInv'
<1>1. /\ busBalance' = busBalance + fee /\ collected' = collected + fee
      /\ UNCHANGED <<poolVars, executedMessages, stack, credited, withdrawnFees, handled, resent>>
  BY DEF SendMessage
<1>2. FeesAt(busBalance', resent', collected', withdrawnFees')
  <2> DEFINE total == SumFunctionOnSet(withdrawnFees, FeeAccounts)
  <2>1. /\ busBalance \in Nat /\ resent \in Nat /\ collected \in Nat
        /\ withdrawnFees \in [FeeAccounts -> Nat] /\ busBalance + resent >= collected - total
    BY DEF BusInv, FeesAt
  <2>2. fee \in Nat /\ total \in Nat
    BY <2>1, MessageBusAssumption, SumNat
  <2> HIDE DEF total
  <2>3. (busBalance + fee) + resent >= (collected + fee) - total
    BY <2>1, <2>2
  <2> QED
    BY <1>1, <2>1, <2>2, <2>3 DEF FeesAt, total
<1>3. credited' \in [FeeAccounts -> Nat]
  BY <1>1 DEF BusInv
<1> QED
  BY <1>1, <1>2, <1>3, BridgeStays, StackStays

LEMMA CreditFeeKeeps ==
    ASSUME BusInv, NEW a \in FeeAccounts, CreditFee(a)
    PROVE  BusInv'
<1>1. credited' \in [FeeAccounts -> Nat]
  BY DEF CreditFee, BusInv
<1>2. /\ UNCHANGED <<poolVars, executedMessages, stack, busBalance, collected, withdrawnFees,
                     handled, resent>>
  BY DEF CreditFee
<1>3. FeesAt(busBalance', resent', collected', withdrawnFees')
  BY <1>2 DEF BusInv
<1> QED
  BY <1>1, <1>2, <1>3, BridgeStays, StackStays

\* What an account takes is what its cumulative amount has grown by.
LEMMA WithdrawFeeKeeps ==
    ASSUME BusInv, NEW a \in FeeAccounts, NEW cumulativeFee \in 1..credited[a],
           WithdrawFee(a, cumulativeFee)
    PROVE  BusInv'
<1>1. /\ cumulativeFee - withdrawnFees[a] > 0
      /\ cumulativeFee - withdrawnFees[a] <= busBalance
      /\ withdrawnFees' = [withdrawnFees EXCEPT ![a] = cumulativeFee]
      /\ busBalance' = busBalance - (cumulativeFee - withdrawnFees[a])
      /\ UNCHANGED <<poolVars, executedMessages, stack, collected, credited, handled, resent>>
  BY DEF WithdrawFee
<1>2. FeesAt(busBalance', resent', collected', withdrawnFees')
  <2> DEFINE total == SumFunctionOnSet(withdrawnFees, FeeAccounts)
             after == SumFunctionOnSet(withdrawnFees', FeeAccounts)
  <2>1. /\ busBalance \in Nat /\ resent \in Nat /\ collected \in Nat
        /\ withdrawnFees \in [FeeAccounts -> Nat] /\ busBalance + resent >= collected - total
    BY DEF BusInv, FeesAt
  <2>2. cumulativeFee \in Nat
    BY DEF BusInv
  <2>3. /\ withdrawnFees' \in [FeeAccounts -> Nat] /\ withdrawnFees'[a] = cumulativeFee
        /\ \A b \in FeeAccounts \ {a} : withdrawnFees'[b] = withdrawnFees[b]
    BY <1>1, <2>1, <2>2
  <2>4. total \in Nat /\ after \in Nat
    BY <2>1, <2>3, MessageBusAssumption, SumNat
  <2>5. after = total - withdrawnFees[a] + withdrawnFees'[a]
    <3>1. \A b \in FeeAccounts : withdrawnFees[b] \in Int /\ withdrawnFees'[b] \in Int
      BY <2>1, <2>3
    <3>2. \A b \in FeeAccounts \ {a} : withdrawnFees[b] = withdrawnFees'[b]
      BY <2>3
    <3> QED
      BY <3>1, <3>2, MessageBusAssumption, SumChange
  <2>6. withdrawnFees[a] \in Nat
    BY <2>1
  <2> HIDE DEF total, after
  <2>7. busBalance' \in Nat
    BY <1>1, <2>1, <2>2, <2>6
  <2>8. busBalance' + resent >= collected - after
    BY <1>1, <2>1, <2>2, <2>3, <2>4, <2>5, <2>6
  <2> QED
    BY <1>1, <2>1, <2>3, <2>7, <2>8 DEF FeesAt, after
<1>3. credited' \in [FeeAccounts -> Nat]
  BY <1>1 DEF BusInv
<1> QED
  BY <1>1, <1>2, <1>3, BridgeStays, StackStays

\* Fewer messages in progress need fewer payments.
LEMMA PaidBelow ==
    ASSUME BusInv, stack # <<>>, NEW paid, PaidAt(paid, Running(stack, Len(stack)))
    PROVE  PaidAt(paid, Running(stack, Len(stack) - 1))
BY TopOfStack DEF PaidAt

LEMMA ReturnSuccessKeeps ==
    ASSUME BusInv, ReturnSuccess
    PROVE  BusInv'
<1> DEFINE M == Running(stack, Len(stack) - 1)
<1>1. /\ stack # <<>> /\ stack' = Below
      /\ handled' = [handled EXCEPT ![TopId][Top.call] = @ + 1]
      /\ executedMessages' = [executedMessages EXCEPT
                                ![TopId] = IF Top.call = "main" THEN "Success" ELSE "Fallback"]
      /\ UNCHANGED <<poolVars, busBalance, collected, credited, withdrawnFees, resent>>
  BY DEF ReturnSuccess, Finish
<1>2. /\ Top.message \in Messages /\ Top.call \in {"main", "fallback"}
      /\ StatusAt(executedMessages, handled, M \cup {Top.message})
  BY <1>1, TopOfStack DEF Frames, BusInv
<1>3. StatusAt(executedMessages', handled', M)
  BY <1>1, <1>2, TopIsFresh, StatusSucceeds DEF TopId
<1>4. FeesAt(busBalance', resent', collected', withdrawnFees')
  BY <1>1 DEF BusInv
<1>5. BridgeInv' /\ addseq' \in Nat /\ now' = now /\ PaidAt(payments', M)
  BY <1>1, BridgeStays, PaidBelow
<1> QED
  BY <1>1, <1>3, <1>4, <1>5, StackShrinks

\* What an execution that ends without success needs, from the world it ends in.
LEMMA EndKeeps ==
    ASSUME BusInv, stack # <<>>, NEW executed, NEW status \in {"Null", "Fail"},
           Finish(status, executed), BridgeInv', addseq' \in Nat, UNCHANGED <<now, credited>>,
           StatusAt(executed, handled', Running(stack, Len(stack))),
           FeesAt(busBalance', resent', collected', withdrawnFees'),
           PaidAt(payments', Running(stack, Len(stack)))
    PROVE  BusInv'
<1> DEFINE M == Running(stack, Len(stack) - 1)
<1>1. stack' = Below /\ executedMessages' = [executed EXCEPT ![TopId] = status]
  BY DEF Finish
<1>2. Top.message \in Messages /\ StatusAt(executed, handled', M \cup {Top.message})
  BY TopOfStack DEF Frames
<1>3. StatusAt(executedMessages', handled', M)
  <2> DEFINE done == handled'
  <2>1. StatusAt(executed, done, M \cup {Top.message})
    BY <1>2
  <2> HIDE DEF done
  <2>2. StatusAt([executed EXCEPT ![MessageId(Top.message)] = status], done, M)
    BY <1>2, <2>1, TopIsFresh, StatusEnds DEF TopId
  <2> QED
    BY <1>1, <2>2 DEF TopId, done
<1>4. PaidAt(payments', M)
  BY PaidBelow
<1> QED
  BY <1>1, <1>3, <1>4, StackShrinks

LEMMA ReturnRetryKeeps ==
    ASSUME BusInv, ReturnRetry
    PROVE  BusInv'
<1>1. /\ stack # <<>> /\ Finish("Null", executedMessages)
      /\ UNCHANGED <<poolVars, busBalance, collected, credited, withdrawnFees, handled, resent>>
  BY DEF ReturnRetry
<1>2. FeesAt(busBalance', resent', collected', withdrawnFees')
  BY <1>1 DEF BusInv
<1>3. /\ BridgeInv' /\ addseq' \in Nat /\ now' = now
      /\ PaidAt(payments', Running(stack, Len(stack)))
  BY <1>1, BridgeStays
<1>4. StatusAt(executedMessages, handled', Running(stack, Len(stack)))
  BY <1>1 DEF BusInv
<1> QED
  BY <1>1, <1>2, <1>3, <1>4, EndKeeps

\* Value that leaves the funds is counted among what was sent again.
LEMMA ValueMoves ==
    ASSUME NEW funds \in Nat, NEW sent \in Nat, NEW value \in Nat, funds >= value
    PROVE  /\ funds - value \in Nat /\ sent + value \in Nat
           /\ (funds - value) + (sent + value) = funds + sent
OBVIOUS

\* Whether the fallback is called or cannot be paid for, from the world w that the
\* failed call leaves, with the funds that are there then; when it was kept, the
\* value is gone from them.
LEMMA CallFallbackKeeps ==
    ASSUME BusInv, stack # <<>>, NEW w, NEW funds \in Nat, NEW kept \in BOOLEAN,
           CallFallback(w, funds, kept),
           BridgeInv', addseq' \in Nat, UNCHANGED <<now, credited>>,
           StatusAt(w.executed, w.handled, Running(stack, Len(stack))),
           FeesAt(w.busBalance, w.resent, w.collected, w.withdrawnFees),
           collected' = w.collected, withdrawnFees' = w.withdrawnFees,
           funds = w.busBalance + (IF kept THEN 0 ELSE Top.value),
           PaidAt(payments', Running(stack, Len(stack)))
    PROVE  BusInv'
<1>1. Top.value \in Nat
  BY TopOfStack DEF Frames
<1> DEFINE value == Top.value
           total == SumFunctionOnSet(w.withdrawnFees, FeeAccounts)
<1>2. /\ w.busBalance \in Nat /\ w.resent \in Nat /\ w.collected \in Nat
      /\ w.withdrawnFees \in [FeeAccounts -> Nat]
      /\ w.busBalance + w.resent >= w.collected - total
  BY DEF FeesAt
<1>3. total \in Nat
  BY <1>2, MessageBusAssumption, SumNat
<1>4. SumFunctionOnSet(withdrawnFees', FeeAccounts) = total
  OBVIOUS
<1>5. CASE funds >= value
  <2>1. /\ busBalance' = funds - value
        /\ executedMessages' = w.executed /\ handled' = w.handled
        /\ resent' = w.resent + (IF kept THEN value ELSE 0)
        /\ stack' = Append(Below, [Top EXCEPT !.call = "fallback", !.atCall = World'])
    BY <1>5 DEF CallFallback
  <2>2. /\ busBalance' \in Nat /\ resent' \in Nat
        /\ busBalance' + resent' >= w.collected - total
    <3> HIDE DEF value, total
    <3>1. value \in Nat /\ funds = w.busBalance + (IF kept THEN 0 ELSE value)
      BY <1>1 DEF value
    <3>2. CASE kept
      <4>1. funds = w.busBalance /\ resent' = w.resent + value /\ busBalance' = funds - value
        BY <1>2, <2>1, <3>1, <3>2
      <4>2. w.busBalance \in Nat /\ w.resent \in Nat /\ w.busBalance >= value
        BY <1>2, <1>5, <4>1 DEF value
      <4>3. /\ w.busBalance - value \in Nat /\ w.resent + value \in Nat
            /\ (w.busBalance - value) + (w.resent + value) = w.busBalance + w.resent
        BY <3>1, <4>2, ValueMoves, SMTT(30)
      <4> QED
        BY <1>2, <4>1, <4>3
    <3>3. CASE ~kept
      <4>1. funds = w.busBalance + value /\ resent' = w.resent /\ busBalance' = funds - value
        BY <1>2, <2>1, <3>1, <3>3
      <4> QED
        BY <1>2, <1>3, <1>5, <3>1, <4>1
    <3> QED
      BY <3>2, <3>3
  <2>3. FeesAt(busBalance', resent', collected', withdrawnFees')
    BY <1>2, <2>2 DEF FeesAt
  <2>4. StatusAt(executedMessages', handled', Running(stack, Len(stack)))
    BY <2>1
  <2> QED
    BY <2>1, <2>3, <2>4, StackCallsFallback
<1>6. CASE ~(funds >= value)
  <2>1. /\ Finish("Fail", w.executed)
        /\ busBalance' = funds /\ resent' = w.resent /\ handled' = w.handled
    BY <1>6 DEF CallFallback
  <2>2. busBalance' + resent' >= w.collected - total
    <3> HIDE DEF value, total
    <3>1. funds >= w.busBalance
      BY <1>1, <1>2
    <3> QED
      BY <1>2, <1>3, <2>1, <3>1
  <2>3. FeesAt(busBalance', resent', collected', withdrawnFees')
    BY <1>2, <2>1, <2>2 DEF FeesAt
  <2>4. StatusAt(w.executed, handled', Running(stack, Len(stack)))
    BY <2>1
  <2> QED
    BY <2>1, <2>3, <2>4, EndKeeps
<1> QED
  BY <1>5, <1>6

LEMMA ReturnFailKeeps ==
    ASSUME BusInv, ReturnFail
    PROVE  BusInv'
<1> DEFINE M == Running(stack, Len(stack))
<1>1. stack # <<>> /\ UNCHANGED <<poolVars, collected, credited, withdrawnFees>>
  BY DEF ReturnFail
<1>2. BridgeInv' /\ addseq' \in Nat /\ now' = now /\ PaidAt(payments', M)
  BY <1>1, BridgeStays
<1>3. /\ StatusAt(executedMessages, handled, M)
      /\ FeesAt(busBalance, resent, collected, withdrawnFees)
  BY DEF BusInv
<1>4. CASE Top.call = "main" /\ Top.message.kind = "transfer"
  <2>1. PICK w : w = World
    OBVIOUS
  <2>2. /\ w.executed = executedMessages /\ w.handled = handled /\ w.busBalance = busBalance
        /\ w.resent = resent /\ w.collected = collected /\ w.withdrawnFees = withdrawnFees
    BY <2>1 DEF World
  <2>3. CallFallback(w, busBalance, TRUE)
    BY <1>4, <2>1 DEF ReturnFail
  <2>4. /\ StatusAt(w.executed, w.handled, M)
        /\ FeesAt(w.busBalance, w.resent, w.collected, w.withdrawnFees)
        /\ collected' = w.collected /\ withdrawnFees' = w.withdrawnFees
    BY <1>1, <1>3, <2>2
  <2>5. PICK funds : funds = busBalance
    OBVIOUS
  <2>6. funds \in Nat /\ funds = w.busBalance + (IF TRUE THEN 0 ELSE Top.value)
    BY <1>3, <2>2, <2>5 DEF FeesAt
  <2>7. CallFallback(w, funds, TRUE)
    BY <2>3, <2>5
  <2> QED
    BY <1>1, <1>2, <2>4, <2>6, <2>7, CallFallbackKeeps
<1>5. CASE ~(Top.call = "main" /\ Top.message.kind = "transfer")
  <2>1. Finish("Fail", executedMessages) /\ UNCHANGED <<busBalance, resent, handled>>
    BY <1>5 DEF ReturnFail
  <2>2. /\ StatusAt(executedMessages, handled', M)
        /\ FeesAt(busBalance', resent', collected', withdrawnFees')
    BY <1>1, <1>3, <2>1
  <2> QED
    BY <1>1, <1>2, <2>1, <2>2, EndKeeps
<1> QED
  BY <1>4, <1>5

\* The world an execution may go back to is one the bridge can be in.
LEMMA WorldRestored ==
    ASSUME BusInv, NEW w \in Worlds, NEW M, WorldOK(w, M, now), RestoreAround(w)
    PROVE  /\ BridgeInv' /\ addseq' \in Nat /\ UNCHANGED <<now, credited>>
           /\ collected' = w.collected /\ withdrawnFees' = w.withdrawnFees
           /\ PaidAt(payments', M)
<1>1. BridgeInv'
  BY BridgeRestored DEF BusInv, WorldOK
<1>2. w.addseq \in Nat
  BY DEF Worlds
<1> QED
  BY <1>1, <1>2 DEF RestoreAround, WorldOK

LEMMA RevertKeeps ==
    ASSUME BusInv, Revert
    PROVE  BusInv'
<1> DEFINE M == Running(stack, Len(stack))
<1>1. PICK w : w = Top.atCall
  OBVIOUS
<1>2. PICK funds : funds = w.busBalance + Top.value
  OBVIOUS
<1>3. /\ stack # <<>> /\ RestoreAround(w)
      /\ IF Top.call = "main" /\ Top.message.kind = "transfer"
         THEN CallFallback(w, funds, FALSE)
         ELSE /\ Finish("Fail", w.executed)
              /\ busBalance' = funds
              /\ handled' = w.handled /\ resent' = w.resent
  BY <1>1, <1>2 DEF Revert
<1>4. w \in Worlds /\ WorldOK(w, M, now) /\ Top.value \in Nat
  BY <1>1, <1>3, TopOfStack DEF Frames
<1>5. /\ BridgeInv' /\ addseq' \in Nat /\ UNCHANGED <<now, credited>>
      /\ collected' = w.collected /\ withdrawnFees' = w.withdrawnFees
      /\ PaidAt(payments', M)
  BY <1>3, <1>4, WorldRestored
<1>6. /\ StatusAt(w.executed, w.handled, M)
      /\ FeesAt(w.busBalance, w.resent, w.collected, w.withdrawnFees)
  BY <1>4 DEF WorldOK
<1>7. funds \in Nat
  BY <1>2, <1>4, <1>6 DEF FeesAt
<1>8. CASE Top.call = "main" /\ Top.message.kind = "transfer"
  <2>1. CallFallback(w, funds, FALSE) /\ funds = w.busBalance + (IF FALSE THEN 0 ELSE Top.value)
    BY <1>2, <1>3, <1>8
  <2> QED
    BY <1>3, <1>5, <1>6, <1>7, <2>1, CallFallbackKeeps
<1>9. CASE ~(Top.call = "main" /\ Top.message.kind = "transfer")
  <2>1. /\ Finish("Fail", w.executed)
        /\ busBalance' = funds /\ handled' = w.handled /\ resent' = w.resent
    BY <1>3, <1>9
  <2>2. StatusAt(w.executed, handled', M)
    BY <1>6, <2>1
  <2>3. FeesAt(busBalance', resent', collected', withdrawnFees')
    <3> DEFINE total == SumFunctionOnSet(w.withdrawnFees, FeeAccounts)
    <3>1. /\ w.busBalance \in Nat /\ w.resent \in Nat /\ w.collected \in Nat
          /\ w.withdrawnFees \in [FeeAccounts -> Nat]
          /\ w.busBalance + w.resent >= w.collected - total
      BY <1>6 DEF FeesAt
    <3>2. total \in Nat
      BY <3>1, MessageBusAssumption, SumNat
    <3> HIDE DEF total
    <3>3. funds + w.resent >= w.collected - total
      BY <1>2, <1>4, <3>1, <3>2, SMTT(30)
    <3> QED
      BY <1>5, <1>7, <2>1, <3>1, <3>3 DEF FeesAt, total
  <2> QED
    BY <1>3, <1>5, <2>1, <2>2, <2>3, EndKeeps
<1> QED
  BY <1>8, <1>9

LEMMA AbortKeeps ==
    ASSUME BusInv, Abort
    PROVE  BusInv'
<1> DEFINE M == Running(stack, Len(stack) - 1)
<1>1. PICK w : w = Top.before
  OBVIOUS
<1>2. /\ stack # <<>> /\ stack' = Below /\ RestoreAround(w)
      /\ executedMessages' = w.executed /\ busBalance' = w.busBalance
      /\ handled' = w.handled /\ resent' = w.resent
  BY <1>1 DEF Abort
<1>3. w \in Worlds /\ WorldOK(w, M, now)
  BY <1>1, <1>2, TopOfStack DEF Frames
<1>4. /\ BridgeInv' /\ addseq' \in Nat /\ UNCHANGED <<now, credited>>
      /\ collected' = w.collected /\ withdrawnFees' = w.withdrawnFees
      /\ PaidAt(payments', M)
  BY <1>2, <1>3, WorldRestored
<1>5. /\ StatusAt(executedMessages', handled', M)
      /\ FeesAt(busBalance', resent', collected', withdrawnFees')
  BY <1>2, <1>3, <1>4 DEF WorldOK
<1> QED
  BY <1>2, <1>4, <1>5, StackShrinks

-----------------------------------------------------------------------------
(* The invariant of the bus, and what it shows *)

LEMMA BusInitially == BusInit => BusInv
<1> SUFFICES ASSUME BusInit PROVE BusInv
  OBVIOUS
<1>1. BridgeInv
  BY BridgeInitially DEF BusInit
<1>2. addseq \in Nat /\ credited \in [FeeAccounts -> Nat]
  BY DEF BusInit, BridgeInit
<1>3. StackOK(stack, now) /\ Running(stack, Len(stack)) = {}
  BY DEF BusInit, StackOK, Running
<1>4. StatusAt(executedMessages, handled, {}) /\ PaidAt(payments, {})
  BY DEF BusInit, StatusAt, PaidAt, TxStatus
<1>5. FeesAt(busBalance, resent, collected, withdrawnFees)
  <2>1. withdrawnFees \in [FeeAccounts -> Nat] /\ \A a \in FeeAccounts : withdrawnFees[a] = 0
    BY DEF BusInit
  <2>2. SumFunctionOnSet(withdrawnFees, FeeAccounts) = 0
    BY <2>1, MessageBusAssumption, SumZero
  <2> QED
    BY <2>1, <2>2 DEF BusInit, FeesAt
<1> QED
  BY <1>1, <1>2, <1>3, <1>4, <1>5 DEF BusInv

LEMMA BusKept == BusInv /\ [BusNext]_allVars => BusInv'
<1> SUFFICES ASSUME BusInv, [BusNext]_allVars PROVE BusInv'
  OBVIOUS
<1>1. CASE PublicStep
  <2>1. CASE \E m \in Messages, signing \in SUBSET SignerAddr, value \in NativeValues :
                Execute(m, signing, value)
    BY <2>1, ExecuteMessageKeeps
  <2>2. CASE \E m \in Messages, signing \in SUBSET SignerAddr : TransferAndExecute(m, signing)
    BY <2>2, TransferAndExecuteKeeps
  <2>3. CASE (UserStep \/ PayStep) /\ UNCHANGED busVars
    <3>1. [BridgeNext]_poolVars /\ now' = now
      BY <2>3, PoolUsed DEF BusInv
    <3> QED
      BY <2>3, <3>1, PoolKeeps
  <2>4. CASE \E fee \in Fees : SendMessage(fee)
    BY <2>4, SendMessageKeeps
  <2>5. CASE \E a \in FeeAccounts : \E cumulativeFee \in 1..credited[a] :
                WithdrawFee(a, cumulativeFee)
    BY <2>5, WithdrawFeeKeeps
  <2> QED
    BY <1>1, <2>1, <2>2, <2>3, <2>4, <2>5 DEF PublicStep
<1>2. CASE AppStep
  BY <1>2, ReturnSuccessKeeps, ReturnRetryKeeps, ReturnFailKeeps, RevertKeeps, AbortKeeps DEF AppStep
<1>3. CASE OtherStep
  <2>1. stack = <<>> /\ UNCHANGED busVars /\ [BridgeNext]_poolVars
    BY <1>3 DEF OtherStep, BridgeNext
  <2> QED
    BY <2>1, PoolKeeps
<1>4. CASE \E a \in FeeAccounts : CreditFee(a)
  BY <1>4, CreditFeeKeeps
<1>5. CASE UNCHANGED allVars
  <2>1. UNCHANGED busVars /\ [BridgeNext]_poolVars /\ now' = now
    BY <1>5 DEF allVars, poolVars
  <2> QED
    BY <2>1, PoolKeeps
<1> QED
  BY <1>1, <1>2, <1>3, <1>4, <1>5 DEF BusNext

LEMMA BusInvAlways == BusSpec => []BusInv
BY BusInitially, BusKept, PTL DEF BusSpec

\* The bus keeps its types and never pays out more than it owns (MessageBusReceiver,
\* MessageBusSender).
THEOREM BusTypeCorrect == BusSpec => []BusTypeOK
<1>1. BusInv => BusTypeOK
  <2> SUFFICES ASSUME BusInv PROVE BusTypeOK
    OBVIOUS
  <2>1. stack \in Seq(Frames) /\ \A f \in Frames : f.message \in Messages
                                                  /\ f.call \in {"main", "fallback"}
    BY DEF BusInv, StackOK, Frames
  <2>2. \A i \in 1..Len(stack) : stack[i] \in Frames
    BY <2>1
  <2>3. \A i \in 1..Len(stack) : /\ stack[i].message \in Messages
                                 /\ stack[i].call \in {"main", "fallback"}
    BY <2>1, <2>2
  <2> QED
    BY <2>3 DEF BusInv, BusTypeOK, StatusAt, FeesAt
<1> QED
  BY <1>1, BusInvAlways, PTL

\* Whatever applications do while they are called, also to the bus that calls them,
\* and whatever reverts, each message ends handled once or not at all, as its status
\* says (executeMessage and its variants in MessageBusReceiver).
THEOREM StatusExactCorrect == BusSpec => []StatusExact
<1>1. BusInv => StatusExact
  <2> SUFFICES ASSUME BusInv, stack = <<>>, NEW i \in MessageIds
               PROVE  /\ executedMessages[i] # "Pending"
                      /\ handled[i].main = (IF executedMessages[i] = "Success" THEN 1 ELSE 0)
                      /\ handled[i].fallback = (IF executedMessages[i] = "Fallback" THEN 1 ELSE 0)
    BY DEF StatusExact
  <2>1. Running(stack, Len(stack)) = {}
    BY DEF Running
  <2> QED
    BY <2>1 DEF BusInv, StatusAt
<1> QED
  BY <1>1, BusInvAlways, PTL

\* No application is called for a transfer that the bridge has not made, nor stays on
\* the stack when a revert undoes one (verifyTransfer in MessageBusReceiver).
THEOREM TokensFirstCorrect == BusSpec => []TokensFirst
<1>1. BusInv => TokensFirst
  BY DEF BusInv, PaidAt, Running, TokensFirst
<1> QED
  BY <1>1, BusInvAlways, PTL

\* The fees not yet withdrawn are there, but for what fallbacks were sent from them
\* (withdrawFee in MessageBusSender, and the value passed on in MessageBusReceiver).
THEOREM FeesCoveredCorrect == BusSpec => []FeesCovered
<1>1. BusInv => FeesCovered
  BY DEF BusInv, FeesAt, FeesCovered
<1> QED
  BY <1>1, BusInvAlways, PTL

\* The bridge's own promises hold when it is used from within message executions that
\* revert: each request is paid once, and within the volume cap.
THEOREM BridgeUnderBusCorrect == BusSpec => [](ExactlyOnce /\ VolumeCapped)
<1>1. BusInv => ExactlyOnce /\ VolumeCapped
  BY DEF BusInv, BridgeInv
<1> QED
  BY <1>1, BusInvAlways, PTL

=============================================================================
