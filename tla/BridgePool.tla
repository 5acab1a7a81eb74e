----------------------------- MODULE BridgePool -----------------------------
(***************************************************************************)
(* The liquidity bridge of one chain (Bridge.sol, which is a Pool.sol,     *)
(* which is a Signers.sol): liquidity and sends come in, relays and        *)
(* withdrawals that the signers approved go out, at once or after a delay, *)
(* within the volume cap of the epoch.  A request stands for its own id,   *)
(* the hash of all its fields.  Signed requests may be submitted by        *)
(* anyone, at any time, in any order and any number of times.              *)
(***************************************************************************)
EXTENDS Signers, Safeguards

CONSTANTS
    Tokens, NoToken,    \* token addresses; NoToken when nativeWrap is not set
    Relays,             \* relay requests: records [receiver, token, amount, ...]
    Withdrawals,        \* withdraw requests of the same form
    Sends,              \* transfers users send: records [token, amount, slippage, ...]
    LiquidityAmounts,   \* amounts of liquidity added
    GasNeeded,          \* gas each receiver uses to accept the native token
    Wraps,              \* values for setWrap
    GasValues, Lengths, Periods, Limits,  \* values the governor sets
    GovernorOps,        \* governor operations a run allows
    Deployed,           \* the governor's initial settings
    MaxAdds             \* bound on addseq

Requests == Relays \cup Withdrawals
TokenAmounts == [Tokens -> Nat]

ASSUME BridgeAssumption ==
    /\ NoToken \notin Tokens /\ Wraps \subseteq Tokens \cup {NoToken}
    /\ Relays \cap Withdrawals = {} /\ Sends \cap Requests = {}
    /\ \A r \in Requests : r.token \in Tokens /\ r.amount \in Nat /\ r.receiver \in DOMAIN GasNeeded
    /\ \A s \in Sends : s.token \in Tokens /\ s.amount \in Nat /\ s.slippage \in Nat
    /\ NoTransfer \notin [receiver : DOMAIN GasNeeded, token : Tokens, amount : Nat, timestamp : Nat]
    /\ LiquidityAmounts \subseteq Nat
    /\ GasNeeded \in [DOMAIN GasNeeded -> Nat]
    /\ GasValues \subseteq Nat /\ Lengths \subseteq Nat /\ Periods \subseteq Nat /\ Limits \subseteq Nat
    /\ Deployed \in [length : Nat, caps : TokenAmounts, period : Nat, thresholds : TokenAmounts,
                     wrap : Tokens \cup {NoToken}]
    /\ MaxAdds \in Nat

VARIABLES
    paused, nativeWrap, nativeTokenTransferGas,
    transfers,      \* sends made and relays done
    withdraws,      \* withdrawals done
    addseq, minAdd, minSend, maxSend, minimalMaxSlippage,
    volume,         \* the VolumeControl state
    delays,         \* the DelayedTransfer state
    balance,        \* tokens the bridge owns, native ones as wrapped
    payments,       \* history: how often each request has been paid
    accepted,       \* history: when it was accepted, and whether as a large one
    flow            \* history: amounts accepted under the cap of this epoch

limits == <<minAdd, minSend, maxSend, minimalMaxSlippage>>
native == <<nativeWrap, nativeTokenTransferGas>>
records == <<transfers, withdraws>>
payouts == <<balance, payments>>
bridgeVars == <<paused, native, records, addseq, limits, volume, delays, payouts, accepted, flow>>
poolVars == <<now, signerVars, bridgeVars>>

Zeros == [t \in Tokens |-> 0]

BridgeInit ==
    /\ SignersInit
    /\ paused = FALSE /\ nativeWrap = Deployed.wrap /\ nativeTokenTransferGas = 1
    /\ transfers = {} /\ withdraws = {} /\ addseq = 0
    /\ minAdd = Zeros /\ minSend = Zeros /\ maxSend = Zeros /\ minimalMaxSlippage = 0
    /\ volume = [epochLength |-> Deployed.length, epochVolumes |-> Zeros,
                 epochVolumeCaps |-> Deployed.caps, lastOpTimestamps |-> Zeros]
    /\ delays = [delayPeriod |-> Deployed.period, delayThresholds |-> Deployed.thresholds,
                 delayedTransfers |-> [r \in Requests |-> NoTransfer]]
    /\ balance = Zeros
    /\ payments = [r \in Requests |-> 0]
    /\ accepted = [r \in Requests |-> [at |-> 0, large |-> FALSE]]
    /\ flow = Zeros

-----------------------------------------------------------------------------
(* Tokens in: liquidity and sends. *)

AddLiquidity(token, amount) ==
    /\ ~paused
    /\ amount > minAdd[token]
    /\ addseq < MaxAdds
    /\ addseq' = addseq + 1
    /\ balance' = [balance EXCEPT ![token] = @ + amount]
    /\ UNCHANGED <<now, signerVars, paused, native, records, limits, volume, delays, payments,
                   accepted, flow>>

AddNativeLiquidity(amount) == nativeWrap # NoToken /\ AddLiquidity(nativeWrap, amount)

Send(s) ==
    /\ ~paused
    /\ s.amount > minSend[s.token]
    /\ maxSend[s.token] = 0 \/ s.amount <= maxSend[s.token]
    /\ s.slippage > minimalMaxSlippage
    /\ s \notin transfers
    /\ transfers' = transfers \cup {s}
    /\ balance' = [balance EXCEPT ![s.token] = @ + s.amount]
    /\ UNCHANGED <<now, signerVars, paused, native, withdraws, addseq, limits, volume, delays,
                   payments, accepted, flow>>

SendNative(s) == s.token = nativeWrap /\ Send(s)

-----------------------------------------------------------------------------
(* Tokens out: relays and withdrawals. *)

\* Wrapped native tokens are unwrapped and sent with limited gas, so a receiver
\* may make the whole call fail.
SendToken(r, token, amount) ==
    /\ token = nativeWrap => GasNeeded[r.receiver] <= nativeTokenTransferGas
    /\ amount <= balance[token]
    /\ balance' = [balance EXCEPT ![token] = @ - amount]
    /\ payments' = [payments EXCEPT ![r] = @ + 1]

\* The common tail of relay() and withdraw(): count the volume, then pay or delay.
PayOrDelay(r) ==
    LET large == IsLarge(delays, r.token, r.amount)
    IN  /\ WithinCap(volume, r.token, r.amount, now)
        /\ volume' = UpdateVolume(volume, r.token, r.amount, now)
        /\ IF large
           THEN /\ CanAddDelayed(delays, r)
                /\ delays' = AddDelayed(delays, r, r.receiver, r.token, r.amount, now)
                /\ UNCHANGED payouts
           ELSE SendToken(r, r.token, r.amount) /\ UNCHANGED delays
        /\ accepted' = [accepted EXCEPT ![r] = [at |-> now, large |-> large]]
        /\ flow' = [flow EXCEPT ![r.token] = @ + r.amount]

\* Mutant: the id is recorded only when the transfer is not delayed.
Relay_RecordsLate(r, signing) ==
    /\ ~paused
    /\ SignedByQuorum(signing)
    /\ r \notin transfers
    /\ PayOrDelay(r)
    /\ transfers' = IF IsLarge(delays, r.token, r.amount) THEN transfers ELSE transfers \cup {r}
    /\ UNCHANGED <<now, signerVars, paused, native, withdraws, addseq, limits>>

Relay(r, signing) ==
    /\ ~paused
    /\ SignedByQuorum(signing)
    /\ r \notin transfers
    /\ transfers' = transfers \cup {r}
    /\ PayOrDelay(r)
    /\ UNCHANGED <<now, signerVars, paused, native, withdraws, addseq, limits>>

Withdraw(r, signing) ==
    /\ ~paused
    /\ SignedByQuorum(signing)
    /\ r \notin withdraws
    /\ withdraws' = withdraws \cup {r}
    /\ PayOrDelay(r)
    /\ UNCHANGED <<now, signerVars, paused, native, transfers, addseq, limits>>

\* Mutant: the volume is counted again when a delayed transfer is paid.
ExecuteDelayedTransfer_Recounts(r) ==
    LET transfer == delays.delayedTransfers[r]
    IN  /\ ~paused
        /\ CanExecuteDelayed(delays, r, now)
        /\ WithinCap(volume, transfer.token, transfer.amount, now)
        /\ volume' = UpdateVolume(volume, transfer.token, transfer.amount, now)
        /\ delays' = RemoveDelayed(delays, r)
        /\ SendToken(r, transfer.token, transfer.amount)
        /\ UNCHANGED <<now, signerVars, paused, native, records, addseq, limits, accepted, flow>>

\* The delayed entry, not the request, says what is paid.
ExecuteDelayedTransfer(r) ==
    LET transfer == delays.delayedTransfers[r]
    IN  /\ ~paused
        /\ CanExecuteDelayed(delays, r, now)
        /\ delays' = RemoveDelayed(delays, r)
        /\ SendToken(r, transfer.token, transfer.amount)
        /\ UNCHANGED <<now, signerVars, paused, native, records, addseq, limits, volume,
                       accepted, flow>>

-----------------------------------------------------------------------------
(* The owner, pausers and the governor. *)

Set(f, t, value) == [f EXCEPT ![t] = value]

SetPaused ==
    /\ paused' = ~paused
    /\ UNCHANGED <<now, signerVars, native, records, addseq, limits, volume, delays, payouts,
                   accepted, flow>>

SetWrap(token) ==
    /\ nativeWrap' = token
    /\ UNCHANGED <<now, signerVars, paused, nativeTokenTransferGas, records, addseq, limits,
                   volume, delays, payouts, accepted, flow>>

SetNativeTokenTransferGas(gas) ==
    /\ nativeTokenTransferGas' = gas
    /\ UNCHANGED <<now, signerVars, paused, nativeWrap, records, addseq, limits, volume, delays,
                   payouts, accepted, flow>>

\* minAdd, minSend, maxSend and minimalMaxSlippage.
SetLimit(op, token, value) ==
    /\ minAdd' = IF op = "minAdd" THEN Set(minAdd, token, value) ELSE minAdd
    /\ minSend' = IF op = "minSend" THEN Set(minSend, token, value) ELSE minSend
    /\ maxSend' = IF op = "maxSend" THEN Set(maxSend, token, value) ELSE maxSend
    /\ minimalMaxSlippage' = IF op = "slippage" THEN value ELSE minimalMaxSlippage
    /\ UNCHANGED <<now, signerVars, paused, native, records, addseq, volume, delays, payouts,
                   accepted, flow>>

\* The flow is counted anew where a change leaves no cap or one already passed.
SetEpochVolumeCap(token, cap) ==
    /\ volume' = [volume EXCEPT !.epochVolumeCaps[token] = cap]
    /\ flow' = IF VolumeLimited(volume, token) /\ flow[token] <= cap THEN flow
               ELSE Set(flow, token, 0)
    /\ UNCHANGED <<now, signerVars, paused, native, records, addseq, limits, delays, payouts,
                   accepted>>

SetEpochLength(length) ==
    /\ volume' = [volume EXCEPT !.epochLength = length]
    /\ flow' = Zeros
    /\ UNCHANGED <<now, signerVars, paused, native, records, addseq, limits, delays, payouts,
                   accepted>>

SetDelayThreshold(token, threshold) ==
    /\ delays' = [delays EXCEPT !.delayThresholds[token] = threshold]
    /\ UNCHANGED <<now, signerVars, paused, native, records, addseq, limits, volume, payouts,
                   accepted, flow>>

SetDelayPeriod(period) ==
    /\ delays' = [delays EXCEPT !.delayPeriod = period]
    /\ UNCHANGED <<now, signerVars, paused, native, records, addseq, limits, volume, payouts,
                   accepted, flow>>

GovernorStep ==
    \/ "pause" \in GovernorOps /\ SetPaused
    \/ \E token \in Wraps : SetWrap(token)
    \/ \E gas \in GasValues : SetNativeTokenTransferGas(gas)
    \/ \E length \in Lengths : SetEpochLength(length)
    \/ \E period \in Periods : SetDelayPeriod(period)
    \/ \E op \in GovernorOps \cap {"minAdd", "minSend", "maxSend", "slippage"},
          token \in Tokens, value \in Limits : SetLimit(op, token, value)
    \/ "cap" \in GovernorOps /\ \E token \in Tokens, cap \in Limits : SetEpochVolumeCap(token, cap)
    \/ "threshold" \in GovernorOps
       /\ \E token \in Tokens, threshold \in Limits : SetDelayThreshold(token, threshold)

\* A new epoch begins at every multiple of its length.
BridgeTick ==
    /\ Tick
    /\ flow' = IF volume.epochLength # 0 /\ now' % volume.epochLength = 0 THEN Zeros ELSE flow
    /\ UNCHANGED <<paused, native, records, addseq, limits, volume, delays, payouts, accepted>>

UserStep ==
    \/ \E token \in Tokens, amount \in LiquidityAmounts : AddLiquidity(token, amount)
    \/ \E amount \in LiquidityAmounts : AddNativeLiquidity(amount)
    \/ \E s \in Sends : Send(s)
    \/ \E s \in Sends : SendNative(s)

PayStep ==
    \/ \E r \in Relays, signing \in SUBSET SignerAddr : Relay(r, signing)
    \/ \E r \in Withdrawals, signing \in SUBSET SignerAddr : Withdraw(r, signing)
    \/ \E r \in Requests : ExecuteDelayedTransfer(r)

BridgeNext ==
    \/ UserStep
    \/ PayStep
    \/ GovernorStep
    \/ SignersStep /\ UNCHANGED bridgeVars
    \/ BridgeTick

\* Time goes on, and a receiver who waits for a delayed transfer keeps calling
\* executeDelayedTransfer, which anyone may call.
BridgeFairness ==
    WF_poolVars(BridgeTick) /\ \A r \in Requests : WF_poolVars(ExecuteDelayedTransfer(r))

BridgeSpec == BridgeInit /\ [][BridgeNext]_poolVars /\ BridgeFairness

-----------------------------------------------------------------------------
(* Properties. *)

Recorded == transfers \cup withdraws
IsDelayed(r) == delays.delayedTransfers[r] # NoTransfer

\* However often a signed request is submitted, and through whichever of the two
\* ways it is paid, it is paid at most once: a request is on record exactly when it
\* has been paid or waits in delayedTransfers, never both, and the waiting entry
\* pays what was signed.
ExactlyOnce ==
    \A r \in Requests :
        /\ r \in Recorded => payments[r] = (IF IsDelayed(r) THEN 0 ELSE 1)
        /\ r \notin Recorded => payments[r] = 0 /\ ~IsDelayed(r)
        /\ IsDelayed(r) =>
              /\ delays.delayedTransfers[r].receiver = r.receiver
              /\ delays.delayedTransfers[r].token = r.token
              /\ delays.delayedTransfers[r].amount = r.amount

\* What relays and withdrawals together move in one epoch stays within the cap,
\* the delayed ones counted when they are accepted, also across changes of the cap.
VolumeCapped ==
    \A t \in Tokens : VolumeLimited(volume, t) => flow[t] <= volume.epochVolumeCaps[t]

\* A request that was large when it was accepted is not paid before the delay in
\* force at its payment is over, whatever the governor changes in between.
LargeTransfersWait ==
    [][\A r \in Requests :
         payments'[r] > payments[r] /\ accepted'[r].large
            => now > accepted[r].at + delays.delayPeriod /\ accepted[r].at > 0]_poolVars

\* Why a delayed transfer cannot be paid: the bridge is paused, the pool has not
\* enough left (a delay reserves nothing), the receiver refuses the native token, or
\* the delay was made longer than the clock of the model.
Blocked(r) ==
    LET entry == delays.delayedTransfers[r]
    IN  /\ IsDelayed(r)
        /\ \/ paused
           \/ balance[entry.token] < entry.amount
           \/ entry.token = nativeWrap /\ GasNeeded[entry.receiver] > nativeTokenTransferGas
           \/ entry.timestamp + delays.delayPeriod >= MaxTime

\* A delayed transfer is paid in the end unless something blocks it.
DelayedArePaid ==
    \A r \in Requests : IsDelayed(r) ~> (payments[r] = 1 \/ Blocked(r))

\* How far a request has come.
RequestState(r) ==
    IF r \notin Recorded THEN "open" ELSE IF IsDelayed(r) THEN "waiting" ELSE "paid"

Promise == INSTANCE Transfers WITH
    TokenOf <- [r \in Requests |-> r.token],
    AmountOf <- [r \in Requests |-> r.amount],
    state <- [r \in Requests |-> RequestState(r)]

\* The bridge keeps its promise: tokens leave the pool only when a signed request
\* is paid, once, in the amount that was signed, whichever of relay, withdraw and
\* executeDelayedTransfer pays it.
PoolKeepsPromise == Promise!Spec

=============================================================================
