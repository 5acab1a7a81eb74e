----------------------------- MODULE MessageBus -----------------------------
(***************************************************************************)
(* The message bus of a destination chain (MessageBusReceiver.sol and      *)
(* MessageBusSender.sol) on top of the liquidity bridge: it executes       *)
(* signed messages, those that came with a transfer only once the bridge   *)
(* has made it, and collects fees.  Executing a message calls an           *)
(* application, which may do anything a user may do before it returns or   *)
(* reverts, also call the bus again; stack holds the calls in progress.    *)
(* A revert undoes what was done since the call it ends.                   *)
(***************************************************************************)
EXTENDS BridgePool

CONSTANTS
    Messages,       \* signed messages: [kind, transfer, ...], kind "transfer" or
                    \* "refund" ones with the request that made their transfer
    NativeValues,   \* native value an executor attaches
    Fees,           \* fees senders pay
    MinFee,         \* what calcFee asks for
    FeeAccounts,    \* accounts the SGN chain credits fees to
    MaxDepth,       \* bound on nested executions
    MaxFees         \* bound on the fees collected

ASSUME MessageBusAssumption ==
    /\ \A m \in Messages : /\ m.kind \in {"transfer", "refund", "message"}
                           /\ m.kind # "message" => m.transfer \in Requests
    /\ NativeValues \subseteq Nat /\ Fees \subseteq Nat /\ MinFee \in Nat
    /\ IsFiniteSet(FeeAccounts)
    /\ MaxDepth \in Nat /\ MaxFees \in Nat

TxStatus == {"Null", "Success", "Fail", "Fallback", "Pending"}

\* A transfer's messages share one id, so that the transfer serves one of them.
MessageId(m) == IF m.kind = "message" THEN <<"MessageOnly", m>>
                ELSE <<"MessageWithTransfer", m.transfer>>
MessageIds == {MessageId(m) : m \in Messages}

VARIABLES
    executedMessages,   \* status by message id
    stack,              \* the executions in progress, innermost last
    busBalance,         \* native tokens the bus owns
    collected,          \* fees collected so far
    credited,           \* cumulative fees the SGN chain has credited
    withdrawnFees,      \* cumulative fees withdrawn
    handled,            \* history: how often applications accepted each id
    resent              \* history: value sent to a fallback after the first call kept it

busVars == <<executedMessages, stack, busBalance, collected, credited, withdrawnFees,
             handled, resent>>
allVars == <<poolVars, busVars>>

BusInit ==
    /\ BridgeInit
    /\ executedMessages = [i \in MessageIds |-> "Null"]
    /\ stack = <<>>
    /\ busBalance = 0 /\ collected = 0 /\ resent = 0
    /\ credited = [a \in FeeAccounts |-> 0] /\ withdrawnFees = [a \in FeeAccounts |-> 0]
    /\ handled = [i \in MessageIds |-> [main |-> 0, fallback |-> 0]]

\* What a call can change and a revert undoes.
World == [transfers |-> transfers, withdraws |-> withdraws, addseq |-> addseq,
          volume |-> volume, delays |-> delays, balance |-> balance,
          payments |-> payments, accepted |-> accepted, flow |-> flow,
          executed |-> executedMessages, busBalance |-> busBalance, collected |-> collected,
          withdrawnFees |-> withdrawnFees, handled |-> handled, resent |-> resent]

\* The world is w again, but for the bus's own bookkeeping, which the caller sets.
RestoreAround(w) ==
    /\ transfers' = w.transfers /\ withdraws' = w.withdraws /\ addseq' = w.addseq
    /\ volume' = w.volume /\ delays' = w.delays /\ balance' = w.balance
    /\ payments' = w.payments /\ accepted' = w.accepted /\ flow' = w.flow
    /\ collected' = w.collected /\ withdrawnFees' = w.withdrawnFees
    /\ UNCHANGED <<now, signerVars, paused, native, limits, credited>>

Top == stack[Len(stack)]
Below == SubSeq(stack, 1, Len(stack) - 1)
TopId == MessageId(Top.message)

-----------------------------------------------------------------------------
(* Starting an execution. *)

\* Mutant: a transfer that waits in delayedTransfers counts as made.
Arrived_Recorded(r) == r \in transfers \cup withdraws

\* verifyTransfer: the bridge has the transfer on record and holds it no longer.
Arrived(r) == r \in transfers \cup withdraws /\ ~IsDelayed(r)

\* Mutant: the message is not marked while its application runs.
Begin_NotPending(m, signing, value) ==
    /\ Len(stack) < MaxDepth
    /\ m.kind # "message" => Arrived(m.transfer)'
    /\ executedMessages[MessageId(m)] = "Null"
    /\ SignedByQuorum(signing)
    /\ UNCHANGED <<executedMessages, busBalance, collected, credited, withdrawnFees, handled,
                   resent>>
    /\ stack' = Append(stack, [message |-> m, call |-> "main", value |-> value,
                               before |-> World, atCall |-> World'])

\* The bridge part of the step has been taken already: it is the identity, or the
\* transfer that transferAndExecuteMsg makes first.
Begin(m, signing, value) ==
    /\ Len(stack) < MaxDepth
    /\ m.kind # "message" => Arrived(m.transfer)'
    /\ executedMessages[MessageId(m)] = "Null"
    /\ SignedByQuorum(signing)
    /\ executedMessages' = [executedMessages EXCEPT ![MessageId(m)] = "Pending"]
    /\ UNCHANGED <<busBalance, collected, credited, withdrawnFees, handled, resent>>
    /\ stack' = Append(stack, [message |-> m, call |-> "main", value |-> value,
                               before |-> World, atCall |-> World'])

\* executeMessage, executeMessageWithTransfer and executeMessageWithTransferRefund;
\* the value attached goes through to the application.
Execute(m, signing, value) == UNCHANGED poolVars /\ Begin(m, signing, value)

\* transferAndExecuteMsg and refundAndExecuteMsg; they take no value.
TransferAndExecute(m, signing) ==
    /\ m.kind # "message"
    /\ \/ m.transfer \in Relays /\ Relay(m.transfer, signing)
       \/ m.transfer \in Withdrawals /\ Withdraw(m.transfer, signing)
    /\ Begin(m, signing, 0)

-----------------------------------------------------------------------------
(* How the application's call ends. *)

\* The execution ends with the given status.
Finish(status, executed) ==
    /\ executedMessages' = [executed EXCEPT ![TopId] = status]
    /\ stack' = Below

\* Mutant: nobody asks whether the bus can pay the value again.
CallFallback_Unfunded(w, funds, kept) ==
    /\ busBalance' = funds - Top.value
    /\ executedMessages' = w.executed /\ handled' = w.handled
    /\ resent' = w.resent + (IF kept THEN Top.value ELSE 0)
    /\ stack' = Append(Below, [Top EXCEPT !.call = "fallback", !.atCall = World'])

\* The fallback is called with the value once more; without the means to do so
\* the call fails and so does the message.  kept says whether the first call has
\* kept the value.
CallFallback(w, funds, kept) ==
    IF funds >= Top.value
    THEN /\ busBalance' = funds - Top.value
         /\ executedMessages' = w.executed /\ handled' = w.handled
         /\ resent' = w.resent + (IF kept THEN Top.value ELSE 0)
         /\ stack' = Append(Below, [Top EXCEPT !.call = "fallback", !.atCall = World'])
    ELSE /\ Finish("Fail", w.executed)
         /\ busBalance' = funds /\ resent' = w.resent /\ handled' = w.handled

\* The application reports success.
ReturnSuccess ==
    /\ stack # <<>>
    /\ handled' = [handled EXCEPT ![TopId][Top.call] = @ + 1]
    /\ Finish(IF Top.call = "main" THEN "Success" ELSE "Fallback", executedMessages)
    /\ UNCHANGED <<poolVars, busBalance, collected, credited, withdrawnFees, resent>>

\* The application asks for a retry, which only its first call may do.
ReturnRetry ==
    /\ stack # <<>> /\ Top.call = "main"
    /\ Finish("Null", executedMessages)
    /\ UNCHANGED <<poolVars, busBalance, collected, credited, withdrawnFees, handled, resent>>

\* The application reports failure, or its fallback anything but success.
ReturnFail ==
    /\ stack # <<>>
    /\ UNCHANGED <<poolVars, collected, credited, withdrawnFees>>
    /\ IF Top.call = "main" /\ Top.message.kind = "transfer"
       THEN CallFallback(World, busBalance, TRUE)
       ELSE /\ Finish("Fail", executedMessages)
            /\ UNCHANGED <<busBalance, resent, handled>>

\* The application's call reverts and the value comes back to the bus.
Revert ==
    /\ stack # <<>>
    /\ RestoreAround(Top.atCall)
    /\ LET w == Top.atCall
           funds == w.busBalance + Top.value
       IN  IF Top.call = "main" /\ Top.message.kind = "transfer"
           THEN CallFallback(w, funds, FALSE)
           ELSE /\ Finish("Fail", w.executed)
                /\ busBalance' = funds
                /\ handled' = w.handled /\ resent' = w.resent

\* The call reverts with the abort prefix, or with too little gas left: the bus
\* reverts as well, and all that this execution did is undone.
Abort ==
    /\ stack # <<>>
    /\ RestoreAround(Top.before)
    /\ executedMessages' = Top.before.executed
    /\ busBalance' = Top.before.busBalance
    /\ handled' = Top.before.handled /\ resent' = Top.before.resent
    /\ stack' = Below

AppStep == ReturnSuccess \/ ReturnRetry \/ ReturnFail \/ Revert \/ Abort

-----------------------------------------------------------------------------
(* Fees. *)

\* sendMessage and sendMessageWithTransfer.
SendMessage(fee) ==
    /\ fee >= MinFee
    /\ collected + fee <= MaxFees
    /\ busBalance' = busBalance + fee
    /\ collected' = collected + fee
    /\ UNCHANGED <<poolVars, executedMessages, stack, credited, withdrawnFees, handled, resent>>

\* The SGN chain shares out the fees of the transactions it has seen, and signs
\* the cumulative amount of an account each time it grows.
CreditFee(a) ==
    /\ stack = <<>>
    /\ SumFunctionOnSet(credited, FeeAccounts) < collected
    /\ credited' = [credited EXCEPT ![a] = @ + 1]
    /\ UNCHANGED <<poolVars, executedMessages, stack, busBalance, collected, withdrawnFees,
                   handled, resent>>

\* Mutant: the whole cumulative amount is paid out.
WithdrawFee_WholeAmount(a, cumulativeFee) ==
    /\ cumulativeFee > withdrawnFees[a]
    /\ cumulativeFee <= busBalance
    /\ withdrawnFees' = [withdrawnFees EXCEPT ![a] = cumulativeFee]
    /\ busBalance' = busBalance - cumulativeFee
    /\ UNCHANGED <<poolVars, executedMessages, stack, collected, credited, handled, resent>>

WithdrawFee(a, cumulativeFee) ==
    LET amount == cumulativeFee - withdrawnFees[a]
    IN  /\ amount > 0
        /\ amount <= busBalance
        /\ withdrawnFees' = [withdrawnFees EXCEPT ![a] = cumulativeFee]
        /\ busBalance' = busBalance - amount
        /\ UNCHANGED <<poolVars, executedMessages, stack, collected, credited, handled, resent>>

\* Between two transactions, or by the application that is being called.
PublicStep ==
    \/ \E m \in Messages, signing \in SUBSET SignerAddr, value \in NativeValues :
          Execute(m, signing, value)
    \/ \E m \in Messages, signing \in SUBSET SignerAddr : TransferAndExecute(m, signing)
    \/ UserStep /\ UNCHANGED busVars
    \/ PayStep /\ UNCHANGED busVars
    \/ \E fee \in Fees : SendMessage(fee)
    \/ \E a \in FeeAccounts : \E cumulativeFee \in 1..credited[a] : WithdrawFee(a, cumulativeFee)

\* Between two transactions only.
OtherStep ==
    /\ stack = <<>>
    /\ UNCHANGED busVars
    /\ GovernorStep \/ BridgeTick \/ (SignersStep /\ UNCHANGED bridgeVars)

BusNext == PublicStep \/ AppStep \/ OtherStep \/ \E a \in FeeAccounts : CreditFee(a)

BusSpec == BusInit /\ [][BusNext]_allVars

-----------------------------------------------------------------------------
(* Properties. *)

\* The bus's state keeps its types; it never pays more than it owns.
BusTypeOK ==
    /\ executedMessages \in [MessageIds -> TxStatus]
    /\ \A i \in 1..Len(stack) : stack[i].message \in Messages /\ stack[i].call \in {"main", "fallback"}
    /\ busBalance \in Nat /\ collected \in Nat /\ resent \in Nat
    /\ credited \in [FeeAccounts -> Nat] /\ withdrawnFees \in [FeeAccounts -> Nat]

\* Once a transaction is over the status of a message tells what became of it:
\* handled exactly once, by the call or by the fallback it names, or never if it
\* failed or may still be tried, and it is not pending.  So no sequence of
\* retries, refunds, aborts and calls back into the bus applies a message twice,
\* uses a transfer for two messages, or loses one that was to be retried.
StatusExact ==
    stack = <<>> => \A i \in MessageIds :
        /\ executedMessages[i] # "Pending"
        /\ handled[i].main = (IF executedMessages[i] = "Success" THEN 1 ELSE 0)
        /\ handled[i].fallback = (IF executedMessages[i] = "Fallback" THEN 1 ELSE 0)

\* An application called for a transfer has received its tokens.
TokensFirst ==
    \A i \in 1..Len(stack) :
        stack[i].message.kind # "message" => payments[stack[i].message.transfer] = 1

\* What the SGN chain may still let accounts withdraw is there, less the value that
\* fallbacks were sent after an application that reported failure had kept it.
FeesCovered ==
    busBalance + resent
        >= collected - SumFunctionOnSet(withdrawnFees, FeeAccounts)

=============================================================================
