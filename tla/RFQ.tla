-------------------------------- MODULE RFQ --------------------------------
(***************************************************************************)
(* Swaps at a quoted price between two chains, or on one (RFQ.sol).  A     *)
(* sender deposits the quote's source token with the contract of the       *)
(* source chain; a liquidity provider pays the receiver on the destination *)
(* chain, whose contract then reports back and lets the provider have the  *)
(* deposit.  A quote not filled by its deadline is refunded by the same    *)
(* way.  Reports travel over the message bus, which delivers each at most  *)
(* once, late and in any order, and keeps the ones refused with a retry.   *)
(* The chains' clocks are independent.  Payments run no code that could    *)
(* call the contract back: native ones are given too little gas, and the   *)
(* tokens have no hooks.                                                   *)
(***************************************************************************)
EXTENDS Integers, FiniteSets, Functions

CONSTANTS
    Chains, Tokens, NoToken, Accounts, NoAccount,
    Quotes,         \* [src, dst, srcToken, dstToken, srcAmount, srcRelease, deadline,
                    \*  receiver, refundReceiver, liquidityProvider]
    GasNeeded,      \* gas each account uses to accept the native token
    Settings,       \* what owners and governors set: [chain, what, value, ...]
    AllowedSigners, \* [chain, provider, signer] that providers register
    PERCENT,        \* 1e6, the unit of fee percentages
    InitContract,   \* a contract at deployment
    MaxTime         \* bound on the clocks

QuoteStatus == {"Null", "SrcDeposited", "SrcReleased", "SrcReleasedNative", "SrcRefunded",
                "SrcRefundedNative", "DstRefundInitiated", "DstTransferred",
                "DstTransferredNative"}

\* A message says that a quote was deposited, that it may be released or refunded.
Message == [quote : Quotes, type : {"Null", "Release", "Refund"}]

\* remote are the chains whose contract is known, unconsumed the messages received.
Contract == [paused : BOOLEAN, nativeWrap : Tokens \cup {NoToken}, gas : Nat,
             treasury : Accounts \cup {NoAccount}, feeGlobal : Nat, feeOverride : [Chains -> Nat],
             remote : SUBSET Chains, quotes : [Quotes -> QuoteStatus],
             unconsumed : SUBSET Message, protocolFee : [Tokens -> Nat],
             balance : [Tokens -> Nat],
             allowedSigner : [Accounts -> Accounts \cup {NoAccount}]]

\* refundReceiver is refundTo, or the sender if that is not given.
ASSUME QuotesAssumption ==
    /\ NoToken \notin Tokens /\ NoAccount \notin Accounts /\ IsFiniteSet(Quotes)
    /\ GasNeeded \in [Accounts -> Nat] /\ PERCENT \in Nat \ {0}
    /\ \A q \in Quotes :
          /\ {q.src, q.dst} \subseteq Chains /\ {q.srcToken, q.dstToken} \subseteq Tokens
          /\ {q.srcAmount, q.srcRelease, q.deadline} \subseteq Nat
          /\ {q.receiver, q.refundReceiver, q.liquidityProvider} \subseteq Accounts

ASSUME ContractsAssumption ==
    /\ InitContract \in [Chains -> Contract]
    /\ \A c \in Chains : /\ \A q \in Quotes : InitContract[c].quotes[q] = "Null"
                         /\ InitContract[c].unconsumed = {}
                         /\ \A t \in Tokens : /\ InitContract[c].balance[t] = 0
                                              /\ InitContract[c].protocolFee[t] = 0
    /\ \A s \in Settings :
          /\ s.chain \in Chains
          /\ s.what \in {"paused", "wrap", "gas", "treasury", "remote", "fee", "override"}
          /\ s.what = "paused" => s.value \in BOOLEAN
          /\ s.what = "wrap" => s.value \in Tokens \cup {NoToken}
          /\ s.what = "treasury" => s.value \in Accounts \cup {NoAccount}
          /\ s.what = "remote" => s.value \in SUBSET Chains
          /\ s.what \in {"gas", "fee", "override"} => s.value \in Nat
          /\ s.what = "override" => s.dst \in Chains
    /\ \A a \in AllowedSigners : /\ a.chain \in Chains /\ a.provider \in Accounts
                               /\ a.signer \in Accounts \cup {NoAccount}

VARIABLES
    clock,      \* by chain
    rfq,        \* by chain, the contract
    sent,       \* messages on the bus: [from, to, body]
    paid        \* history: payments to receiver, provider and refund receiver, by quote

rfqVars == <<clock, rfq, sent, paid>>

RFQInit ==
    /\ clock = [c \in Chains |-> 1]
    /\ rfq = [c \in Chains |-> InitContract[c]]
    /\ sent = {}
    /\ paid = [q \in Quotes |-> [receiver |-> 0, provider |-> 0, refund |-> 0]]

Status(c, q) == rfq[c].quotes[q]
CrossChain(q) == q.src # q.dst
Body(q, type) == [quote |-> q, type |-> type]

\* The bus refuses messages to its own chain, the contract ones to an unknown one.
SendMessage(from, to, body) ==
    /\ from # to
    /\ to \in rfq[from].remote
    /\ sent' = sent \cup {[from |-> from, to |-> to, body |-> body]}

\* _transferNativeToken and _withdrawNativeToken succeed.
AcceptsNative(c, account) ==
    rfq[c].nativeWrap # NoToken /\ GasNeeded[account] <= rfq[c].gas

-----------------------------------------------------------------------------
(* The source chain: deposit. *)

RfqFee(c, dst, amount) ==
    LET override == rfq[c].feeOverride[dst]
        feePerc == IF override = 0 THEN rfq[c].feeGlobal ELSE override
    IN  (amount * feePerc) \div PERCENT

Deposited(q, submissionDeadline, native) ==
    /\ ~rfq[q.src].paused
    /\ native => rfq[q.src].nativeWrap = q.srcToken
    /\ submissionDeadline > clock[q.src] /\ q.deadline > submissionDeadline
    /\ Status(q.src, q) = "Null"
    /\ IF CrossChain(q) THEN SendMessage(q.src, q.dst, Body(q, "Null")) ELSE UNCHANGED sent
    /\ rfq' = [rfq EXCEPT ![q.src].quotes[q] = "SrcDeposited",
                          ![q.src].balance[q.srcToken] = @ + q.srcAmount]
    /\ UNCHANGED <<clock, paid>>

\* Mutant: nothing ensures that the quote leaves room for the fee.
SrcDeposit_NoFeeCheck(q, submissionDeadline, native) ==
    Deposited(q, submissionDeadline, native)

\* srcDeposit and srcDepositNative.
SrcDeposit(q, submissionDeadline, native) ==
    /\ RfqFee(q.src, q.dst, q.srcAmount) <= q.srcAmount - q.srcRelease
    /\ Deposited(q, submissionDeadline, native)

-----------------------------------------------------------------------------
(* Releasing the deposit. *)

ReleasedToken(q, native) == IF native THEN rfq[q.src].nativeWrap ELSE q.srcToken

CanRelease(q, native) ==
    /\ native => AcceptsNative(q.src, q.liquidityProvider)
    /\ q.srcRelease <= rfq[q.src].balance[ReleasedToken(q, native)]

\* The contracts after the source one has paid the provider and kept the fee.  A
\* native payment comes out of the wrapped native tokens, whatever the quote's
\* token is.
Released(q, native) ==
    [rfq EXCEPT
        ![q.src].quotes[q] = IF native THEN "SrcReleasedNative" ELSE "SrcReleased",
        ![q.src].protocolFee[q.srcToken] = @ + (q.srcAmount - q.srcRelease),
        ![q.src].balance[ReleasedToken(q, native)] = @ - q.srcRelease]

-----------------------------------------------------------------------------
(* The destination chain. *)

\* How the receiver is paid: by the caller in tokens or in the native token, or by
\* the provider, who has signed or let another account sign.
Ways == {[how |-> "token"], [how |-> "native"]}
        \cup {[how |-> "signed", signer |-> a] : a \in Accounts}

CanPay(q, way) ==
    /\ way.how = "native" => /\ q.dstToken = rfq[q.dst].nativeWrap
                             /\ AcceptsNative(q.dst, q.receiver)
    /\ way.how = "signed" =>
          way.signer \in {q.liquidityProvider, rfq[q.dst].allowedSigner[q.liquidityProvider]}

DstTransferCheck(q) ==
    /\ ~rfq[q.dst].paused
    /\ q.deadline > clock[q.dst]
    /\ Status(q.dst, q) = (IF CrossChain(q) THEN "Null" ELSE "SrcDeposited")

\* dstTransfer, dstTransferNative and dstTransferWithSig.
DstTransfer(q, way) ==
    /\ DstTransferCheck(q)
    /\ CanPay(q, way)
    /\ SendMessage(q.dst, q.src, Body(q, "Release"))
    /\ rfq' = [rfq EXCEPT ![q.dst].quotes[q] =
                  IF way.how = "native" THEN "DstTransferredNative" ELSE "DstTransferred"]
    /\ paid' = [paid EXCEPT ![q].receiver = @ + 1]
    /\ UNCHANGED clock

\* sameChainTransfer, sameChainTransferNative and sameChainTransferWithSig.
SameChainTransfer(q, way, releaseNative) ==
    /\ ~CrossChain(q)
    /\ DstTransferCheck(q)
    /\ CanPay(q, way)
    /\ CanRelease(q, releaseNative)
    /\ rfq' = Released(q, releaseNative)
    /\ paid' = [paid EXCEPT ![q].receiver = @ + 1, ![q].provider = @ + 1]
    /\ UNCHANGED <<clock, sent>>

\* Mutant: whether the quote was filled is not asked.
RequestRefund_AnyStatus(q) ==
    /\ ~rfq[q.dst].paused
    /\ q.deadline < clock[q.dst]
    /\ SendMessage(q.dst, q.src, Body(q, "Refund"))
    /\ rfq' = [rfq EXCEPT ![q.dst].quotes[q] = "DstRefundInitiated"]
    /\ UNCHANGED <<clock, paid>>

\* Mutant: the source chain is not told.
RequestRefund_Unsent(q) ==
    /\ ~rfq[q.dst].paused
    /\ q.deadline < clock[q.dst]
    /\ Status(q.dst, q) = "Null"
    /\ rfq' = [rfq EXCEPT ![q.dst].quotes[q] = "DstRefundInitiated"]
    /\ UNCHANGED <<clock, sent, paid>>

RequestRefund(q) ==
    /\ ~rfq[q.dst].paused
    /\ q.deadline < clock[q.dst]
    /\ Status(q.dst, q) = "Null"
    /\ SendMessage(q.dst, q.src, Body(q, "Refund"))
    /\ rfq' = [rfq EXCEPT ![q.dst].quotes[q] = "DstRefundInitiated"]
    /\ UNCHANGED <<clock, paid>>

-----------------------------------------------------------------------------
(* Messages. *)

\* From an unknown contract the message is refused with a retry: the bus keeps it.
ExecuteMessage(m) ==
    /\ m \in sent
    /\ m.from \in rfq[m.to].remote
    /\ rfq' = [rfq EXCEPT ![m.to].unconsumed = @ \cup {m.body}]
    /\ sent' = sent \ {m}
    /\ UNCHANGED <<clock, paid>>

\* The message was delivered before, or the caller brings it along: the bus then
\* delivers it first.
Available(c, body) ==
    \/ body \in rfq[c].unconsumed
    \/ \E m \in sent : m.to = c /\ m.body = body /\ m.from \in rfq[c].remote

\* Takes the contracts as the rest of the call leaves them.
ReceiveMessage(c, body, contracts) ==
    /\ Available(c, body)
    /\ rfq' = [contracts EXCEPT ![c].unconsumed = @ \ {body}]
    /\ sent' = IF body \in rfq[c].unconsumed THEN sent
               ELSE {m \in sent : m.to # c \/ m.body # body}

-----------------------------------------------------------------------------
(* The source chain: release and refund. *)

\* srcRelease and srcReleaseNative.
SrcRelease(q, native) ==
    /\ ~rfq[q.src].paused
    /\ Status(q.src, q) = "SrcDeposited"
    /\ native => rfq[q.src].nativeWrap = q.srcToken
    /\ CanRelease(q, native)
    /\ ReceiveMessage(q.src, Body(q, "Release"), Released(q, native))
    /\ paid' = [paid EXCEPT ![q].provider = @ + 1]
    /\ UNCHANGED clock

Refunded(q, native) ==
    [rfq EXCEPT
        ![q.src].quotes[q] = IF native THEN "SrcRefundedNative" ELSE "SrcRefunded",
        ![q.src].balance[q.srcToken] = @ - q.srcAmount]

\* executeRefund and executeRefundNative; on one chain the deadline decides.
ExecuteRefund(q, native) ==
    /\ ~rfq[q.src].paused
    /\ Status(q.src, q) = "SrcDeposited"
    /\ native => /\ rfq[q.src].nativeWrap = q.srcToken
                 /\ AcceptsNative(q.src, q.refundReceiver)
    /\ q.srcAmount <= rfq[q.src].balance[q.srcToken]
    /\ IF CrossChain(q)
       THEN ReceiveMessage(q.src, Body(q, "Refund"), Refunded(q, native))
       ELSE /\ q.deadline < clock[q.src]
            /\ rfq' = Refunded(q, native) /\ UNCHANGED sent
    /\ paid' = [paid EXCEPT ![q].refund = @ + 1]
    /\ UNCHANGED clock

-----------------------------------------------------------------------------
(* Fees, providers, owners and time. *)

\* Mutant: the fees stay on the books.
CollectFee_NoReset(c, t) ==
    /\ rfq[c].treasury # NoAccount
    /\ rfq[c].protocolFee[t] <= rfq[c].balance[t]
    /\ rfq' = [rfq EXCEPT ![c].balance[t] = @ - rfq[c].protocolFee[t]]
    /\ UNCHANGED <<clock, sent, paid>>

CollectFee(c, t) ==
    /\ rfq[c].treasury # NoAccount
    /\ rfq[c].protocolFee[t] <= rfq[c].balance[t]
    /\ rfq' = [rfq EXCEPT ![c].balance[t] = @ - rfq[c].protocolFee[t], ![c].protocolFee[t] = 0]
    /\ UNCHANGED <<clock, sent, paid>>

RegisterAllowedSigner(a) ==
    /\ rfq' = [rfq EXCEPT ![a.chain].allowedSigner[a.provider] = a.signer]
    /\ UNCHANGED <<clock, sent, paid>>

\* A contract after pause or unpause, setNativeWrap, setNativeTokenTransferGas,
\* setTreasuryAddr, setRemoteRfqContracts or setFeePerc.
Configured(r, s) ==
    CASE s.what = "paused"   -> [r EXCEPT !.paused = s.value]
      [] s.what = "wrap"     -> [r EXCEPT !.nativeWrap = s.value]
      [] s.what = "gas"      -> [r EXCEPT !.gas = s.value]
      [] s.what = "treasury" -> [r EXCEPT !.treasury = s.value]
      [] s.what = "remote"   -> [r EXCEPT !.remote = s.value]
      [] s.what = "fee"      -> [r EXCEPT !.feeGlobal = s.value]
      [] s.what = "override" -> [r EXCEPT !.feeOverride[s.dst] = s.value]

Configure(s) ==
    /\ s.what \in {"fee", "override"} => s.value < PERCENT
    /\ rfq' = [rfq EXCEPT ![s.chain] = Configured(@, s)]
    /\ UNCHANGED <<clock, sent, paid>>

Tick(c) ==
    /\ clock[c] < MaxTime
    /\ clock' = [clock EXCEPT ![c] = @ + 1]
    /\ UNCHANGED <<rfq, sent, paid>>

RFQNext ==
    \/ \E q \in Quotes, s \in 1..MaxTime, native \in BOOLEAN : SrcDeposit(q, s, native)
    \/ \E q \in Quotes, way \in Ways : DstTransfer(q, way)
    \/ \E q \in Quotes, way \in Ways, native \in BOOLEAN : SameChainTransfer(q, way, native)
    \/ \E q \in Quotes : RequestRefund(q)
    \/ \E m \in sent : ExecuteMessage(m)
    \/ \E q \in Quotes, native \in BOOLEAN : SrcRelease(q, native)
    \/ \E q \in Quotes, native \in BOOLEAN : ExecuteRefund(q, native)
    \/ \E c \in Chains, t \in Tokens : CollectFee(c, t)
    \/ \E a \in AllowedSigners : RegisterAllowedSigner(a)
    \/ \E s \in Settings : Configure(s)
    \/ \E c \in Chains : Tick(c)

\* Time passes, and those who gain by it act: providers collect, senders ask for and
\* take their refunds.  Each may bring the message it needs along.
RFQFairness ==
    /\ \A c \in Chains : WF_rfqVars(Tick(c))
    /\ \A q \in Quotes : /\ WF_rfqVars(RequestRefund(q))
                          /\ WF_rfqVars(SrcRelease(q, FALSE))
                          /\ WF_rfqVars(ExecuteRefund(q, FALSE))

RFQSpec == RFQInit /\ [][RFQNext]_rfqVars
FairRFQSpec == RFQSpec /\ RFQFairness

-----------------------------------------------------------------------------
(* Properties. *)

\* The contracts keep their types; none pays more than it has.
RfqTypeOK ==
    /\ clock \in [Chains -> Nat]
    /\ rfq \in [Chains -> Contract]
    /\ sent \subseteq [from : Chains, to : Chains, body : Message]
    /\ paid \in [Quotes -> [receiver : Nat, provider : Nat, refund : Nat]]

\* A swap happens on both sides or is called off: whatever the order in which
\* transfers, refund requests and messages reach the two chains and however far their
\* clocks are apart, the provider is paid only if the receiver was, the sender is
\* refunded only if the receiver was not, and nobody is paid twice.
SwapOrRefund ==
    \A q \in Quotes :
        /\ paid[q].receiver + paid[q].refund <= 1
        /\ paid[q].provider <= paid[q].receiver

\* Each contract owns, of each token, the deposits that are open and the fees that
\* were not collected, and nothing else.
FundsCovered ==
    \A c \in Chains, t \in Tokens :
        rfq[c].balance[t] = rfq[c].protocolFee[t]
            + SumFunctionOnSet([q \in Quotes |-> q.srcAmount],
                  {q \in Quotes : q.src = c /\ q.srcToken = t /\ Status(c, q) = "SrcDeposited"})

\* What the contract announces with SrcReleased is what happens: the provider receives
\* srcReleaseAmount of the quote's srcToken, wrapped or not, and no other token moves.
PaysInSrcToken ==
    \A q \in Quotes : paid'[q].provider > paid[q].provider =>
        rfq'[q.src].balance = [rfq[q.src].balance EXCEPT ![q.srcToken] = @ - q.srcRelease]

ReleaseInSrcToken == [][PaysInSrcToken]_rfqVars

\* What keeps a deposit where it is: a contract is paused or does not know the other
\* one, or the deadline is beyond the clock of the model.
Blocked(q) ==
    \/ rfq[q.src].paused \/ rfq[q.dst].paused
    \/ CrossChain(q) /\ (q.dst \notin rfq[q.src].remote \/ q.src \notin rfq[q.dst].remote)
    \/ q.deadline >= MaxTime

\* No deposit stays: it is released or refunded in the end, unless something
\* blocks it, and a message that was refused while the contracts did not know each
\* other is not lost.
DepositsSettle ==
    \A q \in Quotes :
        Status(q.src, q) = "SrcDeposited" ~> (Status(q.src, q) # "SrcDeposited" \/ Blocked(q))

=============================================================================
