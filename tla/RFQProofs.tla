----------------------------- MODULE RFQProofs -----------------------------
(* Theorems about RFQ: no swap is both made and called off, and a contract   *)
(* owns what it owes, on any number of chains, whatever their clocks and the *)
(* delays of messages.                                                       *)
EXTENDS RFQ, SumTheorems

Filled == {"DstTransferred", "DstTransferredNative"}
ReleasedStates == {"SrcReleased", "SrcReleasedNative"}
RefundedStates == {"SrcRefunded", "SrcRefundedNative"}

\* A message of this type is on its way to the quote's source contract, or there.
Pending(q, type) ==
    \/ Body(q, type) \in rfq[q.src].unconsumed
    \/ \E m \in sent : m.to = q.src /\ m.body = Body(q, type)

\* What has been paid follows from the status on the source chain, on one chain for
\* the receiver as well.
PaidAsRecorded(q) ==
    /\ paid[q].provider = IF Status(q.src, q) \in ReleasedStates THEN 1 ELSE 0
    /\ paid[q].refund = IF Status(q.src, q) \in RefundedStates THEN 1 ELSE 0
    /\ paid[q].receiver = IF CrossChain(q) THEN IF Status(q.dst, q) \in Filled THEN 1 ELSE 0
                                           ELSE paid[q].provider

\* The two chains never disagree: what the source has done, or may do on a message
\* that is under way, agrees with what the destination did.
ChainsAgree(q) ==
    /\ Status(q.src, q) \in ReleasedStates /\ CrossChain(q) => Status(q.dst, q) \in Filled
    /\ Status(q.src, q) \in RefundedStates /\ CrossChain(q) => Status(q.dst, q) = "DstRefundInitiated"
    /\ Pending(q, "Release") => CrossChain(q) /\ Status(q.dst, q) \in Filled
    /\ Pending(q, "Refund") => CrossChain(q) /\ Status(q.dst, q) = "DstRefundInitiated"

Agreement(q) == PaidAsRecorded(q) /\ ChainsAgree(q)
Agreed == \A q \in Quotes : Agreement(q)

\* A deposit leaves room for the provider's share.
RoomForRelease ==
    \A q \in Quotes : Status(q.src, q) = "SrcDeposited" => q.srcRelease <= q.srcAmount

-----------------------------------------------------------------------------
(* Type correctness. *)

\* The fee that a quote must leave room for is a natural number.
LEMMA FeeIsNat ==
    ASSUME RfqTypeOK, NEW q \in Quotes
    PROVE  RfqFee(q.src, q.dst, q.srcAmount) \in Nat
<1> DEFINE feePerc == IF rfq[q.src].feeOverride[q.dst] = 0 THEN rfq[q.src].feeGlobal
                     ELSE rfq[q.src].feeOverride[q.dst]
<1>1. rfq[q.src] \in Contract /\ q.dst \in Chains /\ q.srcAmount \in Nat
  BY QuotesAssumption DEF RfqTypeOK
<1>2. feePerc \in Nat
  BY <1>1 DEF Contract
<1>3. \A n, d \in Nat : d # 0 => n \div d \in Nat
  OBVIOUS
<1>4. q.srcAmount * feePerc \in Nat
  BY <1>1, <1>2
<1>5. (q.srcAmount * feePerc) \div PERCENT \in Nat
  BY <1>3, <1>4, QuotesAssumption
<1> QED
  BY <1>5 DEF RfqFee

\* What the handlers change in a contract leaves it typed.
LEMMA ContractKept ==
    ASSUME NEW r \in Contract, NEW q \in Quotes, NEW status \in QuoteStatus,
           NEW u \in SUBSET Message, NEW f \in [Tokens -> Nat], NEW b \in [Tokens -> Nat]
    PROVE  /\ [r EXCEPT !.quotes[q] = status] \in Contract
           /\ [r EXCEPT !.unconsumed = u] \in Contract
           /\ [r EXCEPT !.quotes[q] = status, !.balance = b] \in Contract
           /\ [r EXCEPT !.quotes[q] = status, !.protocolFee = f, !.balance = b] \in Contract
           /\ [r EXCEPT !.balance = b, !.protocolFee = f] \in Contract
<1>1. [r EXCEPT !.quotes[q] = status] \in Contract
  BY DEF Contract
<1>2. [r EXCEPT !.unconsumed = u] \in Contract
  BY DEF Contract
<1>3. [r EXCEPT !.quotes[q] = status, !.balance = b] \in Contract
  BY DEF Contract
<1>4. [r EXCEPT !.quotes[q] = status, !.protocolFee = f, !.balance = b] \in Contract
  BY DEF Contract
<1>5. [r EXCEPT !.balance = b, !.protocolFee = f] \in Contract
  BY DEF Contract
<1> QED
  BY <1>1, <1>2, <1>3, <1>4, <1>5

\* A deposit leaves the contracts typed.
LEMMA DepositTyped ==
    ASSUME RfqTypeOK, NEW q \in Quotes, NEW s, NEW native,
           Deposited(q, s, native)
    PROVE  rfq' \in [Chains -> Contract]
<1> DEFINE r == rfq[q.src]
           b == [r.balance EXCEPT ![q.srcToken] = @ + q.srcAmount]
           new == [r EXCEPT !.quotes[q] = "SrcDeposited", !.balance = b]
<1>1. /\ rfq \in [Chains -> Contract] /\ q.src \in Chains /\ r \in Contract
      /\ q.srcToken \in Tokens /\ q.srcAmount \in Nat
  BY QuotesAssumption DEF RfqTypeOK
<1>2. b \in [Tokens -> Nat]
  BY <1>1 DEF Contract
<1>3. new \in Contract
  BY <1>1, <1>2, ContractKept, ZenonT(60) DEF QuoteStatus
<1>4. rfq' = [rfq EXCEPT ![q.src] = new]
  BY <1>1 DEF Deposited
<1> HIDE DEF new
<1> QED
  BY <1>1, <1>3, <1>4


\* Paying the provider does.
LEMMA ReleaseTyped ==
    ASSUME RfqTypeOK, NEW q \in Quotes, NEW native \in BOOLEAN,
           q.srcRelease <= q.srcAmount, CanRelease(q, native)
    PROVE  Released(q, native) \in [Chains -> Contract]
<1> DEFINE r == rfq[q.src]
           token == ReleasedToken(q, native)
           status == IF native THEN "SrcReleasedNative" ELSE "SrcReleased"
           f == [r.protocolFee EXCEPT ![q.srcToken] = @ + (q.srcAmount - q.srcRelease)]
           b == [r.balance EXCEPT ![token] = @ - q.srcRelease]
           new == [r EXCEPT !.quotes[q] = status, !.protocolFee = f, !.balance = b]
<1>1. /\ rfq \in [Chains -> Contract] /\ q.src \in Chains /\ r \in Contract
      /\ q.srcToken \in Tokens /\ q.srcAmount \in Nat /\ q.srcRelease \in Nat
  BY QuotesAssumption DEF RfqTypeOK
<1>2. token \in Tokens
  BY <1>1 DEF CanRelease, ReleasedToken, AcceptsNative, Contract
<1>3. f \in [Tokens -> Nat]
  BY <1>1 DEF Contract
<1>4. b \in [Tokens -> Nat]
  BY <1>1, <1>2 DEF Contract, CanRelease
<1>5. status \in QuoteStatus
  BY DEF QuoteStatus
<1> HIDE DEF b, f, status
<1>6. new \in Contract
  BY <1>1, <1>3, <1>4, <1>5, ContractKept
<1>7. Released(q, native) = [rfq EXCEPT ![q.src] = new]
  BY <1>1, ZenonT(60) DEF Released, b, f, status
<1> HIDE DEF new
<1> QED
  BY <1>1, <1>6, <1>7

\* Refunding does.
LEMMA RefundTyped ==
    ASSUME RfqTypeOK, NEW q \in Quotes, NEW native \in BOOLEAN,
           q.srcAmount <= rfq[q.src].balance[q.srcToken]
    PROVE  Refunded(q, native) \in [Chains -> Contract]
<1> DEFINE r == rfq[q.src]
           status == IF native THEN "SrcRefundedNative" ELSE "SrcRefunded"
           b == [r.balance EXCEPT ![q.srcToken] = @ - q.srcAmount]
           new == [r EXCEPT !.quotes[q] = status, !.balance = b]
<1>1. /\ rfq \in [Chains -> Contract] /\ q.src \in Chains /\ r \in Contract
      /\ q.srcToken \in Tokens /\ q.srcAmount \in Nat
  BY QuotesAssumption DEF RfqTypeOK
<1>2. b \in [Tokens -> Nat]
  BY <1>1 DEF Contract
<1>3. status \in QuoteStatus
  BY DEF QuoteStatus
<1> HIDE DEF b, status
<1>4. new \in Contract
  BY <1>1, <1>2, <1>3, ContractKept
<1>5. Refunded(q, native) = [rfq EXCEPT ![q.src] = new]
  BY <1>1 DEF Refunded, b, status
<1> HIDE DEF new
<1> QED
  BY <1>1, <1>4, <1>5

\* Changing the messages that wait in a contract does.
LEMMA UnconsumedTyped ==
    ASSUME NEW contracts \in [Chains -> Contract], NEW c \in Chains, NEW u \in SUBSET Message
    PROVE  [contracts EXCEPT ![c].unconsumed = u] \in [Chains -> Contract]
<1> DEFINE new == [contracts[c] EXCEPT !.unconsumed = u]
<1>1. new \in Contract
  <2>1. contracts[c] \in Contract
    OBVIOUS
  <2> QED
    BY <2>1 DEF Contract
<1>2. [contracts EXCEPT ![c].unconsumed = u] = [contracts EXCEPT ![c] = new]
  OBVIOUS
<1> HIDE DEF new
<1> QED
  BY <1>1, <1>2

\* So does setting a quote's status on the destination chain.
LEMMA StatusTyped ==
    ASSUME RfqTypeOK, NEW c \in Chains, NEW q \in Quotes, NEW status \in QuoteStatus
    PROVE  [rfq EXCEPT ![c].quotes[q] = status] \in [Chains -> Contract]
<1> DEFINE new == [rfq[c] EXCEPT !.quotes[q] = status]
<1>1. rfq \in [Chains -> Contract] /\ rfq[c] \in Contract
  BY DEF RfqTypeOK
<1>2. new \in Contract
  BY <1>1 DEF Contract
<1>3. [rfq EXCEPT ![c].quotes[q] = status] = [rfq EXCEPT ![c] = new]
  BY <1>1
<1> HIDE DEF new
<1> QED
  BY <1>1, <1>2, <1>3

\* So does collecting fees.
LEMMA FeeTyped ==
    ASSUME RfqTypeOK, NEW c \in Chains, NEW t \in Tokens, CollectFee(c, t)
    PROVE  rfq' \in [Chains -> Contract]
<1> DEFINE r == rfq[c]
           b == [r.balance EXCEPT ![t] = @ - r.protocolFee[t]]
           f == [r.protocolFee EXCEPT ![t] = 0]
           new == [r EXCEPT !.balance = b, !.protocolFee = f]
<1>1. rfq \in [Chains -> Contract] /\ r \in Contract
  BY DEF RfqTypeOK
<1>2. b \in [Tokens -> Nat] /\ f \in [Tokens -> Nat]
  BY <1>1 DEF Contract, CollectFee
<1>3. new \in Contract
  BY <1>1, <1>2, ContractKept DEF Contract
<1>4. rfq' = [rfq EXCEPT ![c] = new]
  BY <1>1 DEF CollectFee
<1> HIDE DEF new
<1> QED
  BY <1>1, <1>3, <1>4

\* So does everything that owners, governors and providers set.
LEMMA SettingTyped ==
    ASSUME RfqTypeOK, NEW s \in Settings
    PROVE  Configured(rfq[s.chain], s) \in Contract
<1>1. rfq[s.chain] \in Contract
  BY ContractsAssumption DEF RfqTypeOK
<1>2. CASE s.what = "paused"
  BY <1>1, <1>2, ContractsAssumption DEF Configured, Contract
<1>3. CASE s.what = "wrap"
  BY <1>1, <1>3, ContractsAssumption DEF Configured, Contract
<1>4. CASE s.what = "gas"
  BY <1>1, <1>4, ContractsAssumption DEF Configured, Contract
<1>5. CASE s.what = "treasury"
  BY <1>1, <1>5, ContractsAssumption DEF Configured, Contract
<1>6. CASE s.what = "remote"
  BY <1>1, <1>6, ContractsAssumption DEF Configured, Contract
<1>7. CASE s.what = "fee"
  BY <1>1, <1>7, ContractsAssumption DEF Configured, Contract
<1>8. CASE s.what = "override"
  BY <1>1, <1>8, ContractsAssumption DEF Configured, Contract
<1> QED
  BY <1>2, <1>3, <1>4, <1>5, <1>6, <1>7, <1>8, ContractsAssumption

LEMMA SignerTyped ==
    ASSUME RfqTypeOK, NEW a \in AllowedSigners, RegisterAllowedSigner(a)
    PROVE  rfq' \in [Chains -> Contract]
<1> DEFINE new == [rfq[a.chain] EXCEPT !.allowedSigner[a.provider] = a.signer]
<1>1. /\ rfq \in [Chains -> Contract] /\ rfq[a.chain] \in Contract /\ a.chain \in Chains
      /\ a.provider \in Accounts /\ a.signer \in Accounts \cup {NoAccount}
  BY ContractsAssumption DEF RfqTypeOK
<1>2. new \in Contract
  BY <1>1 DEF Contract
<1>3. rfq' = [rfq EXCEPT ![a.chain] = new]
  BY <1>1 DEF RegisterAllowedSigner
<1> HIDE DEF new
<1> QED
  BY <1>1, <1>2, <1>3

\* Messages and histories stay typed.
LEMMA SentTyped ==
    ASSUME RfqTypeOK, NEW q \in Quotes, NEW type \in {"Null", "Release", "Refund"},
           \/ SendMessage(q.src, q.dst, Body(q, type))
           \/ SendMessage(q.dst, q.src, Body(q, type))
    PROVE  sent' \subseteq [from : Chains, to : Chains, body : Message]
<1>1. q.src \in Chains /\ q.dst \in Chains
  BY QuotesAssumption
<1>2. Body(q, type) \in Message
  BY DEF Body, Message
<1> QED
  BY <1>1, <1>2 DEF SendMessage, RfqTypeOK

Counts == [receiver : Nat, provider : Nat, refund : Nat]

LEMMA PaidTyped ==
    ASSUME RfqTypeOK, NEW q \in Quotes
    PROVE  /\ [paid EXCEPT ![q].receiver = @ + 1] \in [Quotes -> Counts]
           /\ [paid EXCEPT ![q].provider = @ + 1] \in [Quotes -> Counts]
           /\ [paid EXCEPT ![q].refund = @ + 1] \in [Quotes -> Counts]
           /\ [paid EXCEPT ![q].receiver = @ + 1, ![q].provider = @ + 1] \in [Quotes -> Counts]
<1>1. paid \in [Quotes -> Counts] /\ paid[q] \in Counts
  BY DEF RfqTypeOK, Counts
<1>2. \A n \in Counts : [n EXCEPT !.receiver = @ + 1] \in Counts
  BY DEF Counts
<1>a. \A n \in Counts : [n EXCEPT !.provider = @ + 1] \in Counts
  BY DEF Counts
<1>b. \A n \in Counts : [n EXCEPT !.refund = @ + 1] \in Counts
  BY DEF Counts
<1>c. \A n \in Counts : [n EXCEPT !.receiver = @ + 1, !.provider = @ + 1] \in Counts
  <2>1. \A n \in Counts : n.receiver + 1 \in Nat /\ n.provider + 1 \in Nat /\ n.refund \in Nat
    BY DEF Counts
  <2>2. \A n \in Counts, a, b \in Nat : [n EXCEPT !.receiver = a, !.provider = b] \in Counts
    BY DEF Counts
  <2> QED
    BY <2>1, <2>2
<1>3. [paid EXCEPT ![q].receiver = @ + 1, ![q].provider = @ + 1]
         = [paid EXCEPT ![q] = [paid[q] EXCEPT !.receiver = @ + 1, !.provider = @ + 1]]
  BY <1>1 DEF Counts
<1> QED
  BY <1>1, <1>2, <1>a, <1>b, <1>c, <1>3

-----------------------------------------------------------------------------
(* What a step does to statuses, messages and payments. *)

\* After the step quote q has the given status on chain c; nothing else changes.
SetsStatus(c, q, status) ==
    \A d \in Chains, p \in Quotes :
        rfq'[d].quotes[p] = IF d = c /\ p = q THEN status ELSE rfq[d].quotes[p]

KeepsStatus == \A d \in Chains, p \in Quotes : rfq'[d].quotes[p] = rfq[d].quotes[p]

KeepsUnconsumed == \A d \in Chains : rfq'[d].unconsumed = rfq[d].unconsumed

\* No message that matters appears, but for one of this type about quote q.
NoNewMessage == \A p \in Quotes, type \in {"Release", "Refund"} : Pending(p, type)' => Pending(p, type)
OneNewMessage(q, new) ==
    \A p \in Quotes, type \in {"Release", "Refund"} :
        Pending(p, type)' => Pending(p, type) \/ (p = q /\ type = new)

LEMMA ReleasedEffect ==
    ASSUME RfqTypeOK, NEW q \in Quotes, NEW native \in BOOLEAN,
           NEW d \in Chains, NEW p \in Quotes
    PROVE  /\ Released(q, native)[d].quotes[p] =
                 IF d = q.src /\ p = q
                 THEN IF native THEN "SrcReleasedNative" ELSE "SrcReleased"
                 ELSE rfq[d].quotes[p]
           /\ Released(q, native)[d].unconsumed = rfq[d].unconsumed
<1>1. rfq \in [Chains -> Contract] /\ rfq[d].quotes \in [Quotes -> QuoteStatus]
  BY DEF RfqTypeOK, Contract
<1> QED
  BY <1>1 DEF Released, Contract

LEMMA RefundedEffect ==
    ASSUME RfqTypeOK, NEW q \in Quotes, NEW native \in BOOLEAN,
           NEW d \in Chains, NEW p \in Quotes
    PROVE  /\ Refunded(q, native)[d].quotes[p] =
                 IF d = q.src /\ p = q
                 THEN IF native THEN "SrcRefundedNative" ELSE "SrcRefunded"
                 ELSE rfq[d].quotes[p]
           /\ Refunded(q, native)[d].unconsumed = rfq[d].unconsumed
<1>1. rfq \in [Chains -> Contract] /\ rfq[d].quotes \in [Quotes -> QuoteStatus]
  BY DEF RfqTypeOK, Contract
<1> QED
  BY <1>1 DEF Refunded, Contract

LEMMA StatusEffect ==
    ASSUME RfqTypeOK, NEW c \in Chains, NEW q \in Quotes, NEW status,
           rfq' = [rfq EXCEPT ![c].quotes[q] = status]
    PROVE  SetsStatus(c, q, status) /\ KeepsUnconsumed
<1>1. rfq \in [Chains -> Contract] /\ \A d \in Chains : rfq[d].quotes \in [Quotes -> QuoteStatus]
  BY DEF RfqTypeOK, Contract
<1> QED
  BY <1>1 DEF SetsStatus, KeepsUnconsumed, Contract

\* Sending adds one message.
LEMMA SendEffect ==
    ASSUME NEW from, NEW to, NEW q \in Quotes, NEW type,
           SendMessage(from, to, Body(q, type)), KeepsUnconsumed
    PROVE  OneNewMessage(q, type)
<1>1. \A p \in Quotes : p.src \in Chains
  BY QuotesAssumption
<1>2. \A p, t, u : Body(p, t) = Body(q, u) => p = q /\ t = u
  BY DEF Body
<1> QED
  BY <1>1, <1>2 DEF OneNewMessage, Pending, SendMessage, KeepsUnconsumed

\* Receiving takes one that was there, and touches nothing else.
LEMMA ReceiveEffect ==
    ASSUME NEW q \in Quotes, NEW type,
           NEW contracts \in [Chains -> Contract],
           \A d \in Chains : contracts[d].unconsumed = rfq[d].unconsumed,
           ReceiveMessage(q.src, Body(q, type), contracts)
    PROVE  /\ Pending(q, type)
           /\ NoNewMessage
           /\ \A d \in Chains : rfq'[d].quotes = contracts[d].quotes
<1>1. \A p \in Quotes : p.src \in Chains
  BY QuotesAssumption
<1>2. Pending(q, type)
  BY DEF ReceiveMessage, Available, Pending
<1>3. \A d \in Chains : rfq'[d].unconsumed \subseteq rfq[d].unconsumed
  BY DEF ReceiveMessage, Contract
<1>4. sent' \subseteq sent
  BY DEF ReceiveMessage
<1>5. NoNewMessage
  BY <1>1, <1>3, <1>4 DEF NoNewMessage, Pending
<1>6. \A d \in Chains : rfq'[d].quotes = contracts[d].quotes
  BY DEF ReceiveMessage, Contract
<1> QED
  BY <1>2, <1>5, <1>6

-----------------------------------------------------------------------------
(* Every step keeps the chains in agreement. *)

\* A step that changes no status, sends nothing that matters and pays nobody.
Quiet == KeepsStatus /\ NoNewMessage /\ paid' = paid

LEMMA QuietKeeps ==
    ASSUME Agreed, Quiet
    PROVE  Agreed'
<1> SUFFICES ASSUME NEW p \in Quotes
             PROVE  Agreement(p)'
  BY DEF Agreed
<1>1. p.src \in Chains /\ p.dst \in Chains /\ Agreement(p)
  BY QuotesAssumption DEF Agreed
<1>2. Status(p.src, p)' = Status(p.src, p) /\ Status(p.dst, p)' = Status(p.dst, p)
  BY <1>1 DEF Quiet, KeepsStatus, Status
<1>3. PaidAsRecorded(p)'
  BY <1>1, <1>2 DEF Quiet, Agreement, PaidAsRecorded, CrossChain
<1>4. ChainsAgree(p)'
  BY <1>1, <1>2 DEF Quiet, NoNewMessage, Agreement, ChainsAgree, CrossChain
<1> QED
  BY <1>3, <1>4 DEF Agreement

\* The status a step leaves to a quote.
LEMMA StatusAfter ==
    ASSUME NEW q \in Quotes, NEW c \in {q.src, q.dst}, NEW status, SetsStatus(c, q, status),
           NEW p \in Quotes
    PROVE  /\ Status(p.src, p)' = IF p.src = c /\ p = q THEN status ELSE Status(p.src, p)
           /\ Status(p.dst, p)' = IF p.dst = c /\ p = q THEN status ELSE Status(p.dst, p)
<1>1. p.src \in Chains /\ p.dst \in Chains
  BY QuotesAssumption
<1> QED
  BY <1>1 DEF SetsStatus, Status

\* A quote other than the one a step is about stays in agreement.
LEMMA OtherQuotes ==
    ASSUME Agreed, NEW q \in Quotes, NEW c \in {q.src, q.dst}, NEW status, NEW type,
           SetsStatus(c, q, status), OneNewMessage(q, type),
           NEW p \in Quotes \ {q}, paid'[p] = paid[p]
    PROVE  Agreement(p)'
<1>1. Agreement(p)
  BY DEF Agreed
<1>2. Status(p.src, p)' = Status(p.src, p) /\ Status(p.dst, p)' = Status(p.dst, p)
  BY StatusAfter, ZenonT(60)
<1>3. PaidAsRecorded(p)'
  BY <1>1, <1>2 DEF Agreement, PaidAsRecorded, CrossChain
<1>4. ChainsAgree(p)'
  BY <1>1, <1>2 DEF OneNewMessage, Agreement, ChainsAgree, CrossChain
<1> QED
  BY <1>3, <1>4 DEF Agreement

LEMMA DepositKeeps ==
    ASSUME RfqTypeOK, Agreed, NEW q \in Quotes, NEW s, NEW native, Deposited(q, s, native)
    PROVE  Agreed'
<1>1. q.src \in Chains /\ q.dst \in Chains
  BY QuotesAssumption
<1>2. SetsStatus(q.src, q, "SrcDeposited") /\ KeepsUnconsumed
  <2>1. rfq \in [Chains -> Contract] /\ \A d \in Chains : rfq[d].quotes \in [Quotes -> QuoteStatus]
    BY DEF RfqTypeOK, Contract
  <2> QED
    BY <1>1, <2>1 DEF Deposited, SetsStatus, KeepsUnconsumed, Contract
<1>3. OneNewMessage(q, "Null")
  <2>1. CASE CrossChain(q)
    BY <1>2, <2>1, SendEffect DEF Deposited
  <2>2. CASE ~CrossChain(q)
    <3>1. \A p \in Quotes : p.src \in Chains
      BY QuotesAssumption
    <3> QED
      BY <1>2, <2>2, <3>1 DEF Deposited, KeepsUnconsumed, OneNewMessage, Pending
  <2> QED
    BY <2>1, <2>2
<1>4. paid' = paid /\ Status(q.src, q) = "Null"
  BY DEF Deposited
<1>5. Agreement(q)'
  <2>1. Agreement(q)
    BY DEF Agreed
  <2>2. /\ Status(q.src, q)' = "SrcDeposited"
        /\ CrossChain(q) => Status(q.dst, q)' = Status(q.dst, q)
    BY <1>2, StatusAfter DEF CrossChain
  <2>3. PaidAsRecorded(q)'
    BY <2>1, <2>2, <1>4 DEF Agreement, PaidAsRecorded, CrossChain, Filled, ReleasedStates, RefundedStates
  <2>4. ChainsAgree(q)'
    BY <2>1, <2>2, <1>3, <1>4 DEF Agreement, ChainsAgree, CrossChain, Filled, ReleasedStates,
                               RefundedStates, OneNewMessage
  <2> QED
    BY <2>3, <2>4 DEF Agreement
<1> QED
  BY <1>2, <1>3, <1>4, <1>5, OtherQuotes DEF Agreed

LEMMA DstTransferKeeps ==
    ASSUME RfqTypeOK, Agreed, NEW q \in Quotes, NEW way \in Ways, DstTransfer(q, way)
    PROVE  Agreed'
<1> DEFINE status == IF way.how = "native" THEN "DstTransferredNative" ELSE "DstTransferred"
<1>1. q.src \in Chains /\ q.dst \in Chains /\ CrossChain(q)
  BY QuotesAssumption DEF DstTransfer, SendMessage, CrossChain
<1>2. SetsStatus(q.dst, q, status) /\ KeepsUnconsumed
  BY <1>1, StatusEffect DEF DstTransfer
<1>3. OneNewMessage(q, "Release")
  BY <1>2, SendEffect DEF DstTransfer
<1>4. /\ Status(q.dst, q) = "Null" /\ status \in Filled
      /\ paid' = [paid EXCEPT ![q].receiver = @ + 1]
  BY <1>1 DEF DstTransfer, DstTransferCheck, Filled
<1> HIDE DEF status
<1>5. \A p \in Quotes \ {q} : paid'[p] = paid[p]
  BY <1>4 DEF RfqTypeOK
<1>6. Agreement(q)'
  <2>1. Agreement(q)
    BY DEF Agreed
  <2>2. Status(q.dst, q)' = status /\ Status(q.src, q)' = Status(q.src, q)
    BY <1>1, <1>2, StatusAfter DEF CrossChain
  <2>3. /\ paid'[q].receiver = paid[q].receiver + 1
        /\ paid'[q].provider = paid[q].provider /\ paid'[q].refund = paid[q].refund
    BY <1>4 DEF RfqTypeOK
  <2>4. PaidAsRecorded(q)'
    BY <2>1, <2>2, <2>3, <1>1, <1>4 DEF Agreement, PaidAsRecorded, CrossChain, Filled
  <2>5. ChainsAgree(q)'
    BY <2>1, <2>2, <1>1, <1>3, <1>4 DEF Agreement, ChainsAgree, CrossChain, Filled, OneNewMessage
  <2> QED
    BY <2>4, <2>5 DEF Agreement
<1> QED
  BY <1>2, <1>3, <1>5, <1>6, OtherQuotes DEF Agreed

LEMMA RequestRefundKeeps ==
    ASSUME RfqTypeOK, Agreed, NEW q \in Quotes, RequestRefund(q)
    PROVE  Agreed'
<1>1. q.src \in Chains /\ q.dst \in Chains /\ CrossChain(q)
  BY QuotesAssumption DEF RequestRefund, SendMessage, CrossChain
<1>2. SetsStatus(q.dst, q, "DstRefundInitiated") /\ KeepsUnconsumed
  BY <1>1, StatusEffect DEF RequestRefund
<1>3. OneNewMessage(q, "Refund")
  BY <1>2, SendEffect DEF RequestRefund
<1>4. Status(q.dst, q) = "Null" /\ paid' = paid
  BY DEF RequestRefund
<1>5. Agreement(q)'
  <2>1. Agreement(q)
    BY DEF Agreed
  <2>2. Status(q.dst, q)' = "DstRefundInitiated" /\ Status(q.src, q)' = Status(q.src, q)
    BY <1>1, <1>2, StatusAfter DEF CrossChain
  <2>3. PaidAsRecorded(q)'
    BY <2>1, <2>2, <1>1, <1>4 DEF Agreement, PaidAsRecorded, CrossChain, Filled
  <2>4. ChainsAgree(q)'
    BY <2>1, <2>2, <1>1, <1>3, <1>4 DEF Agreement, ChainsAgree, CrossChain, Filled, OneNewMessage
  <2> QED
    BY <2>3, <2>4 DEF Agreement
<1> QED
  BY <1>2, <1>3, <1>4, <1>5, OtherQuotes DEF Agreed

LEMMA SameChainTransferKeeps ==
    ASSUME RfqTypeOK, Agreed, NEW q \in Quotes, NEW way \in Ways, NEW native \in BOOLEAN,
           SameChainTransfer(q, way, native)
    PROVE  Agreed'
<1> DEFINE status == IF native THEN "SrcReleasedNative" ELSE "SrcReleased"
<1>1. q.src \in Chains /\ ~CrossChain(q) /\ \A p \in Quotes : p.src \in Chains
  BY QuotesAssumption DEF SameChainTransfer
<1>2. SetsStatus(q.src, q, status) /\ KeepsUnconsumed
  BY ReleasedEffect DEF SameChainTransfer, SetsStatus, KeepsUnconsumed
<1>3. OneNewMessage(q, "Null")
  BY <1>1, <1>2 DEF SameChainTransfer, KeepsUnconsumed, OneNewMessage, Pending
<1>4. /\ Status(q.src, q) = "SrcDeposited" /\ status \in ReleasedStates
      /\ paid' = [paid EXCEPT ![q].receiver = @ + 1, ![q].provider = @ + 1]
  BY <1>1 DEF SameChainTransfer, DstTransferCheck, CrossChain, ReleasedStates
<1> HIDE DEF status
<1>5. \A p \in Quotes \ {q} : paid'[p] = paid[p]
  BY <1>4 DEF RfqTypeOK
<1>6. Agreement(q)'
  <2>1. Agreement(q)
    BY DEF Agreed
  <2>2. Status(q.src, q)' = status
    BY <1>2, StatusAfter
  <2>3. /\ paid'[q].receiver = paid[q].receiver + 1
        /\ paid'[q].provider = paid[q].provider + 1 /\ paid'[q].refund = paid[q].refund
    BY <1>4 DEF RfqTypeOK
  <2>4. PaidAsRecorded(q)'
    BY <2>1, <2>2, <2>3, <1>1, <1>4
    DEF Agreement, PaidAsRecorded, CrossChain, ReleasedStates, RefundedStates
  <2>5. ChainsAgree(q)'
    BY <2>1, <2>2, <1>1, <1>3, <1>4 DEF Agreement, ChainsAgree, CrossChain, OneNewMessage
  <2> QED
    BY <2>4, <2>5 DEF Agreement
<1> QED
  BY <1>2, <1>3, <1>5, <1>6, OtherQuotes DEF Agreed

LEMMA SrcReleaseKeeps ==
    ASSUME RfqTypeOK, Agreed, RoomForRelease, NEW q \in Quotes, NEW native \in BOOLEAN,
           SrcRelease(q, native)
    PROVE  Agreed'
<1> DEFINE status == IF native THEN "SrcReleasedNative" ELSE "SrcReleased"
<1>1. /\ Status(q.src, q) = "SrcDeposited" /\ status \in ReleasedStates
      /\ paid' = [paid EXCEPT ![q].provider = @ + 1]
  BY DEF SrcRelease, ReleasedStates
<1>2. Released(q, native) \in [Chains -> Contract]
  BY <1>1, ReleaseTyped DEF SrcRelease, RoomForRelease
<1>3. \A d \in Chains : Released(q, native)[d].unconsumed = rfq[d].unconsumed
  BY ReleasedEffect
<1>4. /\ Pending(q, "Release") /\ NoNewMessage
      /\ \A d \in Chains : rfq'[d].quotes = Released(q, native)[d].quotes
  BY <1>2, <1>3, ReceiveEffect DEF SrcRelease
<1>5. SetsStatus(q.src, q, status)
  BY <1>4, ReleasedEffect DEF SetsStatus
<1>6. OneNewMessage(q, "Null")
  BY <1>4 DEF NoNewMessage, OneNewMessage
<1> HIDE DEF status
<1>7. \A p \in Quotes \ {q} : paid'[p] = paid[p]
  BY <1>1 DEF RfqTypeOK
<1>8. Agreement(q)'
  <2>1. Agreement(q) /\ CrossChain(q) /\ Status(q.dst, q) \in Filled
    BY <1>4 DEF Agreed, Agreement, ChainsAgree
  <2>2. Status(q.src, q)' = status /\ Status(q.dst, q)' = Status(q.dst, q)
    BY <1>5, <2>1, StatusAfter DEF CrossChain
  <2>3. /\ paid'[q].provider = paid[q].provider + 1
        /\ paid'[q].receiver = paid[q].receiver /\ paid'[q].refund = paid[q].refund
    BY <1>1 DEF RfqTypeOK
  <2>4. PaidAsRecorded(q)'
    BY <2>1, <2>2, <2>3, <1>1
    DEF Agreement, PaidAsRecorded, CrossChain, ReleasedStates, RefundedStates
  <2>5. ChainsAgree(q)'
    BY <2>1, <2>2, <1>1, <1>4
    DEF Agreement, ChainsAgree, CrossChain, NoNewMessage, ReleasedStates, RefundedStates
  <2> QED
    BY <2>4, <2>5 DEF Agreement
<1> QED
  BY <1>5, <1>6, <1>7, <1>8, OtherQuotes DEF Agreed

LEMMA ExecuteRefundKeeps ==
    ASSUME RfqTypeOK, Agreed, NEW q \in Quotes, NEW native \in BOOLEAN,
           ExecuteRefund(q, native)
    PROVE  Agreed'
<1> DEFINE status == IF native THEN "SrcRefundedNative" ELSE "SrcRefunded"
<1>1. /\ Status(q.src, q) = "SrcDeposited" /\ status \in RefundedStates
      /\ paid' = [paid EXCEPT ![q].refund = @ + 1]
  BY DEF ExecuteRefund, RefundedStates
<1>2. Refunded(q, native) \in [Chains -> Contract]
  BY RefundTyped DEF ExecuteRefund
<1>3. \A d \in Chains : Refunded(q, native)[d].unconsumed = rfq[d].unconsumed
  BY RefundedEffect
<1>4. /\ CrossChain(q) => Pending(q, "Refund")
      /\ NoNewMessage
      /\ \A d \in Chains : rfq'[d].quotes = Refunded(q, native)[d].quotes
  <2>1. CASE CrossChain(q)
    BY <2>1, <1>2, <1>3, ReceiveEffect DEF ExecuteRefund
  <2>2. CASE ~CrossChain(q)
    <3>1. \A p \in Quotes : p.src \in Chains
      BY QuotesAssumption
    <3> QED
      BY <2>2, <3>1, <1>3 DEF ExecuteRefund, NoNewMessage, Pending
  <2> QED
    BY <2>1, <2>2
<1>5. SetsStatus(q.src, q, status)
  BY <1>4, RefundedEffect DEF SetsStatus
<1>6. OneNewMessage(q, "Null")
  BY <1>4 DEF NoNewMessage, OneNewMessage
<1> HIDE DEF status
<1>7. \A p \in Quotes \ {q} : paid'[p] = paid[p]
  BY <1>1 DEF RfqTypeOK
<1>8. Agreement(q)'
  <2>1. Agreement(q) /\ (CrossChain(q) => Status(q.dst, q) = "DstRefundInitiated")
    BY <1>4 DEF Agreed, Agreement, ChainsAgree
  <2>2. Status(q.src, q)' = status /\ (CrossChain(q) => Status(q.dst, q)' = Status(q.dst, q))
    BY <1>5, StatusAfter DEF CrossChain
  <2>3. /\ paid'[q].refund = paid[q].refund + 1
        /\ paid'[q].receiver = paid[q].receiver /\ paid'[q].provider = paid[q].provider
    BY <1>1 DEF RfqTypeOK
  <2>4. PaidAsRecorded(q)'
    BY <2>1, <2>2, <2>3, <1>1
    DEF Agreement, PaidAsRecorded, CrossChain, ReleasedStates, RefundedStates
  <2>5. ChainsAgree(q)'
    BY <2>1, <2>2, <1>1, <1>4
    DEF Agreement, ChainsAgree, CrossChain, NoNewMessage, ReleasedStates, RefundedStates
  <2> QED
    BY <2>4, <2>5 DEF Agreement
<1> QED
  BY <1>5, <1>6, <1>7, <1>8, OtherQuotes DEF Agreed

\* Delivering a message only moves it.
LEMMA ExecuteMessageKeeps ==
    ASSUME RfqTypeOK, Agreed, NEW m \in sent, ExecuteMessage(m)
    PROVE  Agreed'
<1>1. /\ rfq \in [Chains -> Contract] /\ m.to \in Chains
      /\ \A p \in Quotes : p.src \in Chains
  BY QuotesAssumption DEF RfqTypeOK
<1>2. /\ \A d \in Chains : rfq'[d].quotes = rfq[d].quotes
      /\ \A d \in Chains : rfq'[d].unconsumed \subseteq
             rfq[d].unconsumed \cup (IF d = m.to THEN {m.body} ELSE {})
  BY <1>1 DEF ExecuteMessage, Contract
<1>3. NoNewMessage
  BY <1>1, <1>2 DEF ExecuteMessage, NoNewMessage, Pending
<1> QED
  BY <1>2, <1>3, QuietKeeps DEF Quiet, KeepsStatus, ExecuteMessage

\* The rest of the steps leave statuses and messages alone.
LEMMA AloneKeeps ==
    ASSUME Agreed, KeepsStatus, KeepsUnconsumed, UNCHANGED <<sent, paid>>
    PROVE  Agreed'
<1>1. \A p \in Quotes : p.src \in Chains
  BY QuotesAssumption
<1> QED
  BY <1>1, QuietKeeps DEF Quiet, NoNewMessage, Pending, KeepsUnconsumed

LEMMA OthersLeaveAlone ==
    ASSUME RfqTypeOK
    PROVE  /\ \A c \in Chains, t \in Tokens : CollectFee(c, t) => KeepsStatus /\ KeepsUnconsumed
           /\ \A a \in AllowedSigners : RegisterAllowedSigner(a) => KeepsStatus /\ KeepsUnconsumed
           /\ \A s \in Settings : Configure(s) => KeepsStatus /\ KeepsUnconsumed
<1>1. rfq \in [Chains -> Contract]
  BY DEF RfqTypeOK
<1>2. ASSUME NEW c \in Chains, NEW t \in Tokens, CollectFee(c, t)
      PROVE  KeepsStatus /\ KeepsUnconsumed
  BY <1>1, <1>2 DEF CollectFee, KeepsStatus, KeepsUnconsumed, Contract
<1>3. ASSUME NEW a \in AllowedSigners, RegisterAllowedSigner(a)
      PROVE  KeepsStatus /\ KeepsUnconsumed
  BY <1>1, <1>3 DEF RegisterAllowedSigner, KeepsStatus, KeepsUnconsumed, Contract
<1>4. ASSUME NEW s \in Settings, Configure(s)
      PROVE  KeepsStatus /\ KeepsUnconsumed
  <2>1. rfq[s.chain] \in Contract /\ s.chain \in Chains
    BY <1>1, ContractsAssumption
  <2>2. /\ Configured(rfq[s.chain], s).quotes = rfq[s.chain].quotes
        /\ Configured(rfq[s.chain], s).unconsumed = rfq[s.chain].unconsumed
    BY <2>1, ContractsAssumption DEF Configured, Contract
  <2>3. rfq' = [rfq EXCEPT ![s.chain] = Configured(rfq[s.chain], s)]
    BY <1>4 DEF Configure
  <2> QED
    BY <1>1, <2>1, <2>2, <2>3 DEF KeepsStatus, KeepsUnconsumed
<1> QED
  BY <1>2, <1>3, <1>4

\* Only a deposit makes a quote deposited, and it checks the room.
LEMMA RoomKept ==
    ASSUME RfqTypeOK, Agreed, RoomForRelease, RFQNext
    PROVE  RoomForRelease'
<1> SUFFICES ASSUME NEW p \in Quotes, Status(p.src, p)' = "SrcDeposited",
                    Status(p.src, p) # "SrcDeposited"
             PROVE  p.srcRelease <= p.srcAmount
  BY QuotesAssumption DEF RoomForRelease
<1>0. /\ rfq \in [Chains -> Contract] /\ p.src \in Chains
      /\ \A q \in Quotes : q.src \in Chains /\ q.dst \in Chains
  BY QuotesAssumption DEF RfqTypeOK
<1>1. ASSUME NEW q \in Quotes, NEW s \in 1..MaxTime, NEW native \in BOOLEAN, SrcDeposit(q, s, native)
      PROVE  p.srcRelease <= p.srcAmount
  <2>1. p = q
    BY <1>0, <1>1 DEF SrcDeposit, Deposited, Status, Contract
  <2>2. RfqFee(q.src, q.dst, q.srcAmount) \in Nat
    BY FeeIsNat
  <2> QED
    BY <1>1, <2>1, <2>2, QuotesAssumption DEF SrcDeposit
<1>2. ASSUME NEW q \in Quotes, NEW way \in Ways, DstTransfer(q, way) PROVE FALSE
  <2>1. \E st \in Filled : SetsStatus(q.dst, q, st)
    BY <1>0, <1>2, StatusEffect DEF DstTransfer, Filled
  <2> QED
    BY <1>0, <2>1 DEF SetsStatus, Status, Filled
<1>3. ASSUME NEW q \in Quotes, NEW way \in Ways, NEW native \in BOOLEAN, SameChainTransfer(q, way, native)
      PROVE  FALSE
  BY <1>0, <1>3, ReleasedEffect DEF SameChainTransfer, Status
<1>4. ASSUME NEW q \in Quotes, RequestRefund(q) PROVE FALSE
  BY <1>0, <1>4, StatusEffect DEF RequestRefund, SetsStatus, Status
<1>5. ASSUME NEW m \in sent, ExecuteMessage(m) PROVE FALSE
  BY <1>0, <1>5 DEF ExecuteMessage, Status, Contract
<1>6. ASSUME NEW q \in Quotes, NEW native \in BOOLEAN, SrcRelease(q, native) PROVE FALSE
  <2>1. Released(q, native) \in [Chains -> Contract]
    BY <1>6, ReleaseTyped DEF SrcRelease, RoomForRelease
  <2>2. \A d \in Chains : rfq'[d].quotes = Released(q, native)[d].quotes
    BY <1>6, <2>1, ReleasedEffect, ReceiveEffect DEF SrcRelease
  <2> QED
    BY <1>0, <2>2, ReleasedEffect DEF Status
<1>7. ASSUME NEW q \in Quotes, NEW native \in BOOLEAN, ExecuteRefund(q, native) PROVE FALSE
  <2>1. Refunded(q, native) \in [Chains -> Contract]
    BY <1>7, RefundTyped DEF ExecuteRefund
  <2>2. \A d \in Chains : rfq'[d].quotes = Refunded(q, native)[d].quotes
    BY <1>7, <2>1, RefundedEffect, ReceiveEffect DEF ExecuteRefund
  <2> QED
    BY <1>0, <2>2, RefundedEffect DEF Status
<1>8. ASSUME KeepsStatus PROVE FALSE
  BY <1>0, <1>8 DEF KeepsStatus, Status
<1>9. ASSUME NEW c \in Chains, Tick(c) PROVE FALSE
  BY <1>9 DEF Tick, Status
<1> QED
  BY <1>1, <1>2, <1>3, <1>4, <1>5, <1>6, <1>7, <1>8, <1>9, OthersLeaveAlone DEF RFQNext

\* Every step leaves the state typed.
LEMMA StepTyped ==
    ASSUME RfqTypeOK, RoomForRelease, RFQNext
    PROVE  RfqTypeOK'
<1>0. /\ rfq \in [Chains -> Contract] /\ paid \in [Quotes -> Counts]
      /\ sent \subseteq [from : Chains, to : Chains, body : Message] /\ clock \in [Chains -> Nat]
      /\ \A q \in Quotes : q.src \in Chains /\ q.dst \in Chains
  BY QuotesAssumption DEF RfqTypeOK, Counts
<1>a. SUFFICES /\ clock' \in [Chains -> Nat] /\ rfq' \in [Chains -> Contract]
               /\ sent' \subseteq [from : Chains, to : Chains, body : Message]
               /\ paid' \in [Quotes -> Counts]
  BY DEF RfqTypeOK, Counts
<1>b. ASSUME NEW q \in Quotes, NEW type, NEW contracts \in [Chains -> Contract],
             ReceiveMessage(q.src, Body(q, type), contracts)
      PROVE  rfq' \in [Chains -> Contract] /\ sent' \subseteq sent
  <2> DEFINE u == contracts[q.src].unconsumed \ {Body(q, type)}
  <2>1. u \in SUBSET Message
    <3>1. contracts[q.src] \in Contract
      BY <1>0
    <3> QED
      BY <3>1 DEF Contract
  <2>2. rfq' = [contracts EXCEPT ![q.src].unconsumed = u]
    BY <1>b DEF ReceiveMessage
  <2> HIDE DEF u
  <2>3. q.src \in Chains
    BY <1>0
  <2>4. rfq' \in [Chains -> Contract]
    BY <2>1, <2>2, <2>3, UnconsumedTyped
  <2>5. sent' \subseteq sent
    BY <1>b DEF ReceiveMessage
  <2> QED
    BY <2>4, <2>5
<1>1. ASSUME NEW q \in Quotes, NEW s \in 1..MaxTime, NEW native \in BOOLEAN, SrcDeposit(q, s, native)
      PROVE  RfqTypeOK'
  <2>1. Deposited(q, s, native)
    BY <1>1 DEF SrcDeposit
  <2>2. rfq' \in [Chains -> Contract]
    BY <2>1, DepositTyped
  <2>3. sent' \subseteq [from : Chains, to : Chains, body : Message]
    BY <1>0, <2>1, SentTyped DEF Deposited
  <2> QED
    BY <1>0, <2>1, <2>2, <2>3 DEF Deposited, RfqTypeOK, Counts
<1>2. ASSUME NEW q \in Quotes, NEW way \in Ways, DstTransfer(q, way) PROVE RfqTypeOK'
  <2>1. rfq' \in [Chains -> Contract]
    BY <1>0, <1>2, StatusTyped DEF DstTransfer, QuoteStatus
  <2>2. sent' \subseteq [from : Chains, to : Chains, body : Message]
    BY <1>2, SentTyped DEF DstTransfer
  <2>3. paid' \in [Quotes -> Counts]
    BY <1>2, PaidTyped DEF DstTransfer
  <2> QED
    BY <1>0, <1>2, <2>1, <2>2, <2>3 DEF DstTransfer, RfqTypeOK, Counts
<1>3. ASSUME NEW q \in Quotes, NEW way \in Ways, NEW native \in BOOLEAN, SameChainTransfer(q, way, native)
      PROVE  RfqTypeOK'
  <2>1. rfq' \in [Chains -> Contract]
    BY <1>3, ReleaseTyped DEF SameChainTransfer, DstTransferCheck, RoomForRelease, CrossChain
  <2>2. paid' \in [Quotes -> Counts]
    BY <1>3, PaidTyped DEF SameChainTransfer
  <2> QED
    BY <1>0, <1>3, <2>1, <2>2 DEF SameChainTransfer, RfqTypeOK, Counts
<1>4. ASSUME NEW q \in Quotes, RequestRefund(q) PROVE RfqTypeOK'
  <2>1. rfq' \in [Chains -> Contract]
    BY <1>0, <1>4, StatusTyped DEF RequestRefund, QuoteStatus
  <2>2. sent' \subseteq [from : Chains, to : Chains, body : Message]
    BY <1>4, SentTyped DEF RequestRefund
  <2> QED
    BY <1>0, <1>4, <2>1, <2>2 DEF RequestRefund, RfqTypeOK, Counts
<1>5. ASSUME NEW m \in sent, ExecuteMessage(m) PROVE RfqTypeOK'
  <2> DEFINE u == rfq[m.to].unconsumed \cup {m.body}
  <2>1. m.to \in Chains /\ m.body \in Message /\ rfq[m.to] \in Contract
    BY <1>0
  <2>2. u \in SUBSET Message
    BY <2>1 DEF Contract
  <2>3. rfq' = [rfq EXCEPT ![m.to].unconsumed = u]
    BY <1>5 DEF ExecuteMessage
  <2> HIDE DEF u
  <2>4. rfq' \in [Chains -> Contract]
    BY <1>0, <2>1, <2>2, <2>3, UnconsumedTyped
  <2> QED
    BY <1>0, <1>5, <2>4 DEF ExecuteMessage, RfqTypeOK, Counts
<1>6. ASSUME NEW q \in Quotes, NEW native \in BOOLEAN, SrcRelease(q, native) PROVE RfqTypeOK'
  <2>1. Released(q, native) \in [Chains -> Contract]
    BY <1>6, ReleaseTyped DEF SrcRelease, RoomForRelease
  <2>2. rfq' \in [Chains -> Contract] /\ sent' \subseteq sent
    BY <1>6, <2>1, <1>b DEF SrcRelease
  <2>3. paid' \in [Quotes -> Counts]
    BY <1>6, PaidTyped DEF SrcRelease
  <2> QED
    BY <1>0, <1>6, <2>2, <2>3 DEF SrcRelease, RfqTypeOK, Counts
<1>7. ASSUME NEW q \in Quotes, NEW native \in BOOLEAN, ExecuteRefund(q, native) PROVE RfqTypeOK'
  <2>1. Refunded(q, native) \in [Chains -> Contract]
    BY <1>7, RefundTyped DEF ExecuteRefund
  <2>2. rfq' \in [Chains -> Contract] /\ sent' \subseteq sent
    BY <1>7, <2>1, <1>b DEF ExecuteRefund
  <2>3. paid' \in [Quotes -> Counts]
    BY <1>7, PaidTyped DEF ExecuteRefund
  <2> QED
    BY <1>0, <1>7, <2>2, <2>3 DEF ExecuteRefund, RfqTypeOK, Counts
<1>8. ASSUME NEW c \in Chains, NEW t \in Tokens, CollectFee(c, t) PROVE RfqTypeOK'
  BY <1>0, <1>8, FeeTyped DEF CollectFee, RfqTypeOK, Counts
<1>9. ASSUME NEW a \in AllowedSigners, RegisterAllowedSigner(a) PROVE RfqTypeOK'
  BY <1>0, <1>9, SignerTyped DEF RegisterAllowedSigner, RfqTypeOK, Counts
<1>10. ASSUME NEW s \in Settings, Configure(s) PROVE RfqTypeOK'
  <2>1. rfq' \in [Chains -> Contract]
    BY <1>0, <1>10, SettingTyped DEF Configure
  <2> QED
    BY <1>0, <1>10, <2>1 DEF Configure, RfqTypeOK, Counts
<1>11. ASSUME NEW c \in Chains, Tick(c) PROVE RfqTypeOK'
  BY <1>0, <1>11 DEF Tick, RfqTypeOK, Counts
<1>12. RfqTypeOK'
  BY <1>1, <1>2, <1>3, <1>4, <1>5, <1>6, <1>7, <1>8, <1>9, <1>10, <1>11 DEF RFQNext
<1> QED
  BY <1>12 DEF RfqTypeOK, Counts

LEMMA StepAgrees ==
    ASSUME RfqTypeOK, Agreed, RoomForRelease, RFQNext
    PROVE  Agreed'
<1>1. ASSUME NEW c \in Chains, Tick(c) PROVE Agreed'
  BY <1>1, AloneKeeps DEF Tick, KeepsStatus, KeepsUnconsumed
<1>2. ASSUME NEW c \in Chains, NEW t \in Tokens, CollectFee(c, t) PROVE Agreed'
  BY <1>2, AloneKeeps, OthersLeaveAlone DEF CollectFee
<1>3. ASSUME NEW a \in AllowedSigners, RegisterAllowedSigner(a) PROVE Agreed'
  BY <1>3, AloneKeeps, OthersLeaveAlone DEF RegisterAllowedSigner
<1>4. ASSUME NEW s \in Settings, Configure(s) PROVE Agreed'
  BY <1>4, AloneKeeps, OthersLeaveAlone DEF Configure
<1>5. ASSUME NEW q \in Quotes, NEW s \in 1..MaxTime, NEW native \in BOOLEAN, SrcDeposit(q, s, native)
      PROVE  Agreed'
  BY <1>5, DepositKeeps DEF SrcDeposit
<1> QED
  BY <1>1, <1>2, <1>3, <1>4, <1>5, DstTransferKeeps, SameChainTransferKeeps, RequestRefundKeeps,
     ExecuteMessageKeeps, SrcReleaseKeeps, ExecuteRefundKeeps DEF RFQNext

-----------------------------------------------------------------------------
(* The theorems. *)

\* The strengthening that every step keeps.
RFQInv == RfqTypeOK /\ Agreed /\ RoomForRelease

LEMMA InvInitially == RFQInit => RFQInv
<1> SUFFICES ASSUME RFQInit PROVE RFQInv
  OBVIOUS
<1>1. rfq = InitContract
  BY ContractsAssumption DEF RFQInit
<1>2. RfqTypeOK
  BY <1>1, ContractsAssumption DEF RFQInit, RfqTypeOK
<1>3. \A q \in Quotes : /\ Status(q.src, q) = "Null" /\ Status(q.dst, q) = "Null"
                       /\ rfq[q.src].unconsumed = {}
  BY <1>1, ContractsAssumption, QuotesAssumption DEF Status
<1>4. Agreed
  BY <1>3 DEF RFQInit, Agreed, Agreement, PaidAsRecorded, ChainsAgree, Pending, Filled,
              ReleasedStates, RefundedStates
<1>5. RoomForRelease
  BY <1>3 DEF RoomForRelease
<1> QED
  BY <1>2, <1>4, <1>5 DEF RFQInv

LEMMA InvKept == RFQInv /\ [RFQNext]_rfqVars => RFQInv'
<1> SUFFICES ASSUME RFQInv, [RFQNext]_rfqVars PROVE RFQInv'
  OBVIOUS
<1>1. CASE RFQNext
  BY <1>1, StepTyped, StepAgrees, RoomKept DEF RFQInv
<1>2. CASE UNCHANGED rfqVars
  BY <1>2 DEF rfqVars, RFQInv, RfqTypeOK, Agreed, Agreement, PaidAsRecorded, ChainsAgree, Pending,
              RoomForRelease, Status
<1> QED
  BY <1>1, <1>2

LEMMA InvAlways == RFQSpec => []RFQInv
  BY InvInitially, InvKept, PTL DEF RFQSpec

\* The contracts of any number of chains stay typed; no balance and no fee goes below
\* zero, whatever quotes, settings and messages.
THEOREM RfqTypeCorrect == RFQSpec => []RfqTypeOK
<1>1. RFQInv => RfqTypeOK
  BY DEF RFQInv
<1> QED
  BY <1>1, InvAlways, PTL

\* A swap is made on both chains or called off, and pays nobody twice, for any quotes
\* on any number of chains whose clocks and messages are as late as they like.
THEOREM SwapOrRefundCorrect == RFQSpec => []SwapOrRefund
<1>1. RFQInv => SwapOrRefund
  <2> SUFFICES ASSUME RFQInv, NEW q \in Quotes
               PROVE  /\ paid[q].receiver + paid[q].refund <= 1
                      /\ paid[q].provider <= paid[q].receiver
    BY DEF SwapOrRefund
  <2>1. Agreement(q)
    BY DEF RFQInv, Agreed
  <2>2. CASE CrossChain(q)
    BY <2>1, <2>2 DEF Agreement, PaidAsRecorded, ChainsAgree, Filled, ReleasedStates, RefundedStates
  <2>3. CASE ~CrossChain(q)
    BY <2>1, <2>3 DEF Agreement, PaidAsRecorded, ReleasedStates, RefundedStates
  <2> QED
    BY <2>2, <2>3
<1> QED
  BY <1>1, InvAlways, PTL

-----------------------------------------------------------------------------
(* What the contracts own. *)

\* On one chain, quotes are in the token that the contract there takes for the
\* wrapped native one, whatever the governor sets.
NativeQuotes ==
    \A q \in Quotes : ~CrossChain(q) =>
        /\ InitContract[q.src].nativeWrap \in {q.srcToken, NoToken}
        /\ \A s \in Settings : s.chain = q.src /\ s.what = "wrap" => s.value \in {q.srcToken, NoToken}

WrapIsSrcToken ==
    \A q \in Quotes : ~CrossChain(q) => rfq[q.src].nativeWrap \in {q.srcToken, NoToken}

\* What a contract owns besides its fees, and what it owes for each quote.
Net(c, t) == rfq[c].balance[t] - rfq[c].protocolFee[t]
Open(c, t) ==
    [q \in Quotes |-> IF q.src = c /\ q.srcToken = t /\ Status(c, q) = "SrcDeposited"
                      THEN q.srcAmount ELSE 0]

\* The deposits that are open, summed over all quotes instead of the open ones.
CoveredTotals ==
    /\ \A c \in Chains, t \in Tokens : /\ Net(c, t) \in Int
                                       /\ \A q \in Quotes : Open(c, t)[q] \in Int
    /\ FundsCovered <=> \A c \in Chains, t \in Tokens :
                            Net(c, t) = SumFunctionOnSet(Open(c, t), Quotes)

LEMMA ContractTyped ==
    ASSUME RfqTypeOK, NEW c \in Chains, NEW t \in Tokens
    PROVE  /\ rfq[c] \in Contract /\ rfq[c].balance \in [Tokens -> Nat]
           /\ rfq[c].protocolFee \in [Tokens -> Nat]
           /\ rfq[c].balance[t] \in Nat /\ rfq[c].protocolFee[t] \in Nat
<1>1. rfq[c] \in Contract
  BY DEF RfqTypeOK
<1> QED
  BY <1>1 DEF Contract

LEMMA CoveredSum == RfqTypeOK => CoveredTotals
<1> SUFFICES ASSUME RfqTypeOK PROVE CoveredTotals
  OBVIOUS
<1>1. ASSUME NEW c \in Chains, NEW t \in Tokens
      PROVE  /\ Net(c, t) \in Int /\ \A q \in Quotes : Open(c, t)[q] \in Int
             /\ rfq[c].balance[t] = rfq[c].protocolFee[t]
                  + SumFunctionOnSet([q \in Quotes |-> q.srcAmount],
                        {q \in Quotes : q.src = c /\ q.srcToken = t /\ Status(c, q) = "SrcDeposited"})
                <=> Net(c, t) = SumFunctionOnSet(Open(c, t), Quotes)
  <2> DEFINE f == [q \in Quotes |-> q.srcAmount]
             g == Open(c, t)
             S == {q \in Quotes : q.src = c /\ q.srcToken = t /\ Status(c, q) = "SrcDeposited"}
             b == rfq[c].balance[t]
             fee == rfq[c].protocolFee[t]
  <2>1. b \in Nat /\ fee \in Nat
    BY ContractTyped
  <2>2. \A q \in Quotes : q.srcAmount \in Nat
    BY QuotesAssumption
  <2>3. /\ \A q \in Quotes : f[q] \in Int /\ g[q] \in Int
        /\ \A q \in S : f[q] = g[q] /\ g[q] \in Int
        /\ \A q \in Quotes \ S : g[q] = 0
    BY <2>2 DEF Open
  <2>4. S \in SUBSET Quotes /\ IsFiniteSet(Quotes) /\ IsFiniteSet(S)
    BY FS_Subset, QuotesAssumption
  <2>5. Net(c, t) = b - fee
    BY DEF Net
  <2> HIDE DEF f, g, S, b, fee
  <2>6. SumFunctionOnSet(f, S) = SumFunctionOnSet(g, S)
    BY <2>3, <2>4, SumSame
  <2>7. SumFunctionOnSet(g, Quotes) = SumFunctionOnSet(g, S)
    BY <2>3, <2>4, SumNonzero
  <2>8. SumFunctionOnSet(g, Quotes) \in Int
    BY <2>3, <2>4, SumInt
  <2> DEFINE sum == SumFunctionOnSet(g, Quotes)
  <2>9. sum \in Int /\ SumFunctionOnSet(f, S) = sum
    BY <2>6, <2>7, <2>8
  <2> HIDE DEF sum
  <2>10. b = fee + sum <=> b - fee = sum
    BY <2>1, <2>9
  <2>11. b = fee + SumFunctionOnSet(f, S) <=> Net(c, t) = SumFunctionOnSet(g, Quotes)
    BY <2>5, <2>9, <2>10 DEF sum
  <2>12. Net(c, t) \in Int
    BY <2>1, <2>5
  <2> QED
    BY <2>3, <2>11, <2>12 DEF f, g, S, b, fee
<1> QED
  BY <1>1 DEF CoveredTotals, FundsCovered

LEMMA CoveredSumNext == RfqTypeOK' => CoveredTotals'
BY CoveredSum, PTL

\* The step opens or closes no deposit, and the contracts keep what they own.
FundsKept ==
    \A c \in Chains, t \in Tokens : /\ Net(c, t)' = Net(c, t)
                                    /\ \A p \in Quotes : Open(c, t)'[p] = Open(c, t)[p]

\* The step opens or closes this deposit, and its contract gains or loses it.
FundsMove(q) ==
    \A c \in Chains, t \in Tokens :
        /\ Net(c, t)' - Net(c, t) = Open(c, t)'[q] - Open(c, t)[q]
        /\ \A p \in Quotes \ {q} : Open(c, t)'[p] = Open(c, t)[p]

LEMMA FundsStep ==
    ASSUME RfqTypeOK, RfqTypeOK', FundsCovered, FundsKept \/ \E q \in Quotes : FundsMove(q)
    PROVE  FundsCovered'
<1> SUFFICES ASSUME NEW c \in Chains, NEW t \in Tokens
             PROVE  Net(c, t)' = SumFunctionOnSet(Open(c, t)', Quotes)
  BY CoveredSumNext DEF CoveredTotals
<1> DEFINE f == Open(c, t)
           g == Open(c, t)'
           was == Net(c, t)
           now == Net(c, t)'
<1>1. was = SumFunctionOnSet(f, Quotes) /\ was \in Int /\ \A q \in Quotes : f[q] \in Int
  BY CoveredSum DEF CoveredTotals
<1>2. now \in Int /\ \A q \in Quotes : g[q] \in Int
  BY CoveredSumNext DEF CoveredTotals
<1>3. IsFiniteSet(Quotes)
  BY QuotesAssumption
<1>4. CASE FundsKept
  <2>1. now = was /\ \A p \in Quotes : f[p] = g[p]
    BY <1>4 DEF FundsKept
  <2> HIDE DEF f, g, was, now
  <2>2. SumFunctionOnSet(f, Quotes) = SumFunctionOnSet(g, Quotes)
    BY <1>3, <2>1, SumSame
  <2>3. now = SumFunctionOnSet(g, Quotes)
    BY <1>1, <2>1, <2>2
  <2> QED
    BY <2>3 DEF g, now
<1>5. ASSUME NEW q \in Quotes, FundsMove(q)
      PROVE  now = SumFunctionOnSet(g, Quotes)
  <2>1. now - was = g[q] - f[q] /\ \A p \in Quotes \ {q} : f[p] = g[p]
    BY <1>5 DEF FundsMove
  <2> HIDE DEF f, g, was, now
  <2>2. \A p \in Quotes : f[p] \in Int /\ g[p] \in Int
    BY <1>1, <1>2
  <2>3. SumFunctionOnSet(g, Quotes) = SumFunctionOnSet(f, Quotes) - f[q] + g[q]
    BY <1>3, <2>1, <2>2, SumChange
  <2>4. f[q] \in Int /\ g[q] \in Int
    BY <2>2
  <2>5. SumFunctionOnSet(g, Quotes) = was - f[q] + g[q]
    BY <1>1, <2>3
  <2>6. now = was - f[q] + g[q]
    BY <1>1, <1>2, <2>1, <2>4
  <2> QED
    BY <2>5, <2>6
<1> QED
  BY <1>4, <1>5

\* A contract's tokens and fees after a deposit, a release and a refund.
LEMMA DepositedFunds ==
    ASSUME RfqTypeOK, NEW q \in Quotes, NEW s, NEW native, Deposited(q, s, native),
           NEW c \in Chains, NEW t \in Tokens
    PROVE  /\ rfq'[c].protocolFee[t] = rfq[c].protocolFee[t]
           /\ rfq'[c].balance[t] = IF c = q.src /\ t = q.srcToken
                                   THEN rfq[c].balance[t] + q.srcAmount ELSE rfq[c].balance[t]
<1>1. rfq \in [Chains -> Contract] /\ q.src \in Chains /\ q.srcToken \in Tokens
  BY QuotesAssumption DEF RfqTypeOK
<1>2. rfq[c] \in Contract /\ rfq[c].balance \in [Tokens -> Nat]
  BY ContractTyped
<1> QED
  BY <1>1, <1>2 DEF Deposited, Contract

LEMMA ReleasedFee ==
    ASSUME RfqTypeOK, NEW q \in Quotes, NEW native \in BOOLEAN,
           NEW c \in Chains, NEW t \in Tokens
    PROVE  Released(q, native)[c].protocolFee[t] =
               rfq[c].protocolFee[t]
                 + IF c = q.src /\ t = q.srcToken THEN q.srcAmount - q.srcRelease ELSE 0
<1>1. rfq \in [Chains -> Contract] /\ q.src \in Chains /\ q.srcToken \in Tokens
  BY QuotesAssumption DEF RfqTypeOK
<1>2. /\ rfq[c] \in Contract /\ rfq[c].protocolFee \in [Tokens -> Nat]
      /\ rfq[c].protocolFee[t] \in Nat
  BY ContractTyped
<1> QED
  BY <1>1, <1>2 DEF Released, Contract

LEMMA ReleasedBalance ==
    ASSUME RfqTypeOK, NEW q \in Quotes, NEW native \in BOOLEAN, NEW c \in Chains
    PROVE  Released(q, native)[c].balance =
               IF c = q.src
               THEN [rfq[c].balance EXCEPT ![ReleasedToken(q, native)] = @ - q.srcRelease]
               ELSE rfq[c].balance
<1>1. rfq \in [Chains -> Contract] /\ q.src \in Chains /\ rfq[c] \in Contract
  BY QuotesAssumption DEF RfqTypeOK
<1> QED
  BY <1>1 DEF Released, Contract

LEMMA RefundedFunds ==
    ASSUME RfqTypeOK, NEW q \in Quotes, NEW native \in BOOLEAN,
           NEW c \in Chains, NEW t \in Tokens
    PROVE  /\ Refunded(q, native)[c].protocolFee[t] = rfq[c].protocolFee[t]
           /\ Refunded(q, native)[c].balance[t] = IF c = q.src /\ t = q.srcToken
                 THEN rfq[c].balance[t] - q.srcAmount ELSE rfq[c].balance[t]
<1>1. rfq \in [Chains -> Contract] /\ q.src \in Chains /\ q.srcToken \in Tokens
  BY QuotesAssumption DEF RfqTypeOK
<1>2. rfq[c] \in Contract /\ rfq[c].balance \in [Tokens -> Nat]
  BY ContractTyped
<1> QED
  BY <1>1, <1>2 DEF Refunded, Contract

\* Receiving a message moves no tokens.
LEMMA ReceiveFunds ==
    ASSUME NEW contracts \in [Chains -> Contract], NEW q \in Quotes, NEW type,
           ReceiveMessage(q.src, Body(q, type), contracts), NEW c \in Chains
    PROVE  /\ rfq'[c].balance = contracts[c].balance
           /\ rfq'[c].protocolFee = contracts[c].protocolFee
           /\ rfq'[c].nativeWrap = contracts[c].nativeWrap
BY DEF ReceiveMessage, Contract

\* The token paid out on a release is the quote's, by the check of srcReleaseNative
\* between chains, by what the governor set on one chain.
LEMMA PaidToken ==
    ASSUME WrapIsSrcToken, NEW q \in Quotes, NEW native \in BOOLEAN, CanRelease(q, native),
           CrossChain(q) /\ native => rfq[q.src].nativeWrap = q.srcToken
    PROVE  ReleasedToken(q, native) = q.srcToken
BY DEF WrapIsSrcToken, CanRelease, AcceptsNative, ReleasedToken

LEMMA StatusMovesOpen ==
    ASSUME NEW q \in Quotes, NEW status, SetsStatus(q.src, q, status),
           NEW c \in Chains, NEW t \in Tokens
    PROVE  /\ \A p \in Quotes \ {q} : Open(c, t)'[p] = Open(c, t)[p]
           /\ Open(c, t)'[q] = IF c = q.src /\ t = q.srcToken /\ status = "SrcDeposited"
                               THEN q.srcAmount ELSE 0
<1>1. \A p \in Quotes : Status(c, p)' = IF c = q.src /\ p = q THEN status ELSE Status(c, p)
  BY DEF SetsStatus, Status
<1> QED
  BY <1>1 DEF Open

LEMMA StatusKeepsOpen ==
    ASSUME \/ KeepsStatus
           \/ \E q \in Quotes : \E status : CrossChain(q) /\ SetsStatus(q.dst, q, status),
           NEW c \in Chains, NEW t \in Tokens, NEW p \in Quotes
    PROVE  Open(c, t)'[p] = Open(c, t)[p]
<1>1. CASE KeepsStatus
  BY <1>1 DEF KeepsStatus, Status, Open
<1>2. ASSUME NEW q \in Quotes, NEW status, CrossChain(q), SetsStatus(q.dst, q, status)
      PROVE  Open(c, t)'[p] = Open(c, t)[p]
  <2>1. p.src = c => Status(c, p)' = Status(c, p)
    BY <1>2 DEF SetsStatus, Status, CrossChain
  <2> QED
    BY <2>1 DEF Open
<1> QED
  BY <1>1, <1>2

LEMMA DepositFunds ==
    ASSUME RfqTypeOK, NEW q \in Quotes, NEW s, NEW native, Deposited(q, s, native)
    PROVE  FundsMove(q)
<1>1. SetsStatus(q.src, q, "SrcDeposited") /\ Status(q.src, q) = "Null"
  <2>1. rfq \in [Chains -> Contract] /\ \A d \in Chains : rfq[d].quotes \in [Quotes -> QuoteStatus]
    BY DEF RfqTypeOK, Contract
  <2> QED
    BY <2>1 DEF Deposited, SetsStatus, Contract
<1> SUFFICES ASSUME NEW c \in Chains, NEW t \in Tokens
             PROVE  /\ Net(c, t)' - Net(c, t) = Open(c, t)'[q] - Open(c, t)[q]
                    /\ \A p \in Quotes \ {q} : Open(c, t)'[p] = Open(c, t)[p]
  BY DEF FundsMove
<1> DEFINE here == c = q.src /\ t = q.srcToken
           b == rfq[c].balance[t]
           fee == rfq[c].protocolFee[t]
<1>2. b \in Nat /\ fee \in Nat /\ q.srcAmount \in Nat
  BY ContractTyped, QuotesAssumption
<1>3. Open(c, t)'[q] = (IF here THEN q.srcAmount ELSE 0) /\ Open(c, t)[q] = 0
  BY <1>1, StatusMovesOpen DEF Open
<1>4. Net(c, t) = b - fee /\ Net(c, t)' = (IF here THEN b + q.srcAmount ELSE b) - fee
  BY DepositedFunds DEF Net
<1>5. ASSUME NEW p \in Quotes \ {q}
      PROVE  Open(c, t)'[p] = Open(c, t)[p]
  BY <1>1, StatusMovesOpen DEF Open
<1> HIDE DEF here, b, fee
<1>6. Net(c, t)' - Net(c, t) = Open(c, t)'[q] - Open(c, t)[q]
  BY <1>2, <1>3, <1>4
<1> QED
  BY <1>5, <1>6

\* A deposit that leaves the contract, to the provider and the fees or back.
LEMMA ClosedFunds ==
    ASSUME RfqTypeOK, NEW q \in Quotes, NEW status, SetsStatus(q.src, q, status),
           Status(q.src, q) = "SrcDeposited", status # "SrcDeposited",
           \A c \in Chains, t \in Tokens :
               Net(c, t)' = IF c = q.src /\ t = q.srcToken THEN Net(c, t) - q.srcAmount ELSE Net(c, t)
    PROVE  FundsMove(q)
<1> SUFFICES ASSUME NEW c \in Chains, NEW t \in Tokens
             PROVE  /\ Net(c, t)' - Net(c, t) = Open(c, t)'[q] - Open(c, t)[q]
                    /\ \A p \in Quotes \ {q} : Open(c, t)'[p] = Open(c, t)[p]
  BY DEF FundsMove
<1> DEFINE here == c = q.src /\ t = q.srcToken
<1>1. Net(c, t) \in Int /\ q.srcAmount \in Nat
  BY ContractTyped, QuotesAssumption DEF Net
<1>2. Open(c, t)'[q] = 0 /\ Open(c, t)[q] = IF here THEN q.srcAmount ELSE 0
  BY StatusMovesOpen DEF Open
<1>3. Net(c, t)' = IF here THEN Net(c, t) - q.srcAmount ELSE Net(c, t)
  OBVIOUS
<1>4. ASSUME NEW p \in Quotes \ {q}
      PROVE  Open(c, t)'[p] = Open(c, t)[p]
  BY StatusMovesOpen DEF Open
<1> HIDE DEF here
<1>5. Net(c, t)' - Net(c, t) = Open(c, t)'[q] - Open(c, t)[q]
  BY <1>1, <1>2, <1>3
<1> QED
  BY <1>4, <1>5

\* Releasing takes the deposit out: the provider's share is paid, the rest is a fee.
LEMMA ReleaseFunds ==
    ASSUME RfqTypeOK, NEW q \in Quotes, NEW native \in BOOLEAN,
           ReleasedToken(q, native) = q.srcToken, Status(q.src, q) = "SrcDeposited",
           \A c \in Chains : /\ rfq'[c].quotes = Released(q, native)[c].quotes
                             /\ rfq'[c].balance = Released(q, native)[c].balance
                             /\ rfq'[c].protocolFee = Released(q, native)[c].protocolFee
    PROVE  FundsMove(q)
<1> DEFINE status == IF native THEN "SrcReleasedNative" ELSE "SrcReleased"
<1>1. SetsStatus(q.src, q, status) /\ status # "SrcDeposited"
  BY ReleasedEffect DEF SetsStatus
<1>2. ASSUME NEW c \in Chains, NEW t \in Tokens
      PROVE  Net(c, t)' = IF c = q.src /\ t = q.srcToken THEN Net(c, t) - q.srcAmount ELSE Net(c, t)
  <2> DEFINE here == c = q.src /\ t = q.srcToken
             b == rfq[c].balance[t]
             fee == rfq[c].protocolFee[t]
  <2>1. /\ b \in Nat /\ fee \in Nat /\ q.srcAmount \in Nat /\ q.srcRelease \in Nat
        /\ rfq[c].balance \in [Tokens -> Nat]
    BY ContractTyped, QuotesAssumption
  <2>2. rfq'[c].protocolFee[t] = IF here THEN fee + (q.srcAmount - q.srcRelease) ELSE fee
    <3>1. rfq'[c].protocolFee = Released(q, native)[c].protocolFee
      OBVIOUS
    <3>2. Released(q, native)[c].protocolFee[t] =
             fee + IF here THEN q.srcAmount - q.srcRelease ELSE 0
      BY ReleasedFee
    <3> HIDE DEF fee, here
    <3> QED
      BY <2>1, <3>1, <3>2
  <2>3. rfq'[c].balance[t] = IF here THEN b - q.srcRelease ELSE b
    <3>1. rfq'[c].balance = IF c = q.src THEN [rfq[c].balance EXCEPT ![q.srcToken] = @ - q.srcRelease]
                            ELSE rfq[c].balance
      BY ReleasedBalance
    <3> QED
      BY <2>1, <3>1
  <2>4. Net(c, t) = b - fee /\ Net(c, t)' = rfq'[c].balance[t] - rfq'[c].protocolFee[t]
    BY DEF Net
  <2> HIDE DEF here, b, fee
  <2>5. Net(c, t)' = IF here THEN Net(c, t) - q.srcAmount ELSE Net(c, t)
    BY <2>1, <2>2, <2>3, <2>4
  <2> QED
    BY <2>5 DEF here
<1> QED
  BY <1>1, <1>2, ClosedFunds

LEMMA RefundFunds ==
    ASSUME RfqTypeOK, NEW q \in Quotes, NEW native \in BOOLEAN, Status(q.src, q) = "SrcDeposited",
           \A c \in Chains : /\ rfq'[c].quotes = Refunded(q, native)[c].quotes
                             /\ rfq'[c].balance = Refunded(q, native)[c].balance
                             /\ rfq'[c].protocolFee = Refunded(q, native)[c].protocolFee
    PROVE  FundsMove(q)
<1> DEFINE status == IF native THEN "SrcRefundedNative" ELSE "SrcRefunded"
<1>1. SetsStatus(q.src, q, status) /\ status # "SrcDeposited"
  BY RefundedEffect DEF SetsStatus
<1>2. ASSUME NEW c \in Chains, NEW t \in Tokens
      PROVE  Net(c, t)' = IF c = q.src /\ t = q.srcToken THEN Net(c, t) - q.srcAmount ELSE Net(c, t)
  <2> DEFINE here == c = q.src /\ t = q.srcToken
             b == rfq[c].balance[t]
             fee == rfq[c].protocolFee[t]
  <2>1. b \in Nat /\ fee \in Nat /\ q.srcAmount \in Nat
    BY ContractTyped, QuotesAssumption
  <2>2. rfq'[c].protocolFee[t] = fee /\ rfq'[c].balance[t] = IF here THEN b - q.srcAmount ELSE b
    BY RefundedFunds
  <2>3. Net(c, t) = b - fee /\ Net(c, t)' = rfq'[c].balance[t] - rfq'[c].protocolFee[t]
    BY DEF Net
  <2> HIDE DEF here, b, fee
  <2>4. Net(c, t)' = IF here THEN Net(c, t) - q.srcAmount ELSE Net(c, t)
    BY <2>1, <2>2, <2>3
  <2> QED
    BY <2>4 DEF here
<1> QED
  BY <1>1, <1>2, ClosedFunds

\* Collecting fees takes them out of the balance as well.
LEMMA CollectFunds ==
    ASSUME RfqTypeOK, NEW d \in Chains, NEW u \in Tokens, CollectFee(d, u),
           NEW c \in Chains, NEW t \in Tokens
    PROVE  Net(c, t)' = Net(c, t)
<1>1. rfq \in [Chains -> Contract]
  BY DEF RfqTypeOK
<1>2. /\ rfq[c] \in Contract /\ rfq[c].balance \in [Tokens -> Nat]
      /\ rfq[c].protocolFee \in [Tokens -> Nat]
      /\ rfq[c].balance[t] \in Nat /\ rfq[c].protocolFee[t] \in Nat
  BY ContractTyped
<1>3. rfq'[c].protocolFee[t] = IF c = d /\ t = u THEN 0 ELSE rfq[c].protocolFee[t]
  BY <1>1, <1>2 DEF CollectFee, Contract
<1>4. rfq'[c].balance[t] = IF c = d /\ t = u THEN rfq[c].balance[t] - rfq[c].protocolFee[t]
                           ELSE rfq[c].balance[t]
  BY <1>1, <1>2 DEF CollectFee, Contract
<1> QED
  BY <1>2, <1>3, <1>4 DEF Net

\* No setting, message or clock moves tokens.
LEMMA OthersKeepFunds ==
    ASSUME RfqTypeOK, NEW c \in Chains,
           \/ \E q \in Quotes : \E status : rfq' = [rfq EXCEPT ![q.dst].quotes[q] = status]
           \/ \E m \in sent : ExecuteMessage(m)
           \/ \E a \in AllowedSigners : RegisterAllowedSigner(a)
           \/ \E s \in Settings : Configure(s)
           \/ rfq' = rfq
    PROVE  rfq'[c].balance = rfq[c].balance /\ rfq'[c].protocolFee = rfq[c].protocolFee
<1>1. rfq \in [Chains -> Contract] /\ rfq[c] \in Contract
  BY DEF RfqTypeOK
<1>2. CASE \E q \in Quotes : \E status : rfq' = [rfq EXCEPT ![q.dst].quotes[q] = status]
  BY <1>1, <1>2 DEF Contract
<1>3. CASE \E m \in sent : ExecuteMessage(m)
  BY <1>1, <1>3 DEF ExecuteMessage, Contract
<1>4. CASE \E a \in AllowedSigners : RegisterAllowedSigner(a)
  BY <1>1, <1>4 DEF RegisterAllowedSigner, Contract
<1>5. ASSUME NEW s \in Settings, Configure(s)
      PROVE  rfq'[c].balance = rfq[c].balance /\ rfq'[c].protocolFee = rfq[c].protocolFee
  <2>1. rfq[s.chain] \in Contract /\ s.chain \in Chains
    BY <1>1, ContractsAssumption
  <2>2. /\ Configured(rfq[s.chain], s).balance = rfq[s.chain].balance
        /\ Configured(rfq[s.chain], s).protocolFee = rfq[s.chain].protocolFee
    BY <2>1, ContractsAssumption DEF Configured, Contract
  <2>3. rfq' = [rfq EXCEPT ![s.chain] = Configured(rfq[s.chain], s)]
    BY <1>5 DEF Configure
  <2> QED
    BY <1>1, <2>1, <2>2, <2>3
<1> QED
  BY <1>2, <1>3, <1>4, <1>5

LEMMA RequestFunds ==
    ASSUME RfqTypeOK, NEW q \in Quotes, NEW status, CrossChain(q),
           rfq' = [rfq EXCEPT ![q.dst].quotes[q] = status]
    PROVE  FundsKept
<1>1. SetsStatus(q.dst, q, status)
  BY StatusEffect, QuotesAssumption
<1>2. ASSUME NEW c \in Chains, NEW t \in Tokens
      PROVE  Net(c, t)' = Net(c, t)
  BY OthersKeepFunds DEF Net
<1>3. ASSUME NEW c \in Chains, NEW t \in Tokens, NEW p \in Quotes
      PROVE  Open(c, t)'[p] = Open(c, t)[p]
  BY <1>1, StatusKeepsOpen
<1> QED
  BY <1>2, <1>3 DEF FundsKept

\* The step is one of the settings, messages or clocks, or collects fees.
LEMMA OtherFunds ==
    ASSUME RfqTypeOK, KeepsStatus,
           \/ \A c \in Chains : rfq'[c].balance = rfq[c].balance /\ rfq'[c].protocolFee = rfq[c].protocolFee
           \/ \E c \in Chains, t \in Tokens : CollectFee(c, t)
    PROVE  FundsKept
<1>1. ASSUME NEW c \in Chains, NEW t \in Tokens
      PROVE  Net(c, t)' = Net(c, t)
  BY CollectFunds DEF Net
<1>2. ASSUME NEW c \in Chains, NEW t \in Tokens, NEW p \in Quotes
      PROVE  Open(c, t)'[p] = Open(c, t)[p]
  BY StatusKeepsOpen
<1> QED
  BY <1>1, <1>2 DEF FundsKept

LEMMA StepFunds ==
    ASSUME RFQInv, WrapIsSrcToken, [RFQNext]_rfqVars
    PROVE  FundsKept \/ \E q \in Quotes : FundsMove(q)
<1>1. RfqTypeOK /\ RoomForRelease
  BY DEF RFQInv
<1>2. ASSUME NEW q \in Quotes, NEW s, NEW native, SrcDeposit(q, s, native) PROVE FundsMove(q)
  BY <1>1, <1>2, DepositFunds DEF SrcDeposit
<1>3. ASSUME NEW q \in Quotes, NEW way \in Ways, DstTransfer(q, way) PROVE FundsKept
  <2>1. CrossChain(q) /\ \E status : rfq' = [rfq EXCEPT ![q.dst].quotes[q] = status]
    BY <1>3 DEF DstTransfer, SendMessage, CrossChain
  <2> QED
    BY <1>1, <2>1, RequestFunds
<1>4. ASSUME NEW q \in Quotes, RequestRefund(q) PROVE FundsKept
  <2>1. CrossChain(q) /\ rfq' = [rfq EXCEPT ![q.dst].quotes[q] = "DstRefundInitiated"]
    BY <1>4 DEF RequestRefund, SendMessage, CrossChain
  <2> QED
    BY <1>1, <2>1, RequestFunds
<1>5. ASSUME NEW q \in Quotes, NEW way \in Ways, NEW native \in BOOLEAN,
             SameChainTransfer(q, way, native)
      PROVE  FundsMove(q)
  <2>1. /\ ~CrossChain(q) /\ CanRelease(q, native) /\ rfq' = Released(q, native)
        /\ Status(q.src, q) = "SrcDeposited"
    BY <1>5 DEF SameChainTransfer, DstTransferCheck, CrossChain
  <2>2. ReleasedToken(q, native) = q.srcToken
    BY <2>1, PaidToken
  <2> QED
    BY <1>1, <2>1, <2>2, ReleaseFunds
<1>6. ASSUME NEW q \in Quotes, NEW native \in BOOLEAN, SrcRelease(q, native) PROVE FundsMove(q)
  <2>1. /\ CanRelease(q, native) /\ Status(q.src, q) = "SrcDeposited"
        /\ native => rfq[q.src].nativeWrap = q.srcToken
        /\ ReceiveMessage(q.src, Body(q, "Release"), Released(q, native))
    BY <1>6 DEF SrcRelease
  <2>2. Released(q, native) \in [Chains -> Contract]
    BY <1>1, <2>1, ReleaseTyped DEF RoomForRelease
  <2>3. \A c \in Chains : /\ rfq'[c].balance = Released(q, native)[c].balance
                          /\ rfq'[c].protocolFee = Released(q, native)[c].protocolFee
    BY <2>1, <2>2, ReceiveFunds
  <2>4. \A c \in Chains : rfq'[c].quotes = Released(q, native)[c].quotes
    BY <1>1, <2>1, <2>2, ReleasedEffect, ReceiveEffect
  <2>5. ReleasedToken(q, native) = q.srcToken
    BY <2>1, PaidToken
  <2> QED
    BY <1>1, <2>1, <2>3, <2>4, <2>5, ReleaseFunds
<1>7. ASSUME NEW q \in Quotes, NEW native \in BOOLEAN, ExecuteRefund(q, native) PROVE FundsMove(q)
  <2>1. /\ Status(q.src, q) = "SrcDeposited" /\ q.srcAmount <= rfq[q.src].balance[q.srcToken]
        /\ \/ ReceiveMessage(q.src, Body(q, "Refund"), Refunded(q, native))
           \/ rfq' = Refunded(q, native)
    BY <1>7 DEF ExecuteRefund
  <2>2. Refunded(q, native) \in [Chains -> Contract]
    BY <1>1, <2>1, RefundTyped
  <2>3. \A c \in Chains : /\ rfq'[c].balance = Refunded(q, native)[c].balance
                          /\ rfq'[c].protocolFee = Refunded(q, native)[c].protocolFee
    BY <2>1, <2>2, ReceiveFunds
  <2>4. \A c \in Chains : rfq'[c].quotes = Refunded(q, native)[c].quotes
    BY <1>1, <2>1, <2>2, RefundedEffect, ReceiveEffect
  <2> QED
    BY <1>1, <2>1, <2>3, <2>4, RefundFunds
<1>8. ASSUME NEW m \in sent, ExecuteMessage(m) PROVE FundsKept
  <2>1. \A d \in Chains : rfq'[d].quotes = rfq[d].quotes
    BY <1>1, <1>8 DEF ExecuteMessage, RfqTypeOK, Contract
  <2> QED
    BY <1>1, <1>8, <2>1, OthersKeepFunds, OtherFunds DEF KeepsStatus
<1>9. ASSUME \/ \E a \in AllowedSigners : RegisterAllowedSigner(a)
             \/ \E s \in Settings : Configure(s)
      PROVE  FundsKept
  BY <1>1, <1>9, OthersLeaveAlone, OthersKeepFunds, OtherFunds
<1>10. ASSUME NEW c \in Chains, NEW t \in Tokens, CollectFee(c, t) PROVE FundsKept
  BY <1>1, <1>10, OthersLeaveAlone, OtherFunds
<1>11. CASE rfq' = rfq
  BY <1>1, <1>11, OtherFunds DEF KeepsStatus
<1> QED
  BY <1>2, <1>3, <1>4, <1>5, <1>6, <1>7, <1>8, <1>9, <1>10, <1>11 DEF RFQNext, Tick, rfqVars

\* Only a governor sets what is taken for the wrapped native token.
LEMMA WrapStep ==
    ASSUME RFQInv, NativeQuotes, WrapIsSrcToken, [RFQNext]_rfqVars
    PROVE  WrapIsSrcToken'
<1>1. RfqTypeOK /\ RoomForRelease /\ rfq \in [Chains -> Contract]
  BY DEF RFQInv, RfqTypeOK
<1>2. SUFFICES ASSUME NEW p \in Quotes, ~CrossChain(p), rfq'[p.src].nativeWrap # rfq[p.src].nativeWrap
               PROVE  rfq'[p.src].nativeWrap \in {p.srcToken, NoToken}
  BY DEF WrapIsSrcToken, CrossChain
<1>3. /\ p.src \in Chains /\ rfq[p.src] \in Contract
      /\ \A q \in Quotes : q.src \in Chains /\ q.dst \in Chains
  BY <1>1, QuotesAssumption
<1>4. /\ \A q \in Quotes, native \in BOOLEAN :
            /\ Released(q, native)[p.src].nativeWrap = rfq[p.src].nativeWrap
            /\ Refunded(q, native)[p.src].nativeWrap = rfq[p.src].nativeWrap
  BY <1>1, <1>3 DEF Released, Refunded, Contract
<1>5. ASSUME NEW s \in Settings, Configure(s)
      PROVE  rfq'[p.src].nativeWrap \in {p.srcToken, NoToken}
  <2>1. rfq' = [rfq EXCEPT ![s.chain] = Configured(rfq[s.chain], s)] /\ s.chain \in Chains
    BY <1>5, ContractsAssumption DEF Configure
  <2>2. s.chain = p.src
    BY <1>1, <1>2, <2>1, <1>3
  <2>3. rfq'[p.src] = Configured(rfq[p.src], s)
    BY <1>1, <1>3, <2>1, <2>2
  <2>4. s.what # "wrap" => Configured(rfq[p.src], s).nativeWrap = rfq[p.src].nativeWrap
    BY <1>3, ContractsAssumption DEF Configured, Contract
  <2>5. s.what = "wrap" => Configured(rfq[p.src], s).nativeWrap = s.value
    BY <1>3 DEF Configured, Contract
  <2> QED
    BY <1>2, <2>2, <2>3, <2>4, <2>5 DEF NativeQuotes
<1>6. ASSUME NEW q \in Quotes, NEW native \in BOOLEAN, SrcRelease(q, native) PROVE FALSE
  <2>1. Released(q, native) \in [Chains -> Contract]
    BY <1>1, <1>6, ReleaseTyped DEF SrcRelease, RoomForRelease
  <2> QED
    BY <1>2, <1>3, <1>4, <1>6, <2>1, ReceiveFunds DEF SrcRelease
<1>7. ASSUME NEW q \in Quotes, NEW native \in BOOLEAN, ExecuteRefund(q, native) PROVE FALSE
  <2>1. Refunded(q, native) \in [Chains -> Contract]
    BY <1>1, <1>7, RefundTyped DEF ExecuteRefund
  <2> QED
    BY <1>2, <1>3, <1>4, <1>7, <2>1, ReceiveFunds DEF ExecuteRefund
<1>8. ASSUME NEW q \in Quotes, NEW s, NEW native, SrcDeposit(q, s, native) PROVE FALSE
  BY <1>1, <1>2, <1>3, <1>8 DEF SrcDeposit, Deposited, Contract
<1>9. ASSUME NEW q \in Quotes, NEW way, DstTransfer(q, way) \/ RequestRefund(q) PROVE FALSE
  <2>1. PICK status : rfq' = [rfq EXCEPT ![q.dst].quotes[q] = status]
    BY <1>9 DEF DstTransfer, RequestRefund
  <2> QED
    BY <1>1, <1>2, <1>3, <2>1 DEF Contract
<1>10. ASSUME NEW q \in Quotes, NEW way, NEW native \in BOOLEAN, SameChainTransfer(q, way, native)
       PROVE  FALSE
  BY <1>2, <1>4, <1>10 DEF SameChainTransfer
<1>11. ASSUME NEW m \in sent, ExecuteMessage(m) PROVE FALSE
  BY <1>1, <1>2, <1>3, <1>11 DEF ExecuteMessage, Contract
<1>12. ASSUME NEW c \in Chains, NEW t \in Tokens, CollectFee(c, t) PROVE FALSE
  BY <1>1, <1>2, <1>3, <1>12 DEF CollectFee, Contract
<1>13. ASSUME NEW a \in AllowedSigners, RegisterAllowedSigner(a) PROVE FALSE
  BY <1>1, <1>2, <1>3, <1>13 DEF RegisterAllowedSigner, Contract
<1>14. rfq' # rfq
  BY <1>2
<1> QED
  BY <1>5, <1>6, <1>7, <1>8, <1>9, <1>10, <1>11, <1>12, <1>13, <1>14 DEF RFQNext, Tick, rfqVars

\* What the provider is paid is its share of the quote, in the quote's token.
LEMMA PaysStep ==
    ASSUME RFQInv, WrapIsSrcToken, [RFQNext]_rfqVars
    PROVE  PaysInSrcToken
<1> SUFFICES ASSUME NEW p \in Quotes, paid'[p].provider > paid[p].provider
             PROVE  rfq'[p.src].balance = [rfq[p.src].balance EXCEPT ![p.srcToken] = @ - p.srcRelease]
  BY DEF PaysInSrcToken
<1>1. /\ RfqTypeOK /\ RoomForRelease /\ p.src \in Chains /\ paid \in [Quotes -> Counts]
      /\ paid[p].provider \in Nat
  BY QuotesAssumption DEF RFQInv, RfqTypeOK, Counts
<1>2. paid' # paid
  BY <1>1
<1>3. ASSUME NEW q \in Quotes, NEW native \in BOOLEAN, ReleasedToken(q, native) = q.srcToken, p = q,
             rfq'[p.src].balance = Released(q, native)[p.src].balance
      PROVE  rfq'[p.src].balance = [rfq[p.src].balance EXCEPT ![p.srcToken] = @ - p.srcRelease]
  BY <1>1, <1>3, ReleasedBalance
<1>4. ASSUME NEW q \in Quotes, NEW way \in Ways, NEW native \in BOOLEAN,
             SameChainTransfer(q, way, native)
      PROVE  rfq'[p.src].balance = [rfq[p.src].balance EXCEPT ![p.srcToken] = @ - p.srcRelease]
  <2>1. /\ ~CrossChain(q) /\ CanRelease(q, native) /\ rfq' = Released(q, native)
        /\ paid' = [paid EXCEPT ![q].receiver = @ + 1, ![q].provider = @ + 1]
    BY <1>4 DEF SameChainTransfer
  <2>2. p = q
    BY <1>1, <2>1
  <2> QED
    BY <1>3, <2>1, <2>2, PaidToken
<1>5. ASSUME NEW q \in Quotes, NEW native \in BOOLEAN, SrcRelease(q, native)
      PROVE  rfq'[p.src].balance = [rfq[p.src].balance EXCEPT ![p.srcToken] = @ - p.srcRelease]
  <2>1. /\ CanRelease(q, native) /\ Status(q.src, q) = "SrcDeposited"
        /\ native => rfq[q.src].nativeWrap = q.srcToken
        /\ ReceiveMessage(q.src, Body(q, "Release"), Released(q, native))
        /\ paid' = [paid EXCEPT ![q].provider = @ + 1]
    BY <1>5 DEF SrcRelease
  <2>2. Released(q, native) \in [Chains -> Contract]
    BY <1>1, <2>1, ReleaseTyped DEF RoomForRelease
  <2>3. p = q
    BY <1>1, <2>1
  <2>4. rfq'[p.src].balance = Released(q, native)[p.src].balance
    BY <1>1, <2>1, <2>2, ReceiveFunds
  <2> QED
    BY <1>3, <2>1, <2>3, <2>4, PaidToken
<1>6. ASSUME NEW q \in Quotes, NEW way, DstTransfer(q, way)
      PROVE  FALSE
  <2>1. paid' = [paid EXCEPT ![q].receiver = @ + 1]
    BY <1>6 DEF DstTransfer
  <2>2. paid'[p].provider = paid[p].provider
    BY <1>1, <2>1 DEF Counts
  <2> QED
    BY <1>1, <2>2
<1>7. ASSUME NEW q \in Quotes, NEW native, ExecuteRefund(q, native)
      PROVE  FALSE
  <2>1. paid' = [paid EXCEPT ![q].refund = @ + 1]
    BY <1>7 DEF ExecuteRefund
  <2>2. paid'[p].provider = paid[p].provider
    BY <1>1, <2>1 DEF Counts
  <2> QED
    BY <1>1, <2>2
<1> QED
  BY <1>2, <1>4, <1>5, <1>6, <1>7
     DEF RFQNext, SrcDeposit, Deposited, RequestRefund, ExecuteMessage, CollectFee,
         RegisterAllowedSigner, Configure, Tick, rfqVars

LEMMA FundsInitially ==
    ASSUME NativeQuotes, RFQInit
    PROVE  WrapIsSrcToken /\ FundsCovered
<1>1. rfq = InitContract /\ RfqTypeOK
  BY InvInitially, ContractsAssumption DEF RFQInit, RFQInv
<1>2. WrapIsSrcToken
  BY <1>1 DEF NativeQuotes, WrapIsSrcToken
<1>3. ASSUME NEW c \in Chains, NEW t \in Tokens
      PROVE  Net(c, t) = SumFunctionOnSet(Open(c, t), Quotes)
  <2> DEFINE f == Open(c, t)
  <2>1. Net(c, t) = 0
    BY <1>1, ContractsAssumption DEF Net
  <2>2. \A q \in Quotes : f[q] = 0
    BY <1>1, ContractsAssumption DEF Open, Status
  <2> HIDE DEF f
  <2>3. SumFunctionOnSet(f, Quotes) = 0
    BY <2>2, QuotesAssumption, SumZero
  <2> QED
    BY <2>1, <2>3 DEF f
<1>4. FundsCovered
  BY <1>1, <1>3, CoveredSum DEF CoveredTotals
<1> QED
  BY <1>2, <1>4

\* Each contract owns the open deposits and the fees of each token and nothing else,
\* as long as swaps on one chain are quoted in the token taken for the wrapped native
\* one: releasing a native deposit there takes it from the wrapped native tokens.
THEOREM FundsCoveredCorrect ==
    ASSUME NativeQuotes
    PROVE  RFQSpec => []FundsCovered
<1>1. RFQInit => WrapIsSrcToken /\ FundsCovered
  BY FundsInitially
<1>2. RFQInv /\ RFQInv' /\ WrapIsSrcToken /\ FundsCovered /\ [RFQNext]_rfqVars
        => WrapIsSrcToken' /\ FundsCovered'
  BY StepFunds, FundsStep, WrapStep DEF RFQInv
<1> QED
  BY <1>1, <1>2, InvAlways, PTL DEF RFQSpec

\* Under the same condition a release pays the provider its share of the quote in the
\* quote's source token and moves no other token, as the contract announces.
THEOREM ReleaseInSrcTokenCorrect ==
    ASSUME NativeQuotes
    PROVE  RFQSpec => ReleaseInSrcToken
<1>1. RFQInit => WrapIsSrcToken
  BY FundsInitially
<1>2. RFQInv /\ WrapIsSrcToken /\ [RFQNext]_rfqVars => WrapIsSrcToken' /\ [PaysInSrcToken]_rfqVars
  BY WrapStep, PaysStep
<1> QED
  BY <1>1, <1>2, InvAlways, PTL DEF RFQSpec, ReleaseInSrcToken

=============================================================================
