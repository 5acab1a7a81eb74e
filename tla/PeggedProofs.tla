---------------------------- MODULE PeggedProofs ----------------------------
(***************************************************************************)
(* Theorems about the pegged token, for every value of the constants of    *)
(* Pegged: the vault backs the tokens in circulation and under way, the    *)
(* token's books cover its holders, supplies is exact, and the vault       *)
(* implements Transfers.                                                   *)
(***************************************************************************)
EXTENDS Pegged, SumTheorems

Amount == [t \in Moves |-> t.amount]
MintAmount == [q \in MintRequest |-> q.ref.amount]

PegTyped ==
    /\ now \in Nat /\ adjusted \in Int
    /\ vault \in Contract /\ peg \in Contract
    /\ PegTypeOK
    /\ \A b \in {"peg", "other"} : bridges[b].cap > 0

\* Only deposits and burns on record are signed for, once each, and only what is
\* signed is on record.
SignedOnce ==
    /\ \A q \in signed : q.ref \in vault.records \cup peg.records
    /\ \A p, q \in signed : p.ref = q.ref => p = q
    /\ \A q \in Request : q \in vault.records \cup peg.records => q \in signed

\* What waits is on record and will pay what was signed.
QueueOf(c) ==
    \A q \in Request : DelayedAt(c, q) =>
        /\ q \in c.records
        /\ c.delays.delayedTransfers[q].receiver = q.account
        /\ c.delays.delayedTransfers[q].amount = q.ref.amount

PegInv ==
    /\ PegTyped /\ SignedOnce /\ QueueOf(vault) /\ QueueOf(peg)
    /\ Backing /\ HoldersBacked /\ SuppliesExact

-----------------------------------------------------------------------------
(* The requests *)

LEMMA RequestParts ==
    /\ \A q \in Request : /\ q.ref \in Moves /\ q.account \in Accounts
                          /\ q.ref.amount \in Nat /\ q \notin Moves
    /\ \A q \in MintRequest : q.kind = "mint"
    /\ \A q \in WithdrawRequest : q.kind = "withdraw"
    /\ MintRequest \cap WithdrawRequest = {}
<1>1. \A q \in MintRequest : q.kind = "mint" /\ q.ref \in Moves /\ q.account \in Accounts
  BY PeggedAssumption DEF MintRequest, Moves
<1>2. \A q \in WithdrawRequest : q.kind = "withdraw" /\ q.ref \in Moves /\ q.account \in Accounts
  BY PeggedAssumption DEF WithdrawRequest, Moves
<1>3. \A t \in Moves : t.amount \in Nat
  BY PeggedAssumption
<1> QED
  BY <1>1, <1>2, <1>3, PeggedAssumption DEF Request

LEMMA RequestsFinite == IsFiniteSet(Moves) /\ IsFiniteSet(MintRequest)
<1> DEFINE regular == {[kind |-> "mint", ref |-> d, account |-> d.toAccount] : d \in Deposits}
           refunds == {[kind |-> "mint", ref |-> b, account |-> b.account] : b \in Burns}
           f == [d \in Deposits |-> [kind |-> "mint", ref |-> d, account |-> d.toAccount]]
           g == [b \in Burns |-> [kind |-> "mint", ref |-> b, account |-> b.account]]
<1>1. IsFiniteSet(Deposits) /\ IsFiniteSet(Burns)
  BY PeggedAssumption
<1>2. f \in Surjection(Deposits, regular) /\ g \in Surjection(Burns, refunds)
  BY DEF Surjection
<1>3. IsFiniteSet(regular) /\ IsFiniteSet(refunds)
  <2> HIDE DEF f, g, regular, refunds
  <2> QED BY <1>1, <1>2, FS_Surjection
<1>4. MintRequest = regular \cup refunds
  BY DEF MintRequest
<1> QED
  <2> HIDE DEF f, g, regular, refunds
  <2> QED BY <1>1, <1>3, <1>4, FS_Union DEF Moves

-----------------------------------------------------------------------------
(* The contracts *)

\* The setters touch neither the records nor the queue nor the amounts.
LEMMA ConfiguredEffect ==
    ASSUME NEW c \in Contract, NEW s \in Settings
    PROVE  /\ Configured(c, s) \in Contract
           /\ Configured(c, s).records = c.records
           /\ Configured(c, s).balance = c.balance
           /\ Configured(c, s).supplies = c.supplies
           /\ Configured(c, s).delays.delayedTransfers = c.delays.delayedTransfers
<1>1. \/ s.what \in {"paused", "native"} /\ s.value \in BOOLEAN
      \/ s.what \in {"gas", "min", "max", "length", "cap", "period", "threshold"} /\ s.value \in Nat
  BY PeggedAssumption
<1>2. CASE s.what \in {"paused", "native"}
  BY <1>1, <1>2 DEF Configured, Contract
<1>3. CASE s.what \in {"gas", "min", "max"}
  BY <1>1, <1>3 DEF Configured, Contract
<1>4. CASE s.what = "length" \/ s.what = "period"
  BY <1>1, <1>4 DEF Configured, Contract
<1>5. CASE s.what = "cap"
  <2> DEFINE caps == [c.volume.epochVolumeCaps EXCEPT ![Token] = s.value]
             volume == [c.volume EXCEPT !.epochVolumeCaps = caps]
  <2>1. Configured(c, s) = [c EXCEPT !.volume.epochVolumeCaps[Token] = s.value]
    BY <1>5 DEF Configured
  <2>2. Configured(c, s) = [c EXCEPT !.volume = volume]
    BY <2>1
  <2>3. caps \in [{Token} -> Nat]
    BY <1>1, <1>5 DEF Contract
  <2> HIDE DEF caps
  <2>4. volume \in [epochLength : Nat, epochVolumes : [{Token} -> Nat],
                    epochVolumeCaps : [{Token} -> Nat], lastOpTimestamps : [{Token} -> Nat]]
    BY <2>3 DEF Contract
  <2> HIDE DEF volume
  <2> QED
    BY <2>2, <2>4 DEF Contract
<1>6. CASE s.what = "threshold"
  <2> DEFINE thresholds == [c.delays.delayThresholds EXCEPT ![Token] = s.value]
             delays == [c.delays EXCEPT !.delayThresholds = thresholds]
  <2>1. Configured(c, s) = [c EXCEPT !.delays.delayThresholds[Token] = s.value]
    BY <1>6 DEF Configured
  <2>2. Configured(c, s) = [c EXCEPT !.delays = delays]
    BY <2>1
  <2>3. thresholds \in [{Token} -> Nat]
    BY <1>1, <1>6 DEF Contract
  <2> HIDE DEF thresholds
  <2>4. /\ delays \in [delayPeriod : Nat, delayThresholds : [{Token} -> Nat],
                       delayedTransfers : [Request -> {NoTransfer} \cup DelayedEntry]]
        /\ delays.delayedTransfers = c.delays.delayedTransfers
    BY <2>3 DEF Contract
  <2> HIDE DEF delays
  <2> QED
    BY <2>2, <2>4 DEF Contract
<1> QED
  BY <1>1, <1>2, <1>3, <1>4, <1>5, <1>6

\* The volume record keeps its shape.
LEMMA VolumeTyped ==
    ASSUME NEW c \in Contract, NEW amount \in Nat, now \in Nat
    PROVE  UpdateVolume(c.volume, Token, amount, now) \in
             [epochLength : Nat, epochVolumes : [{Token} -> Nat],
              epochVolumeCaps : [{Token} -> Nat], lastOpTimestamps : [{Token} -> Nat]]
<1> DEFINE v == c.volume
           after == VolumeAfter(v, Token, amount, now)
           volumes == [v.epochVolumes EXCEPT ![Token] = after]
           times == [v.lastOpTimestamps EXCEPT ![Token] = now]
<1>1. UpdateVolume(v, Token, amount, now) =
        IF VolumeLimited(v, Token)
        THEN [v EXCEPT !.epochVolumes = volumes, !.lastOpTimestamps = times] ELSE v
  BY DEF UpdateVolume
<1>2. after \in Nat
  BY DEF VolumeAfter, Contract
<1>3. volumes \in [{Token} -> Nat] /\ times \in [{Token} -> Nat]
  BY <1>2 DEF Contract
<1> HIDE DEF volumes, times
<1> QED
  BY <1>1, <1>3 DEF Contract

\* An accepted request is on record, and in the queue if it is large.
LEMMA AcceptedEffect ==
    ASSUME NEW c \in Contract, NEW q \in Request, now \in Nat
    PROVE  LET after == Accepted(c, q)
               entry == [receiver |-> q.account, token |-> Token, amount |-> q.ref.amount,
                         timestamp |-> now]
           IN  /\ after \in Contract
               /\ after.records = c.records \cup {q}
               /\ after.balance = c.balance /\ after.supplies = c.supplies
               /\ after.min = c.min
               /\ after.delays.delayedTransfers =
                    IF IsLarge(c.delays, Token, q.ref.amount)
                    THEN [c.delays.delayedTransfers EXCEPT ![q] = entry]
                    ELSE c.delays.delayedTransfers
<1> DEFINE entry == [receiver |-> q.account, token |-> Token, amount |-> q.ref.amount,
                     timestamp |-> now]
           queue == [c.delays.delayedTransfers EXCEPT ![q] = entry]
           delays == [c.delays EXCEPT !.delayedTransfers = queue]
           volume == UpdateVolume(c.volume, Token, q.ref.amount, now)
           records == c.records \cup {q}
<1>1. q.account \in Accounts /\ q.ref.amount \in Nat
  BY RequestParts
<1>2. volume \in [epochLength : Nat, epochVolumes : [{Token} -> Nat],
                  epochVolumeCaps : [{Token} -> Nat], lastOpTimestamps : [{Token} -> Nat]]
  BY <1>1, VolumeTyped
<1>3. entry \in DelayedEntry
  BY <1>1 DEF DelayedEntry
<1>4. queue \in [Request -> {NoTransfer} \cup DelayedEntry]
  BY <1>3 DEF Contract
<1>5. Accepted(c, q) = [c EXCEPT !.records = records, !.volume = volume,
                          !.delays = IF IsLarge(c.delays, Token, q.ref.amount)
                                     THEN delays ELSE c.delays]
  BY DEF Accepted, AddDelayed
<1> HIDE DEF entry, volume, queue
<1>6. /\ delays \in [delayPeriod : Nat, delayThresholds : [{Token} -> Nat],
                      delayedTransfers : [Request -> {NoTransfer} \cup DelayedEntry]]
      /\ delays.delayedTransfers = queue
  BY <1>4 DEF Contract
<1>7. records \in SUBSET (Moves \cup Request)
  BY DEF Contract
<1> HIDE DEF delays, records
<1>8. CASE IsLarge(c.delays, Token, q.ref.amount)
  <2>1. Accepted(c, q) = [c EXCEPT !.records = records, !.volume = volume, !.delays = delays]
    BY <1>5, <1>8
  <2> QED
    BY <1>2, <1>6, <1>7, <1>8, <2>1, ZenonT(60) DEF Contract, queue, entry, records
<1>9. CASE ~IsLarge(c.delays, Token, q.ref.amount)
  <2>1. Accepted(c, q) = [c EXCEPT !.records = records, !.volume = volume, !.delays = c.delays]
    BY <1>5, <1>9
  <2> QED
    BY <1>2, <1>7, <1>9, <2>1 DEF Contract, records
<1> QED
  BY <1>8, <1>9

\* An executed request leaves the queue.
LEMMA RemovedEffect ==
    ASSUME NEW c \in Contract, NEW q \in Request
    PROVE  LET after == [c EXCEPT !.delays = RemoveDelayed(@, q)]
           IN  /\ after \in Contract
               /\ after.records = c.records
               /\ after.balance = c.balance /\ after.supplies = c.supplies
               /\ after.delays.delayedTransfers = [c.delays.delayedTransfers EXCEPT ![q] = NoTransfer]
<1> DEFINE queue == [c.delays.delayedTransfers EXCEPT ![q] = NoTransfer]
           delays == [c.delays EXCEPT !.delayedTransfers = queue]
<1>1. queue \in [Request -> {NoTransfer} \cup DelayedEntry]
  BY DEF Contract
<1>2. [c EXCEPT !.delays = RemoveDelayed(@, q)] = [c EXCEPT !.delays = delays]
  BY DEF RemoveDelayed
<1> HIDE DEF queue
<1>3. /\ delays \in [delayPeriod : Nat, delayThresholds : [{Token} -> Nat],
                      delayedTransfers : [Request -> {NoTransfer} \cup DelayedEntry]]
      /\ delays.delayedTransfers = queue
  BY <1>1 DEF Contract
<1> HIDE DEF delays
<1> QED
  BY <1>2, <1>3 DEF Contract, queue

-----------------------------------------------------------------------------
(* What is under way, and what it sums up to *)

Recorded == vault.records \cup peg.records

\* The request has been paid by the contract it is for.
Done(q) ==
    \/ q \in vault.records /\ ~DelayedAt(vault, q)
    \/ q \in peg.records /\ ~DelayedAt(peg, q)

InTransit == SumFunctionOnSet(Amount, UnderWay)
MintsWaiting == SumFunctionOnSet(MintAmount, MintsDelayed)

LEMMA SettledMeansDone == \A t : Settled(t) <=> \E q \in signed : q.ref = t /\ Done(q)
  BY DEF Settled, Done

LEMMA AmountsTyped ==
    /\ \A t \in Moves : Amount[t] = t.amount /\ Amount[t] \in Nat
    /\ \A q \in MintRequest : MintAmount[q] = q.ref.amount /\ MintAmount[q] \in Nat
  BY RequestParts, PeggedAssumption DEF Amount, MintAmount, Request

LEMMA SumsTyped ==
    /\ IsFiniteSet(UnderWay) /\ UnderWay \subseteq Moves /\ InTransit \in Nat
    /\ IsFiniteSet(MintsDelayed) /\ MintsDelayed \subseteq MintRequest /\ MintsWaiting \in Nat
<1>1. UnderWay \subseteq Moves /\ MintsDelayed \subseteq MintRequest
  BY DEF UnderWay, MintsDelayed
<1>2. IsFiniteSet(UnderWay) /\ IsFiniteSet(MintsDelayed)
  BY <1>1, RequestsFinite, FS_Subset
<1>3. InTransit \in Nat
  BY <1>1, <1>2, AmountsTyped, SumNat DEF InTransit
<1>4. MintsWaiting \in Nat
  BY <1>1, <1>2, AmountsTyped, SumNat DEF MintsWaiting
<1> QED
  BY <1>1, <1>2, <1>3, <1>4

\* A transfer begins, and one ends.
LEMMA TransferBegins ==
    ASSUME NEW t \in Moves, t \notin UnderWay, UnderWay' = UnderWay \cup {t}
    PROVE  InTransit' = InTransit + t.amount
<1>1. \A x \in UnderWay \cup {t} : Amount[x] \in Int
  BY SumsTyped, AmountsTyped
<1>2. SumFunctionOnSet(Amount, UnderWay \cup {t}) = Amount[t] + SumFunctionOnSet(Amount, UnderWay)
  BY <1>1, SumsTyped, SumAdd
<1> QED
  BY <1>2, SumsTyped, AmountsTyped DEF InTransit

LEMMA TransferEnds ==
    ASSUME NEW t \in UnderWay, UnderWay' = UnderWay \ {t}
    PROVE  InTransit' = InTransit - t.amount
<1>1. \A x \in UnderWay : Amount[x] \in Int
  BY SumsTyped, AmountsTyped
<1>2. SumFunctionOnSet(Amount, UnderWay) = Amount[t] + SumFunctionOnSet(Amount, UnderWay \ {t})
  BY <1>1, SumsTyped, SumRemove
<1>3. SumFunctionOnSet(Amount, UnderWay \ {t}) \in Int
  BY <1>1, SumsTyped, FS_Subset, SumInt
<1> QED
  BY <1>2, <1>3, SumsTyped, AmountsTyped DEF InTransit

\* A mint is delayed, and a delayed one is made.
LEMMA MintWaits ==
    ASSUME NEW q \in MintRequest, q \notin MintsDelayed, MintsDelayed' = MintsDelayed \cup {q}
    PROVE  MintsWaiting' = MintsWaiting + q.ref.amount
<1>1. \A x \in MintsDelayed \cup {q} : MintAmount[x] \in Int
  BY SumsTyped, AmountsTyped
<1>2. SumFunctionOnSet(MintAmount, MintsDelayed \cup {q})
        = MintAmount[q] + SumFunctionOnSet(MintAmount, MintsDelayed)
  BY <1>1, SumsTyped, SumAdd
<1> QED
  BY <1>2, SumsTyped, AmountsTyped DEF MintsWaiting

LEMMA MintMade ==
    ASSUME NEW q \in MintsDelayed, MintsDelayed' = MintsDelayed \ {q}
    PROVE  MintsWaiting' = MintsWaiting - q.ref.amount
<1>1. \A x \in MintsDelayed : MintAmount[x] \in Int
  BY SumsTyped, AmountsTyped
<1>2. SumFunctionOnSet(MintAmount, MintsDelayed)
        = MintAmount[q] + SumFunctionOnSet(MintAmount, MintsDelayed \ {q})
  BY <1>1, SumsTyped, SumRemove
<1>3. SumFunctionOnSet(MintAmount, MintsDelayed \ {q}) \in Int
  BY <1>1, SumsTyped, FS_Subset, SumInt
<1> QED
  BY <1>2, <1>3, SumsTyped, AmountsTyped DEF MintsWaiting

\* A new deposit or burn is under way: nothing has been signed for it yet.
LEMMA NewMove ==
    ASSUME SignedOnce, NEW t \in Moves, t \notin Recorded, signed' = signed,
           Recorded' = Recorded \cup {t},
           \A q \in signed : Done(q)' <=> Done(q)
    PROVE  t \notin UnderWay /\ UnderWay' = UnderWay \cup {t}
<1>1. \A q \in signed : q.ref # t
  BY DEF SignedOnce, Recorded
<1>2. \A x : Settled(x)' <=> Settled(x)
  <2>1. \A x : Settled(x)' <=> \E q \in signed' : q.ref = x /\ Done(q)'
    BY DEF Settled, Done
  <2> QED
    BY <2>1, SettledMeansDone
<1>3. ~Settled(t)
  BY <1>1, SettledMeansDone
<1> QED
  BY <1>2, <1>3 DEF UnderWay, Recorded

\* A request that was not done yet ends its transfer when it is done.
LEMMA RequestMoves ==
    ASSUME SignedOnce, NEW q \in signed, q.ref \in Moves, ~Done(q), signed' = signed,
           \A t \in Moves : t \in Recorded' <=> t \in Recorded,
           \A p \in signed \ {q} : Done(p)' <=> Done(p)
    PROVE  q.ref \in UnderWay /\ UnderWay' = IF Done(q)' THEN UnderWay \ {q.ref} ELSE UnderWay
<1>1. \A p \in signed : p.ref = q.ref => p = q
  BY DEF SignedOnce
<1>2. ~Settled(q.ref) /\ q.ref \in Recorded
  BY <1>1, SettledMeansDone DEF SignedOnce, Recorded
<1>3. \A x : Settled(x)' <=> \E p \in signed : p.ref = x /\ Done(p)'
  BY DEF Settled, Done
<1>4. \A x : x # q.ref => (Settled(x)' <=> Settled(x))
  BY <1>3, SettledMeansDone
<1>5. Settled(q.ref)' <=> Done(q)'
  BY <1>1, <1>3
<1> QED
  BY <1>2, <1>4, <1>5 DEF UnderWay, Recorded

-----------------------------------------------------------------------------
(* The token *)

Held == SumFunctionOnSet(held, Accounts)

LEMMA HeldTyped ==
    ASSUME PegTyped
    PROVE  Held \in Nat
<1>1. IsFiniteSet(Accounts) /\ \A a \in Accounts : held[a] \in Nat
  BY PeggedAssumption DEF PegTyped, PegTypeOK
<1> QED
  BY <1>1, SumNat DEF Held

\* A mint is on the books of its bridge and with its receiver.
LEMMA TokenMintEffect ==
    ASSUME PegTyped, NEW b \in {"peg", "other"}, NEW to \in Accounts, NEW amount \in Nat,
           TokenMint(b, to, amount)
    PROVE  /\ bridges' \in [{"peg", "other"} -> [cap : Nat, total : Nat]]
           /\ \A x \in {"peg", "other"} : bridges'[x].cap = bridges[x].cap
           /\ bridges'[b].total = bridges[b].total + amount
           /\ \A x \in {"peg", "other"} \ {b} : bridges'[x].total = bridges[x].total
           /\ held' \in [Accounts -> Nat]
           /\ Held' = Held + amount
<1>1. /\ bridges \in [{"peg", "other"} -> [cap : Nat, total : Nat]] /\ held \in [Accounts -> Nat]
      /\ IsFiniteSet(Accounts)
  BY PeggedAssumption DEF PegTyped, PegTypeOK
<1>2. /\ bridges' \in [{"peg", "other"} -> [cap : Nat, total : Nat]]
      /\ \A x \in {"peg", "other"} : bridges'[x].cap = bridges[x].cap
      /\ bridges'[b].total = bridges[b].total + amount
      /\ \A x \in {"peg", "other"} \ {b} : bridges'[x].total = bridges[x].total
  BY <1>1 DEF TokenMint
<1>3. held' = [held EXCEPT ![to] = @ + amount]
  BY DEF TokenMint
<1>4. /\ held' \in [Accounts -> Nat] /\ held'[to] = held[to] + amount
      /\ \A a \in Accounts \ {to} : held[a] = held'[a]
  BY <1>1, <1>3
<1>5. \A a \in Accounts : held[a] \in Int /\ held'[a] \in Int
  BY <1>1, <1>4
<1>6. SumFunctionOnSet(held', Accounts) = SumFunctionOnSet(held, Accounts) - held[to] + held'[to]
  BY <1>1, <1>4, <1>5, SumChange
<1>7. Held' = Held + amount
  BY <1>1, <1>4, <1>6, HeldTyped DEF Held
<1> QED
  BY <1>1, <1>2, <1>4, <1>7

\* A burn comes out of the books of its bridge and from its holder.
LEMMA TokenBurnEffect ==
    ASSUME PegTyped, NEW from \in Accounts, NEW amount \in Nat, TokenBurnFrom("peg", from, amount)
    PROVE  /\ bridges' \in [{"peg", "other"} -> [cap : Nat, total : Nat]]
           /\ \A x \in {"peg", "other"} : bridges'[x].cap = bridges[x].cap
           /\ bridges'["peg"].total = bridges["peg"].total - amount
           /\ bridges'["other"].total = bridges["other"].total
           /\ held' \in [Accounts -> Nat]
           /\ Held' = Held - amount
<1>1. /\ bridges \in [{"peg", "other"} -> [cap : Nat, total : Nat]] /\ held \in [Accounts -> Nat]
      /\ IsFiniteSet(Accounts) /\ bridges["peg"].cap > 0
  BY PeggedAssumption DEF PegTyped, PegTypeOK
<1>2. /\ bridges' \in [{"peg", "other"} -> [cap : Nat, total : Nat]]
      /\ \A x \in {"peg", "other"} : bridges'[x].cap = bridges[x].cap
      /\ bridges'["peg"].total = bridges["peg"].total - amount
      /\ bridges'["other"].total = bridges["other"].total
  BY <1>1 DEF TokenBurnFrom
<1>3. amount <= held[from] /\ held' = [held EXCEPT ![from] = @ - amount]
  BY DEF TokenBurnFrom
<1>4. /\ held' \in [Accounts -> Nat] /\ held'[from] = held[from] - amount
      /\ \A a \in Accounts \ {from} : held[a] = held'[a]
  BY <1>1, <1>3
<1>5. \A a \in Accounts : held[a] \in Int /\ held'[a] \in Int
  BY <1>1, <1>4
<1>6. SumFunctionOnSet(held', Accounts) = SumFunctionOnSet(held, Accounts) - held[from] + held'[from]
  BY <1>1, <1>4, <1>5, SumChange
<1>7. Held' = Held - amount
  BY <1>1, <1>4, <1>6, HeldTyped DEF Held
<1> QED
  BY <1>1, <1>2, <1>4, <1>7

\* The three equations, before and after a step, in terms of the sums above.
LEMMA Books ==
    /\ Backing <=> vault.balance = bridges["peg"].total + InTransit
    /\ HoldersBacked <=> Held <= bridges["peg"].total + bridges["other"].total
    /\ SuppliesExact <=> peg.supplies = adjusted + bridges["peg"].total + MintsWaiting
    /\ Backing' <=> vault'.balance = bridges'["peg"].total + InTransit'
    /\ HoldersBacked' <=> Held' <= bridges'["peg"].total + bridges'["other"].total
    /\ SuppliesExact' <=> peg'.supplies = adjusted' + bridges'["peg"].total + MintsWaiting'
  BY DEF Backing, HoldersBacked, SuppliesExact, InTransit, Held, MintsWaiting, Amount, MintAmount

\* Where nothing is recorded, queued or signed the requests stay as they are.
LEMMA RequestsStay ==
    ASSUME SignedOnce, QueueOf(vault), QueueOf(peg),
           UNCHANGED <<vault.records, vault.delays.delayedTransfers, peg.records,
                       peg.delays.delayedTransfers, signed>>
    PROVE  /\ SignedOnce' /\ QueueOf(vault)' /\ QueueOf(peg)'
           /\ InTransit' = InTransit /\ MintsWaiting' = MintsWaiting
<1>1. SignedOnce' /\ QueueOf(vault)' /\ QueueOf(peg)'
  BY DEF SignedOnce, QueueOf, DelayedAt
<1>2. UnderWay' = UnderWay /\ MintsDelayed' = MintsDelayed
  BY DEF UnderWay, MintsDelayed, Settled, DelayedAt
<1> QED
  BY <1>1, <1>2 DEF InTransit, MintsWaiting

-----------------------------------------------------------------------------
(* Steps that leave the requests alone *)

LEMMA OtherBridgeMintsKeeps ==
    ASSUME PegInv, NEW a \in Accounts, NEW amount \in OtherMints, OtherBridgeMints(a, amount)
    PROVE  PegInv'
<1> USE DEF PegInv
<1>1. amount \in Nat
  BY PeggedAssumption
<1>2. TokenMint("other", a, amount) /\ UNCHANGED <<now, vault, peg, signed, adjusted>>
  BY DEF OtherBridgeMints
<1>3. PegTyped'
  BY <1>1, <1>2, TokenMintEffect DEF PegTyped, PegTypeOK
<1>4. /\ SignedOnce' /\ QueueOf(vault)' /\ QueueOf(peg)'
      /\ InTransit' = InTransit /\ MintsWaiting' = MintsWaiting
  BY <1>2, RequestsStay
<1>5. /\ Held' = Held + amount /\ bridges'["peg"].total = bridges["peg"].total
      /\ bridges'["other"].total = bridges["other"].total + amount
  BY <1>1, <1>2, TokenMintEffect
<1>6. Held \in Nat /\ bridges["peg"].total \in Nat /\ bridges["other"].total \in Nat
  BY HeldTyped DEF PegTyped, PegTypeOK
<1>7. Backing' /\ HoldersBacked' /\ SuppliesExact'
  BY <1>1, <1>2, <1>4, <1>5, <1>6, Books
<1> QED
  BY <1>3, <1>4, <1>7

LEMMA BurnOwnKeeps ==
    ASSUME PegInv, NEW a \in Accounts, NEW amount \in OtherMints, BurnOwn(a, amount)
    PROVE  PegInv'
<1> USE DEF PegInv
<1>1. amount \in Nat /\ held \in [Accounts -> Nat] /\ IsFiniteSet(Accounts)
  BY PeggedAssumption DEF PegTyped, PegTypeOK
<1>2. UNCHANGED <<now, vault, peg, bridges, signed, adjusted>>
  BY DEF BurnOwn
<1>3. /\ held' \in [Accounts -> Nat] /\ held'[a] <= held[a]
      /\ \A x \in Accounts : held[x] \in Int /\ held'[x] \in Int /\ held'[x] <= held[x]
  BY <1>1 DEF BurnOwn
<1>4. PegTyped'
  BY <1>2, <1>3 DEF PegTyped, PegTypeOK
<1>5. /\ SignedOnce' /\ QueueOf(vault)' /\ QueueOf(peg)'
      /\ InTransit' = InTransit /\ MintsWaiting' = MintsWaiting
  BY <1>2, RequestsStay
<1>6. SumFunctionOnSet(held', Accounts) <= SumFunctionOnSet(held, Accounts)
  BY <1>1, <1>3, SumMonotone
<1>7. Held' <= Held /\ Held' \in Nat /\ Held \in Nat
  <2>1. Held' \in Nat
    BY <1>1, <1>3, SumNat DEF Held
  <2> QED
    BY <1>6, <2>1, HeldTyped DEF Held
<1>8. bridges["peg"].total \in Nat /\ bridges["other"].total \in Nat
  BY DEF PegTyped, PegTypeOK
<1>9. Backing' /\ HoldersBacked' /\ SuppliesExact'
  BY <1>2, <1>5, <1>7, <1>8, Books
<1> QED
  BY <1>4, <1>5, <1>9

LEMMA CapKeeps ==
    ASSUME PegInv, NEW cap \in Caps, UpdateBridgeSupplyCap("peg", cap)
    PROVE  PegInv'
<1> USE DEF PegInv
<1>1. cap \in Nat \ {0} /\ UNCHANGED <<now, vault, peg, held, signed, adjusted>>
  BY PeggedAssumption DEF UpdateBridgeSupplyCap
<1>2. /\ bridges' \in [{"peg", "other"} -> [cap : Nat, total : Nat]]
      /\ \A b \in {"peg", "other"} : bridges'[b].cap > 0 /\ bridges'[b].total = bridges[b].total
  BY <1>1 DEF UpdateBridgeSupplyCap, PegTyped, PegTypeOK
<1>3. PegTyped'
  BY <1>1, <1>2 DEF PegTyped, PegTypeOK
<1>4. /\ SignedOnce' /\ QueueOf(vault)' /\ QueueOf(peg)'
      /\ InTransit' = InTransit /\ MintsWaiting' = MintsWaiting
  BY <1>1, RequestsStay
<1>5. Backing' /\ HoldersBacked' /\ SuppliesExact'
  BY <1>1, <1>2, <1>4, Books DEF Held
<1> QED
  BY <1>3, <1>4, <1>5

LEMMA SetSupplyKeeps ==
    ASSUME PegInv, NEW supply \in Supplies, SetSupply(supply)
    PROVE  PegInv'
<1> USE DEF PegInv
<1>1. /\ supply \in Nat /\ UNCHANGED <<now, vault, bridges, held, signed>>
      /\ peg' = [peg EXCEPT !.supplies = supply] /\ adjusted' = adjusted + (supply - peg.supplies)
  BY PeggedAssumption DEF SetSupply
<1>2. /\ peg' \in Contract /\ peg'.supplies = supply /\ peg'.records = peg.records
      /\ peg'.delays = peg.delays
  BY <1>1 DEF PegTyped, Contract
<1>3. adjusted \in Int /\ peg.supplies \in Nat /\ bridges["peg"].total \in Nat /\ MintsWaiting \in Nat
  BY SumsTyped DEF PegTyped, PegTypeOK
<1>4. PegTyped'
  BY <1>1, <1>2, <1>3 DEF PegTyped, PegTypeOK
<1>5. /\ SignedOnce' /\ QueueOf(vault)' /\ QueueOf(peg)'
      /\ InTransit' = InTransit /\ MintsWaiting' = MintsWaiting
  BY <1>1, <1>2, RequestsStay
<1>6. Backing' /\ HoldersBacked' /\ SuppliesExact'
  BY <1>1, <1>2, <1>3, <1>5, Books DEF Held
<1> QED
  BY <1>4, <1>5, <1>6

\* A setter of either contract, the clock, or nothing at all.
LEMMA SettingsKeep ==
    ASSUME PegInv, (\E s \in Settings : Configure(s)) \/ Tick \/ UNCHANGED pegVars
    PROVE  PegInv'
<1> USE DEF PegInv
<1>1. /\ now' \in Nat /\ UNCHANGED <<bridges, held, signed, adjusted>>
      /\ vault' \in Contract /\ peg' \in Contract
      /\ UNCHANGED <<vault.records, vault.balance, vault.delays.delayedTransfers,
                     peg.records, peg.supplies, peg.delays.delayedTransfers>>
  <2>1. CASE \E s \in Settings : Configure(s)
    BY <2>1, ConfiguredEffect DEF Configure, PegTyped
  <2>2. CASE Tick \/ UNCHANGED pegVars
    BY <2>2 DEF Tick, pegVars, PegTyped
  <2> QED
    BY <2>1, <2>2
<1>2. PegTyped'
  BY <1>1 DEF PegTyped, PegTypeOK
<1>3. /\ SignedOnce' /\ QueueOf(vault)' /\ QueueOf(peg)'
      /\ InTransit' = InTransit /\ MintsWaiting' = MintsWaiting
  BY <1>1, RequestsStay
<1>4. Backing' /\ HoldersBacked' /\ SuppliesExact'
  BY <1>1, <1>3, Books DEF Held
<1> QED
  BY <1>2, <1>3, <1>4

\* What is signed is not on record yet, as one request is signed for a transfer.
LEMMA SgnSignsKeeps ==
    ASSUME PegInv, NEW q \in Request, SgnSigns(q)
    PROVE  PegInv'
<1> USE DEF PegInv
<1>1. /\ UNCHANGED <<now, vault, peg, bridges, held, adjusted>> /\ signed' = signed \cup {q}
      /\ q.ref \in Recorded /\ \A p \in signed : p.ref # q.ref
  BY DEF SgnSigns, Recorded
<1>2. PegTyped'
  BY <1>1 DEF PegTyped, PegTypeOK
<1>3. q \notin Recorded
  BY <1>1 DEF SignedOnce, Recorded
<1>4. SignedOnce' /\ QueueOf(vault)' /\ QueueOf(peg)'
  BY <1>1 DEF SignedOnce, QueueOf, DelayedAt, Recorded
<1>5. ~Done(q)
  BY <1>3 DEF Done, Recorded
<1>6. \A x : Settled(x)' <=> Settled(x)
  <2>1. \A x : Settled(x)' <=> \E p \in signed' : p.ref = x /\ Done(p)
    BY <1>1 DEF Settled, Done, DelayedAt
  <2> QED
    BY <1>1, <1>5, <2>1, SettledMeansDone
<1>7. UnderWay' = UnderWay /\ MintsDelayed' = MintsDelayed
  BY <1>1, <1>6 DEF UnderWay, MintsDelayed, DelayedAt
<1>8. Backing' /\ HoldersBacked' /\ SuppliesExact'
  BY <1>1, <1>7, Books DEF Held, InTransit, MintsWaiting
<1> QED
  BY <1>2, <1>4, <1>8

-----------------------------------------------------------------------------
(* The vault *)

LEMMA DepositKeeps ==
    ASSUME PegInv, NEW d \in Deposits, Deposit(d)
    PROVE  PegInv'
<1> USE DEF PegInv
<1>1. /\ UNCHANGED <<now, peg, bridges, held, signed, adjusted>>
      /\ d \notin vault.records /\ d \in Moves /\ d.amount \in Nat
      /\ vault' = [vault EXCEPT !.records = @ \cup {d}, !.balance = @ + d.amount]
  BY PeggedAssumption DEF Deposit, Moves
<1>2. /\ vault' \in Contract /\ vault'.records = vault.records \cup {d}
      /\ vault'.balance = vault.balance + d.amount /\ vault'.delays = vault.delays
  <2> DEFINE records == vault.records \cup {d}
  <2>1. records \in SUBSET (Moves \cup Request) /\ vault.balance + d.amount \in Nat
    BY <1>1 DEF PegTyped, Contract
  <2>2. vault' = [vault EXCEPT !.records = records, !.balance = vault.balance + d.amount]
    BY <1>1
  <2> HIDE DEF records
  <2>3. /\ vault' \in Contract /\ vault'.records = records
        /\ vault'.balance = vault.balance + d.amount /\ vault'.delays = vault.delays
    BY <2>1, <2>2 DEF PegTyped, Contract
  <2> QED
    BY <2>3 DEF records
<1>3. PegTyped'
  BY <1>1, <1>2 DEF PegTyped, PegTypeOK, Contract
<1>4. d \notin Recorded /\ Recorded' = Recorded \cup {d} /\ d \notin Request
  BY <1>1, <1>2, PeggedAssumption DEF Recorded, PegTyped, PegTypeOK, Moves, Request
<1>5. \A q \in signed : Done(q)' <=> Done(q)
  BY <1>1, <1>2, <1>4 DEF Done, DelayedAt, PegTyped, PegTypeOK
<1>6. InTransit' = InTransit + d.amount
  BY <1>1, <1>4, <1>5, NewMove, TransferBegins
<1>7. SignedOnce' /\ QueueOf(vault)' /\ QueueOf(peg)'
  BY <1>1, <1>2, <1>4 DEF SignedOnce, QueueOf, DelayedAt
<1>8. MintsDelayed' = MintsDelayed
  BY <1>1 DEF MintsDelayed, DelayedAt
<1>9. vault.balance \in Nat /\ bridges["peg"].total \in Nat /\ InTransit \in Nat
  BY SumsTyped DEF PegTyped, PegTypeOK
<1>10. Backing' /\ HoldersBacked' /\ SuppliesExact'
  BY <1>1, <1>2, <1>6, <1>8, <1>9, Books DEF Held, MintsWaiting
<1> QED
  BY <1>3, <1>7, <1>10

\* A withdrawal is put in the queue, or paid: at once or from the queue.
LEMMA WithdrawalEffect ==
    ASSUME PegInv, NEW q \in WithdrawRequest, Withdraw(q) \/ ExecuteDelayedWithdraw(q)
    PROVE  /\ q \in signed /\ ~Done(q)
           /\ UNCHANGED <<now, peg, bridges, held, signed, adjusted>>
           /\ vault' \in Contract /\ vault'.records = vault.records \cup {q}
           /\ \A p \in Request \ {q} :
                 vault'.delays.delayedTransfers[p] = vault.delays.delayedTransfers[p]
           /\ \/ /\ q \notin vault.records /\ DelayedAt(vault, q)'
                 /\ vault'.delays.delayedTransfers[q].receiver = q.account
                 /\ vault'.delays.delayedTransfers[q].amount = q.ref.amount
                 /\ vault'.balance = vault.balance
              \/ /\ q \in vault.records <=> DelayedAt(vault, q)
                 /\ ~DelayedAt(vault, q)'
                 /\ q.ref.amount <= vault.balance
                 /\ vault'.balance = vault.balance - q.ref.amount
<1> USE DEF PegInv
<1>1. /\ q \in Request /\ q \notin peg.records /\ q.ref.amount \in Nat /\ q.account \in Accounts
      /\ vault \in Contract /\ vault.balance \in Nat /\ now \in Nat
  BY RequestParts, PeggedAssumption DEF PegTyped, PegTypeOK, Request, Moves
<1>2. CASE Withdraw(q)
  <2>1. /\ q \in signed /\ q \notin vault.records
        /\ UNCHANGED <<now, peg, bridges, held, signed, adjusted>>
    BY <1>2 DEF Withdraw, CanAccept
  <2>2. ~DelayedAt(vault, q) /\ ~Done(q)
    BY <1>1, <2>1 DEF QueueOf, Done
  <2> DEFINE after == Accepted(vault, q)
             entry == [receiver |-> q.account, token |-> Token, amount |-> q.ref.amount,
                       timestamp |-> now]
  <2>3. /\ after \in Contract /\ after.records = vault.records \cup {q}
        /\ after.balance = vault.balance
        /\ after.delays.delayedTransfers =
             IF IsLarge(vault.delays, Token, q.ref.amount)
             THEN [vault.delays.delayedTransfers EXCEPT ![q] = entry]
             ELSE vault.delays.delayedTransfers
    BY <1>1, AcceptedEffect
  <2>4. vault.delays.delayedTransfers \in [Request -> {NoTransfer} \cup DelayedEntry]
    BY <1>1 DEF Contract
  <2>5. entry \in DelayedEntry /\ entry # NoTransfer
    BY <1>1, PeggedAssumption DEF DelayedEntry
  <2>6. CASE IsLarge(vault.delays, Token, q.ref.amount)
    <3>1. vault' = after
      BY <1>2, <2>6 DEF Withdraw
    <3> HIDE DEF after
    <3>2. /\ vault'.delays.delayedTransfers[q] = entry
          /\ \A p \in Request \ {q} :
                vault'.delays.delayedTransfers[p] = vault.delays.delayedTransfers[p]
      BY <1>1, <2>3, <2>4, <2>6, <3>1
    <3> QED
      BY <2>1, <2>2, <2>3, <2>5, <3>1, <3>2 DEF DelayedAt
  <2>7. CASE ~IsLarge(vault.delays, Token, q.ref.amount)
    <3>1. /\ q.ref.amount <= vault.balance
          /\ vault' = [after EXCEPT !.balance = vault.balance - q.ref.amount]
      BY <1>2, <2>3, <2>7 DEF Withdraw, SendOriginal
    <3> HIDE DEF after
    <3>2. /\ vault' \in Contract /\ vault'.records = after.records /\ vault'.delays = after.delays
          /\ vault'.balance = vault.balance - q.ref.amount
      BY <1>1, <2>3, <3>1 DEF Contract
    <3> QED
      BY <2>1, <2>2, <2>3, <2>7, <3>1, <3>2 DEF DelayedAt
  <2> QED
    BY <2>6, <2>7
<1>3. CASE ExecuteDelayedWithdraw(q)
  <2> DEFINE after == [vault EXCEPT !.delays = RemoveDelayed(@, q)]
  <2>1. DelayedAt(vault, q) /\ UNCHANGED <<now, peg, bridges, held, signed, adjusted>>
    BY <1>3 DEF ExecuteDelayedWithdraw, CanExecuteDelayed, DelayedAt
  <2>2. /\ q \in vault.records /\ q \in signed /\ ~Done(q)
        /\ vault.delays.delayedTransfers[q].amount = q.ref.amount
    BY <1>1, <2>1 DEF QueueOf, SignedOnce, Done
  <2>3. /\ after \in Contract /\ after.records = vault.records /\ after.balance = vault.balance
        /\ after.delays.delayedTransfers = [vault.delays.delayedTransfers EXCEPT ![q] = NoTransfer]
    BY <1>1, RemovedEffect
  <2>4. /\ q.ref.amount <= vault.balance
        /\ vault' = [after EXCEPT !.balance = vault.balance - q.ref.amount]
    BY <1>3, <2>2, <2>3 DEF ExecuteDelayedWithdraw, SendOriginal
  <2> HIDE DEF after
  <2>5. /\ vault' \in Contract /\ vault'.records = vault.records /\ vault'.delays = after.delays
        /\ vault'.balance = vault.balance - q.ref.amount
    BY <1>1, <2>3, <2>4 DEF Contract
  <2>6. /\ vault'.delays.delayedTransfers[q] = NoTransfer
        /\ \A p \in Request \ {q} :
              vault'.delays.delayedTransfers[p] = vault.delays.delayedTransfers[p]
    BY <1>1, <2>3, <2>5 DEF Contract
  <2> QED
    BY <2>1, <2>2, <2>4, <2>5, <2>6 DEF DelayedAt
<1> QED
  BY <1>2, <1>3

LEMMA WithdrawalKeeps ==
    ASSUME PegInv, NEW q \in WithdrawRequest, Withdraw(q) \/ ExecuteDelayedWithdraw(q)
    PROVE  PegInv'
<1> USE DEF PegInv
<1>1. /\ q \in signed /\ ~Done(q)
      /\ UNCHANGED <<now, peg, bridges, held, signed, adjusted>>
      /\ vault' \in Contract /\ vault'.records = vault.records \cup {q}
      /\ \A p \in Request \ {q} :
            vault'.delays.delayedTransfers[p] = vault.delays.delayedTransfers[p]
  BY WithdrawalEffect
<1>2. /\ q \in Request /\ q \notin peg.records /\ q.ref.amount \in Nat /\ q.ref \in Moves
      /\ q \notin Moves /\ vault.balance \in Nat /\ signed \subseteq Request
  BY RequestParts, PeggedAssumption DEF PegTyped, PegTypeOK, Request, Moves
<1>3. PegTyped'
  BY <1>1 DEF PegTyped, PegTypeOK, Contract
<1>4. \A t \in Moves : t \in Recorded' <=> t \in Recorded
  BY <1>1, <1>2 DEF Recorded
<1>5. \A p \in signed \ {q} : Done(p)' <=> Done(p)
  BY <1>1, <1>2 DEF Done, DelayedAt
<1>6. q.ref \in UnderWay /\ UnderWay' = IF Done(q)' THEN UnderWay \ {q.ref} ELSE UnderWay
  BY <1>1, <1>2, <1>4, <1>5, RequestMoves
<1>7. Done(q)' <=> ~DelayedAt(vault, q)'
  BY <1>1, <1>2 DEF Done
<1>8. vault'.balance - InTransit' = vault.balance - InTransit
  <2>1. InTransit \in Nat
    BY SumsTyped
  <2>2. CASE DelayedAt(vault, q)'
    <3>1. vault'.balance = vault.balance
      BY <2>2, WithdrawalEffect
    <3>2. InTransit' = InTransit
      BY <1>6, <1>7, <2>2 DEF InTransit
    <3> QED
      BY <3>1, <3>2
  <2>3. CASE ~DelayedAt(vault, q)'
    <3>1. vault'.balance = vault.balance - q.ref.amount
      BY <2>3, WithdrawalEffect
    <3>2. InTransit' = InTransit - q.ref.amount
      BY <1>6, <1>7, <2>3, TransferEnds
    <3> QED
      BY <1>2, <2>1, <3>1, <3>2
  <2> QED
    BY <2>2, <2>3
<1>9. SignedOnce' /\ QueueOf(peg)'
  BY <1>1 DEF SignedOnce, QueueOf, DelayedAt
<1>10. QueueOf(vault)'
  <2>1. DelayedAt(vault, q)' => /\ vault'.delays.delayedTransfers[q].receiver = q.account
                               /\ vault'.delays.delayedTransfers[q].amount = q.ref.amount
    BY WithdrawalEffect
  <2> QED
    BY <1>1, <2>1 DEF QueueOf, DelayedAt
<1>11. MintsDelayed' = MintsDelayed
  BY <1>1 DEF MintsDelayed, DelayedAt
<1>12. /\ bridges["peg"].total \in Nat /\ InTransit \in Nat /\ vault'.balance \in Nat
       /\ InTransit' \in Int
  <2>1. InTransit' = InTransit \/ InTransit' = InTransit - q.ref.amount
    BY <1>6, TransferEnds DEF InTransit
  <2> QED
    BY <1>1, <1>2, <2>1, SumsTyped DEF PegTyped, PegTypeOK, Contract
<1>13. Backing' /\ HoldersBacked' /\ SuppliesExact'
  BY <1>1, <1>2, <1>8, <1>11, <1>12, Books DEF Held, MintsWaiting
<1> QED
  BY <1>3, <1>9, <1>10, <1>13

-----------------------------------------------------------------------------
(* The bridge of the pegged token *)

\* A mint is put in the queue, or made: at once or from the queue.
LEMMA MintEffect ==
    ASSUME PegInv, NEW q \in MintRequest, Mint(q) \/ ExecuteDelayedMint(q)
    PROVE  /\ q \in signed /\ ~Done(q) /\ UNCHANGED <<now, vault, signed, adjusted>>
           /\ peg' \in Contract /\ peg'.records = peg.records \cup {q}
           /\ \A p \in Request \ {q} :
                 peg'.delays.delayedTransfers[p] = peg.delays.delayedTransfers[p]
           /\ peg'.supplies = IF q \in peg.records THEN peg.supplies
                              ELSE peg.supplies + q.ref.amount
           /\ q \in peg.records <=> DelayedAt(peg, q)
           /\ \/ /\ q \notin peg.records /\ DelayedAt(peg, q)'
                 /\ peg'.delays.delayedTransfers[q].receiver = q.account
                 /\ peg'.delays.delayedTransfers[q].amount = q.ref.amount
                 /\ UNCHANGED <<bridges, held>>
              \/ /\ ~DelayedAt(peg, q)'
                 /\ TokenMint("peg", q.account, q.ref.amount)
<1> USE DEF PegInv
<1>1. /\ q \in Request /\ q \notin vault.records /\ q.ref.amount \in Nat /\ q.account \in Accounts
      /\ peg \in Contract /\ peg.supplies \in Nat /\ now \in Nat
  BY RequestParts, PeggedAssumption DEF PegTyped, PegTypeOK, Request, Moves
<1>2. CASE Mint(q)
  <2>1. q \in signed /\ q \notin peg.records /\ UNCHANGED <<now, vault, signed, adjusted>>
    BY <1>2 DEF Mint, CanAccept
  <2>2. ~DelayedAt(peg, q) /\ ~Done(q)
    BY <1>1, <2>1 DEF QueueOf, Done
  <2> DEFINE after == Accepted(peg, q)
             entry == [receiver |-> q.account, token |-> Token, amount |-> q.ref.amount,
                       timestamp |-> now]
  <2>3. /\ after \in Contract /\ after.records = peg.records \cup {q}
        /\ after.supplies = peg.supplies
        /\ after.delays.delayedTransfers =
             IF IsLarge(peg.delays, Token, q.ref.amount)
             THEN [peg.delays.delayedTransfers EXCEPT ![q] = entry]
             ELSE peg.delays.delayedTransfers
    BY <1>1, AcceptedEffect
  <2>4. peg.delays.delayedTransfers \in [Request -> {NoTransfer} \cup DelayedEntry]
    BY <1>1 DEF Contract
  <2>5. entry \in DelayedEntry /\ entry # NoTransfer
    BY <1>1, PeggedAssumption DEF DelayedEntry
  <2>6. peg' = [after EXCEPT !.supplies = peg.supplies + q.ref.amount]
    BY <1>2, <2>3 DEF Mint
  <2>7. CASE IsLarge(peg.delays, Token, q.ref.amount)
    <3>1. UNCHANGED <<bridges, held>>
      BY <1>2, <2>7 DEF Mint
    <3> HIDE DEF after
    <3>2. /\ peg' \in Contract /\ peg'.records = after.records /\ peg'.delays = after.delays
          /\ peg'.supplies = peg.supplies + q.ref.amount
      BY <1>1, <2>3, <2>6 DEF Contract
    <3>3. /\ peg'.delays.delayedTransfers[q] = entry
          /\ \A p \in Request \ {q} :
                peg'.delays.delayedTransfers[p] = peg.delays.delayedTransfers[p]
      BY <1>1, <2>3, <2>4, <2>7, <3>2
    <3> QED
      BY <2>1, <2>2, <2>3, <2>5, <3>1, <3>2, <3>3 DEF DelayedAt
  <2>8. CASE ~IsLarge(peg.delays, Token, q.ref.amount)
    <3>1. TokenMint("peg", q.account, q.ref.amount)
      BY <1>2, <2>8 DEF Mint
    <3> HIDE DEF after
    <3>2. /\ peg' \in Contract /\ peg'.records = after.records /\ peg'.delays = after.delays
          /\ peg'.supplies = peg.supplies + q.ref.amount
      BY <1>1, <2>3, <2>6 DEF Contract
    <3> QED
      BY <2>1, <2>2, <2>3, <2>8, <3>1, <3>2 DEF DelayedAt
  <2> QED
    BY <2>7, <2>8
<1>3. CASE ExecuteDelayedMint(q)
  <2>1. DelayedAt(peg, q) /\ UNCHANGED <<now, vault, signed, adjusted>>
    BY <1>3 DEF ExecuteDelayedMint, CanExecuteDelayed, DelayedAt
  <2>2. /\ q \in peg.records /\ q \in signed /\ ~Done(q)
        /\ peg.delays.delayedTransfers[q].amount = q.ref.amount
        /\ peg.delays.delayedTransfers[q].receiver = q.account
    BY <1>1, <2>1 DEF QueueOf, SignedOnce, Done
  <2>3. peg' = [peg EXCEPT !.delays = RemoveDelayed(@, q)]
    BY <1>3 DEF ExecuteDelayedMint
  <2>4. /\ peg' \in Contract /\ peg'.records = peg.records /\ peg'.supplies = peg.supplies
        /\ peg'.delays.delayedTransfers = [peg.delays.delayedTransfers EXCEPT ![q] = NoTransfer]
    BY <1>1, <2>3, RemovedEffect
  <2>5. /\ peg'.delays.delayedTransfers[q] = NoTransfer
        /\ \A p \in Request \ {q} :
              peg'.delays.delayedTransfers[p] = peg.delays.delayedTransfers[p]
    BY <1>1, <2>4 DEF Contract
  <2>6. TokenMint("peg", q.account, q.ref.amount)
    BY <1>3, <2>2 DEF ExecuteDelayedMint
  <2> QED
    BY <2>1, <2>2, <2>4, <2>5, <2>6 DEF DelayedAt
<1> QED
  BY <1>2, <1>3

LEMMA MintKeeps ==
    ASSUME PegInv, NEW q \in MintRequest, Mint(q) \/ ExecuteDelayedMint(q)
    PROVE  PegInv'
<1> USE DEF PegInv
<1>1. /\ q \in signed /\ ~Done(q) /\ UNCHANGED <<now, vault, signed, adjusted>>
      /\ peg' \in Contract /\ peg'.records = peg.records \cup {q}
      /\ \A p \in Request \ {q} :
            peg'.delays.delayedTransfers[p] = peg.delays.delayedTransfers[p]
      /\ peg'.supplies = IF q \in peg.records THEN peg.supplies ELSE peg.supplies + q.ref.amount
      /\ q \in peg.records <=> DelayedAt(peg, q)
  BY MintEffect
<1>2. /\ q \in Request /\ q \notin vault.records /\ q.ref.amount \in Nat /\ q.ref \in Moves
      /\ q \notin Moves /\ peg.supplies \in Nat /\ signed \subseteq Request
      /\ q.account \in Accounts /\ "peg" \in {"peg", "other"} /\ vault.balance \in Nat
      /\ bridges["peg"].total \in Nat /\ bridges["other"].total \in Nat /\ adjusted \in Int
      /\ Held \in Nat
  BY RequestParts, PeggedAssumption, HeldTyped DEF PegTyped, PegTypeOK, Request, Moves
<1>3. PegTyped'
  <2>1. CASE UNCHANGED <<bridges, held>>
    BY <1>1, <2>1 DEF PegTyped, PegTypeOK, Contract
  <2>2. CASE TokenMint("peg", q.account, q.ref.amount)
    BY <1>1, <1>2, <2>2, TokenMintEffect DEF PegTyped, PegTypeOK, Contract
  <2> QED
    BY <2>1, <2>2, MintEffect
<1>4. \A t \in Moves : t \in Recorded' <=> t \in Recorded
  BY <1>1, <1>2 DEF Recorded
<1>5. \A p \in signed \ {q} : Done(p)' <=> Done(p)
  BY <1>1, <1>2 DEF Done, DelayedAt
<1>6. q.ref \in UnderWay /\ UnderWay' = IF Done(q)' THEN UnderWay \ {q.ref} ELSE UnderWay
  BY <1>1, <1>2, <1>4, <1>5, RequestMoves
<1>7. Done(q)' <=> ~DelayedAt(peg, q)'
  BY <1>1, <1>2 DEF Done
<1>8. /\ q \in MintsDelayed <=> q \in peg.records
      /\ MintsDelayed' = IF DelayedAt(peg, q)' THEN MintsDelayed \cup {q} ELSE MintsDelayed \ {q}
  BY <1>1, <1>2 DEF MintsDelayed, DelayedAt, Request
<1>9. InTransit \in Nat /\ MintsWaiting \in Nat
  BY SumsTyped
<1>10. CASE DelayedAt(peg, q)'
  <2>1. q \notin peg.records /\ UNCHANGED <<bridges, held>>
    BY <1>10, MintEffect
  <2>2. InTransit' = InTransit
    BY <1>6, <1>7, <1>10 DEF InTransit
  <2>3. MintsWaiting' = MintsWaiting + q.ref.amount
    BY <1>8, <1>10, <2>1, MintWaits
  <2> QED
    <3>1. Backing' /\ HoldersBacked' /\ SuppliesExact'
      BY <1>1, <1>2, <1>9, <2>1, <2>2, <2>3, Books DEF Held
    <3>2. SignedOnce' /\ QueueOf(vault)'
      BY <1>1 DEF SignedOnce, QueueOf, DelayedAt
    <3>3. QueueOf(peg)'
      <4>1. /\ peg'.delays.delayedTransfers[q].receiver = q.account
            /\ peg'.delays.delayedTransfers[q].amount = q.ref.amount
        BY <1>10, MintEffect
      <4> QED
        BY <1>1, <4>1 DEF QueueOf, DelayedAt
    <3> QED
      BY <1>3, <3>1, <3>2, <3>3
<1>11. CASE ~DelayedAt(peg, q)'
  <2>1. TokenMint("peg", q.account, q.ref.amount)
    BY <1>11, MintEffect
  <2>2. /\ bridges'["peg"].total = bridges["peg"].total + q.ref.amount
        /\ bridges'["other"].total = bridges["other"].total
        /\ Held' = Held + q.ref.amount
    BY <1>2, <2>1, TokenMintEffect
  <2>3. InTransit' = InTransit - q.ref.amount
    BY <1>6, <1>7, <1>11, TransferEnds
  <2>4. MintsWaiting' = IF q \in peg.records THEN MintsWaiting - q.ref.amount ELSE MintsWaiting
    <3>1. CASE q \in peg.records
      BY <1>8, <1>11, <3>1, MintMade
    <3>2. CASE q \notin peg.records
      BY <1>8, <1>11, <3>2 DEF MintsWaiting
    <3> QED
      BY <3>1, <3>2
  <2>5. Backing' /\ HoldersBacked' /\ SuppliesExact'
    BY <1>1, <1>2, <1>9, <2>2, <2>3, <2>4, Books
  <2>6. SignedOnce' /\ QueueOf(vault)' /\ QueueOf(peg)'
    BY <1>1, <1>11 DEF SignedOnce, QueueOf, DelayedAt
  <2> QED
    BY <1>3, <2>5, <2>6
<1> QED
  BY <1>10, <1>11

LEMMA BurnKeeps ==
    ASSUME PegInv, NEW b \in Burns, Burn(b)
    PROVE  PegInv'
<1> USE DEF PegInv
<1>1. /\ UNCHANGED <<now, vault, signed, adjusted>> /\ TokenBurnFrom("peg", b.account, b.amount)
      /\ b \notin peg.records /\ b \in Moves /\ b.amount \in Nat /\ b.account \in Accounts
      /\ b.amount <= peg.supplies
      /\ peg' = [peg EXCEPT !.records = @ \cup {b}, !.supplies = @ - b.amount]
  BY PeggedAssumption DEF Burn, Moves
<1>2. /\ peg' \in Contract /\ peg'.records = peg.records \cup {b}
      /\ peg'.supplies = peg.supplies - b.amount /\ peg'.delays = peg.delays
  <2> DEFINE records == peg.records \cup {b}
  <2>1. records \in SUBSET (Moves \cup Request) /\ peg.supplies - b.amount \in Nat
    BY <1>1 DEF PegTyped, Contract
  <2>2. peg' = [peg EXCEPT !.records = records, !.supplies = peg.supplies - b.amount]
    BY <1>1
  <2> HIDE DEF records
  <2>3. /\ peg' \in Contract /\ peg'.records = records
        /\ peg'.supplies = peg.supplies - b.amount /\ peg'.delays = peg.delays
    BY <2>1, <2>2 DEF PegTyped, Contract
  <2> QED
    BY <2>3 DEF records
<1>3. PegTyped'
  BY <1>1, <1>2, TokenBurnEffect DEF PegTyped, PegTypeOK, Contract
<1>4. b \notin Recorded /\ Recorded' = Recorded \cup {b} /\ b \notin Request
  BY <1>1, <1>2, PeggedAssumption DEF Recorded, PegTyped, PegTypeOK, Moves, Request
<1>5. \A q \in signed : Done(q)' <=> Done(q)
  BY <1>1, <1>2, <1>4 DEF Done, DelayedAt, PegTyped, PegTypeOK
<1>6. InTransit' = InTransit + b.amount
  BY <1>1, <1>4, <1>5, NewMove, TransferBegins
<1>7. SignedOnce' /\ QueueOf(vault)' /\ QueueOf(peg)'
  BY <1>1, <1>2, <1>4 DEF SignedOnce, QueueOf, DelayedAt
<1>8. MintsDelayed' = MintsDelayed
  BY <1>1, <1>2, <1>4 DEF MintsDelayed, DelayedAt, Request
<1>9. /\ bridges'["peg"].total = bridges["peg"].total - b.amount
      /\ bridges'["other"].total = bridges["other"].total
      /\ Held' = Held - b.amount
  BY <1>1, TokenBurnEffect
<1>10. /\ vault.balance \in Nat /\ bridges["peg"].total \in Nat /\ bridges["other"].total \in Nat
       /\ InTransit \in Nat /\ MintsWaiting \in Nat /\ Held \in Nat /\ peg.supplies \in Nat
       /\ adjusted \in Int
  BY SumsTyped, HeldTyped DEF PegTyped, PegTypeOK
<1>11. Backing' /\ HoldersBacked' /\ SuppliesExact'
  BY <1>1, <1>2, <1>6, <1>8, <1>9, <1>10, Books DEF MintsWaiting
<1> QED
  BY <1>3, <1>7, <1>11

-----------------------------------------------------------------------------
(* The invariant *)

LEMMA PegInitially == PegInit => PegInv
<1> SUFFICES ASSUME PegInit PROVE PegInv
  OBVIOUS
<1>1. /\ now = 1 /\ vault = InitContract /\ peg = InitContract /\ bridges = InitBridges
      /\ held = [a \in Accounts |-> 0] /\ signed = {} /\ adjusted = 0
  BY DEF PegInit
<1>2. /\ InitContract \in Contract /\ InitContract.records = {}
      /\ InitContract.balance = 0 /\ InitContract.supplies = 0
      /\ InitContract.delays.delayedTransfers = [q \in Request |-> NoTransfer]
      /\ InitBridges \in [{"peg", "other"} -> [cap : Nat \ {0}, total : {0}]]
  BY PeggedAssumption
<1>3. PegTyped
  BY <1>1, <1>2 DEF PegTyped, PegTypeOK
<1>4. SignedOnce /\ QueueOf(vault) /\ QueueOf(peg)
  BY <1>1, <1>2 DEF SignedOnce, QueueOf, DelayedAt
<1>5. UnderWay = {} /\ MintsDelayed = {}
  BY <1>1, <1>2 DEF UnderWay, MintsDelayed
<1>6. InTransit = 0 /\ MintsWaiting = 0
  BY <1>5, SumEmpty DEF InTransit, MintsWaiting
<1>7. Held = 0
  BY <1>1, SumZero, PeggedAssumption DEF Held
<1>8. bridges["peg"].total = 0 /\ bridges["other"].total = 0
  BY <1>1, <1>2
<1>9. Backing /\ HoldersBacked /\ SuppliesExact
  BY <1>1, <1>2, <1>6, <1>7, <1>8, Books
<1> QED
  BY <1>3, <1>4, <1>9 DEF PegInv

\* The steps by what they do to the vault.
Elsewhere ==
    \/ \E q \in MintRequest : Mint(q) \/ ExecuteDelayedMint(q)
    \/ \E b \in Burns : Burn(b)
    \/ \E a \in Accounts, amount \in OtherMints : OtherBridgeMints(a, amount) \/ BurnOwn(a, amount)
    \/ \E cap \in Caps : UpdateBridgeSupplyCap("peg", cap)
    \/ \E supply \in Supplies : SetSupply(supply)
    \/ \E q \in Request : SgnSigns(q)
    \/ (\E s \in Settings : Configure(s)) \/ Tick \/ UNCHANGED pegVars

LEMMA PegStepKinds ==
    ASSUME [PegNext]_pegVars
    PROVE  \/ \E d \in Deposits : Deposit(d)
           \/ \E q \in WithdrawRequest : Withdraw(q) \/ ExecuteDelayedWithdraw(q)
           \/ Elsewhere
  BY DEF PegNext, Elsewhere

LEMMA ElsewhereKeeps ==
    ASSUME PegInv, Elsewhere
    PROVE  PegInv'
<1>1. ASSUME NEW q \in MintRequest, Mint(q) \/ ExecuteDelayedMint(q) PROVE PegInv'
  BY <1>1, MintKeeps
<1>2. ASSUME NEW b \in Burns, Burn(b) PROVE PegInv'
  BY <1>2, BurnKeeps
<1>3. ASSUME NEW a \in Accounts, NEW amount \in OtherMints, OtherBridgeMints(a, amount)
      PROVE  PegInv'
  BY <1>3, OtherBridgeMintsKeeps
<1>4. ASSUME NEW a \in Accounts, NEW amount \in OtherMints, BurnOwn(a, amount) PROVE PegInv'
  BY <1>4, BurnOwnKeeps
<1>5. ASSUME NEW cap \in Caps, UpdateBridgeSupplyCap("peg", cap) PROVE PegInv'
  BY <1>5, CapKeeps
<1>6. ASSUME NEW supply \in Supplies, SetSupply(supply) PROVE PegInv'
  BY <1>6, SetSupplyKeeps
<1>7. ASSUME NEW q \in Request, SgnSigns(q) PROVE PegInv'
  BY <1>7, SgnSignsKeeps
<1>8. ASSUME (\E s \in Settings : Configure(s)) \/ Tick \/ UNCHANGED pegVars PROVE PegInv'
  BY <1>8, SettingsKeep
<1> QED
  BY <1>1, <1>2, <1>3, <1>4, <1>5, <1>6, <1>7, <1>8 DEF Elsewhere

LEMMA PegKept == PegInv /\ [PegNext]_pegVars => PegInv'
  BY PegStepKinds, ElsewhereKeeps, DepositKeeps, WithdrawalKeeps

LEMMA PegInvAlways == PegSpec => []PegInv
  BY PegInitially, PegKept, PTL DEF PegSpec

\* The contracts' amounts stay naturals: neither the vault nor the supply books can be
\* drawn below zero (withdraw, executeDelayedTransfer, burn).
THEOREM PegTypeCorrect == PegSpec => []PegTypeOK
<1>1. PegInv => PegTypeOK
  BY DEF PegInv, PegTyped
<1> QED
  BY <1>1, PegInvAlways, PTL

\* The vault owns exactly what this bridge has in circulation and the transfers under
\* way, whatever order they are signed, submitted, delayed and refunded in.
THEOREM BackingCorrect == PegSpec => []Backing
<1>1. PegInv => Backing
  BY DEF PegInv
<1> QED
  BY <1>1, PegInvAlways, PTL

\* Holders never have more than the bridges have on the token's books.
THEOREM HoldersBackedCorrect == PegSpec => []HoldersBacked
<1>1. PegInv => HoldersBacked
  BY DEF PegInv
<1> QED
  BY <1>1, PegInvAlways, PTL

\* supplies is what the bridge has minted and not burned, delayed mints included.
THEOREM SuppliesExactCorrect == PegSpec => []SuppliesExact
<1>1. PegInv => SuppliesExact
  BY DEF PegInv
<1> QED
  BY <1>1, PegInvAlways, PTL

-----------------------------------------------------------------------------
(* The vault implements Transfers *)

States == [q \in WithdrawRequest |-> VaultState(q)]
Owned == [t \in {Token} |-> vault.balance]

\* A step that leaves the vault's records, queue and balance alone is a stutter.
LEMMA VaultStutters ==
    ASSUME UNCHANGED <<vault.records, vault.balance, vault.delays.delayedTransfers>>
    PROVE  UNCHANGED <<States, Owned>>
  BY DEF States, Owned, VaultState, DelayedAt

LEMMA ElsewhereStutters ==
    ASSUME PegInv, Elsewhere
    PROVE  UNCHANGED <<States, Owned>>
<1>1. CASE \E s \in Settings : Configure(s)
  <2>1. UNCHANGED <<vault.records, vault.balance, vault.delays.delayedTransfers>>
    BY <1>1, ConfiguredEffect DEF Configure, PegInv, PegTyped
  <2> QED
    BY <2>1, VaultStutters
<1>2. CASE ~\E s \in Settings : Configure(s)
  <2>1. UNCHANGED vault
    BY <1>2 DEF Elsewhere, Mint, ExecuteDelayedMint, Burn, OtherBridgeMints, BurnOwn,
                UpdateBridgeSupplyCap, SetSupply, SgnSigns, Tick, pegVars
  <2> QED
    BY <2>1, VaultStutters
<1> QED
  BY <1>1, <1>2

LEMMA DepositTakesIn ==
    ASSUME PegInv, NEW d \in Deposits, Deposit(d)
    PROVE  Promise!TakeIn(Token)
<1>1. /\ d.amount \in Nat /\ d.amount > vault.min /\ vault.min \in Nat /\ vault.balance \in Nat
      /\ vault \in Contract
  BY PeggedAssumption DEF Deposit, InLimits, PegInv, PegTyped, PegTypeOK, Contract, Moves
<1>2. /\ vault'.balance = vault.balance + d.amount /\ vault'.delays = vault.delays
      /\ vault'.records = vault.records \cup {d}
  <2> DEFINE records == vault.records \cup {d}
  <2>1. vault' = [vault EXCEPT !.records = records, !.balance = vault.balance + d.amount]
    BY DEF Deposit
  <2> HIDE DEF records
  <2>2. /\ vault'.balance = vault.balance + d.amount /\ vault'.delays = vault.delays
        /\ vault'.records = records
    BY <1>1, <2>1 DEF Contract
  <2> QED
    BY <2>2 DEF records
<1>3. d \notin WithdrawRequest
  BY PeggedAssumption DEF Moves, Request
<1>4. States' = States
  BY <1>2, <1>3 DEF States, VaultState, DelayedAt
<1>5. Owned' = [Owned EXCEPT ![Token] = Owned'[Token]] /\ Owned'[Token] > Owned[Token]
  BY <1>1, <1>2 DEF Owned
<1> QED
  BY <1>4, <1>5 DEF Promise!TakeIn, States, Owned

LEMMA WithdrawalPays ==
    ASSUME PegInv, NEW q \in WithdrawRequest, Withdraw(q) \/ ExecuteDelayedWithdraw(q)
    PROVE  Promise!Accept(q) \/ Promise!Pay(q)
<1>1. q \in Request /\ WithdrawRequest \subseteq Request /\ q.ref.amount \in Nat
  BY RequestParts DEF Request
<1>2. /\ ~Done(q) /\ vault'.records = vault.records \cup {q}
      /\ \A p \in Request \ {q} :
            vault'.delays.delayedTransfers[p] = vault.delays.delayedTransfers[p]
  BY WithdrawalEffect
<1>3. States' = [States EXCEPT ![q] = VaultState(q)']
  <2>1. \A p \in WithdrawRequest \ {q} : VaultState(p)' = VaultState(p)
    BY <1>1, <1>2 DEF VaultState, DelayedAt
  <2> QED
    BY <2>1 DEF States
<1>4. States[q] \in {"open", "waiting"}
  BY <1>2 DEF States, VaultState, Done
<1>5. CASE /\ q \notin vault.records /\ DelayedAt(vault, q)'
           /\ vault'.balance = vault.balance
  <2>1. States[q] = "open" /\ VaultState(q)' = "waiting" /\ Owned' = Owned
    BY <1>2, <1>5 DEF States, VaultState, Owned
  <2> QED
    BY <1>3, <2>1 DEF Promise!Accept, States, Owned
<1>6. CASE /\ ~DelayedAt(vault, q)' /\ q.ref.amount <= vault.balance
           /\ vault'.balance = vault.balance - q.ref.amount
  <2>1. VaultState(q)' = "paid" /\ Owned' = [Owned EXCEPT ![Token] = @ - q.ref.amount]
    BY <1>2, <1>6 DEF VaultState, Owned
  <2>2. q.ref.amount <= Owned[Token]
    BY <1>6 DEF Owned
  <2> QED
    BY <1>3, <1>4, <2>1, <2>2 DEF Promise!Pay, States, Owned
<1> QED
  BY <1>5, <1>6, WithdrawalEffect

\* The vault keeps what Transfers promises: original tokens leave it only when a signed
\* withdrawal or refund is paid, once, in the amount that was locked or burned.
THEOREM VaultKeepsPromiseCorrect == PegSpec => VaultKeepsPromise
<1>1. PegInit => Promise!Init
  <2> SUFFICES ASSUME PegInit PROVE Promise!Init
    OBVIOUS
  <2>1. vault.records = {} /\ vault.balance = 0
    BY PeggedAssumption DEF PegInit
  <2> QED
    BY <2>1 DEF Promise!Init, VaultState
<1>2. PegInv /\ [PegNext]_pegVars => [Promise!Next]_<<States, Owned>>
  <2>1. ASSUME PegInv, NEW d \in Deposits, Deposit(d) PROVE Promise!Next
    BY <2>1, DepositTakesIn DEF Promise!Next
  <2>2. ASSUME PegInv, NEW q \in WithdrawRequest, Withdraw(q) \/ ExecuteDelayedWithdraw(q)
        PROVE  Promise!Next
    BY <2>2, WithdrawalPays DEF Promise!Next
  <2> QED
    BY <2>1, <2>2, ElsewhereStutters, PegStepKinds
<1> QED
  BY <1>1, <1>2, PegInvAlways, PTL DEF PegSpec, VaultKeepsPromise, Promise!Spec, States, Owned

=============================================================================
