------------------------------- MODULE Pegged -------------------------------
(***************************************************************************)
(* A pegged token across two chains: the vault that locks the original     *)
(* token (OriginalTokenVaultV2.sol), the bridge that mints and burns the   *)
(* pegged one (PeggedTokenBridgeV2.sol), and the token itself              *)
(* (MultiBridgeToken.sol), which other bridges mint as well.  The SGN      *)
(* chain, which is not in the repository, signs one request for every      *)
(* deposit and burn it sees: the regular one or a refund.  The signature   *)
(* check is in Signers; here a request is signed or not.  Signed requests  *)
(* are submitted by anyone, late, repeatedly and in any order.             *)
(***************************************************************************)
EXTENDS Safeguards, FiniteSets, Functions

CONSTANTS
    Token,          \* the token, under its address on either chain
    Accounts,
    Deposits,       \* deposits: records [account, amount, toAccount, ...]
    Burns,          \* burns: records of the same form
    GasNeeded,      \* gas each account uses to accept the native token
    Settings,       \* what the governors set: records [contract, what, value]
    Supplies,       \* values for setSupply
    Caps,           \* values for updateBridgeSupplyCap
    OtherMints,     \* amounts another bridge mints
    InitContract,   \* both contracts at deployment
    InitBridges,    \* supply cap and total of "peg" and "other"
    MaxTime         \* bound on the clock

Moves == Deposits \cup Burns

\* What the SGN chain may sign for a deposit: a mint, or a refund from the vault;
\* for a burn: a withdrawal from the vault, or a refund by a mint.
MintRequest == {[kind |-> "mint", ref |-> d, account |-> d.toAccount] : d \in Deposits}
               \cup {[kind |-> "mint", ref |-> b, account |-> b.account] : b \in Burns}
WithdrawRequest == {[kind |-> "withdraw", ref |-> b, account |-> b.toAccount] : b \in Burns}
                   \cup {[kind |-> "withdraw", ref |-> d, account |-> d.account] : d \in Deposits}
Request == MintRequest \cup WithdrawRequest

\* What either contract keeps; the ids on record are of deposits, burns and requests.
DelayedEntry == [receiver : Accounts, token : {Token}, amount : Nat, timestamp : Nat]
Contract == [paused : BOOLEAN, native : BOOLEAN, gas : Nat, min : Nat, max : Nat,
             records : SUBSET (Moves \cup Request),
             volume : [epochLength : Nat, epochVolumes : [{Token} -> Nat],
                       epochVolumeCaps : [{Token} -> Nat], lastOpTimestamps : [{Token} -> Nat]],
             delays : [delayPeriod : Nat, delayThresholds : [{Token} -> Nat],
                       delayedTransfers : [Request -> {NoTransfer} \cup DelayedEntry]],
             balance : Nat, supplies : Nat]

\* The bridge keeps its role: a supply cap of 0 would revoke it, and the token then
\* keeps no books for it.  Ids of different kinds, hashes of different fields, differ.
ASSUME PeggedAssumption ==
    /\ GasNeeded \in [Accounts -> Nat] /\ MaxTime \in Nat
    /\ IsFiniteSet(Accounts) /\ IsFiniteSet(Deposits) /\ IsFiniteSet(Burns)
    /\ Caps \subseteq Nat \ {0} /\ Supplies \subseteq Nat /\ OtherMints \subseteq Nat
    /\ InitBridges \in [{"peg", "other"} -> [cap : Nat \ {0}, total : {0}]]
    /\ \A t \in Moves : t.amount \in Nat /\ {t.account, t.toAccount} \subseteq Accounts
    /\ Deposits \cap Burns = {} /\ Moves \cap Request = {}
    /\ NoTransfer \notin DelayedEntry
    /\ InitContract \in Contract
    /\ InitContract.records = {} /\ InitContract.balance = 0 /\ InitContract.supplies = 0
    /\ InitContract.delays.delayedTransfers = [q \in Request |-> NoTransfer]
    /\ \A s \in Settings :
          /\ s.contract \in {"vault", "peg"}
          /\ \/ s.what \in {"paused", "native"} /\ s.value \in BOOLEAN
             \/ s.what \in {"gas", "min", "max", "length", "cap", "period", "threshold"}
                /\ s.value \in Nat

VARIABLES
    now,
    vault,      \* the vault: paused, records, min, max, native, volume, delays, balance
    peg,        \* the bridge: the same, with supplies in place of the balance
    bridges,    \* the token's books: by bridge, cap and total
    held,       \* pegged tokens by account
    signed,     \* requests the SGN chain has signed
    adjusted    \* history: what the owner has added to supplies by hand

pegVars == <<now, vault, peg, bridges, held, signed, adjusted>>

PegInit ==
    /\ now = 1
    /\ vault = InitContract /\ peg = InitContract
    /\ bridges = InitBridges
    /\ held = [a \in Accounts |-> 0]
    /\ signed = {} /\ adjusted = 0

-----------------------------------------------------------------------------
(* What both contracts do with a signed request. *)

CanAccept(c, q) ==
    /\ ~c.paused
    /\ q \in signed
    /\ q \notin c.records
    /\ WithinCap(c.volume, Token, q.ref.amount, now)
    /\ IsLarge(c.delays, Token, q.ref.amount) => CanAddDelayed(c.delays, q)

\* Mutant: a delayed request is not recorded.
Accepted_NotRecorded(c, q) ==
    IF IsLarge(c.delays, Token, q.ref.amount)
    THEN [c EXCEPT !.volume = UpdateVolume(@, Token, q.ref.amount, now),
                   !.delays = AddDelayed(@, q, q.account, Token, q.ref.amount, now)]
    ELSE [c EXCEPT !.volume = UpdateVolume(@, Token, q.ref.amount, now),
                   !.records = @ \cup {q}]

\* The contract once the request is recorded and, if large, delayed.
Accepted(c, q) ==
    [c EXCEPT !.records = @ \cup {q},
              !.volume = UpdateVolume(@, Token, q.ref.amount, now),
              !.delays = IF IsLarge(@, Token, q.ref.amount)
                         THEN AddDelayed(@, q, q.account, Token, q.ref.amount, now) ELSE @]

InLimits(c, amount) == amount > c.min /\ (c.max = 0 \/ amount <= c.max)

-----------------------------------------------------------------------------
(* The vault. *)

\* deposit(), and depositNative() when the token is the wrapped native one.
Deposit(d) ==
    /\ ~vault.paused
    /\ InLimits(vault, d.amount)
    /\ d \notin vault.records
    /\ vault' = [vault EXCEPT !.records = @ \cup {d}, !.balance = @ + d.amount]
    /\ UNCHANGED <<now, peg, bridges, held, signed, adjusted>>

\* after is the vault as the caller leaves it but for the payment.
SendOriginal(receiver, amount, after) ==
    /\ vault.native => GasNeeded[receiver] <= vault.gas
    /\ amount <= vault.balance
    /\ vault' = [after EXCEPT !.balance = @ - amount]

Withdraw(q) ==
    /\ q.kind = "withdraw"
    /\ CanAccept(vault, q)
    /\ IF IsLarge(vault.delays, Token, q.ref.amount)
       THEN vault' = Accepted(vault, q)
       ELSE SendOriginal(q.account, q.ref.amount, Accepted(vault, q))
    /\ UNCHANGED <<now, peg, bridges, held, signed, adjusted>>

ExecuteDelayedWithdraw(q) ==
    LET transfer == vault.delays.delayedTransfers[q]
    IN  /\ ~vault.paused
        /\ CanExecuteDelayed(vault.delays, q, now)
        /\ SendOriginal(transfer.receiver, transfer.amount,
                        [vault EXCEPT !.delays = RemoveDelayed(@, q)])
        /\ UNCHANGED <<now, peg, bridges, held, signed, adjusted>>

-----------------------------------------------------------------------------
(* The pegged token. *)

TokenMint(b, to, amount) ==
    /\ bridges[b].cap > 0
    /\ bridges[b].total + amount <= bridges[b].cap
    /\ bridges' = [bridges EXCEPT ![b].total = @ + amount]
    /\ held' = [held EXCEPT ![to] = @ + amount]

\* Mutant: a bridge may burn more than it has minted.
TokenBurnFrom_Unchecked(b, from, amount) ==
    /\ amount <= held[from]
    /\ bridges' = [bridges EXCEPT ![b].total = @ - amount]
    /\ held' = [held EXCEPT ![from] = @ - amount]

\* A bridge that never had a role keeps no books; the holder has approved it.
TokenBurnFrom(b, from, amount) ==
    /\ amount <= held[from]
    /\ IF bridges[b].cap > 0 \/ bridges[b].total > 0
       THEN amount <= bridges[b].total /\ bridges' = [bridges EXCEPT ![b].total = @ - amount]
       ELSE UNCHANGED bridges
    /\ held' = [held EXCEPT ![from] = @ - amount]

\* burn(uint256): the caller's own tokens, in no bridge's name.
BurnOwn(a, amount) ==
    /\ amount <= held[a]
    /\ held' = [held EXCEPT ![a] = @ - amount]
    /\ UNCHANGED <<now, vault, peg, bridges, signed, adjusted>>

OtherBridgeMints(a, amount) ==
    /\ TokenMint("other", a, amount)
    /\ UNCHANGED <<now, vault, peg, signed, adjusted>>

UpdateBridgeSupplyCap(b, cap) ==
    /\ bridges' = [bridges EXCEPT ![b].cap = cap]
    /\ UNCHANGED <<now, vault, peg, held, signed, adjusted>>

-----------------------------------------------------------------------------
(* The bridge of the pegged token. *)

\* Mutant: a delayed mint is not counted in supplies.
Mint_CountsUndelayed(q) ==
    /\ q.kind = "mint"
    /\ CanAccept(peg, q)
    /\ IF IsLarge(peg.delays, Token, q.ref.amount)
       THEN peg' = Accepted(peg, q) /\ UNCHANGED <<bridges, held>>
       ELSE /\ peg' = [Accepted(peg, q) EXCEPT !.supplies = @ + q.ref.amount]
            /\ TokenMint("peg", q.account, q.ref.amount)
    /\ UNCHANGED <<now, vault, signed, adjusted>>

\* supplies counts a mint at once, whether it is delayed or not.
Mint(q) ==
    /\ q.kind = "mint"
    /\ CanAccept(peg, q)
    /\ peg' = [Accepted(peg, q) EXCEPT !.supplies = @ + q.ref.amount]
    /\ IF IsLarge(peg.delays, Token, q.ref.amount)
       THEN UNCHANGED <<bridges, held>>
       ELSE TokenMint("peg", q.account, q.ref.amount)
    /\ UNCHANGED <<now, vault, signed, adjusted>>

\* Mutant: the delayed mint goes around the token's supply books.
ExecuteDelayedMint_OffBooks(q) ==
    LET transfer == peg.delays.delayedTransfers[q]
    IN  /\ ~peg.paused
        /\ CanExecuteDelayed(peg.delays, q, now)
        /\ peg' = [peg EXCEPT !.delays = RemoveDelayed(@, q)]
        /\ held' = [held EXCEPT ![transfer.receiver] = @ + transfer.amount]
        /\ UNCHANGED <<now, vault, bridges, signed, adjusted>>

ExecuteDelayedMint(q) ==
    LET transfer == peg.delays.delayedTransfers[q]
    IN  /\ ~peg.paused
        /\ CanExecuteDelayed(peg.delays, q, now)
        /\ peg' = [peg EXCEPT !.delays = RemoveDelayed(@, q)]
        /\ TokenMint("peg", transfer.receiver, transfer.amount)
        /\ UNCHANGED <<now, vault, signed, adjusted>>

\* burn() and burnFrom(), which differ in the token function they call.
Burn(b) ==
    /\ ~peg.paused
    /\ InLimits(peg, b.amount)
    /\ b.amount <= peg.supplies
    /\ b \notin peg.records
    /\ peg' = [peg EXCEPT !.records = @ \cup {b}, !.supplies = @ - b.amount]
    /\ TokenBurnFrom("peg", b.account, b.amount)
    /\ UNCHANGED <<now, vault, signed, adjusted>>

\* setSupply, increaseSupply and decreaseSupply.
SetSupply(supply) ==
    /\ peg' = [peg EXCEPT !.supplies = supply]
    /\ adjusted' = adjusted + (supply - peg.supplies)
    /\ UNCHANGED <<now, vault, bridges, held, signed>>

-----------------------------------------------------------------------------
(* The SGN chain, the governors and time. *)

SgnSigns(q) ==
    /\ q.ref \in vault.records \cup peg.records
    /\ \A p \in signed : p.ref # q.ref
    /\ signed' = signed \cup {q}
    /\ UNCHANGED <<now, vault, peg, bridges, held, adjusted>>

\* A contract after one of its setters: pause, setWrap, setNativeTokenTransferGas,
\* setMin..., setMax..., setEpochLength, setEpochVolumeCaps, setDelayPeriod, setDelayThresholds.
Configured(c, s) ==
    CASE s.what = "paused"    -> [c EXCEPT !.paused = s.value]
      [] s.what = "native"    -> [c EXCEPT !.native = s.value]
      [] s.what = "gas"       -> [c EXCEPT !.gas = s.value]
      [] s.what = "min"       -> [c EXCEPT !.min = s.value]
      [] s.what = "max"       -> [c EXCEPT !.max = s.value]
      [] s.what = "length"    -> [c EXCEPT !.volume.epochLength = s.value]
      [] s.what = "cap"       -> [c EXCEPT !.volume.epochVolumeCaps[Token] = s.value]
      [] s.what = "period"    -> [c EXCEPT !.delays.delayPeriod = s.value]
      [] s.what = "threshold" -> [c EXCEPT !.delays.delayThresholds[Token] = s.value]

Configure(s) ==
    /\ IF s.contract = "vault"
       THEN vault' = Configured(vault, s) /\ UNCHANGED peg
       ELSE peg' = Configured(peg, s) /\ UNCHANGED vault
    /\ UNCHANGED <<now, bridges, held, signed, adjusted>>

Tick ==
    /\ now < MaxTime
    /\ now' = now + 1
    /\ UNCHANGED <<vault, peg, bridges, held, signed, adjusted>>

PegNext ==
    \/ \E d \in Deposits : Deposit(d)
    \/ \E q \in WithdrawRequest : Withdraw(q)
    \/ \E q \in WithdrawRequest : ExecuteDelayedWithdraw(q)
    \/ \E q \in MintRequest : Mint(q)
    \/ \E q \in MintRequest : ExecuteDelayedMint(q)
    \/ \E b \in Burns : Burn(b)
    \/ \E a \in Accounts, amount \in OtherMints : OtherBridgeMints(a, amount)
    \/ \E a \in Accounts, amount \in OtherMints : BurnOwn(a, amount)
    \/ \E cap \in Caps : UpdateBridgeSupplyCap("peg", cap)
    \/ \E supply \in Supplies : SetSupply(supply)
    \/ \E q \in Request : SgnSigns(q)
    \/ \E s \in Settings : Configure(s)
    \/ Tick

PegSpec == PegInit /\ [][PegNext]_pegVars

-----------------------------------------------------------------------------
(* Properties. *)

\* The contracts' amounts are naturals: nothing is paid, minted or burned twice
\* over, nor burned in a bridge's name beyond what that bridge has minted.
PegTypeOK ==
    /\ vault.balance \in Nat /\ peg.supplies \in Nat
    /\ vault.records \subseteq Deposits \cup WithdrawRequest
    /\ peg.records \subseteq Burns \cup MintRequest
    /\ bridges \in [{"peg", "other"} -> [cap : Nat, total : Nat]]
    /\ held \in [Accounts -> Nat]
    /\ signed \subseteq Request

DelayedAt(c, q) == c.delays.delayedTransfers[q] # NoTransfer

\* The transfer has been paid out on one side.
Settled(ref) ==
    \E q \in signed :
        /\ q.ref = ref
        /\ \/ q \in vault.records /\ ~DelayedAt(vault, q)
           \/ q \in peg.records /\ ~DelayedAt(peg, q)

UnderWay == {t \in Moves : t \in vault.records \cup peg.records /\ ~Settled(t)}

\* The vault owns exactly the pegged tokens this bridge has in circulation and
\* the transfers under way, in either direction, waiting to be signed or submitted,
\* delayed on one side, refunded or not, whatever other bridges mint.
Backing ==
    vault.balance = bridges["peg"].total
        + SumFunctionOnSet([t \in Moves |-> t.amount], UnderWay)

\* Holders never have more pegged tokens than the bridges have on their books.
HoldersBacked ==
    SumFunctionOnSet(held, Accounts) <= bridges["peg"].total + bridges["other"].total

MintsDelayed == {q \in MintRequest : q \in peg.records /\ DelayedAt(peg, q)}

\* supplies, which limits burns, is what this bridge has minted and not burned,
\* delayed mints included, apart from what the owner set by hand.
SuppliesExact ==
    peg.supplies = adjusted + bridges["peg"].total
        + SumFunctionOnSet([q \in MintRequest |-> q.ref.amount], MintsDelayed)

\* How far a withdrawal has come.
VaultState(q) ==
    IF q \notin vault.records THEN "open" ELSE IF DelayedAt(vault, q) THEN "waiting" ELSE "paid"

Promise == INSTANCE Transfers WITH
    Requests <- WithdrawRequest,
    Tokens <- {Token},
    TokenOf <- [q \in WithdrawRequest |-> Token],
    AmountOf <- [q \in WithdrawRequest |-> q.ref.amount],
    state <- [q \in WithdrawRequest |-> VaultState(q)],
    balance <- [t \in {Token} |-> vault.balance]

\* The vault keeps its promise: original tokens leave it only when a signed
\* withdrawal or refund is paid, once, in the amount that was locked or burned.
VaultKeepsPromise == Promise!Spec

=============================================================================
