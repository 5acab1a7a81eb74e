------------------------------ MODULE Signers ------------------------------
(***************************************************************************)
(* The signer set a bridge contract trusts                                 *)
(* (contracts/liquidity-bridge/Signers.sol): the signature check over      *)
(* sorted lists, the update signed by the current set, and the owner's     *)
(* emergency reset.  Addresses are naturals, 0 is address(0).  The hash    *)
(* the contract stores stands for the pair it was computed from, here a    *)
(* function from signer to power.                                          *)
(***************************************************************************)
EXTENDS Integers, Sequences, FiniteSets, Functions

CONSTANTS
    SignerAddr,     \* addresses that may sign, positive naturals
    SignerSets,     \* signer sets the owner may install
    Updates,        \* the signed updates: records [triggerTime, signers]
    TRIGGER_WINDOW, \* how far ahead a trigger time may be (3600 seconds)
    NoticePeriods,  \* values for increaseNoticePeriod
    SignerOps,      \* owner operations a run allows
    MaxSigs,        \* longest list of signatures handed in
    MAX_INT,        \* resetTime when no reset has been announced
    MaxTime         \* bound on the clock

ASSUME SignersAssumption ==
    /\ SignerAddr \subseteq Nat \ {0} /\ IsFiniteSet(SignerAddr) /\ NoticePeriods \subseteq Nat
    /\ TRIGGER_WINDOW \in Nat /\ MaxTime \in Nat
    /\ MAX_INT \in Nat /\ MAX_INT > MaxTime
    /\ \A s \in SignerSets : s \in [DOMAIN s -> Nat] /\ DOMAIN s \subseteq SignerAddr
    /\ \A u \in Updates : /\ u.triggerTime \in Nat
                          /\ u.signers \in [DOMAIN u.signers -> Nat]
                          /\ DOMAIN u.signers \subseteq SignerAddr

VARIABLES
    now,            \* block.timestamp
    ss,             \* current signers, by address their power
    triggerTime, resetTime, noticePeriod,
    applied,        \* history: updates applied, in order
    noticeOpen,     \* history: a notice, or the deployment, allows a reset
    noticeEnd       \* history: when that notice is over

signerVars == <<ss, triggerTime, resetTime, noticePeriod, applied, noticeOpen, noticeEnd>>

SignersInit ==
    /\ now = 1 /\ ss = <<>> /\ triggerTime = 0 /\ resetTime = 0 /\ noticePeriod = 0
    /\ applied = <<>> /\ noticeOpen = TRUE /\ noticeEnd = 0

-----------------------------------------------------------------------------
(* _verifySignedPowers: walk the signatures and the sorted signers together. *)

TotalPower(signers) == SumFunctionOnSet(signers, DOMAIN signers)

\* A strict two-thirds majority.
Quorum(signers) == (TotalPower(signers) * 2) \div 3 + 1

\* Mutant: the order of signatures is not checked, so one may count twice.
ScanStep_AnyOrder(signers, sigs, i, before) ==
    IF sigs[i] > 0 /\ \E s \in DOMAIN signers : s >= sigs[i]
    THEN before + (IF sigs[i] \in DOMAIN signers THEN signers[sigs[i]] ELSE 0)
    ELSE -1

\* One round of the loop over the signatures: before is the power counted so
\* far, -1 stands for a revert.  The cursor on the sorted signers only moves
\* forward, to the first one not below the signature, and must not run out.
ScanStep(signers, sigs, i, before) ==
    IF /\ sigs[i] > (IF i = 1 THEN 0 ELSE sigs[i - 1])
       /\ \E s \in DOMAIN signers : s >= sigs[i]
    THEN before + (IF sigs[i] \in DOMAIN signers THEN signers[sigs[i]] ELSE 0)
    ELSE -1

\* The scan stops at a revert and as soon as the quorum is reached.
ScannedPower(signers, sigs) ==
    LET power[i \in 0..Len(sigs)] ==
            IF i = 0 THEN 0
            ELSE LET before == power[i - 1]
                 IN  IF before = -1 \/ before >= Quorum(signers) THEN before
                     ELSE ScanStep(signers, sigs, i, before)
    IN  power[Len(sigs)]

VerifySignedPowers(signers, sigs) == ScannedPower(signers, sigs) >= Quorum(signers)

\* The same check for a set of signers, who sign in ascending order.
SignedByQuorum(signing) ==
    SumFunctionOnSet(ss, signing \cap DOMAIN ss) >= Quorum(ss)

-----------------------------------------------------------------------------
(* Operations. *)

\* Mutant: the trigger time is no nonce.
UpdateSigners_AnyTime(u, signing) ==
    /\ u.triggerTime < now + TRIGGER_WINDOW
    /\ SignedByQuorum(signing)
    /\ ss' = u.signers
    /\ triggerTime' = u.triggerTime
    /\ applied' = Append(applied, u)
    /\ UNCHANGED <<now, resetTime, noticePeriod, noticeOpen, noticeEnd>>

UpdateSigners(u, signing) ==
    /\ u.triggerTime > triggerTime
    /\ u.triggerTime < now + TRIGGER_WINDOW
    /\ SignedByQuorum(signing)
    /\ ss' = u.signers
    /\ triggerTime' = u.triggerTime
    /\ applied' = Append(applied, u)
    /\ UNCHANGED <<now, resetTime, noticePeriod, noticeOpen, noticeEnd>>

\* Mutant: a notice can be used again and again.
ResetSigners_KeepsNotice(signers) ==
    /\ now > resetTime
    /\ ss' = signers
    /\ noticeOpen' = FALSE
    /\ UNCHANGED <<now, resetTime, triggerTime, noticePeriod, applied, noticeEnd>>

ResetSigners(signers) ==
    /\ now > resetTime
    /\ resetTime' = MAX_INT
    /\ ss' = signers
    /\ noticeOpen' = FALSE
    /\ UNCHANGED <<now, triggerTime, noticePeriod, applied, noticeEnd>>

NotifyResetSigners ==
    /\ resetTime' = now + noticePeriod
    /\ noticeOpen' = TRUE
    /\ noticeEnd' = now + noticePeriod
    /\ UNCHANGED <<now, ss, triggerTime, noticePeriod, applied>>

IncreaseNoticePeriod(period) ==
    /\ period > noticePeriod
    /\ noticePeriod' = period
    /\ UNCHANGED <<now, ss, triggerTime, resetTime, applied, noticeOpen, noticeEnd>>

\* Time passes; the clock is bounded by MaxTime.
Tick ==
    /\ now < MaxTime
    /\ now' = now + 1
    /\ UNCHANGED signerVars

SignersStep ==
    \/ \E u \in Updates, signing \in SUBSET SignerAddr : UpdateSigners(u, signing)
    \/ \E s \in SignerSets : ResetSigners(s)
    \/ "notify" \in SignerOps /\ NotifyResetSigners
    \/ \E period \in NoticePeriods : IncreaseNoticePeriod(period)

-----------------------------------------------------------------------------
(* Properties. *)

\* The lists of signatures handed in, address(0) and repetitions included.
SeqOfAddresses == UNION {[1..n -> SignerAddr \cup {0}] : n \in 0..MaxSigs}

\* Whatever list of signatures is handed in, in any order and with strangers or
\* duplicates in it, the check passes only if distinct current signers with more
\* than two thirds of the power are on it; and it does pass for the sorted list
\* of any such signers, however few of them are asked.
VerificationExact ==
    /\ \A sigs \in SeqOfAddresses :
          VerifySignedPowers(ss, sigs) =>
             3 * SumFunctionOnSet(ss, {sigs[i] : i \in 1..Len(sigs)} \cap DOMAIN ss)
                > 2 * TotalPower(ss)
    /\ \A sigs \in SeqOfAddresses :
          (/\ \A i \in 1..Len(sigs) : sigs[i] \in DOMAIN ss
           /\ \A i \in 2..Len(sigs) : sigs[i - 1] < sigs[i]
           /\ SignedByQuorum({sigs[i] : i \in 1..Len(sigs)}))
             => VerifySignedPowers(ss, sigs)

\* A signed update takes effect at most once and never after a later one, in
\* whatever order and however often updates are submitted, resets included.
UpdatesInOrder ==
    \A i, j \in DOMAIN applied : i < j => applied[i].triggerTime < applied[j].triggerTime

\* The owner replaces the signers only once per notice, and only when the period
\* announced with it is over, however the period has been changed since.
ResetNeedsNotice ==
    [][(ss' # ss /\ applied' = applied) => (noticeOpen /\ now > noticeEnd)]_<<now, signerVars>>

=============================================================================
