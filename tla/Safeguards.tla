----------------------------- MODULE Safeguards -----------------------------
(***************************************************************************)
(* What the bridge contracts inherit from contracts/safeguard: the volume  *)
(* cap per epoch (VolumeControl.sol) and the delay of large transfers      *)
(* (DelayedTransfer.sol).  A contract holds one record of each kind; the   *)
(* operators say when a call is allowed and what it leaves behind.         *)
(***************************************************************************)
EXTENDS Integers

CONSTANT NoTransfer     \* an empty slot of delayedTransfers

-----------------------------------------------------------------------------
(* VolumeControl: v has epochLength and, by token, epochVolumes,           *)
(* epochVolumeCaps and lastOpTimestamps.                                   *)

VolumeLimited(v, token) == v.epochLength # 0 /\ v.epochVolumeCaps[token] # 0

EpochStart(v, now) == (now \div v.epochLength) * v.epochLength

\* Mutant: only the amount at hand is compared with the cap.
VolumeAfter_NoSum(v, token, amount, now) == amount

VolumeAfter(v, token, amount, now) ==
    IF v.lastOpTimestamps[token] < EpochStart(v, now)
    THEN amount
    ELSE v.epochVolumes[token] + amount

WithinCap(v, token, amount, now) ==
    VolumeLimited(v, token) => VolumeAfter(v, token, amount, now) <= v.epochVolumeCaps[token]

UpdateVolume(v, token, amount, now) ==
    IF VolumeLimited(v, token)
    THEN [v EXCEPT !.epochVolumes[token] = VolumeAfter(v, token, amount, now),
                   !.lastOpTimestamps[token] = now]
    ELSE v

-----------------------------------------------------------------------------
(* DelayedTransfer: d has delayPeriod, delayThresholds by token and        *)
(* delayedTransfers by id.                                                 *)

IsLarge(d, token, amount) == d.delayThresholds[token] > 0 /\ amount > d.delayThresholds[token]

CanAddDelayed(d, id) == d.delayedTransfers[id] = NoTransfer

AddDelayed(d, id, receiver, token, amount, now) ==
    [d EXCEPT !.delayedTransfers[id] =
        [receiver |-> receiver, token |-> token, amount |-> amount, timestamp |-> now]]

\* Mutant: the period is not waited for.
CanExecuteDelayed_Early(d, id, now) == d.delayedTransfers[id] # NoTransfer

CanExecuteDelayed(d, id, now) ==
    /\ d.delayedTransfers[id] # NoTransfer
    /\ now > d.delayedTransfers[id].timestamp + d.delayPeriod

RemoveDelayed(d, id) == [d EXCEPT !.delayedTransfers[id] = NoTransfer]

=============================================================================
