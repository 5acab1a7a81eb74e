----------------------------- MODULE MCClaims -----------------------------
(* Signer sets with equal, unequal and no powers; two sets of validators. *)
EXTENDS Claims, TLC

SetA == 1 :> 1 @@ 2 :> 1 @@ 3 :> 1
SetB == 2 :> 3 @@ 4 :> 1
SetC == 1 :> 0 @@ 3 :> 2 @@ 4 :> 2
InstalledSets == {SetA, SetB}
SignedUpdates == {[triggerTime |-> 1, signers |-> SetB], [triggerTime |-> 2, signers |-> SetC],
                  [triggerTime |-> 3, signers |-> SetA], [triggerTime |-> 6, signers |-> SetB]}
Validators == {SetA, SetC}
=============================================================================
