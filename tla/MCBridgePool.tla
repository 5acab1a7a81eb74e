---------------------------- MODULE MCBridgePool ----------------------------
(* The wrapped native token; a relay and a withdrawal, both large at first. *)
EXTENDS BridgePool, TLC

CONSTANTS weth, alice, bob

SetA == 1 :> 1 @@ 2 :> 1 @@ 3 :> 2
InstalledSets == {SetA}
SignedUpdates == {}

RelayRequests == {[kind |-> "relay", receiver |-> alice, token |-> weth, amount |-> 3]}
WithdrawRequests == {[kind |-> "withdraw", receiver |-> bob, token |-> weth, amount |-> 3]}
UserSends == {[kind |-> "send", token |-> weth, amount |-> 4, slippage |-> 1]}
GasUse == alice :> 1 @@ bob :> 0
AtDeployment == [length |-> 2, caps |-> weth :> 5, period |-> 1,
                 thresholds |-> weth :> 2, wrap |-> NoToken]
=============================================================================
