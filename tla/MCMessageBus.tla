---------------------------- MODULE MCMessageBus ----------------------------
(* A relay that may be delayed, with a message and a refund signed for it, and a
   message without a transfer; executions nest two deep. *)
EXTENDS MessageBus, TLC

CONSTANTS token, app

SetA == 1 :> 1
InstalledSets == {SetA}
TheRelay == [kind |-> "relay", receiver |-> app, token |-> token, amount |-> 3]
TheRefund == [kind |-> "withdraw", receiver |-> app, token |-> token, amount |-> 2]
RelayRequests == {TheRelay}
WithdrawRequests == {TheRefund}
SignedMessages == {[kind |-> "transfer", transfer |-> TheRelay], [kind |-> "refund", transfer |-> TheRelay],
                   [kind |-> "refund", transfer |-> TheRefund], [kind |-> "message", body |-> 1]}
GasUse == app :> 0
AtDeployment == [length |-> 0, caps |-> token :> 0, period |-> 0,
                 thresholds |-> token :> 2, wrap |-> NoToken]
=============================================================================
