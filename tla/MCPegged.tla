------------------------------ MODULE MCPegged ------------------------------
(* One deposit of either size and a burn; a second bridge mints as well. *)
EXTENDS Pegged, TLC

CONSTANTS usd, alice, bob

UserDeposits == {[kind |-> "deposit", account |-> alice, amount |-> 3, toAccount |-> alice],
                 [kind |-> "deposit", account |-> alice, amount |-> 2, toAccount |-> bob]}
UserBurns == {[kind |-> "burn", account |-> alice, amount |-> 3, toAccount |-> bob]}
Changes == {[contract |-> "vault", what |-> "native", value |-> TRUE],
            [contract |-> "vault", what |-> "gas", value |-> 2],
            [contract |-> "peg", what |-> "paused", value |-> TRUE],
            [contract |-> "peg", what |-> "paused", value |-> FALSE],
            [contract |-> "peg", what |-> "threshold", value |-> 0]}
AtDeployment ==
    [paused |-> FALSE, native |-> FALSE, gas |-> 1, records |-> {}, min |-> 0, max |-> 0,
     volume |-> [epochLength |-> 2, epochVolumes |-> usd :> 0,
                 epochVolumeCaps |-> usd :> 4, lastOpTimestamps |-> usd :> 0],
     delays |-> [delayPeriod |-> 1, delayThresholds |-> usd :> 2,
                 delayedTransfers |-> [q \in Request |-> NoTransfer]],
     balance |-> 0, supplies |-> 0]
GasUse == alice :> 1 @@ bob :> 2
Books == "peg" :> [cap |-> 5, total |-> 0] @@ "other" :> [cap |-> 3, total |-> 0]
=============================================================================
