------------------------------- MODULE MCRFQ -------------------------------
(* A quote between two chains and one on one chain, in the wrapped native token. *)
EXTENDS RFQ, TLC

CONSTANTS weth, dai, src, dst, user, provider, safe

Across == [src |-> src, dst |-> dst, srcToken |-> weth, dstToken |-> weth, srcAmount |-> 4,
           srcRelease |-> 3, deadline |-> 3, receiver |-> user, refundReceiver |-> safe,
           liquidityProvider |-> provider]
Local == [Across EXCEPT !.dst = src, !.srcAmount = 2, !.srcRelease = 2]
\* It promises the provider more than the sender deposits.
Overdrawn == [Across EXCEPT !.srcAmount = 2]
LocalDai == [Local EXCEPT !.srcToken = dai]

SwapQuotes == {Across, Local, Overdrawn}
DaiQuotes == {Across, LocalDai}

GasUse == user :> 0 @@ provider :> 1 @@ safe :> 2
Changes == {[chain |-> src, what |-> "paused", value |-> TRUE],
            [chain |-> src, what |-> "paused", value |-> FALSE],
            [chain |-> src, what |-> "remote", value |-> {}],
            [chain |-> src, what |-> "remote", value |-> {dst}]}
Registered == {[chain |-> dst, provider |-> provider, signer |-> user]}
Deployed(remote) ==
    [paused |-> FALSE, nativeWrap |-> weth, gas |-> 1, treasury |-> user, feeGlobal |-> 3,
     feeOverride |-> [c \in Chains |-> 0], remote |-> remote,
     quotes |-> [q \in Quotes |-> "Null"], unconsumed |-> {},
     protocolFee |-> [t \in Tokens |-> 0], balance |-> [t \in Tokens |-> 0],
     allowedSigner |-> [a \in Accounts |-> NoAccount]]
AtDeployment == src :> Deployed({dst}) @@ dst :> Deployed({src})
=============================================================================
