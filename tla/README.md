# TLA+ development for the SGN v2 contracts

This directory holds TLA+ modules that model the Solidity contracts under
`contracts/` and the scripts that deploy and operate them under `deploy/` and
`scripts/`, TLC configurations that check them on small instances, and TLAPS
proofs of theorems about them. Every definition was translated from the source;
`PROJECT.json` maps each one to the lines it models.

How a transaction becomes a step: an external function is one action. A failed
`require`, a checked subtraction below zero or a call that reverts makes the
action disabled, because the whole transaction is undone. Calls to other
contracts inside a function belong to the same action. A script is a process of
its own: each transaction it sends is one step, and the mining of it another.

## 1. Inventory

### Staking (`staking/Staking.sol`, `DataTypes.sol`)
*State*: per validator its status (Null, Unbonded, Unbonding, Bonded), signer,
tokens and shares delegated, tokens and shares being undelegated, minimum self
delegation, bond and unbond blocks; per delegator of a validator its shares and
a queue of undelegations; signer registry; the bonded array and the cached sum
`bondedTokens`; slash nonces; forfeiture; parameters.
*Operations*: initializeValidator, updateValidatorSigner, bondValidator (direct
or replacing the smallest), confirmUnbondedValidator, delegate,
undelegateShares, undelegateTokens, completeUndelegate, updateCommissionRate,
updateMinSelfDelegation, slash (signed by a quorum of stake),
collectForfeiture, setParamValue (governance), the owner's and pausers' calls.
*Hard parts*: integer division in both directions of the token and share
conversion, uneven after a slash; three cached totals updated by many handlers;
swap-and-pop on the bonded array; parameters that change under validators and
undelegations in progress; signer changes while signatures are in flight.
*Correct when*: the contract owns what it owes; the totals are the sums they
stand for; the bonded array is the set of bonded validators; signers are
unambiguous; stake stays slashable for the unbonding period; nobody loses more
than rounding except by a slash; a jailed validator stays out.

### Govern (`staking/Govern.sol`)
*State*: proposals with deposit, deadline, value and votes; forfeiture.
*Operations*: createParamProposal, voteParam, confirmParamProposal,
collectForfeiture. It reads the bonded validators and their tokens from Staking
and calls its setParamValue.
*Hard parts*: stake is weighed at confirmation, not at the vote; the deposit
parameter can itself be changed by a proposal.
*Correct when*: only two thirds of the bonded stake change a parameter; deposits
are covered; every proposal settles.

### Signers (`liquidity-bridge/Signers.sol`)
*State*: hash of the current signers and powers, last trigger time, reset time,
notice period. *Operations*: updateSigners (signed by a quorum of the current
ones), notifyResetSigners, resetSigners and increaseNoticePeriod by the owner,
verifySigs for every other contract.
*Hard parts*: a single forward scan over a sorted list with early return;
updates delivered late, twice or out of order, with resets in between.
*Correct when*: the scan accepts exactly the quorums; updates apply once and in
order; a reset needs its own complete notice.

### Bridge and Pool (`liquidity-bridge/Bridge.sol`, `Pool.sol`), VolumeControl, DelayedTransfer (`safeguard/`)
*State*: transfers and withdrawals done, limits, liquidity, volume per token
and epoch, delayed transfers, pause. *Operations*: addLiquidity,
addNativeLiquidity, send, sendNative, relay, withdraw, executeDelayedTransfer,
governors' setters. *Interaction*: one contract by inheritance; the SGN chain,
outside the repository, signs relays and withdrawals, and anyone submits them.
*Hard parts*: repeated, reordered and late requests; a native receiver that
refuses payment; settings changed between acceptance and payment; epoch
boundaries; a delayed transfer reserves no liquidity.
*Correct when*: each request pays once; volume is capped; large transfers wait;
delayed ones are paid if they can be.

### Vault, pegged bridge and bridge token (`pegged-bridge/OriginalTokenVaultV2.sol`, `PeggedTokenBridgeV2.sol`, `tokens/MultiBridgeToken.sol`)
*State*: on one chain locked tokens and records of deposits and withdrawals, on
the other records of mints and burns and `supplies`; in the token, cap and total
of each bridge; both with the safeguards above. *Operations*: deposit, withdraw,
mint, burn, executeDelayedTransfer on both sides, supply setters, token calls by
holders and other bridges. *Interaction*: two chains that share nothing but the
signed requests.
*Hard parts*: delays, refunds and caps on either side at once; two counts of the
supply taken at different moments. *Correct when*: locked tokens cover what
circulates and what is under way; the books agree.

### MessageBus (`message/messagebus/`)
*State*: status of every message id; fees withdrawn by account; the native
tokens it owns. *Operations*: executeMessageWithTransfer,
executeMessageWithTransferRefund, executeMessage, transferAndExecuteMsg,
refundAndExecuteMsg, sendMessage, sendMessageWithTransfer, withdrawFee.
*Interaction*: asks the bridges whether a transfer was made and is not delayed,
verifies signatures with the liquidity bridge's signers, calls applications.
*Hard parts*: an application may do anything before it returns, also call the
bus again; success, failure, retry, revert and abort each leave a different
status and undo different things; the fallback is a second call with the same
value. *Correct when*: a message is handled at most once and its status says how;
no application is called before its tokens arrived; fees stay covered.

### RFQ (`message/apps/RFQ.sol`)
*State*: on each chain the status of every quote, messages received and not used,
protocol fees by token, fee percentages, signers allowed by providers, the
remote contracts, pause. *Operations*: deposit, transfer (in tokens, native, by a
signature), the same on one chain with the release at once, release, refund
request, refund, message handler, fee collection, setters. *Interaction*: one
contract on each chain, which report to each other over the message bus.
*Hard parts*: each chain judges the deadline by its own clock; release and
refund of one quote are decided on the destination chain and carried out on the
source chain, by messages that arrive late, in any order, or after a retry.
*Correct when*: a swap happens on both sides or is refunded, once; the funds are
the open deposits and the fees; every deposit is settled.

### Reward pools (`staking/StakingReward.sol`, `staking/SGN.sol`, `liquidity-bridge/FarmingRewards.sol`)
*State*: what each recipient has been paid of each token, balances, pause.
*Operations*: claimReward, withdraw, claimRewards; contributions and deposits;
drainToken. *Interaction*: the SGN chain signs, per recipient, the total earned
since the beginning; the validators bonded in Staking, or the Bridge's signers,
verify it. *Hard parts*: a signed total stays valid for ever and is submitted
late, again and out of order; the signers change in between; FarmingRewards
takes several tokens at once and reverts them all on one underflow.
*Correct when*: everybody has been paid a signed total, and gets the last one in
the end.

### Roles and setters (`safeguard/Ownable.sol`, `Pauser.sol`, `Governor.sol`, the setters of the bridges, vaults, bus and RFQ)
*State*: of every contract the owner, pausers, governors, pause and parameters.
*Hard parts*: a role is given by one account and used by another, later; a
constructor grants its caller all three, a proxy's `init` only the ownership.

### Sentinel (`safeguard/sentinel/`)
*State*: guards (an array and a state each), the number relaxed, the threshold, the
cached mode; its own pausers and governors. *Operations*: guard, relax, pause
and unpause of one target or several, the setters it relays, the owner's
changes of guards, threshold and roles. *Interaction*: it is a pauser and a governor of the
bridges and vaults. *Hard parts*: the cached mode depends on four things
that change separately. *Correct when*: the cached mode is what the guards say.

### SimpleGovernance and owner proxies (`governed-owner/`)
*State*: voters' powers, thresholds and active period, proposals and votes,
proxies that may propose. *Operations*: createProposal (external call, change of a parameter,
of voters, of proxies, transfer of tokens), voteProposal, executeProposal, also through a
proxy; initGov. *Interaction*: it owns contracts; executing calls them.
*Hard parts*: votes are counted with the powers and thresholds of the moment of
execution, which another proposal may have changed. *Correct when*: a governed
contract changes by a vote that passed, and in no other way.

### Operator scripts (`scripts/`, `scripts/sentinel/`)
*State*: none of their own: an environment, the deployment records, transactions
in the pool. *Operations*: set_basics, set_limits, set_msg_fee, reset_signers,
transfer_ownership, init_governed_owner, update_bridge_supply_cap,
oasys_token_factory, and through the Sentinel set_limits, guard and relax.
*Hard parts*: a script sends up to some thirty transactions, and stops at the
first that fails; what it has sent is mined after it is killed; it is run again
with another environment, while owners and governors act.
*Correct when*: a run that ends well has set what it was run to set.

### Deployment scripts (`deploy/`)
*State*: the deployment records. *Operations*: one script for each contract or group,
plain or behind a proxy. *Interaction*: hardhat-deploy, outside the repository,
decides what is created, reused, upgraded and recorded. *Hard parts*: a script
that is run again with other arguments, or was killed between two contracts that
refer to each other. *Correct when*: after a run that ends well the records fit together.

### Not modelled yet, or not at all
| Part | Why |
|---|---|
| DelayedMessage, MessageAppPauser | planned: messages queued and executed like delayed transfers |
| Message app framework | the message bus is checked against any application |
| NFTBridge | planned: a token held on one chain only |
| OriginalTokenVault, PeggedTokenBridge (V1), native and BRC20 variants, other tokens | variants of what `Pegged` models |
| Viewer, WithdrawInbox, Whitelist, transfer libraries, TransferAgent, circle-usdc, examples | stateless, external, or one set and one check |
| Pb* libraries, interfaces, test helpers | decoding, declarations |
| hardhat.config.ts, the benchmark, the zkSync deployment | networks and keys; measures gas; commented out |

## 2. Modules

| Module | Models | Extends |
|---|---|---|
| `Staking` | Staking.sol | |
| `Govern` | Govern.sol over the staking contract | `Staking` |
| `Signers` | Signers.sol | |
| `Safeguards` | VolumeControl.sol and DelayedTransfer.sol, as operators on records | |
| `BridgePool` | Bridge.sol and Pool.sol | `Signers`, `Safeguards` |
| `MessageBus` | MessageBus.sol, its receiver and its sender | `BridgePool` |
| `Transfers` | nothing of the code: what a contract that pays signed requests promises; `BridgePool` and the vault in `Pegged` implement it | |
| `Pegged` | vault, pegged bridge and token on two chains | `Safeguards` |
| `RFQ` | RFQ.sol on any number of chains, and the bus between them | |
| `SumTheorems` | nothing of the code: facts about sums over finite sets, for the proofs | |
| `StakingProofs` | theorems about `Staking`: types, bonded list, signers, money, totals, quorums, minimum, delay, rounding | `Staking`, `SumTheorems` |
| `GovernProofs` | theorems about `Govern` | `Govern`, `StakingProofs` |
| `BridgeProofs` | theorems about `BridgePool` and `MessageBus` | `MessageBus`, `SumTheorems` |
| `PeggedProofs` | theorems about `Pegged` | `Pegged`, `SumTheorems` |
| `RFQProofs` | theorems about `RFQ` | `RFQ`, `SumTheorems` |
| `Claims` | StakingReward.sol, SGN.sol, FarmingRewards.sol over the signers and the bonded validators | `Signers` |
| `ClaimsProofs` | theorems about `Claims` and `Signers` | `Claims`, `SumTheorems` |
| `Admin` | Ownable.sol, Pauser.sol, Governor.sol and the setters of every contract the scripts reach | |
| `Sentinel` | Guard.sol, GuardedPauser.sol, GuardedGovernor.sol | `Admin` |
| `SimpleGovernance` | SimpleGovernance.sol, the owner proxies | `Sentinel` |
| `Scripts` | the programs of `scripts/`, as sequences of steps | `Admin` |
| `DeployScripts` | the programs of `deploy/`, as sequences of steps | `Scripts` |
| `Operations` | the machine that runs them, the pool, mining, and the other people | `SimpleGovernance`, `DeployScripts` |
| `OperationsProofs` | theorems about `Operations`: the Sentinel's mode, owners' powers | `Operations`, `SumTheorems` |
| `MC*` | small instances | the module they check |

Definitions named `X_Bug` beside a definition `X` (such as `Mature_OneEarly`
beside `Mature`) are deliberately wrong variants, one for each property: the
property fails when `X` is replaced by the variant.

How the state corresponds to the code:
* `validators` and `delegators` in `Staking` are the nested mapping of structs; a
  queue with head and tail is a sequence. `block` is the block number and, as
  blocks only move forward, the timestamp as well. `wallet` and `balance` are
  CELR balances. `slashableUntil` and `jailedUntil` are history only.
* An id that hashes all fields of a request is the request itself, because equal
  ids mean equal fields (hash collisions are outside the model).
* Signatures are the set of addresses that signed; that a list is sorted and
  free of duplicates matters only to the scan, and `Signers` has that scan.
* `BridgePool` keeps wrapped and native tokens as one balance: paying the native
  token unwraps as much. A receiver needs `GasNeeded` gas to accept it.
* Native payments hand control to the receiver after all state is written (and
  entry points that take tokens are nonReentrant), so a nested call has the effect of a later step.
* Batch setters are calls with one token.
* In `Pegged` the signature check is membership in `signed`, and the SGN chain
  signs at most one request for each deposit or burn it saw: the regular one or a refund.
* In `MessageBus` an execution is two steps or more, because the application acts in
  between: `Execute` or `TransferAndExecute` calls it, `AppStep` ends the call, and
  between them any `PublicStep` may happen, inside the call. `stack` holds the
  calls in progress, each with the state before the execution and at the call, to
  which a revert returns. Too little gas (`handleExecutionRevert`) and the
  abort prefix both undo the execution, so both are `Abort`. An id is the transfer
  itself, or the message when there is none.
* In `Transfers` a request is open, waiting or paid. In the code that is
  `transfers` and `withdraws` (in the vault `records`) together with `delayedTransfers`.
* `RFQ` holds one record per chain in `rfq`, the storage of that chain's contract;
  `balance` is what it owns of each token, native or wrapped. `clock` is a
  block timestamp per chain, and the chains' clocks are independent. `sent` are the messages
  on the bus, which is modelled by its promise: each message is delivered at most once,
  and one refused with a retry stays (`StatusExact` in `MessageBus` shows it). A release or
  refund that brings its message along (`_execMsgCallData`) delivers it and uses it in
  one step. `paid` is history only. Message fees are left out.
* `Claims` follows one of the three contracts in a behaviour, or none (then all that the
  Bridge's signers may do). `claims` are all totals signed so far, `received` is history only.
* In `Admin` a call is a record with the contract, the method and its arguments, and one action
  per kind of method; a call reverts exactly where its action is not enabled. `access` and
  `settings` hold owner, roles, pause and parameters of all contracts by address.
* In `Scripts` and `DeployScripts` an environment maps the variables that are set to the list
  of their comma-separated parts, and a program is the sequence of steps it yields: a call
  awaited (`call`), one only sent (`send`), a deployment, a throw. The sequence is computed again at each step,
  since a script reads the deployment records and addresses as it goes.
* In `Operations` `run` is the script under way and `pool` the deployer's transactions not
  yet mined, in the order of their nonces; `live` says that the run still waits for one. A
  process that is killed leaves them in the pool. hardhat-deploy is external and modelled from what the scripts
  rely on: a deployment is reused when the recorded one has the same arguments, the default proxy
  admin whenever there is one, a proxy is upgraded by its admin's owner alone, gas is estimated
  before sending (not in oasys_token_factory.ts, which gives a limit), and a transaction of
  a killed run is mined but not recorded.
* A session says which contracts exist, who owns them, which scripts are run
  with which environments and what the other people may do (`MCOperations`).
* `Safeguards` holds no variables: a contract that inherits the code holds one
  record of each kind, as each deployment has its own storage.

## 3. Runs

| Run | Question | Instance | Result |
|---|---|---|---|
| `staking_accounting` | solvency, totals, minimum stake, unbonding delay, bounded loss | 1 validator, 1 delegator, 2 slashes with collectors, a slash cap, pause, drain, blocks 0..3 | passes, 183,924 states |
| `staking_bonding` | bonded array, signer registry, quorum intersection | 3 candidates of 10, 10, and 10 or 12 tokens for 3 slots, then 2; a jailing slash, signers change, blocks 0..1 | passes, 127,724 states |
| `staking_jail` | is a jailed validator kept out? | 1 validator | violated |
| `staking_residual` | does a delegation buy shares? | 1 validator, 1 slash | violated |
| `govern` | parameter changes, deposits, settlement | 2 validators, 2 proposals, blocks 0..2 | passes, 140,478 states |
| `claims` | scan, order of updates, notice of resets; exact and eventual payment of rewards | 4 signer addresses, 3 signer sets, 4 updates, 2 sets of validators; the 3 contracts one at a time or none; 2 tokens, 2 claims of up to 2, clock 1..5 | passes, 46,744 states |
| `operations` | scripts and deployments end with what they were to do; the Sentinel's mode; the governance's vote | 63 sessions: 14 in which scripts and people meet, and one for each deployment script with several environments; 2 runs, 1 kill, 2 proposals | passes, 80,801 states |
| `bridge_pool` | exactly once, volume, delay, payment | 1 relay and 1 withdrawal of the wrapped native token, all submissions, changes of cap, threshold, period, epoch, wrap, gas and pause, clock 1..4 | passes, 113,792 states |
| `message_bus` | handled once, tokens first, fees | a relay of 3 with a message and a refund signed for it, a withdrawal of 2 with a refund, a message alone; executions nest 2 deep, clock 1..2 | passes, 198,206 states |
| `pegged` | backing, books, supply | 2 deposits, 1 burn, refunds, another bridge, changes of settings, clock 1..4 | passes, 225,440 states |
| `rfq` | swap or refund, funds, settlement | 2 chains with clocks 1..4; a quote across them, one on one chain, one that promises more than is deposited; pause, and a remote contract unset and set again | passes, 100,368 states |
| `rfq_release` | is a release made in the quote's token? | a quote across and one on one chain in another token | violated |

### What the properties say
* `TypeOK`, `BusTypeOK`, `PegTypeOK`, `RfqTypeOK`: amounts never go below zero.
* `Solvency`, `BondedTokensExact`, `SharesExact`: the staking contract's money
  and its three cached totals, through rounding, slashes, residual shares and capped collectors.
* `BondedHasMinimum`: no bonded validator is below `MinValidatorTokens`, which the
  instance leaves fixed (raising the parameter does not evict anyone in the code).
* `UnbondingDelay`: an entry leaves a queue, or stake leaves at once, only after its own
  unbonding period or the one that began when the validator last left Bonded.
* `NoLossWithoutSlash`: no step but a slash costs anyone more than three units
  (`Dust`). It is claimed while a share is worth at most one token, that is except
  in the states the second finding is about.
* `BondedListExact`, `SignerRegistry`, `QuorumIntersection`: who is bonded, who
  signs for whom, and that two quorums share more than a third of the stake. Stakes are uneven, so that
  a third validator replaces the smallest of two, also after it was slashed and jailed, and so
  that with three bonded there are different quorums of two (a majority in place of two thirds would
  let them share 10 of 32 tokens).
* `ProposalsSettle`: from any moment on, a proposal is settled after its deadline or refused by
  staking. Both occur: a passed proposal for fewer slots stays open while too many
  validators are bonded, for ever if none leaves, and is settled once staking accepts it.
* `GovSolvency`, `ParamsChangeByStake`; `VerificationExact`,
  `UpdatesInOrder`, `ResetNeedsNotice`; `ExactlyOnce`, `VolumeCapped`,
  `LargeTransfersWait`, `DelayedArePaid`; `Backing`, `HoldersBacked`,
  `SuppliesExact`: stated beside their comments in the modules.
* `PoolKeepsPromise`, `VaultKeepsPromise`: the refinements. Each contract
  implements `Transfers`: tokens leave it only as the payment of one signed request,
  once, in the signed amount, whatever the governors change meanwhile. The
  mappings are `RequestState` and `VaultState`.
* `StatusExact`, `TokensFirst`, `FeesCovered`: the message bus, at the end of a
  transaction (`stack` empty) or, the last two, also during one. `FeesCovered`
  counts in `resent` what a fallback was sent although the first call had
  reported failure and kept the value (MessageBusReceiver.sol:303); the code
  leaves that amount to the bus's balance, and the property says that nothing
  else can fall short.
* `SwapOrRefund`: what the two chains pay for one quote, whatever their clocks say and
  in whatever order messages arrive. `FundsCovered`: what a contract owns is its open
  deposits and uncollected fees, exactly, so a release, a refund or a fee collection
  never takes from another quote. `DepositsSettle`: a deposit is released or refunded in the
  end, unless `Blocked`: a contract paused, a remote contract unset, or the deadline
  beyond the clock's bound.

* `PaidAsSigned`: whatever is submitted in whatever order, a recipient has been paid
  exactly what the contract has on record, and that is one signed total. `RewardsArrive`: the last
  total is paid in the end if the pool and the signers allow it; no earlier claim locks it out.
* `RelaxedExact`: the Sentinel's array, states, counter and cached mode agree, through
  every way of adding, removing, guarding and relaxing and changes of the threshold.
* `OwnerPowersByVote`: once the governance owns a contract, what its owner may do is done
  only by executing an open proposal that enough of the power wants at that moment, also
  with transactions of a script still in the pool when the ownership is handed over.
* `FinishedMeansSet`: a script that ends well has set everything it was to set, unless somebody
  else changed it since it began; `DeploymentsWired`: after a deployment that ends well each
  recorded contract was created from the recorded others, and each proxy runs the recorded
  implementation.

### Findings
1. `staking_jail`. `updateMinSelfDelegation` (Staking.sol:316) overwrites the
   `bondBlock` set by a slash with a jail period (Staking.sol:355): slash with jail, confirm unbonded or not,
   lower the minimum, bond after the shorter notice. DataTypes.sol:56 calls `bondBlock` the
   block before which the validator cannot become bonded.
2. `staking_residual`. The residual rule (Staking.sol:633) removes the last one or
   two shares of a delegator while the validator can keep a few tokens; with no
   shares left, the next delegation is converted at zero shares and buys nothing.

3. `rfq_release`. `_srcRelease` with `_releaseNative` (RFQ.sol:246) pays out of the
   wrapped native tokens whatever the quote's source token is and announces the payment in
   the source token (RFQ.sol:251). `srcReleaseNative` checks at RFQ.sol:226 that they are the same;
   the same-chain transfers do not. For this reason the instance of `rfq` has one token, and
   `FundsCovered` is claimed, and proved, only for quotes that respect it (`NativeQuotes`).

### Bounds, and why they are enough
Each bound is a constant named in the module: `MaxBlock` and `MaxTime` (clocks),
`MaxProposals`, `MaxAdds`, `MaxSigs`, `MaxDepth` and `MaxFees` (message bus), `MaxTotal`, `MaxClaims`
and `MaxPool` (claims), `MaxRuns` and `MaxCrashes` (operations). Two
nested executions are the least in which an application calls the bus; in them a
message can meet itself, its own refund, or another one. The clocks exceed every period by at
least one step, so each deadline is met, missed and met exactly. Amounts are chosen so
that the rounding cases occur: with a slash of a tenth, 10, 12 and 17
do not divide evenly; a token with `CELR_DECIMAL = 10` leaves room for residues of
one and two shares. In `operations`, `MaxRuns = 2` is a run and the run again with the same or another
environment, `MaxCrashes = 1` the kill that leaves transactions in the pool for the second; two
proposals are the least of which one changes how the other is counted, and the active
period ends within the clock. The environments include lists that are empty, missing or of
different lengths, values a contract refuses, and contracts that are not deployed. In `claims`,
`MaxClaims = 2` is a claim and a later one, of the same or another token; `MaxPool = 1`
is less than one claim can be, so that a pool runs short, and `MaxTotal = 2` leaves room for a
second payment. Three candidates of uneven stakes for two slots are the least that need a
replacement, and three bonded with 10, 10 and 12 tokens the least where different quorums
overlap in part; there the parameter change from three slots to two gives both in one instance. In it
the clock only reaches the end of the unbonding period and of the jail, one block each; the other instances go on. A relay and a withdrawal of 3 meet a cap of 5, so that one epoch takes one of them,
and a threshold of 2, so that both are large until the governor says otherwise.
In `rfq` a deadline of 3 is met, missed and met exactly by clocks up to 4, on
either chain before the other. `CHECK_DEADLOCK FALSE` stands in `claims`, `operations`, `bridge_pool`, `message_bus`, `pegged` and the `rfq` runs: when the
clock reaches its bound and all requests are done nothing is left to do, and when the
scripts of a session have been run its people are done too. Addresses are compared
in code (sorted lists) or play different parts, so no symmetry is declared.

### Fairness
`GovFairness`: blocks keep coming, and `confirmParamProposal`, which anyone may
call, is called as long as it would succeed, since the proposer wants the deposit
back. `BridgeFairness`: time passes, and the receiver of a delayed transfer keeps
calling `executeDelayedTransfer`, which anyone may call. `RFQFairness`: time passes on every
chain; providers release what they have earned and senders request and take their
refunds, as it is their own money, and each of them may deliver the message it needs in the
same call. All are weak fairness;
nothing assumes that the owner, the governor or the SGN chain acts.
`ClaimsSpec`: whoever is owed a reward keeps submitting the last claim signed for him,
which anyone may do; nobody is assumed to fund a pool, to unpause it, or to keep signers.
`DelayedArePaid` lists the four reasons why a transfer may never be paid (`Blocked`),
three in the code and the clock's bound.

## 4. Proofs

Every theorem holds for all values of the constants that satisfy the named assumptions:
* `StakingAssumption`: the constants are of the right kind, addresses are finitely many (so that
  sums over them exist), zero is no account, candidates and signers are accounts or zero.
  `GovernAssumption` adds that votes are values of the enumeration.
* `SignersAssumption`, `ClaimsAssumption`: signer sets and validators map finitely many addresses to
  powers; updates carry a time; the bounds are naturals.
* `BridgeAssumption`: requests are in tokens that exist, for receivers that exist; relays, withdrawals
  and sends have different ids (their hashes begin with different fields); the marker of no entry
  is no entry. `MessageBusAssumption`: a message that comes with a transfer names one; fee accounts are finitely many.
* `PeggedAssumption`: accounts, deposits and burns are finitely many and ids are distinct; both contracts
  start empty, a bridge has a cap before it mints, and setters pass values of the setting's kind.
* `QuotesAssumption`, `ContractsAssumption`: quotes name chains, tokens and accounts that exist;
  RFQ contracts start with no quotes, messages, funds or fees, and setters pass values of the setting's kind.
* `OperationsAssumption`: what the constructors of Sentinel and SimpleGovernance check (a list of guards
  without repetition, the fast pass not above the quorum) and the kinds of numbers; accounts are finitely many;
  the governance contract is not the deployer, the Sentinel or a person of the session.

The runs satisfy these assumptions: TLC evaluates each of them in the run of its module.

### Sums and scans
The facts that libraries prove by induction take an operator as parameter, which the provers cannot
instantiate. `SumTheorems`, `ClaimsProofs` and `OperationsProofs` go another way, by a minimal
counterexample: a set of subsets of a finite set that is not empty has a minimal element
(`MinimalSet`), and a set of naturals has a least one (`LeastNumber`), both plain first-order facts. Suppose that a statement on
sums fails for some subset of S; take a minimal one, remove an element, and the statement holds for the
rest, which contradicts the failure. In this way are proved that the recursive function in the library's
definition exists, that the sum does not depend on the order in which elements are picked (`SumRemove`), and
what the other proofs cite: adding and changing an element, equal, smaller and split sums, bounds.

### Staking (`StakingProofs`)
* `TypeCorrect`. `TypeOK` is inductive: each handler's requires exclude the subtractions that would
  go below zero. One lemma per handler, plus those on rounding (a fraction of a
  natural is a natural not above it) and on the loop over collectors.
* `BondedListCorrect`. Relative to `TypeOK` it is inductive. Each step changes the bonded array and the
  statuses in one of four ways: not at all (`Kept`), one validator left, one joined, or one took another's
  place. `StepEffect` shows that every action is one of these, and one lemma per way shows that the list
  stays exact. Swap-and-pop needs that entries are distinct, which is why the three conjuncts are proved together.
* `SignerRegistryCorrect`. Only initializeValidator and updateValidatorSigner write the registry; every other
  action is quiet (`QuietKeepsRegistry`). The deletion of the old signer's entry removes this validator's
  entry and no other because entries and signers match in both directions.
* `SolvencyCorrect`, `BondedTokensCorrect`, `SharesCorrect`. Each step touches no account, one (`AccountStep`:
  what is held moves by what that account's stake and waiting withdrawals move), or replaces one bonded
  validator by another (`Swapped`); `StepBooks` shows it for every action. Then one lemma per total,
  where `SumChange` carries the change of one term to the sum. Queues are sums too: `Append` adds an entry's shares and
  completeUndelegate takes off the sum of the prefix it removes.
* `QuorumIntersectionCorrect`. Not inductive and in no need of it: it follows from the exact total and the exact
  registry, since two sets of bonded validators that each have more than two thirds of the sum overlap in more than a third.
* `LeastMinimumCorrect`, `BondedMinimumCorrect`. Handlers that lower a bonded validator's stake either unbond it or check
  the minimum (`StepFate`). Both have a hypothesis on the parameter changes that governance may make, as raising
  MinValidatorTokens evicts nobody in the code: the first bounds it from below, the second leaves it alone, as the run does.
* `UnbondingDelayCorrect`, from `RecordedCorrect`: when a validator is not bonded its status and unbonding block tell
  until when its stake is slashable, so that a handler that pays at once, which reads only the status, pays late enough.
* `NoLossCorrect`, from `PoolsCorrect`. First the arithmetic of one pool of tokens and shares, by products instead of
  quotients: putting tokens in costs whoever does one unit at most and the others nothing (`PutIn`); taking them out at the price
  of `_tokenToShare` or `_shareToToken`, with two residual shares dropped, costs two units and one
  (`Withdraw`); being paid from the queue, one and none (`LeavePool`). Then `StepTrades`: every step is quiet, a slash, or a trade
  of one delegator with one validator, and `WealthStep` carries the change of one account to the sum.
  The invariant is `PoolsLive`: behind shares there are always tokens. Its hypothesis `PartialSlashes` says that MaxSlashFactor,
  which `slash` compares with, is always below 1e6, where the whole stake goes (the tests and .env.template use 1e5).
  The code does not enforce it: see section 5. TLC checked `PoolsLive` on the instance of `staking_accounting` before it was proved.

### Govern (`GovernProofs`)
`GovTypeCorrect` and `StakingInvCorrect` carry the staking invariants over: a step of governance
leaves accounts alone (`Untouched`) or is a setParamValue, which `Staking` allows anyway. `GovSolvencyCorrect` sums the
deposits over all proposals, closed ones counting zero (`Pending`), so that a step changes one term.
`ParamsChangeByStakeCorrect` uses the exactness of the bonded array and the total: the loop in confirmParamProposal walks
the array, so it counts each bonded validator once (`CountedAreBonded`), and the quorum of what it counts is
more than two thirds of `bondedTokens`. `GovQuorumCorrect` is quorum intersection under votes.

### Signers, reward pools (`ClaimsProofs`)
* `PaidAsSignedCorrect`, `UpdatesInOrderCorrect`, `ResetNeedsNoticeCorrect`, all from `ClaimsInv`, which adds
  `TriggersKnown` (the trigger time on record is not below that of any update applied, also after a reset, so that
  the next update is later than all of them) and `NoticeKnown` (the reset time says whether a notice is
  open and when it ends). `PaidAsSigned` is inductive once claims are typed: a payment is the difference to the
  record, so record and receipts move together.
* `VerificationExactCorrect`. The scan of verifySigs is a recursive function on positions; `ScanExists` shows that there is
  one. `Counted` says what its accumulator holds as long as the list is sorted: the power of the signers seen so far, each
  counted once. So a scan that accepts has seen a quorum of distinct current signers (`CheckIsSound`), and
  a sorted list that holds one is accepted, at the latest at its end (`CheckIsComplete`).

### Liquidity bridge (`BridgeProofs`)
`BridgeInv` adds three things to `ExactlyOnce` and `VolumeCapped`. `BridgeTyped`; `Dated`: a waiting entry
carries the time of its acceptance, from which `LargeTransfersWaitCorrect` follows; `FlowOnBooks`: what moved in the
epoch that goes on (history) is at most what VolumeControl has on its books, where books of an earlier epoch
count as zero. Without it `VolumeCapped` is not inductive. A step accepts one request, executes one, or is idle (`StepKinds`).
`PoolKeepsPromiseCorrect` is the refinement of `Transfers`: accepting is the abstract Accept or
Pay, execution is Pay, liquidity and sends take tokens in, and everything else stutters.

### Message bus (`BridgeProofs`)
An execution that reverts restores a state saved when it began, so an invariant of the current state cannot be inductive
alone. `BusInv` says of every frame on the stack, to any depth, that both its saved states satisfy the same
conditions (`WorldOK`: bridge, status, fees, transfers paid) for the messages in progress below it, or up to it, and that its id had no status before
(`StackOK`). `StatusAt` is `StatusExact` with calls in progress: exactly the messages on the stack are pending.
The saved states were saved at other times than now, but in the same transaction, and the clock does not move meanwhile.
`BusTypeCorrect`, `StatusExactCorrect`, `TokensFirstCorrect`, `FeesCoveredCorrect` follow, and
`BridgeUnderBusCorrect`: once and within the cap also under executions that revert. TLC checked `BusInv` on the instance of
`message_bus` before it was proved.

### Pegged tokens (`PeggedProofs`)
`PegInv` adds to `Backing`, `HoldersBacked` and `SuppliesExact` that the SGN chain signs one request for each deposit or
burn on record and only signed ones are on record (`SignedOnce`), and that an entry that waits pays what was signed
(`QueueOf`). A step begins a transfer, ends one or moves it from one stage to another; `TransferBegins`, `TransferEnds`,
`MintWaits` and `MintMade` say what that does to the sums. `VaultKeepsPromiseCorrect` is the vault's refinement of `Transfers`.

### RFQ (`RFQProofs`)
* `RfqTypeCorrect` and `SwapOrRefundCorrect`, from `RFQInv`. `SwapOrRefund` alone is not inductive: a
  release could follow a refund if a message could lie. `Agreed` ties together what the two chains hold:
  the status on the destination says whether the receiver was paid, a message under way or received says the
  same as that status, and the status on the source says whether the provider or the sender was paid. As the
  destination leaves Null once, only one of the two messages can ever exist. `RoomForRelease` says that an
  open deposit covers its release and is needed for the type of the fees.
* `FundsCoveredCorrect` and `ReleaseInSrcTokenCorrect`, on any number of chains, tokens and quotes, under `NativeQuotes`: on one
  chain, a quote's source token is the one that its contract takes for the wrapped native token, or the contract takes none.
  The third finding is what happens otherwise. Quotes across chains need no such proviso, because
  srcReleaseNative checks the token. The instance of `rfq` satisfies it and that of `rfq_release` does not.

### Sentinel and governance (`OperationsProofs`)
* `RelaxedExactCorrect`, from `SentinelInv`, which is `RelaxedExact` with types. The two loops of
  `updateGuards` are folds over lists, and a fold of the library is a recursive function. `RemovingExists` and
  `AddingExists` show by a least counterexample that it exists; `RemoveKeepsExact` and `AddKeepsExact` that
  one round keeps array, states and counter in agreement (`ListExact`), also when it is refused;
  `RemovingKeeps` and `AddingKeeps` that every prefix of the loop does, hence the whole. Removal
  is a swap and pop: `SwapAndPopEffect` needs that entries are distinct.
* `OwnerPowersByVoteCorrect`. `EveryStep` sorts the steps of any session into those that leave the contracts alone, calls
  by the deployer or another person, deployments, and executed proposals. A call that uses an
  owner's power comes from the owner or from the Sentinel (`CallsByOwner`: no setter is both
  the owner's and a governor's, and the Sentinel relays what it may do in its own name); a deployment
  never lands on a contract that exists. So only executions remain, and `ExecutionIsByVote` shows that they have the
  votes. It needs `GovernanceInv`: a proposal counted as a fast pass is one by its method, and
  the fast pass is never above the quorum, whatever parameters the voters change. `AccessTyped` says that roles are records.

TLC checked `SentinelInv`, `AccessTyped` and `GovernanceInv` on the instance of `operations` before they were proved.

### Only model-checked
Liveness properties and whatever needs ENABLED;
`FinishedMeansSet` and `DeploymentsWired`, since the programs of the scripts are computed data (and hold only
as far as a transaction's revert, an ENABLED, is known); the violations of the three findings.

## 5. Observations

Behaviour the models have which a reader of the code may not expect. No document or comment
of the repository says otherwise, so none is a finding.
* The deployment of TransferSwap passes five arguments to a constructor of three
  (TransferSwap.sol), so it always fails before anything is sent.
* After `init` a proxy of the message bus or of the Sentinel has an owner and none of the pausers and governors its
  implementation's constructor made; running the script with other addresses upgrades the implementation
  and leaves the proxy on the old ones, as the comment in 000_message_bus_init.ts says.
* `set_limits` skips a list whose length differs from the decimals' without a word, and an empty list of
  decimals counts as one zero. `set_basics` cannot be run twice with the same pausers: the
  first `addPauser` fails, and nothing after it is done.
* `set_msg_fee` does not wait for its transactions and logs as new what is still the old value.
* The deployment of the permit version of MintSwapCanonicalToken reads symbol and decimals from the
  variables of MultiBridgeToken (005_mint_swap_canonical_token_permit.ts:17).
* `oasys_token_factory` finds the created token only if the factory's address is spelled in the
  environment as it is in the log.
* Nothing bounds MaxSlashFactor (Staking.sol:85, :424). If it is 1e6, a slash may take the whole stake of a
  validator and leave its shares. `_tokenToShare` then gives shares one for one, and the next delegation is shared
  with those who had nothing left. This is why `NoLossCorrect` has a hypothesis on that parameter.
* After `transfer_ownership` the deployer is still a pauser and a governor.
* While guarded, a governor may set a volume cap to zero (no cap) or raise a delay threshold.
* In SimpleGovernance the threshold is rounded down; the last voter can be removed; a vote cast before a
  voter was removed counts when the voter is added again.
* SgnOwnerProxy.sol:67 and :69 spell the selectors of `drainToken` without the closing parenthesis.

## 6. Plan

Done: the modules above, in the order Staking, Govern, Signers, Safeguards and
BridgePool, Pegged, MessageBus, the refinements of `Transfers`, RFQ, Claims, Sentinel,
SimpleGovernance, the operator's and the deployment scripts; the proofs of section 4,
which state every safety property that the runs of the contracts check.
Theorems next: a tighter bound than `Dust` per kind of step, and the action properties of the scripts that need no ENABLED.

Models next:
1. NFTBridge: one owner over all chains.
2. DelayedMessage and the message applications' safeguards.
3. The first versions of the vault and the pegged bridge, and the variant tokens.
4. Payments that call back into RFQ on one chain.
