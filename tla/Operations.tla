----------------------------- MODULE Operations -----------------------------
(***************************************************************************)
(* Operating the deployed system: the deployer's machine runs one script   *)
(* after another, its transactions wait in the pool until they are mined,  *)
(* and guards, voters, governors and pausers act on the same contracts in  *)
(* between.  A script may fail or be killed at any point; a transaction it *)
(* has sent is mined all the same, and the operator runs the script again. *)
(*                                                                         *)
(* What happens in a behaviour is chosen by its session: which contracts   *)
(* exist and who owns them, which scripts are run with which environments, *)
(* and what the other people may do.                                       *)
(***************************************************************************)
EXTENDS SimpleGovernance, DeployScripts

CONSTANTS Envs,       \* name |-> an environment (see Scripts)
          Sessions,   \* name |-> what a session is made of
          MaxRuns, MaxCrashes, MaxTime, MaxProposals

\* The constructors of Sentinel and SimpleGovernance refuse other lists and
\* thresholds; a governance contract sends nothing but what it executes.
ASSUME OperationsAssumption ==
    /\ IsFiniteSet(Accounts) /\ GovAddress # Deployer /\ GovAddress # SentinelAddress
    /\ MinActivePeriod \in Nat
    /\ \A name \in DOMAIN Sessions :
          LET s == Sessions[name] IN
          /\ s.guards \in Seq(Accounts) /\ IsInjective(s.guards)
          /\ \A a \in DOMAIN s.powers : s.powers[a] \in Nat
          /\ {s.period, s.quorum, s.fastPass} \subseteq Nat /\ s.quorum >= s.fastPass
          /\ \A move \in s.moves : move.from # GovAddress
          /\ \A call \in s.proposals :
                /\ call.method = "voters" =>
                       \A i \in DOMAIN call.keys : call.values[i] \in Nat
                /\ call.method = "params" =>
                       /\ call.keys[1] \in {"ActivePeriod", "QuorumThreshold", "FastPassThreshold"}
                       /\ call.values[1] \in Nat

VARIABLES session,
          run,        \* the script under way
          pool,       \* the deployer's transactions not yet mined, in nonce order
          store,      \* deployment records: name |-> address
          runs, crashes, outcome,
          overridden  \* what others have changed since the run began

operatorVars == <<session, run, pool, store, runs, crashes, outcome, overridden>>
vars == <<adminVars, sentinelVars, govVars, now, operatorVars>>

End == [op |-> "end"]

NoRun == [job |-> "none", env |-> "none", pc |-> 0, step |-> End, waiting |-> FALSE,
          created |-> ZeroAddress]

Program(r, records) ==
    IF r.job \in ScriptJobs THEN ScriptProgram(r.job, Envs[r.env], records, r.created)
    ELSE DeployProgram(r.job, Envs[r.env], records)

\* The run at its next step, which sees the deployment records as they are then.
Advance(r, records) ==
    LET program == Program(r, records)
        next == r.pc + 1
    IN  [r EXCEPT !.pc = next, !.waiting = FALSE,
                  !.step = IF next \in DOMAIN program THEN program[next] ELSE End]

Here == Sessions[session]

-----------------------------------------------------------------------------
(* The contracts a session starts with *)

ContractAt(name, args) ==
    [name |-> name, args |-> args, impl |-> ZeroAddress, init |-> <<>>, admin |-> ZeroAddress]

\* The Sentinel has been made a pauser and a governor where there are any.
PresetAccess(name, owner) ==
    LET built == ConstructorAccess(name, Deployer) IN
    [built EXCEPT !.owner = owner,
                  !.pausers = IF @ = {} THEN {} ELSE @ \cup {SentinelAddress},
                  !.governors = IF @ = {} THEN {} ELSE @ \cup {SentinelAddress}]

InitContracts(preset, owner) ==
    LET address(name) == name \o "0"
        nameAt(a) == CHOOSE n \in DOMAIN preset : address(n) = a
        addresses == {address(n) : n \in DOMAIN preset}
    IN  /\ contracts = [a \in addresses |-> ContractAt(nameAt(a), preset[nameAt(a)])]
        /\ access = [a \in addresses |-> PresetAccess(nameAt(a), owner)]

Init ==
    /\ session \in DOMAIN Sessions
    /\ InitContracts(Here.preset, Here.owner)
    /\ settings = Here.settings
    /\ InitSentinel(Here.guards, Here.pausers, Here.governors)
    /\ InitGovernance(Here.powers, Here.proxies, Here.period, Here.quorum, Here.fastPass)
    /\ run = NoRun /\ pool = <<>> /\ store = Here.store
    /\ runs = 0 /\ crashes = 0 /\ outcome = "none" /\ overridden = {}

-----------------------------------------------------------------------------
(* Transactions *)

\* What the constructors that check their arguments require.
Constructible(name, args) ==
    CASE name = "SimpleGovernance" ->
            /\ Len(args[1]) > 0 /\ Len(args[1]) = Len(args[2])
            /\ \A i \in DOMAIN args[2] : args[2][i] > 0
            /\ args[4][1] \in MinActivePeriod..MaxActivePeriod
            /\ args[5][1] < 100 /\ args[6][1] <= args[5][1]
      [] name = "MessageBusOwner" ->
            /\ Len(args[1]) > 0 /\ Len(args[1]) = Len(args[2])
            /\ \A i \in DOMAIN args[2] : args[2][i] > 0
            /\ args[3][1] \in MinActivePeriod..MaxActivePeriod
            /\ args[4][1] < 100
      [] name = "TransferSwap" -> Len(args) = 3
      [] OTHER -> TRUE

\* The constructor of a ProxyAdmin takes its owner.
Create(step) ==
    LET address == NextAddress(step.contract) IN
    /\ Constructible(step.contract, step.args) /\ Unused(address)
    /\ contracts' = WithEntry(contracts, address, ContractAt(step.contract, step.args))
    /\ access' = WithEntry(access, address, ConstructorAccess(step.contract,
                     IF step.contract = "ProxyAdmin" THEN step.args[1][1] ELSE Deployer))
    /\ UNCHANGED settings

\* The first transaction for a proxy creates it and runs init; when there is a
\* recorded one its admin replaces the implementation.
CreateProxy(step) ==
    LET address == NextAddress(step.contract) IN
    /\ step.proxy = ZeroAddress /\ Unused(address)
    /\ contracts' = WithEntry(contracts, address,
            [name |-> step.contract, args |-> <<>>, init |-> step.init,
             impl |-> step.impl, admin |-> step.admin])
    /\ access' = WithEntry(access, address, InitAccess(Deployer))
    /\ UNCHANGED settings

UpgradeProxy(step) ==
    /\ step.proxy # ZeroAddress
    /\ access[contracts[step.proxy].admin].owner = Deployer
    /\ contracts' = [contracts EXCEPT ![step.proxy].impl = step.impl]
    /\ UNCHANGED <<access, settings>>

Effect(tx) ==
    \/ tx.op \in {"call", "send"} /\ ContractCall(Deployer, tx.call)
    \/ tx.op = "deploy" /\ Create(tx) /\ UNCHANGED sentinelVars
    \/ tx.op = "proxy" /\ (CreateProxy(tx) \/ UpgradeProxy(tx)) /\ UNCHANGED sentinelVars

Reverts(tx) == ~ENABLED Effect(tx)

-----------------------------------------------------------------------------
(* Running a script *)

Step == run.step

At(ops) == run # NoRun /\ ~run.waiting /\ Step.op \in ops

Unattended(txs) == [i \in DOMAIN txs |-> [txs[i] EXCEPT !.live = FALSE]]

\* The process ends early; what it has sent stays in the pool.
Fail(txs) ==
    /\ run' = NoRun
    /\ pool' = Unattended(txs)
    /\ outcome' = "failed"

Continue == run' = Advance(run, store)

chainVars == <<adminVars, sentinelVars, govVars, now>>

Start ==
    /\ run = NoRun /\ runs < MaxRuns
    /\ \E job \in Here.jobs :
          run' = Advance([NoRun EXCEPT !.job = job[1], !.env = job[2]], store)
    /\ runs' = runs + 1
    /\ outcome' = "none" /\ overridden' = {}
    /\ UNCHANGED <<session, pool, store, crashes, chainVars>>

\* What a transaction of the current step would be.
Transaction ==
    IF Step.op = "proxy"
    THEN [op |-> "proxy", name |-> Step.name, contract |-> Step.contract, init |-> Step.init,
          proxy |-> Recorded(store, ProxyOf(Step.name))[1],
          impl |-> store[ImplementationOf(Step.name)], admin |-> store[AdminName]]
    ELSE Step

\* Mutant: a recorded contract is reused whatever it was created from.
ReusableByName ==
    CASE Step.op = "deploy" -> Step.name \in DOMAIN store
      [] Step.op = "proxy" -> ProxyOf(Step.name) \in DOMAIN store
      [] OTHER -> FALSE

\* Nothing to do: the recorded contract was created from the same arguments,
\* or the proxy runs the recorded implementation.
Reusable ==
    CASE Step.op = "deploy" ->
            /\ Step.name \in DOMAIN store
            /\ Step.keep \/ contracts[store[Step.name]].args = Step.args
      [] Step.op = "proxy" ->
            /\ ProxyOf(Step.name) \in DOMAIN store
            /\ contracts[store[ProxyOf(Step.name)]].impl = store[ImplementationOf(Step.name)]
      [] OTHER -> FALSE

\* Estimating the gas runs the transaction on the chain as it is.
EstimateFails ==
    (Step.op \in {"call", "send"} => Step.estimated) /\ Reverts(Transaction)

Reuse ==
    /\ At({"deploy", "proxy"}) /\ Reusable
    /\ Continue
    /\ UNCHANGED <<session, pool, store, runs, crashes, outcome, overridden, chainVars>>

SendTransaction ==
    /\ At({"call", "send", "deploy", "proxy"})
    /\ ~Reusable /\ ~EstimateFails
    /\ pool' = Append(pool, [tx |-> Transaction, live |-> TRUE])
    /\ IF Step.op = "send" THEN Continue ELSE run' = [run EXCEPT !.waiting = TRUE]
    /\ UNCHANGED <<session, store, runs, crashes, outcome, overridden, chainVars>>

Reject ==
    /\ At({"call", "send", "deploy", "proxy"})
    /\ ~Reusable /\ EstimateFails
    /\ Fail(pool)
    /\ UNCHANGED <<session, store, runs, crashes, overridden, chainVars>>

ThrowError ==
    /\ At({"throw"})
    /\ Fail(pool)
    /\ UNCHANGED <<session, store, runs, crashes, overridden, chainVars>>

\* Verifying the source is up to the block explorer.
VerifySource ==
    /\ At({"verify"})
    /\ \/ Continue /\ UNCHANGED <<pool, outcome>>
       \/ Fail(pool)
    /\ UNCHANGED <<session, store, runs, crashes, overridden, chainVars>>

FindLog ==
    /\ At({"findlog"})
    /\ IF Step.exact THEN Continue /\ UNCHANGED <<pool, outcome>> ELSE Fail(pool)
    /\ UNCHANGED <<session, store, runs, crashes, overridden, chainVars>>

\* Mutant: the process exits without the receipts of what it only sent.
FinishEarly ==
    /\ At({"end"})
    /\ run' = NoRun /\ outcome' = "done"
    /\ UNCHANGED <<session, pool, store, runs, crashes, overridden, chainVars>>

\* The process exits when its last step is done and nothing it sent is pending.
Finish ==
    /\ At({"end"})
    /\ \A i \in DOMAIN pool : ~pool[i].live
    /\ run' = NoRun /\ outcome' = "done"
    /\ UNCHANGED <<session, pool, store, runs, crashes, overridden, chainVars>>

Kill ==
    /\ run # NoRun /\ crashes < MaxCrashes
    /\ crashes' = crashes + 1
    /\ Fail(pool)
    /\ UNCHANGED <<session, store, runs, overridden, chainVars>>

-----------------------------------------------------------------------------
(* Mining *)

Oldest == Head(pool)

\* The records a deployment writes: the contract's, and a proxy's under two names.
RecordsOf(tx) ==
    LET address == IF tx.op = "proxy" /\ tx.proxy # ZeroAddress THEN tx.proxy
                   ELSE NextAddress(tx.contract)
    IN  CASE tx.op = "deploy" -> tx.name :> address
          [] tx.op = "proxy" -> tx.name :> address @@ ProxyOf(tx.name) :> address
          [] OTHER -> <<>>

\* The script goes on when the transaction it waits for is mined, and writes
\* the record then.  A deployment nobody waits for any more is not recorded.
MineSuccess ==
    /\ pool # <<>>
    /\ Effect(Oldest.tx)
    /\ pool' = Tail(pool)
    /\ store' = IF Oldest.live THEN RecordsOf(Oldest.tx) @@ store ELSE store
    /\ IF Oldest.live /\ Oldest.tx.op # "send"
       THEN run' = Advance([run EXCEPT !.created =
                                IF Oldest.tx.op = "call"
                                   /\ Oldest.tx.call.method = "createStandardERC20"
                                THEN NextAddress("L1StandardERC20") ELSE @], store')
       ELSE run' = run
    /\ UNCHANGED <<session, runs, crashes, outcome, overridden, govVars, now>>

\* A reverted transaction changes nothing; the script waiting for it, or only
\* for its receipt, fails.
MineRevert ==
    /\ pool # <<>>
    /\ Reverts(Oldest.tx)
    /\ IF Oldest.live THEN Fail(Tail(pool))
       ELSE pool' = Tail(pool) /\ UNCHANGED <<run, outcome>>
    /\ UNCHANGED <<session, store, runs, crashes, overridden, chainVars>>

-----------------------------------------------------------------------------
(* The other people *)

\* What a step has changed, by the call that sets it.
Touched ==
    {k \in DOMAIN settings' : k \notin DOMAIN settings \/ settings'[k] # settings[k]}
    \cup UNION {
        {<<a, "addPauser", p>> : p \in (access[a].pausers \cup access'[a].pausers)
                                      \ (access[a].pausers \cap access'[a].pausers)}
        \cup {<<a, "addGovernor", g>> : g \in (access[a].governors \cup access'[a].governors)
                                            \ (access[a].governors \cap access'[a].governors)}
        \cup (IF access'[a].owner = access[a].owner THEN {}
              ELSE {<<a, "transferOwnership", Only>>}) : a \in DOMAIN access}

ByOthers ==
    /\ overridden' = IF run = NoRun THEN overridden ELSE overridden \cup Touched
    /\ UNCHANGED <<session, run, pool, store, runs, crashes, outcome>>

PersonCalls ==
    /\ \E move \in Here.moves : ContractCall(move.from, move.call)
    /\ UNCHANGED <<govVars, now>>
    /\ ByOthers

Voters == {a \in Accounts : voterPowers[a] > 0}

SomeonePropose ==
    /\ Len(proposals) < MaxProposals
    /\ \E voter \in Voters, call \in Here.proposals :
          \/ Propose(voter, call)
          \/ \E proxy \in proposerProxies : ProposeThroughProxy(voter, proxy, call)
    /\ ByOthers

SomeoneVotes ==
    /\ \E voter \in Voters, id \in DOMAIN proposals, vote \in BOOLEAN :
          VoteProposal(voter, id, vote)
    /\ ByOthers

SomeoneExecutes ==
    /\ \E voter \in Voters, id \in DOMAIN proposals : ExecuteProposal(voter, id)
    /\ ByOthers

TimePasses ==
    /\ now < MaxTime /\ proposals # <<>>
    /\ Tick
    /\ UNCHANGED operatorVars

-----------------------------------------------------------------------------
Next ==
    \/ Start \/ Reuse \/ SendTransaction \/ Reject \/ ThrowError \/ VerifySource
    \/ FindLog \/ Finish \/ Kill
    \/ MineSuccess \/ MineRevert
    \/ PersonCalls \/ SomeonePropose \/ SomeoneVotes \/ SomeoneExecutes \/ TimePasses

Spec == Init /\ [][Next]_vars

-----------------------------------------------------------------------------
(* Properties *)

\* The writes of a program that no later step of it repeats: <<step, key>>.
Writes(program) ==
    LET keys(n) == IF program[n].op \in {"call", "send"}
                      /\ program[n].call.method # "createStandardERC20"
                   THEN DOMAIN program[n].call.keys ELSE {}
        place(n, i) == <<program[n].call.target, program[n].call.method,
                         program[n].call.keys[i]>>
        all == UNION {{<<n, i>> : i \in keys(n)} : n \in DOMAIN program}
    IN  {w \in all : \A v \in all :
            place(v[1], v[2]) = place(w[1], w[2]) =>
                v[1] < w[1] \/ (v[1] = w[1] /\ v[2] <= w[2])}

\* The i-th key of a call has the value the call gives it.
Holds(call, i) ==
    CASE call.method = "addPauser" -> call.keys[i] \in access[call.target].pausers
      [] call.method = "addGovernor" -> call.keys[i] \in access[call.target].governors
      [] call.method = "transferOwnership" -> access[call.target].owner = call.values[i]
      [] call.method = "resetSigners" ->
            settings[<<call.target, "resetSigners", Only>>] = <<call.keys, call.values>>
      [] OTHER -> LET k == <<call.target, call.method, call.keys[i]>> IN
                  k \in DOMAIN settings /\ settings[k] = call.values[i]

Finished == run # NoRun /\ run' = NoRun /\ outcome' = "done"

\* A script that ends well has set everything it was run to set: each key has
\* the last value the script gives it, unless somebody else changed it since the
\* script began.  So no transaction is lost between sending and exiting, and no
\* transaction an earlier, killed run left in the pool undoes what this one did.
FinishedMeansSet ==
    [][Finished /\ run.job \in ScriptJobs =>
          LET program == Program(run, store) IN
          \A w \in Writes(program) :
              LET call == program[w[1]].call IN
              \/ Holds(call, w[2])
              \/ \E k \in {call.keys[w[2]], Only} :
                    <<call.target, call.method, k>> \in overridden]_vars

\* After a deployment script ends well the records fit together: each name
\* stands for a contract of its kind created from the arguments of the final
\* environment and of the final records (so no contract refers to a replaced
\* one), and each proxy runs the recorded implementation, under an admin that is
\* a ProxyAdmin.
DeploymentsWired ==
    [][Finished /\ run.job \in DeployJobs =>
          LET program == Program(run, store) IN
          \A n \in DOMAIN program :
              LET s == program[n] IN
              CASE s.op = "deploy" ->
                      LET c == contracts[store[s.name]] IN
                      c.name = s.contract /\ (s.keep \/ c.args = s.args)
                [] s.op = "proxy" ->
                      LET c == contracts[store[s.name]] IN
                      /\ store[ProxyOf(s.name)] = store[s.name]
                      /\ c.name = s.contract
                      /\ c.impl = store[ImplementationOf(s.name)]
                      /\ NameOf(c.admin) = "ProxyAdmin"
                [] OTHER -> TRUE]_vars
=============================================================================
