-------------------------- MODULE SimpleGovernance --------------------------
(***************************************************************************)
(* SimpleGovernance, the owner of the deployed contracts once their        *)
(* ownership is handed over, and the GovernedOwnerProxy through which its  *)
(* voters propose the usual owner operations (governed-owner/).  A         *)
(* proposal is weighed when it is executed, with the voting powers and the *)
(* thresholds of that moment; executing it uses it up.  Its data is a      *)
(* call: on another contract, or on the governance itself, where the       *)
(* methods params, voters, proxies and transfer stand for the internal     *)
(* proposal types.                                                         *)
(***************************************************************************)
EXTENDS Sentinel

CONSTANTS GovAddress, MinActivePeriod, MaxActivePeriod

VARIABLES now, voterPowers, params, proposerProxies, proposals, funds

govVars == <<voterPowers, params, proposerProxies, proposals, funds>>

InitGovernance(powers, proxies, activePeriod, quorum, fastPass) ==
    /\ now = 0
    /\ voterPowers = [a \in Accounts |-> IF a \in DOMAIN powers THEN powers[a] ELSE 0]
    /\ params = [ActivePeriod |-> activePeriod, QuorumThreshold |-> quorum,
                 FastPassThreshold |-> fastPass]
    /\ proposerProxies = proxies
    /\ proposals = <<>>
    /\ funds = 1

Power(S) == SumFunctionOnSet(voterPowers, S)

-----------------------------------------------------------------------------
(* Proposing *)

Internal == {"params", "voters", "proxies", "transfer"}

\* The less critical operations, for which the owner proxy asks for a fast pass.
FastPassMethods ==
    {"addPauser", "removePauser", "addGovernor", "removeGovernor", "notifyResetSigners",
     "setFeeBase", "setFeePerByte"}

\* What else the owner proxy can propose of the methods modelled.
DefaultMethods ==
    {"transferOwnership", "resetSigners", "setWrap", "updateBridgeSupplyCap"} \cup BusSetters

CreateProposal(proposer, call, type) ==
    /\ voterPowers[proposer] > 0
    /\ proposals' = Append(proposals,
            [type |-> type, call |-> call, deadline |-> now + params.ActivePeriod,
             votes |-> {proposer}])
    /\ UNCHANGED <<now, voterPowers, params, proposerProxies, funds, adminVars, sentinelVars>>

\* createProposal by an account is never a fast pass.
Propose(proposer, call) ==
    CreateProposal(proposer, call, IF call.method \in Internal THEN "Internal" ELSE "Default")

ProposeThroughProxy(proposer, proxy, call) ==
    /\ proxy \in proposerProxies
    /\ <<proxy, "initGov", Only>> \in DOMAIN settings
    /\ settings[<<proxy, "initGov", Only>>] = GovAddress
    /\ call.method \in FastPassMethods \cup DefaultMethods
    /\ CreateProposal(proposer, call,
                      IF call.method \in FastPassMethods THEN "FastPass" ELSE "Default")

VoteProposal(voter, id, vote) ==
    /\ voterPowers[voter] > 0
    /\ now < proposals[id].deadline
    /\ proposals' = [proposals EXCEPT ![id].votes =
                        IF vote THEN @ \cup {voter} ELSE @ \ {voter}]
    /\ UNCHANGED <<now, voterPowers, params, proposerProxies, funds, adminVars, sentinelVars>>

-----------------------------------------------------------------------------
(* Executing *)

Threshold(type) ==
    IF type = "FastPass" THEN params.FastPassThreshold ELSE params.QuorumThreshold

\* Mutant: the share is taken of the power of those who voted.
CountVotesOfVoters(votes, type) ==
    Power(votes) >= (Power(votes) * Threshold(type)) \div 100

CountVotes(votes, type) ==
    Power(votes) >= (Power(Accounts) * Threshold(type)) \div 100

ChangeParam(call) ==
    LET name == call.keys[1]
        value == call.values[1]
        updated == [params EXCEPT ![name] = value]
    IN  /\ call.method = "params"
        /\ IF name = "ActivePeriod" THEN value \in MinActivePeriod..MaxActivePeriod
           ELSE /\ updated.QuorumThreshold >= updated.FastPassThreshold
                /\ value < 100 /\ value > 0
        /\ params' = updated
        /\ UNCHANGED <<voterPowers, proposerProxies, funds>>

\* A power of zero removes a voter, who must be one.
UpdateVoters(call) ==
    /\ call.method = "voters"
    /\ \A i \in DOMAIN call.keys : call.values[i] = 0 => voterPowers[call.keys[i]] > 0
    /\ voterPowers' = [a \in Accounts |->
            IF \E i \in DOMAIN call.keys : call.keys[i] = a
            THEN call.values[CHOOSE i \in DOMAIN call.keys : call.keys[i] = a]
            ELSE voterPowers[a]]
    /\ UNCHANGED <<params, proposerProxies, funds>>

UpdateProxies(call) ==
    /\ call.method = "proxies"
    /\ proposerProxies' = {a \in proposerProxies \cup {call.keys[i] : i \in DOMAIN call.keys} :
            \A i \in DOMAIN call.keys : call.keys[i] = a => call.values[i]}
    /\ UNCHANGED <<voterPowers, params, funds>>

TransferToken(call) ==
    /\ call.method = "transfer"
    /\ call.values[1] <= funds
    /\ funds' = funds - call.values[1]
    /\ UNCHANGED <<voterPowers, params, proposerProxies>>

ExecuteProposal(voter, id) ==
    LET p == proposals[id] IN
    /\ voterPowers[voter] > 0
    /\ now < p.deadline
    /\ CountVotes(p.votes \cup {voter}, p.type)
    /\ proposals' = [proposals EXCEPT ![id].deadline = 0, ![id].votes = @ \cup {voter}]
    /\ \/ /\ p.type # "Internal"
          /\ ContractCall(GovAddress, p.call)
          /\ UNCHANGED <<voterPowers, params, proposerProxies, funds>>
       \/ /\ p.type = "Internal"
          /\ \/ ChangeParam(p.call)
             \/ UpdateVoters(p.call)
             \/ UpdateProxies(p.call)
             \/ TransferToken(p.call)
          /\ UNCHANGED <<adminVars, sentinelVars>>
    /\ UNCHANGED now

Tick == now' = now + 1 /\ UNCHANGED <<govVars, adminVars, sentinelVars>>

-----------------------------------------------------------------------------
\* Something only the owner of a contract may do happens to it in this step.
\* (Taking a role away is not listed: who holds one may renounce it.)
OwnerPowerUsed(a) ==
    \/ access'[a].owner # access[a].owner
    \/ ~(access'[a].pausers \subseteq access[a].pausers)
    \/ ~(access'[a].governors \subseteq access[a].governors)
    \/ \E k \in DOMAIN settings' :
          /\ k[1] = a
          /\ k[2] \in OwnerSetters(NameOf(a)) \cup {"resetSigners", "resetTime"}
          /\ k \in DOMAIN settings => settings'[k] # settings[k]
    \/ a = SentinelAddress /\ (ToSet(guards') # ToSet(guards) \/ relaxThreshold' # relaxThreshold)

\* The step executes a proposal that was open, and the voters who want it have
\* the share of the power, as it is now, that its kind asks for.
ExecutedByVote ==
    \E id \in DOMAIN proposals :
        LET wanted == Power(proposals'[id].votes) IN
        /\ proposals[id].deadline > now
        /\ proposals'[id].deadline = 0
        /\ 100 * (wanted + 1) > Power(Accounts) *
              (IF proposals[id].call.method \in FastPassMethods
               THEN params.FastPassThreshold ELSE params.QuorumThreshold)

\* Once the governance owns a contract, what an owner may do to it is done only
\* by executing an open proposal that enough of the voting power wants: no
\* script of the deployer, no transaction left over from one, no executed or
\* expired proposal and no power a voter has lost can do it.
OwnerPowersByVote ==
    [][\A a \in DOMAIN access :
          access[a].owner = GovAddress /\ OwnerPowerUsed(a) => ExecutedByVote]_
      <<adminVars, sentinelVars, govVars, now>>
=============================================================================
