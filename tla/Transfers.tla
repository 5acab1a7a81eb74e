----------------------------- MODULE Transfers -----------------------------
(***************************************************************************)
(* What a bridge contract promises of the requests the signers approve,    *)
(* whatever it is called with, by whom and when: a request is paid once,   *)
(* at once or after it has waited, with the amount of the token that was   *)
(* signed, and nothing else takes tokens out of the contract.              *)
(***************************************************************************)
EXTENDS Integers

CONSTANTS
    Requests,       \* what may be signed
    Tokens,
    TokenOf,        \* token and amount signed, by request
    AmountOf

VARIABLES
    state,          \* by request: open, waiting or paid
    balance         \* tokens the contract owns

Init ==
    /\ state = [r \in Requests |-> "open"]
    /\ balance = [t \in Tokens |-> 0]

\* The contract takes in some amount of token t.
TakeIn(t) ==
    /\ balance'[t] > balance[t]
    /\ balance' = [balance EXCEPT ![t] = balance'[t]]
    /\ UNCHANGED state

\* A request over the delay threshold is put on the waiting list.
Accept(r) ==
    /\ state[r] = "open"
    /\ state' = [state EXCEPT ![r] = "waiting"]
    /\ UNCHANGED balance

\* It is paid, from the list or at once.
Pay(r) ==
    /\ state[r] \in {"open", "waiting"}
    /\ AmountOf[r] <= balance[TokenOf[r]]
    /\ state' = [state EXCEPT ![r] = "paid"]
    /\ balance' = [balance EXCEPT ![TokenOf[r]] = @ - AmountOf[r]]

Next ==
    \/ \E t \in Tokens : TakeIn(t)
    \/ \E r \in Requests : Accept(r)
    \/ \E r \in Requests : Pay(r)

Spec == Init /\ [][Next]_<<state, balance>>
=============================================================================
