----------------------------- MODULE FundsLedger -----------------------------
(***************************************************************************)
(* What the wallet promises about on-chain satoshis, whatever fails on the *)
(* way: an output is credited once, for what it is worth, and the satoshis *)
(* of a withdrawal or a peg-out are taken from the balance once, and then  *)
(* either stand in the ledger or go back to the balance, once.             *)
(***************************************************************************)
EXTENDS Integers

CONSTANTS
    Wallets, Outputs,
    Spenders,   \* withdrawals and peg-outs
    WalletOf,   \* the wallet each of them is for
    CostOf      \* the satoshis each of them takes, fee included

VARIABLES
    balance,  \* satoshis of each wallet that nobody has claimed
    credit,   \* what each output was credited for, and to whom
    claim     \* where the satoshis of each spender are

vars == <<balance, credit, claim>>

Claims == {"none", "held", "spent", "void"}
Credits == [wallet: Wallets, amount: Nat]

Init ==
    /\ balance = [w \in Wallets |-> 0]
    /\ credit \in [Outputs -> [wallet: Wallets, amount: {0}]]
    /\ claim = [p \in Spenders |-> "none"]

Deposit(u) ==
    /\ credit[u].amount = 0
    /\ credit'[u] \in Credits /\ credit'[u].amount > 0
    /\ credit' = [credit EXCEPT ![u] = credit'[u]]
    /\ balance' = [balance EXCEPT ![credit'[u].wallet] = @ + credit'[u].amount]
    /\ UNCHANGED claim

Become(p, status) == claim' = [claim EXCEPT ![p] = status]

\* A balance that does not cover the cost is left alone.
Hold(p) ==
    /\ claim[p] = "none" /\ Become(p, "held")
    /\ CostOf[p] <= balance[WalletOf[p]]
    /\ balance' = [balance EXCEPT ![WalletOf[p]] = @ - CostOf[p]]
    /\ UNCHANGED credit

Spend(p) ==
    /\ claim[p] = "held" /\ Become(p, "spent")
    /\ UNCHANGED <<balance, credit>>

GiveBack(p) ==
    /\ claim[p] = "held" /\ Become(p, "void")
    /\ balance' = [balance EXCEPT ![WalletOf[p]] = @ + CostOf[p]]
    /\ UNCHANGED credit

Refuse(p) ==
    /\ claim[p] = "none" /\ Become(p, "void")
    /\ UNCHANGED <<balance, credit>>

Next ==
    \/ \E u \in Outputs : Deposit(u)
    \/ \E p \in Spenders : Hold(p) \/ Spend(p) \/ GiveBack(p) \/ Refuse(p)

Spec == Init /\ [][Next]_vars
=============================================================================
