----------------------------- MODULE TokenCustody -----------------------------
(***************************************************************************)
(* What the marketplace promises about the tokens of a trade, whatever     *)
(* happens to its escrow: the seller's tokens are taken into custody when  *)
(* the trade is made, and leave custody once: to the buyer, or back to the *)
(* seller.                                                                 *)
(***************************************************************************)
EXTENDS Integers, FiniteSetsExt

CONSTANTS Users, TradeIds, MaxQuantity, InitBalance

VARIABLES
    custody,   \* where the tokens of each trade are
    deal,      \* buyer, seller and quantity of each trade
    balance    \* tokens of each user that are in no trade's custody

vars == <<custody, deal, balance>>

Custodies == {"none", "locked", "delivered", "returned"}
Deals == [buyer: Users, seller: Users, quantity: 0..MaxQuantity]

Init ==
    /\ custody = [t \in TradeIds |-> "none"]
    /\ deal \in [TradeIds -> Deals]
    /\ balance = InitBalance

Lock(t) ==
    /\ custody[t] = "none"
    /\ \E d \in Deals :
         /\ d.quantity \in 1..balance[d.seller]
         /\ deal' = [deal EXCEPT ![t] = d]
         /\ balance' = [balance EXCEPT ![d.seller] = @ - d.quantity]
    /\ custody' = [custody EXCEPT ![t] = "locked"]

Deliver(t) ==
    /\ custody[t] = "locked"
    /\ custody' = [custody EXCEPT ![t] = "delivered"]
    /\ balance' = [balance EXCEPT ![deal[t].buyer] = @ + deal[t].quantity]
    /\ UNCHANGED deal

Return(t) ==
    /\ custody[t] = "locked"
    /\ custody' = [custody EXCEPT ![t] = "returned"]
    /\ balance' = [balance EXCEPT ![deal[t].seller] = @ + deal[t].quantity]
    /\ UNCHANGED deal

Next == \E t \in TradeIds : Lock(t) \/ Deliver(t) \/ Return(t)

Spec == Init /\ [][Next]_vars

-----------------------------------------------------------------------------
InCustody == {t \in TradeIds : custody[t] = "locked"}

\* Tokens are neither made nor lost: what the users hold and what is in custody
\* is what the users held at the start.
TokensConserved ==
    MapThenSumSet(LAMBDA u : balance[u], Users)
        + MapThenSumSet(LAMBDA t : deal[t].quantity, InCustody)
      = MapThenSumSet(LAMBDA u : InitBalance[u], Users)
=============================================================================
