------------------------------- MODULE MCOrders -------------------------------
(* Small instances of OrderMatching: sue and sam hold tokens, bob holds sats. *)
EXTENDS OrderMatching, TLC

In(user, side, type, quantity, price, trigger) ==
    [user |-> user, side |-> side, type |-> type, quantity |-> quantity,
     price |-> price, trigger |-> trigger]

\* Limit orders at two prices; bob resells what he bought.
LimitInputs ==
    {In("sue", "sell", "limit", 2, 1, 1), In("sam", "sell", "limit", 1, 1, 1),
     In("sam", "sell", "limit", 1, 2, 1),
     In("bob", "buy", "limit", 1, 1, 1), In("bob", "buy", "limit", 2, 2, 1),
     In("bob", "sell", "limit", 1, 1, 1)}

\* Stop orders that a trade at price 2, or at price 1, wakes up.
StopInputs ==
    {In("sue", "sell", "limit", 1, 2, 1), In("sam", "sell", "stop_limit", 1, 1, 1),
     In("bob", "buy", "limit", 1, 2, 1), In("bob", "buy", "stop_limit", 1, 2, 2)}

\* Limit and stop orders.  With KycThreshold = 4, sue's order of 2 at 2 needs a
\* verified identity, which she has not.
MixedInputs ==
    {In("sue", "sell", "limit", 2, 1, 1), In("sue", "sell", "limit", 2, 2, 1),
     In("bob", "buy", "limit", 1, 2, 1), In("bob", "buy", "stop_limit", 2, 2, 2)}

FewInputs ==
    {In("sue", "sell", "limit", 2, 1, 1), In("bob", "buy", "limit", 1, 1, 1)}

Tokens == [u \in Users |-> IF u = "bob" THEN 0 ELSE 2]
Wallets == [u \in Users |-> IF u = "bob" THEN 8 ELSE 0]
SmallWallets == [u \in Users |-> IF u = "bob" THEN 4 ELSE 0]
RequestSymmetry == Permutations(Requests) \cup Permutations(Watchers)
=============================================================================
