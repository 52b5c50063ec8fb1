------------------------------- MODULE MCEscrow -------------------------------
(* Small instances of EscrowSettlement: one seller, one buyer, and orders    *)
(* that make one trade, or two trades of the same buy order.                 *)
EXTENDS EscrowSettlement, TLC

Order(o, user, side, quantity) ==
    [id |-> o, user |-> user, side |-> side, type |-> "limit",
     quantity |-> quantity, price |-> 1, trigger |-> 1, triggered |-> FALSE,
     filled |-> 0, status |-> "open"]

OneMatch == [o \in {"b", "s"} |->
    IF o = "b" THEN Order(o, "bob", "buy", 1) ELSE Order(o, "sue", "sell", 1)]

TwoMatches == [o \in {"b", "s", "s2"} |->
    IF o = "b" THEN Order(o, "bob", "buy", 2) ELSE Order(o, "sue", "sell", 1)]

Balances == [u \in {"bob", "sue"} |-> IF u = "sue" THEN 2 ELSE 0]

\* Handlers of a kind are interchangeable.
HandlerSymmetry ==
    Permutations(Watchers) \cup Permutations(SignRequests) \cup Permutations(Resolutions)
=============================================================================
