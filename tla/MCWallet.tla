------------------------------- MODULE MCWallet -------------------------------
(* Small instances of Wallet: what may run together is given by workloads of *)
(* a few requests each, with the loops that matter to them.                  *)
EXTENDS Wallet, TLC

\* a's requests carry a, b's carry b; q1 is a peg-out, l1 and l2 are reconciliation loops.
RequestWallets ==
    [p \in {"w1", "w2", "q1", "d1", "m1", "i1", "i2", "x1", "x2", "s1", "s2"} |-> "a"]
    @@ [p \in {"w3"} |-> "b"]

\* w1 and w2 are one withdrawal and its retry.
Keys == [p \in {"w1", "w2"} |-> "key"] @@ [p \in {"w3", "q1"} |-> "none"]
OneReplica == [p \in Requests |-> "r"]
HashPaid == [p \in {"x1", "x2"} |-> "h"]

\* A retry; a withdrawal beside a peg-out; a new address while the
\* marketplace derives one; two loops;
\* two users whose coins the node does not tell apart; Lightning with two refreshes.
SomeRequests ==
    {{"c1", "w1", "w2", "l1"}, {"c1", "w1", "q1", "l1"}, {"d1", "m1", "w1", "c1", "l1"},
     {"c1", "c2", "l1", "l2"}, {"c1", "c2", "w3", "l1"}, {"i1", "x1", "x2", "s1", "s2"}}
=============================================================================
