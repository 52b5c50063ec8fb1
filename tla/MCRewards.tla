------------------------------ MODULE MCRewards ------------------------------
(* Small instances of Rewards.                                                *)
EXTENDS Rewards, TLC

\* ana was referred by bob, bob by nobody.
Referrals == [u \in {"ana", "bob"} |-> IF u = "ana" THEN "bob" ELSE "nobody"]
Subjects == [p \in {"k1", "k2", "v1", "v2", "v3"} |-> "ana"] @@ [p \in {"k3", "v4"} |-> "bob"]
Visitors == [g \in {"g1", "g2", "g3"} |-> "ana"]

\* Two submissions and three reviews of one user; reviews beside fees and disbursements; yield.
SomeRequests ==
    {{"k1", "k2", "v1", "v2"}, {"k1", "v1", "v2", "v3"}, {"k1", "v1", "k3", "v4", "t1"},
     {"k1", "v1", "t1", "t2", "o1"}, {"t1", "t2", "o1", "o2"}, {"g1", "g2", "g3"}}
=============================================================================
