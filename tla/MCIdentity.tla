------------------------------ MODULE MCIdentity ------------------------------
(* Small instances of Identity.                                               *)
EXTENDS Identity, TLC

\* An administrator, a seller and a newcomer's email; two public keys.
FirstRoles == [u \in {"ada", "sam"} |-> IF u = "ada" THEN "admin" ELSE "seller"]
Emails ==
    [u \in {"ada", "l1"} |-> "a@x"] @@ [u \in {"sam", "l2"} |-> "s@x"]
        @@ [q \in {"r1", "r2", "l3"} |-> "n@x"] @@ [q \in {"n1", "n2", "n3"} |-> "key"]
Targets == "u1" :> "sam" @@ "u2" :> "ada"
Assigned == [q \in {"u1", "u2"} |-> "user"]

\* One login refreshed and logged out in every order; demotions; registrations and logins of
\* one credential; second factors; and the limiter alone.
SomeRequests ==
    {{"l2", "f1", "f2", "f3"}, {"l2", "f1", "f2", "o1"}, {"l2", "f1", "o1", "o2"},
     {"l1", "l2", "f1", "u1"}, {"l1", "f1", "f2", "u2"}, {"r1", "r2", "l3"}, {"n1", "n2", "n3"},
     {"l2", "e1", "e2", "e3"}, {}}
=============================================================================
