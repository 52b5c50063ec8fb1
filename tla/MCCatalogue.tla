------------------------------ MODULE MCCatalogue ------------------------------
(* Small instances of Catalogue.                                              *)
EXTENDS Catalogue, TLC

FourRows == <<"r4", "r3", "r2", "r1">>

\* Two students; one of them enrols twice.
Students == "e1" :> "ana" @@ "e2" :> "ana" @@ "e3" :> "bob"
OneCourse == [q \in {"e1", "e2", "e3"} |-> "c"]
Updaters == "p1" :> "ana" @@ "p2" :> "bob"

SomeRequests == {{"e1", "e2", "e3", "p1", "p2"}}
=============================================================================
