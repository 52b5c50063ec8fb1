------------------------------- MODULE Catalogue -------------------------------
(***************************************************************************)
(* What clients browse: the paged listings, and the courses they enrol in. *)
(***************************************************************************)
EXTENDS Listings, Education

CONSTANT Workloads   \* the sets of requests that may come together

ASSUME WorkloadAssumption == Workloads \subseteq SUBSET (Enrolments \cup Updates)

vars == <<listingVars, educationVars>>

\* A behaviour reads one listing or has some students at work.
Init ==
    /\ \/ kind \in Kinds /\ learning = {}
       \/ kind = NoListing /\ learning \in Workloads
    /\ ListingInit /\ EducationInit

Next ==
    \/ ListingNext /\ UNCHANGED educationVars
    \/ EducationNext /\ UNCHANGED listingVars

Spec == Init /\ [][Next]_vars

-----------------------------------------------------------------------------
(* Properties.                                                             *)

Times(r) == Cardinality({i \in DOMAIN shown : shown[i] = r})

\* Whoever follows next_cursor to its end has seen every row that was listed all along and did
\* not change, whatever was inserted, left, joined or moved meanwhile; and no row twice, unless
\* a trade settled after it was shown.
TraversalIsComplete == cursor = "end" => steady \subseteq ToSet(shown)
NoRowIsRepeated == ~reshuffled => \A r \in ToSet(shown) : Times(r) = 1
PagesAreComplete == TraversalIsComplete /\ NoRowIsRepeated

\* However requests race, a student is enrolled once in a published course; a request that is
\* told enrollment_exists is right about it; and a course is completed if and only if the
\* progress the student is shown is 100 percent.
EnrolmentsAreTrue ==
    /\ \A e \in DOMAIN enrolments : EnrolmentOf(e) = {e} /\ courses[CourseOf[e]] = "published"
    /\ \A q \in Enrolments : step[q] = "exists" => EnrolmentOf(q) # {}
    /\ \A e \in DOMAIN enrolments :
          enrolments[e].completed <=> enrolments[e].progress = Hundred
=============================================================================
