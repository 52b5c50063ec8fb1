------------------------------- MODULE Education -------------------------------
(***************************************************************************)
(* Courses, enrolments and their progress.  An admin creates a course;     *)
(* publishing it is done outside the services.  Requests read before they  *)
(* write and may lose their answer.                                        *)
(***************************************************************************)
EXTENDS Integers, FiniteSets

CONSTANTS
    Courses,
    Enrolments,   \* requests to enrol; the row a request inserts is named after it
    Updates,      \* requests to record progress
    StudentOf, CourseOf,   \* of each request to enrol
    UpdaterOf,    \* of each update
    Amounts       \* what they may report, in thousandths of a percent

Hundred == 100000   \* 100.00 percent

ASSUME EducationAssumption ==
    /\ CourseOf \in [Enrolments -> Courses]
    /\ DOMAIN StudentOf = Enrolments /\ DOMAIN UpdaterOf = Updates
    /\ Amounts \subseteq 0..Hundred

VARIABLES
    learning,     \* the requests of this behaviour, chosen once
    courses,      \* "absent", "created" or "published"
    enrolments,   \* the enrollments rows: progress and completed_at
    step,         \* where each request is
    target        \* the row an update has read

educationVars == <<learning, courses, enrolments, step, target>>

EducationInit ==
    /\ courses = [c \in Courses |-> "absent"] /\ enrolments = [e \in {} |-> {}]
    /\ step = [q \in Enrolments \cup Updates |-> "idle"]
    /\ target = [q \in Updates |-> "none"]

StepsTo(q, s) == step' = [step EXCEPT ![q] = s]
EnrolmentOf(q) ==
    {e \in DOMAIN enrolments : StudentOf[e] = StudentOf[q] /\ CourseOf[e] = CourseOf[q]}

NewCourse == "created"   \* is_published is False

\* create_course_endpoint: one INSERT, then the audit row
CreateCourse(c) ==
    /\ learning # {} /\ courses[c] = "absent"
    /\ courses' = [courses EXCEPT ![c] = NewCourse]
    /\ UNCHANGED <<learning, enrolments, step, target>>

\* By hand, in the database.
PublishCourse(c) ==
    /\ courses[c] = NewCourse
    /\ courses' = [courses EXCEPT ![c] = "published"]
    /\ UNCHANGED <<learning, enrolments, step, target>>

\* enroll_in_course: 404 course_not_found, 409 enrollment_exists
EnrollRead(q) ==
    /\ q \in learning /\ step[q] = "idle"
    /\ StepsTo(q, IF courses[CourseOf[q]] # "published" THEN "not_found"
                  ELSE IF EnrolmentOf(q) # {} THEN "exists" ELSE "insert")
    /\ UNCHANGED <<learning, courses, enrolments, target>>

NewEnrolment == [progress |-> 0, completed |-> FALSE]

\* create_enrollment; the unique key is answered like the read.
CreateEnrollment(q) ==
    /\ step[q] = "insert"
    /\ \/ /\ EnrolmentOf(q) = {}
          /\ enrolments' = [e \in DOMAIN enrolments \cup {q} |->
                               IF e = q THEN NewEnrolment ELSE enrolments[e]]
          /\ StepsTo(q, "answered") \/ StepsTo(q, "failed")
       \/ /\ EnrolmentOf(q) # {} /\ StepsTo(q, "exists") /\ UNCHANGED enrolments
    /\ UNCHANGED <<learning, courses, target>>

\* patch_enrollment: 404 enrollment_not_found, 403 forbidden
PatchRead(q) ==
    /\ q \in learning /\ step[q] = "idle"
    /\ \E e \in DOMAIN enrolments :
          /\ target' = [target EXCEPT ![q] = e]
          /\ StepsTo(q, IF StudentOf[e] = UpdaterOf[q] THEN "update" ELSE "forbidden")
    /\ UNCHANGED <<learning, courses, enrolments>>

\* _normalize_progress: two decimals, half up
Normalize(p) == ((p + 5) \div 10) * 10

\* Mutant: the reported progress is compared, not the stored one.
CompletedByReport(p) == [progress |-> Normalize(p), completed |-> p >= Hundred]

Progress(p) == [progress |-> Normalize(p), completed |-> Normalize(p) >= Hundred]

\* update_enrollment_progress
PatchUpdate(q) ==
    /\ step[q] = "update"
    /\ \E p \in Amounts : enrolments' = [enrolments EXCEPT ![target[q]] = Progress(p)]
    /\ StepsTo(q, "answered") \/ StepsTo(q, "failed")
    /\ UNCHANGED <<learning, courses, target>>

EducationFails(q) ==
    /\ step[q] \in {"insert", "update"} /\ StepsTo(q, "failed")
    /\ UNCHANGED <<learning, courses, enrolments, target>>

Enroll(q) == EnrollRead(q) \/ CreateEnrollment(q)
PatchEnrollment(q) == PatchRead(q) \/ PatchUpdate(q)

EducationNext ==
    \/ \E c \in Courses : CreateCourse(c) \/ PublishCourse(c)
    \/ \E q \in Enrolments : Enroll(q)
    \/ \E q \in Updates : PatchEnrollment(q)
    \/ \E q \in Enrolments \cup Updates : EducationFails(q)
=============================================================================
