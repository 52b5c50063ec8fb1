SPECIFICATION Spec
CONSTANTS
    Kinds = {"assets", "orders", "trades", "transactions", "users", "courses"}
    FirstRows <- FourRows
    LaterRows = {"r5"}
    PageLimit = 2
    NoListing = "none"
    Courses = {"c"}
    Enrolments = {"e1", "e2", "e3"}
    Updates = {"p1", "p2"}
    StudentOf <- Students
    CourseOf <- OneCourse
    UpdaterOf <- Updaters
    Amounts = {0, 45500, 99994, 99995, 100000}
    Workloads <- SomeRequests
INVARIANTS
    PagesAreComplete
    EnrolmentsAreTrue
CHECK_DEADLOCK FALSE
