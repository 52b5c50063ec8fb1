SPECIFICATION Spec
CONSTANTS
    Settlements = {"t1", "t2"}
    Disbursals = {"o1", "o2"}
    Submissions = {"k1", "k2", "k3"}
    Reviews = {"v1", "v2", "v3", "v4"}
    Requests = {"t1", "t2", "o1", "o2", "k1", "k2", "k3", "v1", "v2", "v3", "v4"}
    Fee = 3
    Disbursed = 2
    Bonus = 1
    Users = {"ana", "bob"}
    NoUser = "nobody"
    Referrer <- Referrals
    UserOf <- Subjects
    Holders = {"ana"}
    YieldReads = {"g1", "g2", "g3"}
    HolderOf <- Visitors
    Rate = 1
    Scale = 2
    TicksPerDay = 2
    MaxNow = 6
    MaxBalance = 2
    Workloads <- SomeRequests
PROPERTY
    YieldStartsAfterUpdate
CHECK_DEADLOCK FALSE
