SPECIFICATION Spec
CONSTANTS
    Founders = {"ada", "sam"}
    FounderRole <- FirstRoles
    Registers = {"r1", "r2"}
    Logins = {"l1", "l2", "l3"}
    NostrLogins = {"n1", "n2", "n3"}
    Refreshes = {"f1", "f2", "f3"}
    Logouts = {"o1", "o2"}
    RoleUpdates = {"u1", "u2"}
    Enables = {"e1", "e2", "e3"}
    Credential <- Emails
    TargetOf <- Targets
    NewRoleOf <- Assigned
    NoUser = "nobody"
    NoCredential = "null"
    AccessTTL = 1
    RefreshTTL = 2
    MaxNow = 3
    Clients = {"c1"}
    Paths = {"/orders", "/courses"}
    SensitivePaths = {"/orders"}
    SensitiveLimit = 2
    WriteLimit = 1
    WindowSeconds = 3
    TicksPerSecond = 2
    MaxTick = 10
    Workloads <- SomeRequests
INVARIANTS
    TypeOK
    OneLiveSessionPerLogin
    TakenRolesRunOut
    SameCredentialSameUser
    AnsweredSecretIsInForce
    LimiterIsFair
CHECK_DEADLOCK FALSE
