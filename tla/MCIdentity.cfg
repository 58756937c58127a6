CONSTANTS
    t1 = t1
    t2 = t2
    ann = ann
    bot = bot
    None = None
    Tenants = {t1, t2}
    Subjects = {ann, bot}
    Roles = {"admin", "viewer"}
    Perms = {"read", "write", "approve"}
    PermsOf <- MCPermsOf
    Approvals = {"approve"}
    Requests <- MCRequests
    Assignments <- MCAssignments
    TTL = 1
    FillTime = 1
    MaxKeys = 2
    PrincipalLimit = 1
    TenantLimit = 1
    MaxClock = 3
    MayFail = TRUE
    MaxStarted = 2
SPECIFICATION Spec
INVARIANTS
    AllowedByItsTenant
    LimitHolds
CHECK_DEADLOCK FALSE
